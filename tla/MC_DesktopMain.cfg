\* Every close path but the updater: the user closes the splash or the
\* main window, the renderer asks for a restart, the backend answers, exits
\* or crashes, and activate re-creates a window.
CONSTANTS
    SplashClosable = TRUE
    UpdateOffered = FALSE
    Restartable = TRUE
    MaxWindows = 2
CONSTRAINT CounterBound
SPECIFICATION Spec
INVARIANTS
    TypeOK
    BackendStoppedOnQuit
PROPERTY ShutdownSpec
\* The app really stops once it has exited.
CHECK_DEADLOCK FALSE
