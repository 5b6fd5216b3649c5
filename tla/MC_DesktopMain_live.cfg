\* The user closes the main window once it is shown, or accepts an update,
\* or restarts; the main process, the renderer and the backend answer.
CONSTANTS
    SplashClosable = FALSE
    UpdateOffered = TRUE
    Restartable = TRUE
    MaxWindows = 2
CONSTRAINT CounterBound
SPECIFICATION LiveSpec
PROPERTY CloseLeadsToQuit
\* The app really stops once it has exited.
CHECK_DEADLOCK FALSE
