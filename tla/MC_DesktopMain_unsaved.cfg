\* The user closes the main window, and may click close twice.
CONSTANTS
    SplashClosable = FALSE
    UpdateOffered = FALSE
    Restartable = FALSE
    MaxWindows = 2
CONSTRAINT CounterBound
SPECIFICATION Spec
INVARIANT StateSavedOnQuit
\* The app really stops once it has exited.
CHECK_DEADLOCK FALSE
