\* The user closes the splash window before the main window has loaded.
CONSTANTS
    SplashClosable = TRUE
    UpdateOffered = FALSE
    Restartable = FALSE
    MaxWindows = 2
CONSTRAINT CounterBound
SPECIFICATION LiveSpec
PROPERTY CloseLeadsToQuit
\* The app really stops once it has exited.
CHECK_DEADLOCK FALSE
