\* kill() on a child that has already closed.
CONSTANTS
    p1 = p1
    p2 = p2
    p3 = p3
    Pids <- MCPids
    NoPid = NoPid
    Repeat = 1
SPECIFICATION LiveSpec
PROPERTY
    KillSettles
CHECK_DEADLOCK FALSE
