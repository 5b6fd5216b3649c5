\* The stale-pid callback against the daemons of this run.
CONSTANTS
    p1 = p1
    p2 = p2
    p3 = p3
    Pids <- MCPids
    NoPid = NoPid
    Repeat = 1
SYMMETRY MCSymmetry
SPECIFICATION Spec
INVARIANT NoUncaughtException
CHECK_DEADLOCK FALSE
