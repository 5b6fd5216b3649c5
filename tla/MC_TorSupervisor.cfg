\* One retry (two attempts), three pids: enough for a hanging tor from a
\* previous run, pid reuse by a new child, and two attempts.  Liveness is
\* checked under the fairness of LiveSpec, so no symmetry is used.
CONSTANTS
    p1 = p1
    p2 = p2
    p3 = p3
    Pids <- MCPids
    NoPid = NoPid
    Repeat = 1
SPECIFICATION LiveSpec
INVARIANTS
    TypeOK
    AttemptBound
    AbandonedChildrenSignalled
PROPERTIES
    AbsSpec
    LeftoverTorsReaped
\* The system stops only after an uncaught exception has ended the backend.
CHECK_DEADLOCK FALSE
