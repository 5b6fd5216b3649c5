\* Serialized calls (spec 5), each answered by the daemon:
\* three calls are enough for create, overwrite and destroy of one port.
CONSTANTS
    c1 = c1
    c2 = c2
    c3 = c3
    v1 = v1
    v2 = v2
    k1 = k1
    n1 = n1
    n2 = n2
    Calls <- MCCalls
    Ports <- MCPorts
    Keys <- MCKeys
    FreshSids <- MCFreshSids
    None = None
SYMMETRY MCSymmetry
SPECIFICATION Spec
INVARIANTS
    TypeOK
    CachedAddressesAreServices
PROPERTY CallsSpec
\* The calls are finite: the system stops when all are done.
CHECK_DEADLOCK FALSE
