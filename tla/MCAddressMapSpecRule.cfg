CONSTANTS
    a1 = a1
    a2 = a2
    NodeNames <- MCNodeNames
    Addrs <- MCAddrs
    MaxConfLines = 2
    MaxPods = 3
SPECIFICATION
    Spec
CHECK_DEADLOCK
    FALSE
INVARIANT
    FailedMapIsEmpty
