CONSTANTS
    n1 = n1
    n2 = n2
    VNodes <- MCVNodes
    MaxLines = 4
SPECIFICATION
    Spec
CHECK_DEADLOCK
    FALSE
INVARIANT
    ListingDecidesDownPods
