CONSTANTS
    MaxSubclusters = 2
    MaxSize = 3
    LegacyNames = {1, 2, 3, 4}
SPECIFICATION Spec
CHECK_DEADLOCK FALSE
INVARIANT
    HostsFollowLegacyNames
