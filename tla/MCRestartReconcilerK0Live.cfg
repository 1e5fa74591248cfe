CONSTANTS
    p1 = p1
    p2 = p2
    p3 = p3
    NoPod = NoPod
    Pods <- MCPods
    InstalledPods <- MCInstalledPods
    DBPods <- MCDBPods
    Primaries <- MCPrimaries
    KSafety0 = TRUE
    ScheduleOnly = FALSE
    RestartReadOnly = TRUE
    ReIPForce = TRUE
    LivenessProbeSet = TRUE
    MaxIPGen = 1
    MaxFaults = 2
SPECIFICATION FairSpec
INVARIANT
    KSafety0StartsWholeDatabase
PROPERTY
    Convergence
