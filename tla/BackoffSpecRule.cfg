CONSTANTS
    Periods = {1, 2, 5, 10, 30, 60, 3600, 65536, 33554435, 2147483647}
    Thresholds = {1, 3, 4, 10, 30, 100, 1000, 32768, 65536, 2147483647}
SPECIFICATION
    Spec
INVARIANT
    RequeueIsQuarterOfProbeWindow
