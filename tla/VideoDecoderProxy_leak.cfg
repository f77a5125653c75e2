\* a single session: open and getStats.
CONSTANTS
    IntBits <- MCIntBits
    MaxInstances = 1
    MaxFragments = 1
    StatsLens <- MCStatsLens
    MallocMayFail = FALSE
    JoinGrabberBeforeClose = TRUE
    ReuseClosedHandles = FALSE

SPECIFICATION Spec

INVARIANT NoNativeLeak

CHECK_DEADLOCK FALSE
