\* getStats with a Java array of 6 or more slots.
CONSTANTS
    IntBits <- MCIntBits
    MaxInstances = 1
    MaxFragments = 1
    StatsLens <- MCStatsLens
    MallocMayFail = FALSE
    JoinGrabberBeforeClose = TRUE
    ReuseClosedHandles = FALSE

SPECIFICATION Spec

INVARIANT StatsSlotsDefined

CHECK_DEADLOCK FALSE
