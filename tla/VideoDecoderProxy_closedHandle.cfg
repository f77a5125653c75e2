\* A joining Java caller that keeps using a handle after close.
CONSTANTS
    IntBits <- MCIntBits
    MaxInstances = 1
    MaxFragments = 1
    StatsLens <- MCStatsLens
    MallocMayFail = FALSE
    JoinGrabberBeforeClose = TRUE
    ReuseClosedHandles = TRUE

SPECIFICATION Spec

INVARIANT NoUndefinedBehaviour

CHECK_DEADLOCK FALSE
