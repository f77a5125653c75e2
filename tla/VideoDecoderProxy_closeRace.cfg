\* close while a getFrame is blocked in GrabChunk: the Java caller calls close without joining the grabber.
CONSTANTS
    IntBits <- MCIntBits
    MaxInstances = 1
    MaxFragments = 1
    StatsLens <- MCStatsLens
    MallocMayFail = FALSE
    JoinGrabberBeforeClose = FALSE
    ReuseClosedHandles = FALSE

SPECIFICATION Spec

INVARIANT NoUndefinedBehaviour

CHECK_DEADLOCK FALSE
