\* malloc(MAX_FRAME_SIZE) in initDecoderInstance may return NULL.
CONSTANTS
    IntBits <- MCIntBits
    MaxInstances = 1
    MaxFragments = 1
    StatsLens <- MCStatsLens
    MallocMayFail = TRUE
    JoinGrabberBeforeClose = TRUE
    ReuseClosedHandles = FALSE

SPECIFICATION Spec

INVARIANT NoUndefinedBehaviour

CHECK_DEADLOCK FALSE
