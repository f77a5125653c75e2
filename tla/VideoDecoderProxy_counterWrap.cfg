\* a 2-bit int (handles -2..1): the third getInstance comes after the
\* counter has passed INT_MAX; the caller joins the grabber before close
CONSTANTS
    IntBits = 2
    MaxInstances = 3
    MaxFragments = 1
    StatsLens <- MCStatsLens
    MallocMayFail = FALSE
    JoinGrabberBeforeClose = TRUE
    ReuseClosedHandles = FALSE

SPECIFICATION Spec

PROPERTY RegistryRefinement

\* every behaviour ends once MaxInstances sessions have been closed
CHECK_DEADLOCK FALSE
