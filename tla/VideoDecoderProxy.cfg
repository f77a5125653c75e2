\* Java caller that stops and joins the grabber before close; malloc succeeds.
CONSTANTS
    IntBits <- MCIntBits
    MaxInstances = 3
    MaxFragments = 1
    StatsLens <- MCStatsLens
    MallocMayFail = FALSE
    JoinGrabberBeforeClose = TRUE
    ReuseClosedHandles = FALSE

SPECIFICATION Spec

INVARIANT TypeOK
INVARIANT NoUndefinedBehaviour

PROPERTY StopReleasesGrabber

\* every behaviour ends once MaxInstances sessions have been closed
CHECK_DEADLOCK FALSE
