\* Java caller that stops and joins both threads before close; malloc succeeds.
CONSTANTS
    IntBits = 3
    MaxInstances = 2
    MaxFragments = 1
    MaxPackets = 1
    StatsLens <- MCStatsLens
    MallocMayFail = FALSE
    JoinThreadsBeforeClose = TRUE

SPECIFICATION Spec

INVARIANT TypeOK
INVARIANT NoUndefinedBehaviour
INVARIANT NoDanglingReference
PROPERTY StopReleasesThreads

\* every behaviour ends once MaxInstances sessions have been closed
CHECK_DEADLOCK FALSE
