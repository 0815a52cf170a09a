SPECIFICATION FairSpec
CONSTANTS
    Workers = {w1, w2}
    Requests = {r1, r2, r3}
    Jobs <- MCFewJobs
    PoolCaps <- MCPoolCaps
    MaxQueue = 2
    NoWorker = NoWorker
CHECK_DEADLOCK FALSE
PROPERTIES
    NoLostWakeup
    DrainTerminates
    ImplementsSlots
