SPECIFICATION GwFairSpec
CONSTANTS
    Workers = {w1}
    Requests = {r1, r2}
    Jobs <- MCOneJob
    PoolCaps <- MCPoolCaps
    MaxQueue = 2
    NoWorker = NoWorker
    Kinds = {"engine", "stream", "pass"}
    Budget <- MCBudget
    MaxDay = 1
CHECK_DEADLOCK FALSE
INVARIANTS
    NewPeriodNewBudget
PROPERTIES
    EveryCallEnds
    ImplementsMetering
