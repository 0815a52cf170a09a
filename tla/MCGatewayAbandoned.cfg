SPECIFICATION GwSpec
CONSTANTS
    Workers = {w1}
    Requests = {r1, r2}
    Jobs <- MCOneJob
    PoolCaps <- MCPoolCaps
    MaxQueue = 2
    NoWorker = NoWorker
    Kinds = {"stream"}
    Budget <- MCBudget
    MaxDay = 0
SYMMETRY MCSymmetry
CHECK_DEADLOCK FALSE
INVARIANTS
    AbandonedRunCharged
