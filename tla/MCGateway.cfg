SPECIFICATION GwSpec
CONSTANTS
    Workers = {w1}
    Requests = {r1, r2, r3}
    Jobs <- MCJobs
    PoolCaps <- MCPoolCaps
    MaxQueue = 1
    NoWorker = NoWorker
    Kinds = {"engine", "stream"}
    Budget <- MCBudget
    MaxDay = 0
SYMMETRY MCSymmetry
CHECK_DEADLOCK FALSE
INVARIANTS
    GwTypeOK
    OneCallPerWorker
    ChargedOnce
    EngineKeepsNothing
