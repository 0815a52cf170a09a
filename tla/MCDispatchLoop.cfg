SPECIFICATION LoopSpec
CONSTANTS
    Workers = {w1, w2}
    Requests = {r1, r2, r3, r4}
    Jobs <- MCJobs
    PoolCaps <- MCPoolCaps
    MaxQueue = 4
    NoWorker = NoWorker
SYMMETRY MCSymmetry
CHECK_DEADLOCK FALSE
INVARIANTS
    LoopIsDispatch
