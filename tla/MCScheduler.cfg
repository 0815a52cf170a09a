SPECIFICATION Spec
CONSTANTS
    Workers = {w1, w2}
    Requests = {r1, r2, r3, r4}
    Jobs <- MCJobs
    PoolCaps <- MCPoolCaps
    MaxQueue = 2
    NoWorker = NoWorker
SYMMETRY MCSymmetry
CHECK_DEADLOCK FALSE
INVARIANTS
    TypeOK
    WorkerExclusive
    AccountingExact
    PoolCapRespected
    ConcurrencyRespected
    NoIdleWorker
    HeapExact
    DrainExact
PROPERTIES
    NoOvertaking
    DrainAdmitsNothing
