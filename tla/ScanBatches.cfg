SPECIFICATION FairSpec
CONSTANTS
    Threads = {t1, t2, t3}
    Workers = {w1, w2}
    NoThread = NoThread
    Tuples = 3
    QueueSize = 2
    BatchSize = 2
    NumBatches = 2
CHECK_DEADLOCK FALSE
INVARIANTS
    TypeOK
    ReaderAlive
    ScanIsComplete
PROPERTIES
    ScanTerminates
    KeepsPromise
