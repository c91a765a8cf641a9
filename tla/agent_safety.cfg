SPECIFICATION Spec
CONSTANTS
    Records = {r1, r2, r3}
    Handlers = {h1, h2}
    Timers = {t1}
    Workers = {w1, w2}
    Futures = {f1, f2, f3}
    MaxSignals = 1
    QueueTriggerSize = 1
    WebLogLimit = 2
    PurgeRate = 2
    BatchSize = 2
    NoOne = NoOne
SYMMETRY Symmetry
INVARIANTS
    TypeOK
    NothingLost
    NothingDuplicated
    AckedWasReceived
    ExitDrained
PROPERTY ImplementsDelivery
