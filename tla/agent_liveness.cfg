SPECIFICATION FairSpec
CONSTANTS
    Records = {r1, r2}
    Handlers = {h1}
    Timers = {t1}
    Workers = {w1, w2}
    Futures = {f1, f2}
    MaxSignals = 1
    QueueTriggerSize = 1
    WebLogLimit = 2
    PurgeRate = 2
    BatchSize = 1
    NoOne = NoOne
PROPERTIES
    HeldIsSettled
    ShutdownCompletes
