SPECIFICATION FairSpec
CONSTANTS
    Records = {r1}
    Handlers = {h1}
    Timers = {t1}
    Workers = {w1}
    Futures = {f1}
    MaxSignals = 2
    QueueTriggerSize = 1
    WebLogLimit = 2
    PurgeRate = 2
    BatchSize = 1
    NoOne = NoOne
PROPERTY SecondSignalExits
CHECK_DEADLOCK FALSE
