SPECIFICATION HistorySpec
CONSTANTS
    Records = {r1, r2}
    Handlers = {h1, h2}
    Timers = {t1}
    Workers = {w1}
    Futures = {f1, f2}
    MaxSignals = 2
    QueueTriggerSize = 1
    WebLogLimit = 2
    PurgeRate = 2
    BatchSize = 1
    NoOne = NoOne
SYMMETRY Symmetry
INVARIANTS
    FinalSubmission
    DiscardedHadItsChance
    PipelineInv
CHECK_DEADLOCK FALSE
