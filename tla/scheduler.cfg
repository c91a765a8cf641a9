SPECIFICATION FairSpec
CONSTANTS
    Timers = {t1, t2, t3, t4}
    MaxRetries = 1
    Main = Main
    NoTimer = NoTimer
INVARIANTS
    AlwaysScheduled
PROPERTIES
    KeepsRunning
    ShutdownEndsTimers
