SPECIFICATION FairSpec
CONSTANTS
    Procs = {p1, p2, p3}
    MaxSignals = 2
    Starter = Starter
    Watchdog = Watchdog
    NoProc = NoProc
INVARIANTS
    TypeOK
    AtMostOneRuns
    StopsWhatItKnew
PROPERTIES
    ComesBack
    ServingEnds
