SPECIFICATION HistorySpec
CONSTANTS
    Pids = {p1, p2}
    MaxTime = 2
    MaxEntries = 2
    MaxCrashes = 1
    CrashPoints <- Anywhere
    maxlines = 1
    Window = 2
    NoFile = NoFile
    Empty = Empty
SYMMETRY Symmetry
INVARIANTS
    TypeOK
    NoneSkipped
    SentOnce
