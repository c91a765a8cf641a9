SPECIFICATION FairSpec
CONSTANTS
    Pids = {p1, p2}
    MaxTime = 2
    MaxEntries = 1
    MaxCrashes = 1
    CrashPoints <- NotInPid
    maxlines = 1
    Window = 1
    NoFile = NoFile
    Empty = Empty
PROPERTY RunsGoOn
