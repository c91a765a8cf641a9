---------------------------- MODULE FwLogParser ----------------------------
(***************************************************************************)
(* The firewall log parser (srv/dshield/fwlogparser.py): a script that     *)
(* cron starts twice an hour and logrotate before a rotation.  A run takes *)
(* a pid file, reads the log from the last date on that an earlier run     *)
(* left in a file, saves the new last date and posts what it has read.     *)
(*                                                                         *)
(* A step is an access to a file that other runs use, or the post.  A date *)
(* file that is absent or empty reads as 0, a skip file as 1, so that they *)
(* have these values; the skip file, which only thins out what is posted,  *)
(* goes with the date file.  The firewall's clock does not go back.        *)
(***************************************************************************)
EXTENDS Integers, Sequences, FiniteSets, FiniteSetsExt

CONSTANTS
    Pids,           \* bound: process ids that runs of the parser have
    MaxTime,        \* bound: seconds on the clock
    MaxEntries,     \* bound: lines that the firewall logs
    MaxCrashes,     \* bound: runs that are killed
    CrashPoints,    \* where a run may be killed
    maxlines,       \* lines that a run takes at most, 100000 in the code
    Window,         \* seconds that a run looks back at most, 86400 in the code
    NoFile,
    Empty

ASSUME ParserAssumption ==
    /\ IsFiniteSet(Pids)
    /\ MaxTime \in Nat \ {0}
    /\ MaxEntries \in Nat
    /\ MaxCrashes \in Nat
    /\ maxlines \in Nat \ {0}
    /\ Window \in Nat
    /\ Empty \notin Pids

VARIABLES
    now,            \* time()
    logged,         \* the times of all lines that the firewall has logged
    first,          \* the first of them that is in the current log file
    pidfile,        \* its inode and its content, or NoFile
    lastcount,      \* the date in the file of that name
    skipvalue,      \* the number in the file of that name
    pc,             \* where the run with a pid is
    run,            \* its local variables
    rotating,       \* logrotate's run has succeeded, and the log is rotated next
    crashes         \* runs killed so far

files   == <<pidfile, lastcount, skipvalue>>
outside == <<now, logged, first, rotating>>
vars    == <<now, logged, first, pidfile, lastcount, skipvalue, pc, run, rotating,
             crashes>>

PCs == {"idle", "lock", "check", "remove", "create", "pid", "last",
        "read", "empty", "save", "post", "unlock"}

\* The steps of a run that has taken the pid file.
Inside == PCs \ {"idle", "lock", "check", "remove", "create"}

Lines == 1..MaxEntries

NoRun == [startdate |-> 0, skip |-> 1, lines |-> {}, inode |-> NoFile]

At(p, label) == pc[p] = label

Goto(p, label) == pc' = [pc EXCEPT ![p] = label]

\* The script ends, by a return, an exit or an exception.
End(p) ==
    /\ Goto(p, "idle")
    /\ run' = [run EXCEPT ![p] = NoRun]

Init ==
    /\ now = 1
    /\ logged = <<>>
    /\ first = 1
    /\ pidfile = NoFile
    /\ lastcount = 0
    /\ skipvalue = 1
    /\ pc = [p \in Pids |-> "idle"]
    /\ run = [p \in Pids |-> NoRun]
    /\ rotating = FALSE
    /\ crashes = 0

-----------------------------------------------------------------------------
(* Outside the script.                                                     *)

Tick ==
    /\ now < MaxTime
    /\ now' = now + 1
    /\ UNCHANGED <<logged, first, files, pc, run, rotating, crashes>>

\* The firewall logs a packet.
LogPacket ==
    /\ Len(logged) < MaxEntries
    /\ logged' = Append(logged, now)
    /\ UNCHANGED <<now, first, files, pc, run, rotating, crashes>>

\* logrotate moves the log away, some time after its run of the parser.
Rotate ==
    /\ rotating
    /\ rotating' = FALSE
    /\ first' = Len(logged) + 1
    /\ UNCHANGED <<now, logged, files, pc, run, crashes>>

\* A run is killed, by a reset or for want of memory.
Crash(p) ==
    /\ crashes < MaxCrashes
    /\ pc[p] \in CrashPoints
    /\ crashes' = crashes + 1
    /\ End(p)
    /\ UNCHANGED <<outside, files>>

-----------------------------------------------------------------------------
(* The pid file.                                                           *)

\* With an empty log, a run exits at once.
StartEmpty == first > Len(logged) /\ UNCHANGED vars

\* A run starts.  The kernel hands out pids
\* in turn: a new run's is not the one that a run has left in the pid file.
Start(p) ==
    /\ At(p, "idle")
    /\ first <= Len(logged)
    /\ pidfile # NoFile => pidfile.content # p
    /\ Goto(p, "lock")
    /\ UNCHANGED <<outside, files, run, crashes>>

\* os.path.isfile(pidfile)
TestLock(p) ==
    /\ At(p, "lock")
    /\ Goto(p, IF pidfile = NoFile THEN "create" ELSE "check")
    /\ UNCHANGED <<outside, files, run, crashes>>

\* Mutant: the pid file alone keeps a run from starting.
CheckLock_AnyPid(p) ==
    /\ At(p, "check")
    /\ End(p)
    /\ UNCHANGED <<outside, files, crashes>>

\* checklock: open raises if the file has gone, int('') raises, and the pid of a
\* process ends the run.
CheckLock(p) ==
    /\ At(p, "check")
    /\ IF \/ pidfile = NoFile
          \/ pidfile.content = Empty
          \/ pc[pidfile.content] # "idle"
       THEN End(p)
       ELSE Goto(p, "remove") /\ UNCHANGED run
    /\ UNCHANGED <<outside, files, crashes>>

\* os.remove(lockfile): whichever file has that name by now.
RemoveStale(p) ==
    /\ At(p, "remove")
    /\ IF pidfile = NoFile THEN End(p)
                           ELSE Goto(p, "create") /\ UNCHANGED run
    /\ pidfile' = NoFile
    /\ UNCHANGED <<outside, lastcount, skipvalue, crashes>>

\* open(pidfile, 'w')
CreateLock(p) ==
    /\ At(p, "create")
    /\ \E i \in Pids :
          /\ IF pidfile = NoFile THEN \A q \in Pids : run[q].inode # i
                                 ELSE i = pidfile.inode
          /\ pidfile' = [inode |-> i, content |-> Empty]
          /\ run' = [run EXCEPT ![p].inode = i]
    /\ Goto(p, "pid")
    /\ UNCHANGED <<outside, lastcount, skipvalue, crashes>>

\* f.write and f.close; the file may have lost its name meanwhile.
WritePid(p) ==
    /\ At(p, "pid")
    /\ pidfile' = IF pidfile # NoFile /\ pidfile.inode = run[p].inode
                  THEN [pidfile EXCEPT !.content = p] ELSE pidfile
    /\ run' = [run EXCEPT ![p].inode = NoFile]
    /\ Goto(p, "last")
    /\ UNCHANGED <<outside, lastcount, skipvalue, crashes>>

\* os.remove(pidfile), and the script ends; logrotate may have waited for it.
Unlock(p) ==
    /\ At(p, "unlock")
    /\ pidfile' = NoFile
    /\ rotating' \in {rotating, pidfile # NoFile}
    /\ End(p)
    /\ UNCHANGED <<now, logged, first, lastcount, skipvalue, crashes>>

-----------------------------------------------------------------------------
(* Reading, saving and posting.                                            *)

\* The last date, but no more than Window seconds ago, and the skip value.
ReadLast(p) ==
    /\ At(p, "last")
    /\ run' = [run EXCEPT ![p].startdate =
                              IF lastcount < now - Window THEN now - Window ELSE lastcount,
                          ![p].skip = skipvalue]
    /\ Goto(p, "read")
    /\ UNCHANGED <<outside, files, crashes>>

\* The lines of a set up to one of them.
UpTo(S, i) == {k \in S : k <= i}

\* The lines that the loop counts: those after the start date, while j < maxlines.
Counted(p) ==
    LET later == {i \in first..Len(logged) : logged[i] > run[p].startdate}
    IN  {i \in later : Cardinality(UpTo(later, i)) <= maxlines}

\* The loop over the log, whose last line is the last one logged so far.
ReadLog(p) ==
    /\ At(p, "read")
    /\ run' = [run EXCEPT ![p].lines = Counted(p)]
    /\ Goto(p, "empty")
    /\ UNCHANGED <<outside, files, crashes>>

\* The first line is of no known format, or the log has been moved away.
ReadFails(p) ==
    /\ At(p, "read")
    /\ End(p)
    /\ UNCHANGED <<outside, files, crashes>>

\* open(lastcount, 'w')
EmptyLast(p) ==
    /\ At(p, "empty")
    /\ lastcount' = 0
    /\ Goto(p, "save")
    /\ UNCHANGED <<outside, pidfile, skipvalue, run, crashes>>

\* Mutant: the skip value starts at zero.
Skip_FromZero(p) == IF Cardinality(run[p].lines) < maxlines THEN 0 ELSE run[p].skip

\* A full run makes the next one skip more lines.  A value above maxlines skips
\* all of them, so that it need not grow any more.
Skip(p) ==
    IF Cardinality(run[p].lines) < maxlines THEN 1
    ELSE IF run[p].skip <= maxlines THEN run[p].skip + 1
    ELSE run[p].skip

\* Mutant: the date of the log's last line is saved, also when the run has stopped
\* at maxlines before it.
SaveLast_LastLogged(p) ==
    /\ At(p, "save")
    /\ lastcount' = IF run[p].lines = {} THEN run[p].startdate
                                         ELSE logged[Len(logged)]
    /\ skipvalue' = Skip(p)
    /\ Goto(p, "post")
    /\ UNCHANGED <<outside, pidfile, run, crashes>>

\* Mutant: without new lines nothing is written.
SaveLast_OnlyNew(p) ==
    /\ At(p, "save")
    /\ lastcount' = IF run[p].lines = {} THEN lastcount
                                         ELSE logged[Max(run[p].lines)]
    /\ skipvalue' = Skip(p)
    /\ Goto(p, "post")
    /\ UNCHANGED <<outside, pidfile, run, crashes>>

\* The date of the last line, or the start date again, and the skip value.
SaveLast(p) ==
    /\ At(p, "save")
    /\ lastcount' = IF run[p].lines = {} THEN run[p].startdate
                                         ELSE logged[Max(run[p].lines)]
    /\ skipvalue' = Skip(p)
    /\ Goto(p, "post")
    /\ UNCHANGED <<outside, pidfile, run, crashes>>

\* d.post: without an exception the run goes on, whatever the status.
Post(p) ==
    /\ At(p, "post")
    /\ Goto(p, "unlock")
    /\ UNCHANGED <<outside, files, run, crashes>>

\* requests.post raises; nothing is posted without new lines.
PostFails(p) ==
    /\ At(p, "post")
    /\ run[p].lines # {}
    /\ End(p)
    /\ UNCHANGED <<outside, files, crashes>>

-----------------------------------------------------------------------------

Step(p) ==
    \/ TestLock(p) \/ CheckLock(p) \/ RemoveStale(p) \/ CreateLock(p)
    \/ WritePid(p) \/ ReadLast(p) \/ ReadLog(p) \/ ReadFails(p)
    \/ EmptyLast(p) \/ SaveLast(p) \/ Post(p) \/ PostFails(p)
    \/ Unlock(p)

Next ==
    \/ Tick \/ LogPacket \/ Rotate \/ StartEmpty
    \/ \E p \in Pids : Start(p) \/ Crash(p) \/ Step(p)

Spec == Init /\ [][Next]_vars

\* cron goes on starting runs and does not always give them the same pid, runs
\* that are not killed go on, and log and backend do not fail for ever.
Fairness ==
    \A p \in Pids :
        /\ SF_vars(Start(p))
        /\ WF_vars(Step(p))
        /\ SF_vars(ReadLog(p))
        /\ SF_vars(Post(p))

FairSpec == Spec /\ Fairness

-----------------------------------------------------------------------------
(* Properties.                                                             *)

\* Every variable has the type that its comment gives it.
TypeOK ==
    /\ now \in 1..MaxTime
    /\ logged \in Seq(1..MaxTime) /\ Len(logged) <= MaxEntries
    /\ first \in 1..MaxEntries + 1
    /\ \/ pidfile = NoFile
       \/ pidfile \in [inode : Pids, content : Pids \cup {Empty}]
    /\ lastcount \in Int
    /\ skipvalue \in 1..maxlines + 1
    /\ pc \in [Pids -> PCs]
    /\ run \in [Pids -> [startdate : Int, skip : 1..maxlines + 1, lines : SUBSET Lines,
                         inode : Pids \cup {NoFile}]]
    /\ rotating \in BOOLEAN
    /\ crashes \in 0..MaxCrashes

\* A run that failed or was killed does not keep later ones from their work:
\* they find its pid file and remove it.
RunsGoOn ==
    first <= Len(logged) ~>
        first > Len(logged) \/ \E p \in Pids : pc[p] = "unlock"

=============================================================================
