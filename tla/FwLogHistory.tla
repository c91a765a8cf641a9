---------------------------- MODULE FwLogHistory ----------------------------
(***************************************************************************)
(* FwLogParser with history variables, to say which lines of the log the   *)
(* runs leave out and which ones the backend gets twice.                   *)
(***************************************************************************)
EXTENDS FwLogParser

VARIABLES
    counted,    \* lines that some run has counted
    posted,     \* lines that the backend has got
    twice,      \* lines that the backend has got more than once
    overlapped, \* two runs have held the pid file at a time
    torn        \* a run was killed between emptying and writing lastcount

history == <<counted, posted, twice, overlapped, torn>>

\* if (j % skip) == 0: logs.append(data)
Logs(p) ==
    {i \in run[p].lines : Cardinality(UpTo(run[p].lines, i)) % run[p].skip = 0}

\* The runs whose post ends in this step, in whichever way.
Posting == {p \in Pids : pc[p] = "post" /\ pc'[p] # "post"}

HistoryInit ==
    /\ Init
    /\ counted = {} /\ posted = {} /\ twice = {}
    /\ overlapped = FALSE /\ torn = FALSE

\* The backend gets what is posted or does not.
HistoryNext ==
    /\ Next
    /\ counted' = counted \cup UNION {run'[p].lines : p \in Pids}
    /\ \E S \in {{}, UNION {Logs(p) : p \in Posting}} :
          posted' = posted \cup S /\ twice' = twice \cup (posted \cap S)
    /\ overlapped' = (overlapped \/ Cardinality({p \in Pids : pc'[p] \in Inside}) > 1)
    /\ torn' = (torn \/ \E p \in Pids : pc[p] = "save" /\ pc'[p] = "idle")

HistorySpec == HistoryInit /\ [][HistoryNext]_<<vars, history>>

\* The saved date never runs past a line of the current log file that no run has
\* counted: also when runs overlap, stop at maxlines, fail or are killed.  It does
\* pass three kinds of lines, which are lost: those of the same second as one that
\* was counted, those older than Window, and those that a run left behind at
\* maxlines and logrotate then moved away.
NoneSkipped ==
    \A i \in first..Len(logged) :
        logged[i] <= lastcount =>
            \/ \E k \in counted : logged[k] = logged[i]
            \/ logged[i] <= now - Window

\* The date is saved before the post: a run that is killed or whose post fails
\* does not make the next one send the same lines again.  Only runs that overlap
\* or a date that was lost half-written do.
SentOnce == twice # {} => overlapped \/ torn
=============================================================================
