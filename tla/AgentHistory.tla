---------------------------- MODULE AgentHistory ----------------------------
(***************************************************************************)
(* Agent with two history variables, to say what the final submission of   *)
(* shutdown owes to the records that arrived before the first signal.      *)
(***************************************************************************)
EXTENDS AgentDelivery

VARIABLES
    attempted,  \* records given to the executor at least once
    late        \* records that arrived after the first signal

HistoryInit == Init /\ attempted = {} /\ late = {}

HistoryNext ==
    /\ Next
    /\ attempted' = attempted \cup InFlight'
    /\ late' = IF signals > 0 THEN late \cup (fresh \ fresh') ELSE late

HistorySpec == HistoryInit /\ [][HistoryNext]_<<vars, attempted, late>>

\* shutdown "attempts a final submission of any remaining items in the queue":
\* when the process ends, a record that arrived before the first signal has
\* been given to the executor at least once or was purged, also if a second
\* signal interrupted the first shutdown.
FinalSubmission ==
    exited => Records \ (fresh \cup purged \cup late) \subseteq attempted

\* Only a record that arrived after the signal, or one that had its attempt,
\* is discarded by a submission that the closed executor refuses.
DiscardedHadItsChance == discarded \subseteq late \cup attempted
=============================================================================
