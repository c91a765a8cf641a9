--------------------------- MODULE AgentDelivery ---------------------------
(***************************************************************************)
(* The pipeline of Agent implements LogDelivery.  A record's status is     *)
(* read off the place the record is in; the locks, the threads and the     *)
(* executor are the implementation's own.                                  *)
(***************************************************************************)
EXTENDS Agent

Status ==
    [r \in Records |->
        IF r \in fresh THEN "new"
        ELSE IF r \in acked THEN "acked"
        ELSE IF r \in purged \cup discarded THEN "dropped"
        ELSE "held"]

Delivery == INSTANCE LogDelivery WITH status <- Status, delivered <- received

\* Every behaviour of the pipeline is one that LogDelivery allows: a record
\* leaves the agent only after the backend had it or by a drop, and is not sent
\* again once it is settled, however the results of callback_result_handler,
\* the purges of add_to_queue and the passes of _submit interleave.
ImplementsDelivery == Delivery!Spec

\* While the honeypot serves, a record that is held is settled in the end if
\* the backend does not refuse for ever: failed batches are taken up again by
\* the next pass, and the timer of _scheduler starts one even when no request
\* comes.
HeldIsSettled ==
    \A r \in Records :
        Status[r] = "held" ~> Status[r] \in {"acked", "dropped"} \/ signals > 0

\* One signal ends the process: shutdown gets submit_lock, its pass over the
\* queue ends, the executor finishes and the timers stop, even when requests
\* and failing batches keep refilling the queue for a time.
ShutdownCompletes == signals > 0 ~> exited

-----------------------------------------------------------------------------
(* What the repository's documents say and the code does not do.           *)

\* shutdown: "Allows interruption via Ctrl+C".  So a second signal would not
\* keep the process from ending.
SecondSignalExits == signals = 2 ~> exited
=============================================================================
