---------------------------- MODULE LogDelivery ----------------------------
(***************************************************************************)
(* What the web honeypot's agent promises about log records, whatever its  *)
(* threads do: a record is forgotten only once the backend has it or by a  *)
(* decision to drop it, and the backend may get a record several times but *)
(* never again after the agent has settled it.                             *)
(***************************************************************************)
CONSTANT Records

VARIABLES
    status,     \* of each record: new, held, acked or dropped
    delivered   \* the records the backend has

Held == {r \in Records : status[r] = "held"}

Init ==
    /\ status = [r \in Records |-> "new"]
    /\ delivered = {}

Settle(R, outcome) ==
    status' = [r \in Records |-> IF r \in R THEN outcome ELSE status[r]]

\* A request produces a record.
Accept(r) ==
    /\ status[r] = "new"
    /\ Settle({r}, "held")
    /\ UNCHANGED delivered

\* A batch reaches the backend; the agent may not learn of it.
Deliver(R) ==
    /\ delivered' = delivered \cup R
    /\ UNCHANGED status

\* The agent learns that a batch has reached the backend.
Acknowledge(R) ==
    /\ R \subseteq delivered
    /\ Settle(R, "acked")
    /\ UNCHANGED delivered

\* The agent gives records up.
Drop(R) ==
    /\ Settle(R, "dropped")
    /\ UNCHANGED delivered

Next ==
    \/ \E r \in Records : Accept(r)
    \/ \E R \in SUBSET Held : Deliver(R) \/ Acknowledge(R) \/ Drop(R)

Spec == Init /\ [][Next]_<<status, delivered>>
=============================================================================
