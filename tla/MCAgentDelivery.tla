--------------------------- MODULE MCAgentDelivery ---------------------------
(* Instances of AgentDelivery for TLC.                                      *)
EXTENDS AgentDelivery, TLC

\* Used in the runs that check no liveness.
Symmetry == Permutations(Handlers) \cup Permutations(Records)
            \cup Permutations(Futures) \cup Permutations(Workers)
=============================================================================
