--------------------------- MODULE MCAgentHistory ---------------------------
(* Instances of AgentHistory for TLC.                                      *)
EXTENDS AgentHistory, TLC

Symmetry == Permutations(Handlers) \cup Permutations(Records)
            \cup Permutations(Futures) \cup Permutations(Workers)
=============================================================================
