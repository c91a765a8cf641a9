--------------------------- MODULE MCFwLogHistory ---------------------------
(* Instances of FwLogHistory for TLC.                                       *)
EXTENDS FwLogHistory, TLC

\* A run may be killed anywhere.
Anywhere == PCs \ {"idle"}

Symmetry == Permutations(Pids)
=============================================================================
