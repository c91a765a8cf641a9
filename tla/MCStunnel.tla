----------------------------- MODULE MCStunnel -----------------------------
(* Instances of Stunnel for TLC.                                            *)
EXTENDS Stunnel
=============================================================================
