------------------------------- MODULE MCRules -------------------------------
(* Instances of Rules for TLC.                                              *)
EXTENDS Rules

CONSTANTS i1, i2, i3

\* Each version brings a new response and drops that of the version before.
MCReferred == [v \in Versions |-> CASE v = 0 -> {}
                                    [] v = 1 -> {i2}
                                    [] OTHER -> {i3}]

MCPresent == [v \in Versions |-> CASE v = 0 -> {}
                                   [] v = 1 -> {i1, i2}
                                   [] OTHER -> {i1, i3}]
==============================================================================
