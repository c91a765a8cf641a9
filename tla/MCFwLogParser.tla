--------------------------- MODULE MCFwLogParser ---------------------------
(* Instances of FwLogParser for TLC.                                        *)
EXTENDS FwLogParser

\* A run may be killed anywhere but between creating and writing the pid file.
NotInPid == PCs \ {"idle", "pid"}
=============================================================================
