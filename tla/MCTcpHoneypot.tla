--------------------------- MODULE MCTcpHoneypot ---------------------------
(* An instance of TcpHoneypot for TLC: one port of each kind.               *)
EXTENDS TcpHoneypot

CONSTANTS p1, p2

MCConfigured == [p \in Ports |-> IF p = p1 THEN "ssl" ELSE "ssh"]

MCLoop == [p \in Ports |-> IF p = p1 THEN 2 ELSE 1]
=============================================================================
