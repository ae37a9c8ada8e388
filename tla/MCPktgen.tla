------------------------------- MODULE MCPktgen -------------------------------
(* The smallest pool the assumption allows, with room for one duplicate, and*)
(* three lcores: the second of them in detail.                              *)
EXTENDS Generator

CONSTANTS m1, m2, m3

MCMbufs == {m1, m2, m3}

\* Words of two bits: the sum of the IP header carries in both folds.
MCHeaders == {[ip |-> 15, udp |-> 7]}
MCFilePackets == {[ip |-> 1, ipCheck |-> 2, udp |-> u, udpCheck |-> 0] : u \in {0, 3}}
=============================================================================
