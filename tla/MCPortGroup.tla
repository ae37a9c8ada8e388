----------------------------- MODULE MCPortGroup -----------------------------
(* PortGroup on small instances. *)
EXTENDS PortGroup, TLC

CONSTANTS p0, p1

MCPorts == {p0, p1}
PortSymmetry == Permutations(MCPorts)
=============================================================================
