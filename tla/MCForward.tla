------------------------------ MODULE MCForward ------------------------------
(* Forward on small instances. *)
EXTENDS Forward, TLC

CONSTANTS p0, p1

MCPorts == {p0, p1}

\* The ports are alike: no definition of Forward tells one from another.
PortSymmetry == Permutations(MCPorts)
=============================================================================
