------------------------------ MODULE MCReflect ------------------------------
(* Two lcores or two ports, two mbufs, room in the pool for one duplicate.  *)
EXTENDS Reflect

CONSTANTS m1, m2

MCMbufs == {m1, m2}
=============================================================================
