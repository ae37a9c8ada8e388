----------------------------- MODULE MCLifecycle -----------------------------
(* Lifecycle on a small instance. *)
EXTENDS Lifecycle, TLC

\* The master polls a queue too, one slave polls two, the other has nothing to do.
MasterPolls == (0 :> 1) @@ (1 :> 2) @@ (2 :> 0)
=============================================================================
