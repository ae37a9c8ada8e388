------------------------------ MODULE LossyFifo ------------------------------
(***************************************************************************)
(* What a forwarding lcore of l3fwd promises, without its buffers: every    *)
(* port has a queue of the packets routed to it.  Some of the oldest leave  *)
(* together; the device accepts a first part of them and the others are     *)
(* lost.  Packets with a bad header are lost at any time.                   *)
(***************************************************************************)
EXTENDS Naturals

CONSTANTS Ports, BadPort, MaxArrivals

Packets == 1 .. MaxArrivals

VARIABLES arrived, route, owner

\* The packets held for p, a port or BadPort.
Held(p) == {x \in Packets : owner[x] = "app" /\ route[x] = p}

\* T is made of the oldest packets of S.
Oldest(T, S) ==
  /\ T \subseteq S
  /\ \A x \in T, y \in S : y < x => y \in T

Init ==
  /\ arrived = 0
  /\ route \in [Packets -> Ports \cup {BadPort}]
  /\ owner = [x \in Packets |-> "wire"]

Arrive ==
  /\ arrived' \in arrived .. MaxArrivals
  /\ owner' = [x \in Packets |->
                 IF x \in (arrived + 1) .. arrived' THEN "app" ELSE owner[x]]
  /\ route' \in [Packets -> Ports \cup {BadPort}]
  /\ \A x \in Packets : x \notin (arrived + 1) .. arrived' => route'[x] = route[x]

\* The packets of S leave the queue of p, those of T onto the wire.
Emit(p, S, T) ==
  /\ Oldest(S, Held(p))
  /\ Oldest(T, S)
  /\ owner' = [x \in Packets |->
                 IF x \in T THEN p ELSE IF x \in S THEN "pool" ELSE owner[x]]
  /\ UNCHANGED <<arrived, route>>

Discard(S) ==
  /\ owner' = [x \in Packets |-> IF x \in S THEN "pool" ELSE owner[x]]
  /\ UNCHANGED <<arrived, route>>

Next ==
  \/ Arrive
  \/ \E p \in Ports : \E S \in SUBSET Held(p) : \E T \in SUBSET S : Emit(p, S, T)
  \/ \E S \in SUBSET Held(BadPort) : Discard(S)

Spec == Init /\ [][Next]_<<arrived, route, owner>>
=============================================================================
