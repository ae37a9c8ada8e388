-------------------------------- MODULE Routes --------------------------------
(***************************************************************************)
(* How the lookup tables are filled, once per socket that has lcores:       *)
(* setup_hash (l3fwd_em.c) with few or many flows of one family, setup_lpm  *)
(* (l3fwd_lpm.c) with the rules of both families.  The hash tables are per  *)
(* socket, the array from the place of a key to its port is shared by all   *)
(* of them: that a lookup on any socket finds the port of its flow rests on *)
(* every table having been filled in the same order.                        *)
(*                                                                          *)
(* rte_hash and rte_lpm are external.  A new key gets the first unused      *)
(* place, an old one keeps its own; any call may fail and end in rte_exit.  *)
(***************************************************************************)
EXTENDS Naturals, FiniteSets

CONSTANTS
  Sockets,         \* the sockets with lcores
  Masks,           \* the sets of ports an operator may enable
  Entries,         \* the values of hash_entry_number
  HashDefault,     \* HASH_ENTRY_NUMBER_DEFAULT
  HashEntries,     \* L3FWD_HASH_ENTRIES
  EmRoutes,        \* the length of ipv4_l3fwd_em_route_array and its ipv6 twin
  LpmRoutes,       \* the length of ipv4_l3fwd_lpm_route_array and its ipv6 twin
  ByteValueMax     \* BYTE_VALUE_MAX

ASSUME RoutesAssumption ==
  /\ IsFiniteSet(Sockets) /\ Sockets # {}
  /\ Masks \subseteq SUBSET Nat
  /\ Entries \subseteq 1 .. HashEntries
  /\ HashEntries \in Nat
  /\ ByteValueMax \in Nat \ {0}
  /\ HashEntries <= 2 * ByteValueMax * ByteValueMax * ByteValueMax
  /\ HashDefault \in Entries
  /\ EmRoutes \in 2 .. HashEntries
  /\ LpmRoutes \in Nat

VARIABLES
  lpmOn,     \* l3fwd_lpm_on
  ipv6,      \* the family of the exact-match flows is IPv6
  entries,   \* hash_entry_number
  enabled,   \* enabled_port_mask
  pc,        \* where main is; "poll" once the tables are ready
  todo,      \* the sockets without tables
  socket,    \* the socket whose tables are being filled
  family,    \* the family whose table is being filled
  i,         \* the flow or rule to add next
  hash,      \* the places of the keys in ip*_l3fwd_em_lookup_struct[socket]
  outIf,     \* ip*_l3fwd_out_if
  lpm        \* the rules in ip*_l3fwd_lpm_lookup_struct[socket]

options == <<lpmOn, ipv6, entries, enabled>>
tables == <<hash, outIf, lpm>>
setupVars == <<options, tables, pc, todo, socket, family, i>>

Family == {"ipv4", "ipv6"}
Places == 0 .. (HashEntries - 1)

\* A key is what the masks leave of a header: the protocol, and a destination
\* that names the route it is taken from and counts the flow in three bytes.
Proto(f) == IF f = "ipv4" THEN "udp" ELSE "tcp"

\* Mutant of Key: the address of one route is used for all of them.
KeyOneRoute(f, route, n) ==
  <<Proto(f), 0, (n \div (ByteValueMax * ByteValueMax)) % ByteValueMax,
    (n \div ByteValueMax) % ByteValueMax, n % ByteValueMax>>

Key(f, route, n) ==
  <<Proto(f), route, (n \div (ByteValueMax * ByteValueMax)) % ByteValueMax,
    (n \div ByteValueMax) % ByteValueMax, n % ByteValueMax>>

\* The route array itself, or NUMBER_PORT_USED = 2 routes taken in turn.
Few == entries = HashDefault
Flows == IF Few THEN EmRoutes ELSE entries
RouteOf(n) == IF Few THEN n ELSE n % 2
FlowKey(f, n) == Key(f, RouteOf(n), IF Few THEN 0 ELSE n \div 2)
FlowOut(n) == RouteOf(n)

-----------------------------------------------------------------------------
\* parse_args resets what belongs to exact match when LPM is chosen.
SetupInit ==
  /\ lpmOn \in BOOLEAN
  /\ ipv6 \in BOOLEAN
  /\ entries \in Entries
  /\ lpmOn => ~ipv6 /\ entries = HashDefault
  /\ enabled \in Masks
  /\ pc = "setup"
  /\ todo = Sockets
  /\ socket = CHOOSE s \in Sockets : TRUE
  /\ family = "ipv4"
  /\ i = 0
  /\ hash = [s \in Sockets |-> [f \in Family |-> <<>>]]
  /\ outIf = [f \in Family |-> [p \in Places |-> 0]]
  /\ lpm = [s \in Sockets |-> [f \in Family |-> {}]]

StartSocket(s) ==
  /\ pc = "setup"
  /\ s \in todo
  /\ todo' = todo \ {s}
  /\ socket' = s
  /\ family' = IF ipv6 THEN "ipv6" ELSE "ipv4"
  /\ i' = 0
  /\ pc' = IF lpmOn THEN "lpm" ELSE "hash"
  /\ UNCHANGED <<options, tables>>

\* rte_hash_add_key on the keys of a table: the keys with the new one.
Added(places, key) ==
  IF key \in DOMAIN places THEN places
  ELSE [k \in DOMAIN places \cup {key} |->
          IF k = key THEN Cardinality(DOMAIN places) ELSE places[k]]

AddFlow ==
  LET key == FlowKey(family, i)
      places == Added(hash[socket][family], key)
  IN /\ pc = "hash"
     /\ i < Flows
     /\ places[key] \in Places
     /\ hash' = [hash EXCEPT ![socket][family] = places]
     /\ outIf' = [outIf EXCEPT ![family][places[key]] = FlowOut(i)]
     /\ i' = i + 1
     /\ UNCHANGED <<options, lpm, pc, todo, socket, family>>

FlowsAdded ==
  /\ pc = "hash"
  /\ i = Flows
  /\ pc' = "setup"
  /\ UNCHANGED <<options, tables, todo, socket, family, i>>

\* Rule i leads to port i; a rule to a port that is not enabled is skipped.
AddRule ==
  /\ pc = "lpm"
  /\ i < LpmRoutes
  /\ lpm' = IF i \in enabled
            THEN [lpm EXCEPT ![socket][family] = @ \cup {[prefix |-> i, hop |-> i]}]
            ELSE lpm
  /\ i' = i + 1
  /\ UNCHANGED <<options, hash, outIf, pc, todo, socket, family>>

RulesAdded ==
  /\ pc = "lpm"
  /\ i = LpmRoutes
  /\ \/ family = "ipv4" /\ family' = "ipv6" /\ i' = 0 /\ pc' = pc
     \/ family = "ipv6" /\ pc' = "setup" /\ UNCHANGED <<family, i>>
  /\ UNCHANGED <<options, tables, todo, socket>>

\* A table that cannot be created, a key or a rule that cannot be added.
SetupFails ==
  /\ \/ pc = "setup" /\ todo # {}
     \/ pc = "hash" /\ i < Flows
     \/ pc = "lpm" /\ IF i < LpmRoutes THEN i \in enabled ELSE family = "ipv4"
  /\ pc' = "exit"
  /\ UNCHANGED <<options, tables, todo, socket, family, i>>

TablesReady ==
  /\ pc = "setup"
  /\ todo = {}
  /\ pc' = "poll"
  /\ UNCHANGED <<options, tables, todo, socket, family, i>>

Setup ==
  \/ \E s \in Sockets : StartSocket(s)
  \/ AddFlow
  \/ FlowsAdded
  \/ AddRule
  \/ RulesAdded
  \/ SetupFails
  \/ TablesReady
=============================================================================
