------------------------------- MODULE Classify -------------------------------
(***************************************************************************)
(* The lookup of a burst: from the headers to dst_port[], with the tables   *)
(* of module Routes.  Packet types come from the device or from the parser  *)
(* of the application; the optimised loops decide for Batch packets at once *)
(* from the AND of their types, and packet by packet when that fails and    *)
(* for the rest of the burst.                                               *)
(*                                                                          *)
(* A header is what the code reads: the ether type, whether there are       *)
(* options or extension headers, the protocol and the key at the fixed      *)
(* offsets.  A packet type is the set of its bits, so & is \cap.            *)
(***************************************************************************)
EXTENDS Routes, Sequences, SequencesExt

CONSTANTS
  Headers,      \* the packets that may arrive
  MaxBurst,     \* MAX_PKT_BURST
  Batch,        \* EM_HASH_LOOKUP_COUNT, or FWDSTEP with LPM
  MaxPorts,     \* RTE_MAX_ETHPORTS
  Freed         \* the destination of a packet that was freed

ASSUME ClassifyAssumption ==
  /\ MaxBurst \in Nat
  /\ Batch \in Nat \ {0}
  /\ MaxPorts \in Nat
  /\ Freed \notin Nat
  /\ \A m \in Masks : m \subseteq 0 .. (MaxPorts - 1)

\* The key has the protocol field of the fixed header: that of the packet, or
\* the number of an IPv6 extension header.
ASSUME HeadersAssumption ==
  \A h \in Headers :
    /\ h.ether \in {"ipv4", "ipv6", "other"}
    /\ h.ext \in BOOLEAN
    /\ h.ether # "other" /\ ~h.ext => h.key[1] = h.proto
    /\ h.ether = "ipv6" /\ h.ext => h.key[1] \notin {"tcp", "udp"}

VARIABLES
  build,     \* "bulk", "sequential" with NO_HASH_MULTI_LOOKUP, "simple"
             \* without vector instructions
  hardware,  \* the device sets the packet types
  lsocket,   \* the socket of the lcore
  portid,    \* the port polled
  burst,     \* pkts_burst
  j,         \* the next packet to classify
  dst        \* dst_port

burstVars == <<hardware, lsocket, portid, burst>>
vars == <<setupVars, build, burstVars, j, dst>>

Ports == 0 .. (MaxPorts - 1)
Nb == Len(burst)

-----------------------------------------------------------------------------
\* Packet types, rte_mbuf_ptype.h.
L3_IPV4 == {4}
L3_IPV4_EXT == {4, 5}
L3_IPV6 == {6}
L3_IPV4_EXT_UNKNOWN == {4, 7}
L3_IPV6_EXT == {6, 7}
L3_IPV6_EXT_UNKNOWN == {5, 6, 7}
L3_MASK == 4 .. 7
L4_TCP == {8}
L4_UDP == {9}
L4_ICMP == {8, 10}
TCP_OR_UDP == L4_TCP \cup L4_UDP

\* What a device with the types em_check_ptype and lpm_check_ptype ask for
\* reports; anything but TCP and UDP stands as ICMP.
DeviceType(h) ==
  (CASE h.ether = "ipv4" -> IF h.ext THEN L3_IPV4_EXT ELSE L3_IPV4
     [] h.ether = "ipv6" -> IF h.ext THEN L3_IPV6_EXT ELSE L3_IPV6
     [] OTHER -> {})
  \cup
  (IF h.ether = "other" THEN {}
   ELSE CASE h.proto = "tcp" -> L4_TCP
          [] h.proto = "udp" -> L4_UDP
          [] OTHER -> L4_ICMP)

L4Type(h) ==
  CASE h.proto = "tcp" -> L4_TCP
    [] h.proto = "udp" -> L4_UDP
    [] OTHER -> {}

\* An IPv6 header with extensions has the number of the first in its proto.
EmParse(h) ==
  CASE h.ether = "ipv4" -> IF h.ext THEN L3_IPV4_EXT ELSE L3_IPV4 \cup L4Type(h)
    [] h.ether = "ipv6" -> IF h.ext \/ L4Type(h) = {} THEN L3_IPV6_EXT_UNKNOWN
                           ELSE L3_IPV6 \cup L4Type(h)
    [] OTHER -> {}

LpmParse(h) ==
  CASE h.ether = "ipv4" -> L3_IPV4_EXT_UNKNOWN
    [] h.ether = "ipv6" -> L3_IPV6_EXT_UNKNOWN
    [] OTHER -> {}

Type(h) == IF hardware THEN DeviceType(h) ELSE IF lpmOn THEN LpmParse(h) ELSE EmParse(h)

-----------------------------------------------------------------------------
\* Lookups; a miss is the port the packet came from.
HashPort(f, h) ==
  LET places == hash[lsocket][f]
  IN IF h.key \in DOMAIN places THEN outIf[f][places[h.key]] ELSE portid

LpmPort(f, h) ==
  LET hops == {r.hop : r \in {r \in lpm[lsocket][f] : r.prefix = h.key[2]}}
  IN IF hops = {} THEN portid ELSE CHOOSE p \in hops : TRUE

\* Mutant of IfEnabled: the mask is not tested.
IfInRange(p) == IF p \in Ports THEN p ELSE portid

\* dst_port >= RTE_MAX_ETHPORTS || (enabled_port_mask & 1 << dst_port) == 0
IfEnabled(p) == IF p \in Ports /\ p \in enabled THEN p ELSE portid

\* The type lets the packet into the exact-match table of a family.
IsFlow(t, l3) == t \cap TCP_OR_UDP # {} /\ t \cap L3_MASK = l3
IsEmType(t) == IsFlow(t, L3_IPV4) \/ IsFlow(t, L3_IPV6)

\* The non-optimised functions free what they do not route.
Unrouted == IF build = "simple" THEN Freed ELSE portid

EmPort(t, h) ==
  IF IsFlow(t, L3_IPV4) THEN IfEnabled(HashPort("ipv4", h))
  ELSE IF IsFlow(t, L3_IPV6) THEN IfEnabled(HashPort("ipv6", h))
  ELSE Unrouted

\* RTE_ETH_IS_IPV4_HDR and RTE_ETH_IS_IPV6_HDR test one bit.
LpmFound(t, h) ==
  IF t \cap L3_IPV4 # {} THEN LpmPort("ipv4", h)
  ELSE IF t \cap L3_IPV6 # {} THEN LpmPort("ipv6", h)
  ELSE Unrouted

LpmPortOf(t, h) ==
  IF build = "simple" /\ LpmFound(t, h) # Freed THEN IfEnabled(LpmFound(t, h))
  ELSE LpmFound(t, h)

DstPort(t, h) == IF lpmOn THEN LpmPortOf(t, h) ELSE EmPort(t, h)

-----------------------------------------------------------------------------
Init ==
  /\ SetupInit
  /\ build \in {"bulk", "simple"} \cup (IF lpmOn THEN {} ELSE {"sequential"})
  /\ hardware = FALSE
  /\ lsocket = CHOOSE s \in Sockets : TRUE
  /\ portid = 0
  /\ burst = <<>>
  /\ j = 0
  /\ dst = <<>>

\* An lcore of some socket receives a burst from some enabled port.
Receive ==
  /\ pc = "poll"
  /\ pc' = "classify"
  /\ hardware' \in BOOLEAN
  /\ lsocket' \in Sockets
  /\ portid' \in enabled
  /\ burst' \in BoundedSeq(Headers, MaxBurst) \ {<<>>}
  /\ UNCHANGED <<options, tables, todo, socket, family, i, build, j, dst>>

\* RTE_ALIGN_FLOOR(nb_rx, EM_HASH_LOOKUP_COUNT)
Aligned == (Nb \div Batch) * Batch

Lane(k) == burst[j + k]

\* Mutant of Common: the types are assigned, not combined.
CommonLast == Type(Lane(Batch)) \cap (L3_MASK \cup TCP_OR_UDP)

\* The bits that the types of the next Batch packets have in common.
Common ==
  {b \in L3_MASK \cup TCP_OR_UDP : \A k \in 1 .. Batch : b \in Type(Lane(k))}

\* The common bits send the batch to one table: with LPM to the IPv4 one only.
OneTable == IF lpmOn THEN Common \cap L3_IPV4 # {} ELSE IsEmType(Common)

LaneType(k) == IF OneTable THEN Common ELSE Type(Lane(k))

ClassifyBatch ==
  /\ pc = "classify"
  /\ build = "bulk"
  /\ j < Aligned
  /\ dst' = dst \o [k \in 1 .. Batch |-> DstPort(LaneType(k), Lane(k))]
  /\ j' = j + Batch
  /\ UNCHANGED <<setupVars, build, burstVars>>

ClassifyOne ==
  /\ pc = "classify"
  /\ build = "bulk" => j >= Aligned
  /\ j < Nb
  /\ dst' = Append(dst, DstPort(Type(Lane(1)), Lane(1)))
  /\ j' = j + 1
  /\ UNCHANGED <<setupVars, build, burstVars>>

\* send_packets_multi takes over; its sides are modules PortGroup and Forward.
SendPackets ==
  /\ pc = "classify"
  /\ j = Nb
  /\ pc' = "poll"
  /\ burst' = <<>>
  /\ j' = 0
  /\ dst' = <<>>
  /\ UNCHANGED <<options, tables, todo, socket, family, i, build, hardware, lsocket, portid>>

Finished ==
  /\ pc = "exit"
  /\ UNCHANGED vars

Next ==
  \/ Setup /\ UNCHANGED <<build, burstVars, j, dst>>
  \/ Receive
  \/ ClassifyBatch
  \/ ClassifyOne
  \/ SendPackets
  \/ Finished

Spec == Init /\ [][Next]_vars

-----------------------------------------------------------------------------
\* The tables stay within their sizes, no packet is classified twice or left
\* out, and a destination is a port or the mark of a freed packet.
TypeOK ==
  /\ pc \in {"setup", "hash", "lpm", "poll", "classify", "exit"}
  /\ todo \subseteq Sockets
  /\ socket \in Sockets /\ lsocket \in Sockets
  /\ family \in Family
  /\ i \in 0 .. HashEntries \/ i \in 0 .. LpmRoutes
  /\ \A s \in Sockets, f \in Family :
       /\ \A k \in DOMAIN hash[s][f] : hash[s][f][k] \in Places
       /\ lpm[s][f] \subseteq [prefix : Nat, hop : Ports]
  /\ outIf \in [Family -> [Places -> Nat]]
  /\ j \in 0 .. Nb
  /\ Len(dst) = j
  /\ \A k \in 1 .. j : dst[k] \in Ports \cup {Freed}

Classified == pc = "classify" /\ j = Nb

\* The routes by the rules alone, without tables, types or batches: the flow
\* that a header without options belongs to, the rule of its prefix.
RuledPorts(h) ==
  IF lpmOn THEN
    {n \in enabled : n < LpmRoutes /\ h.ether # "other" /\ h.key[2] = n}
  ELSE
    LET f == IF ipv6 THEN "ipv6" ELSE "ipv4"
    IN {FlowOut(n) : n \in {n \in 0 .. (Flows - 1) :
          h.ether = f /\ h.proto = Proto(f) /\ ~h.ext /\ h.key = FlowKey(f, n)}}
       \cap enabled

\* A packet with a rule leaves on the port of its rule, on whatever socket,
\* in whatever batch and whoever found its type; one without leaves where it
\* came from (or is freed, in a build without vector instructions and if it
\* is no TCP or UDP over plain IP, or with LPM no IP).  Excluded are packets
\* with IPv4 options and hardware types: among plain neighbours the AND hides
\* that they have options, and they are looked up all the same (they then
\* leave on an enabled port, EnabledOnly).
RoutedByRule ==
  Classified =>
    \A k \in 1 .. Nb :
      LET h == burst[k]
          ports == RuledPorts(h)
          routable == h.ether # "other" /\ (lpmOn \/ (~h.ext /\ h.proto \in {"tcp", "udp"}))
      IN \/ hardware /\ ~lpmOn /\ h.ether = "ipv4" /\ h.ext
         \/ IF ports # {} THEN dst[k] \in ports
            ELSE dst[k] \in {portid} \cup (IF build = "simple" /\ ~routable THEN {Freed} ELSE {})

\* No packet is sent to a port that is not enabled: the exact-match tables
\* hold such ports and every lookup has to check, the LPM tables do not and
\* the vector lookups do not check.
EnabledOnly == \A k \in 1 .. Len(dst) : dst[k] # Freed => dst[k] \in enabled

\* The ports of all sockets come from one array: no key that is added later,
\* to the table of whatever socket, changes the port of one that is there.
PlacesAgree ==
  [][\A s \in Sockets, f \in Family : \A key \in DOMAIN hash[s][f] :
       outIf'[f][hash'[s][f][key]] = outIf[f][hash[s][f][key]]]_vars
=============================================================================
