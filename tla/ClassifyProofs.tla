---------------------------- MODULE ClassifyProofs ----------------------------
(***************************************************************************)
(* For all tables, packets, batch sizes and builds: no packet is sent to a  *)
(* port that is not enabled; a batch is classified as its packets would be  *)
(* one by one; a key never changes its port while tables are filled; and a  *)
(* packet leaves on the port that its flow or rule says.                    *)
(***************************************************************************)
EXTENDS Classify, TLAPS, FiniteSetTheorems

Hops == enabled \cup {Freed}

\* What the destinations rest on: a burst comes from an enabled port, and the
\* LPM tables, which are not checked when they are read, were when filled.
EnabledInv ==
  /\ socket \in Sockets
  /\ lsocket \in Sockets
  /\ family \in Family
  /\ lpm \in [Sockets -> [Family -> SUBSET [prefix : Nat, hop : enabled]]]
  /\ i \in Nat
  /\ pc = "classify" => portid \in enabled
  /\ j \in Nat
  /\ dst \in Seq(Hops)

\* A hash lookup leads to an enabled port whatever the table holds.
LEMMA IfEnabledHop ==
  ASSUME portid \in enabled, NEW p
  PROVE IfEnabled(p) \in enabled
BY DEF IfEnabled

LEMMA EmHop ==
  ASSUME portid \in enabled, NEW t, NEW h
  PROVE EmPort(t, h) \in Hops
BY IfEnabledHop DEF EmPort, Unrouted, Hops

\* A rule found leads to an enabled port because only such rules were added.
LEMMA LpmPortHop ==
  ASSUME portid \in enabled, EnabledInv, NEW f \in Family, NEW h
  PROVE LpmPort(f, h) \in enabled
<1> DEFINE rules == {r \in lpm[lsocket][f] : r.prefix = h.key[2]}
           hops == {r.hop : r \in rules}
<1>1. lpm[lsocket][f] \subseteq [prefix : Nat, hop : enabled]
  BY DEF EnabledInv
<1>2. hops \subseteq enabled
  BY <1>1
<1>3. CASE hops = {}
  BY <1>3 DEF LpmPort
<1>4. CASE hops # {}
  <2>1. (CHOOSE p \in hops : TRUE) \in hops
    BY <1>4
  <2> QED
    BY <1>2, <1>4, <2>1 DEF LpmPort
<1> QED
  BY <1>3, <1>4

LEMMA LpmHop ==
  ASSUME portid \in enabled, EnabledInv, NEW t, NEW h
  PROVE LpmPortOf(t, h) \in Hops
<1>1. LpmFound(t, h) \in Hops
  <2>1. LpmPort("ipv4", h) \in enabled /\ LpmPort("ipv6", h) \in enabled
    BY LpmPortHop DEF Family
  <2> QED
    BY <2>1 DEF LpmFound, Unrouted, Hops
<1> QED
  BY <1>1, IfEnabledHop DEF LpmPortOf, Hops

LEMMA DstHop ==
  ASSUME portid \in enabled, EnabledInv, NEW t, NEW h
  PROVE DstPort(t, h) \in Hops
BY EmHop, LpmHop DEF DstPort

-----------------------------------------------------------------------------
LEMMA InitEnabled == Init => EnabledInv
<1> SUFFICES ASSUME Init PROVE EnabledInv
  OBVIOUS
<1> USE DEF Init, SetupInit
<1>1. (CHOOSE s \in Sockets : TRUE) \in Sockets
  BY RoutesAssumption
<1>2. lpm \in [Sockets -> [Family -> SUBSET [prefix : Nat, hop : enabled]]]
  OBVIOUS
<1>3. dst \in Seq(Hops)
  OBVIOUS
<1> QED
  BY <1>1, <1>2, <1>3 DEF EnabledInv, Family

\* The steps of the set-up leave bursts alone; only AddRule adds rules.
LEMMA SetupEnabled ==
  ASSUME EnabledInv, Setup, UNCHANGED <<build, burstVars, j, dst>>
  PROVE EnabledInv'
<1> USE DEF burstVars, options, tables, Hops
<1>1. ASSUME NEW s \in Sockets, StartSocket(s) PROVE EnabledInv'
  BY <1>1 DEF StartSocket, EnabledInv, Family
<1>2. CASE AddFlow
  BY <1>2 DEF AddFlow, EnabledInv
<1>3. CASE FlowsAdded
  BY <1>3 DEF FlowsAdded, EnabledInv
<1>4. CASE AddRule
  <2> USE <1>4 DEF AddRule
  <2>1. CASE i \in enabled
    <3> DEFINE rule == [prefix |-> i, hop |-> i]
    <3>1. rule \in [prefix : Nat, hop : enabled]
      BY <2>1 DEF EnabledInv
    <3>2. lpm' = [lpm EXCEPT ![socket][family] = @ \cup {rule}]
      BY <2>1
    <3>3. lpm' \in [Sockets -> [Family -> SUBSET [prefix : Nat, hop : enabled]]]
      <4> HIDE DEF rule
      <4> DEFINE R == [prefix : Nat, hop : enabled]
      <4>1. rule \in R /\ lpm \in [Sockets -> [Family -> SUBSET R]]
        BY <3>1 DEF EnabledInv
      <4>2. socket \in Sockets /\ family \in Family
        BY DEF EnabledInv
      <4> HIDE DEF R
      <4>3. lpm' \in [Sockets -> [Family -> SUBSET R]]
        BY <3>2, <4>1, <4>2
      <4> QED
        BY <4>3 DEF R
    <3> QED
      BY <3>3 DEF EnabledInv
  <2>2. CASE i \notin enabled
    BY <2>2 DEF EnabledInv
  <2> QED
    BY <2>1, <2>2
<1>5. CASE RulesAdded
  BY <1>5 DEF RulesAdded, EnabledInv, Family
<1>6. CASE SetupFails
  BY <1>6 DEF SetupFails, EnabledInv
<1>7. CASE TablesReady
  BY <1>7 DEF TablesReady, EnabledInv
<1> QED
  BY <1>1, <1>2, <1>3, <1>4, <1>5, <1>6, <1>7 DEF Setup

LEMMA NextEnabled == EnabledInv /\ [Next]_vars => EnabledInv'
<1> SUFFICES ASSUME EnabledInv, [Next]_vars PROVE EnabledInv'
  OBVIOUS
<1>1. CASE Setup /\ UNCHANGED <<build, burstVars, j, dst>>
  BY <1>1, SetupEnabled
<1>2. CASE Receive
  BY <1>2 DEF Receive, EnabledInv, Hops, options, tables
<1>3. CASE ClassifyBatch
  <2> DEFINE more == [k \in 1 .. Batch |-> DstPort(LaneType(k), Lane(k))]
  <2>1. portid \in enabled
    BY <1>3 DEF ClassifyBatch, EnabledInv
  <2>2. \A k \in 1 .. Batch : DstPort(LaneType(k), Lane(k)) \in Hops
    BY <2>1, DstHop
  <2>3. more \in Seq(Hops)
    BY <2>2, ClassifyAssumption
  <2>4. dst \o more \in Seq(Hops)
    <3> HIDE DEF more
    <3> QED
      BY <2>3 DEF EnabledInv
  <2> QED
    BY <1>3, <2>4, ClassifyAssumption
    DEF ClassifyBatch, EnabledInv, Hops, setupVars, options, tables, burstVars
<1>4. CASE ClassifyOne
  <2>1. portid \in enabled
    BY <1>4 DEF ClassifyOne, EnabledInv
  <2>2. DstPort(Type(Lane(1)), Lane(1)) \in Hops
    BY <2>1, DstHop
  <2>3. Append(dst, DstPort(Type(Lane(1)), Lane(1))) \in Seq(Hops)
    BY <2>2 DEF EnabledInv
  <2> QED
    BY <1>4, <2>3
    DEF ClassifyOne, EnabledInv, Hops, setupVars, options, tables, burstVars
<1>5. CASE SendPackets
  BY <1>5 DEF SendPackets, EnabledInv, Hops, options, tables
<1>6. CASE UNCHANGED vars
  BY <1>6 DEF vars, setupVars, options, tables, burstVars, EnabledInv, Hops
<1> QED
  BY <1>1, <1>2, <1>3, <1>4, <1>5, <1>6 DEF Next, Finished

\* EnabledOnly of module Classify: whatever the tables and the packets, a
\* destination is an enabled port or the mark of a freed packet.
THEOREM EnabledPorts == Spec => []EnabledOnly
<1>1. EnabledInv => EnabledOnly
  BY DEF EnabledInv, EnabledOnly, Hops
<1> QED
  BY <1>1, InitEnabled, NextEnabled, PTL DEF Spec

-----------------------------------------------------------------------------
\* The AND of the types of a batch tells as much as the types themselves.
LEMMA L4Types ==
  ASSUME NEW h
  PROVE L4Type(h) \in {{8}, {9}, {}}
<1>1. CASE h.proto = "tcp"
  BY <1>1, Zenon DEF L4Type, L4_TCP
<1>2. CASE h.proto # "tcp" /\ h.proto = "udp"
  BY <1>2, Zenon DEF L4Type, L4_UDP
<1>3. CASE h.proto # "tcp" /\ h.proto # "udp"
  BY <1>3, Zenon DEF L4Type
<1> QED
  BY <1>1, <1>2, <1>3

\* Types of the application's own parser, exact match: either without a bit
\* of TCP or UDP or with the plain type of one family.
LEMMA EmTypes ==
  ASSUME NEW h
  PROVE \/ EmParse(h) \cap TCP_OR_UDP = {}
        \/ \E l3 \in {L3_IPV4, L3_IPV6} : EmParse(h) \cap L3_MASK = l3
<1> DEFINE l4 == L4Type(h)
<1> USE DEF L3_IPV4, L3_IPV6, L3_MASK, L4_TCP, L4_UDP, TCP_OR_UDP
<1>0. l4 \in {{8}, {9}, {}}
  BY L4Types
<1>1. CASE h.ether = "ipv4" /\ h.ext
  <2>1. EmParse(h) = L3_IPV4_EXT
    BY <1>1, Zenon DEF EmParse
  <2> QED
    BY <2>1 DEF L3_IPV4_EXT
<1>2. CASE h.ether = "ipv4" /\ ~h.ext
  <2>1. EmParse(h) = {4} \cup l4
    BY <1>2, Zenon DEF EmParse
  <2> HIDE DEF l4
  <2> QED
    BY <1>0, <2>1
<1>3. CASE h.ether # "ipv4" /\ h.ether = "ipv6" /\ (h.ext \/ l4 = {})
  <2>1. EmParse(h) = L3_IPV6_EXT_UNKNOWN
    BY <1>3, Zenon DEF EmParse
  <2> QED
    BY <2>1 DEF L3_IPV6_EXT_UNKNOWN
<1>4. CASE h.ether # "ipv4" /\ h.ether = "ipv6" /\ ~(h.ext \/ l4 = {})
  <2>1. EmParse(h) = {6} \cup l4
    BY <1>4, Zenon DEF EmParse
  <2> HIDE DEF l4
  <2> QED
    BY <1>0, <2>1
<1>5. CASE h.ether # "ipv4" /\ h.ether # "ipv6"
  <2>1. EmParse(h) = {}
    BY <1>5, Zenon DEF EmParse
  <2> QED
    BY <2>1
<1> QED
  BY <1>1, <1>2, <1>3, <1>4, <1>5

\* A batch that its common bits send to one table: every packet of it would
\* have gone there alone.  With LPM that holds for any types, with exact match
\* for those of em_parse_ptype (module Classify says which ones of a device
\* break it).
THEOREM BatchAgrees ==
  ASSUME lpmOn \/ ~hardware, NEW k \in 1 .. Batch
  PROVE DstPort(LaneType(k), Lane(k)) = DstPort(Type(Lane(k)), Lane(k))
<1> DEFINE h == Lane(k)
           t == Type(h)
<1> USE DEF L3_IPV4, L3_IPV6, L3_MASK, L4_TCP, L4_UDP, TCP_OR_UDP
<1>1. \A b \in Common : b \in t
  BY DEF Common
<1>2. CASE lpmOn /\ Common \cap L3_IPV4 # {}
  <2>1. t \cap L3_IPV4 # {}
    BY <1>1, <1>2
  <2>2. LaneType(k) = Common
    BY <1>2 DEF LaneType, OneTable
  <2> HIDE DEF t, h
  <2>3. LpmFound(Common, h) = LpmFound(t, h)
    BY <1>2, <2>1 DEF LpmFound
  <2>4. DstPort(Common, h) = DstPort(t, h)
    BY <1>2, <2>3, Zenon DEF DstPort, LpmPortOf
  <2> QED
    BY <2>2, <2>4 DEF h, t
<1>3. CASE ~lpmOn /\ IsEmType(Common)
  <2>1. t = EmParse(h)
    BY <1>3 DEF Type
  <2>2. LaneType(k) = Common
    BY <1>3 DEF LaneType, OneTable
  <2>3. t \cap TCP_OR_UDP # {}
    BY <1>1, <1>3 DEF IsEmType, IsFlow
  <2>4. t \cap L3_MASK = {4} \/ t \cap L3_MASK = {6}
    BY <2>1, <2>3, EmTypes
  <2> HIDE DEF t, h
  <2>5. t \cap L3_MASK = Common \cap L3_MASK
    <3>1. Common \cap L3_MASK \subseteq t \cap L3_MASK
      BY <1>1
    <3>2. Common \cap L3_MASK # {}
      BY <1>3 DEF IsEmType, IsFlow
    <3> QED
      BY <2>4, <3>1, <3>2
  <2>6. Common \cap TCP_OR_UDP # {}
    BY <1>3 DEF IsEmType, IsFlow
  <2>7. EmPort(Common, h) = EmPort(t, h)
    BY <2>3, <2>5, <2>6 DEF EmPort, IsFlow
  <2> QED
    BY <1>3, <2>2, <2>7 DEF DstPort, h, t
<1>4. CASE ~OneTable
  BY <1>4 DEF LaneType
<1> QED
  BY <1>2, <1>3, <1>4 DEF OneTable

-----------------------------------------------------------------------------
(* Quotients and digits, for the bytes of the keys. *)

LEMMA DivMod ==
  ASSUME NEW a \in Nat, NEW b \in Nat \ {0}
  PROVE  /\ a \div b \in Nat
         /\ a % b \in 0 .. (b - 1)
         /\ a = b * (a \div b) + (a % b)
OBVIOUS

LEMMA Times ==
  ASSUME NEW b \in Nat \ {0}, NEW x \in Nat, NEW y \in Nat, x < y
  PROVE  b * x \in Nat /\ b * y \in Nat /\ b * x + b <= b * y
<1>1. PICK d \in Nat : y = x + 1 + d
  OBVIOUS
<1>2. b * y = b * x + b + b * d
  BY <1>1
<1>3. b * d \in Nat /\ b * x \in Nat
  OBVIOUS
<1> QED
  BY <1>2, <1>3

LEMMA DivUnique ==
  ASSUME NEW b \in Nat \ {0}, NEW x \in Nat, NEW y \in Nat,
         NEW r \in 0 .. (b - 1), NEW s \in 0 .. (b - 1), b * x + r = b * y + s
  PROVE  x = y
<1> DEFINE p == b * x
           q == b * y
<1>1. p \in Nat /\ q \in Nat /\ p + r = q + s
  OBVIOUS
<1>2. ~(x < y)
  <2>1. x < y => p + b <= q
    BY Times
  <2> HIDE DEF p, q
  <2> QED
    BY <1>1, <2>1
<1>3. ~(y < x)
  <2>1. y < x => q + b <= p
    BY Times
  <2> HIDE DEF p, q
  <2> QED
    BY <1>1, <2>1
<1> QED
  BY <1>2, <1>3

\* What is below c times b has a quotient below c.
LEMMA DivBelow ==
  ASSUME NEW b \in Nat \ {0}, NEW a \in Nat, NEW c \in Nat, a < b * c
  PROVE  a \div b < c
<1> DEFINE q == a \div b
<1>1. q \in Nat /\ a = b * q + (a % b) /\ a % b \in 0 .. (b - 1)
  BY DivMod
<1>2. CASE c <= q
  <2>1. b * c <= b * q
    <3>1. c = q \/ c < q
      BY <1>1, <1>2
    <3> HIDE DEF q
    <3> QED
      BY <1>1, <3>1, Times
  <2> HIDE DEF q
  <2>2. b * c \in Nat /\ b * q \in Nat
    BY <1>1
  <2> QED
    BY <1>1, <2>1, <2>2
<1>3. CASE q < c
  BY <1>3
<1> QED
  BY <1>1, <1>2, <1>3

LEMMA DivDiv ==
  ASSUME NEW a \in Nat, NEW b \in Nat \ {0}
  PROVE  (a \div b) \div b = a \div (b * b)
<1> DEFINE d == a \div b
           e == d \div b
           B == b * b
           q == a \div B
<1>1. d \in Nat /\ a % b \in 0 .. (b - 1) /\ a = b * d + (a % b)
  BY DivMod
<1>2. e \in Nat /\ d % b \in 0 .. (b - 1) /\ d = b * e + (d % b)
  BY <1>1, DivMod
<1>3. B \in Nat \ {0}
  OBVIOUS
<1>4. q \in Nat /\ a % B \in 0 .. (B - 1) /\ a = B * q + (a % B)
  BY <1>3, DivMod
<1> HIDE DEF d, e, q
<1>5. a = B * e + (b * (d % b) + (a % b))
  <2>1. b * d = b * (b * e + (d % b))
    BY <1>2
  <2>2. b * (b * e + (d % b)) = B * e + b * (d % b)
    BY <1>2
  <2> HIDE DEF B
  <2>3. B * e \in Nat /\ b * (d % b) \in Nat
    BY <1>2, <1>3
  <2> QED
    BY <1>1, <2>1, <2>2, <2>3
<1>6. b * (d % b) + (a % b) \in 0 .. (B - 1)
  <2>1. b * (d % b) + b <= b * b /\ b * (d % b) \in Nat
    BY <1>2, Times
  <2> QED
    BY <1>1, <2>1
<1>7. e = q
  <2> DEFINE r == b * (d % b) + (a % b)
             s == a % B
  <2>1. B * e + r = B * q + s
    BY <1>4, <1>5
  <2>2. r \in 0 .. (B - 1) /\ s \in 0 .. (B - 1)
    BY <1>4, <1>6
  <2> HIDE DEF r, s, B
  <2> QED
    BY <1>2, <1>3, <1>4, <2>1, <2>2, DivUnique
<1> QED
  BY <1>7 DEF d, e, q

\* A number below b^3 is told by its three digits.
LEMMA Digits ==
  ASSUME NEW b \in Nat \ {0}, NEW x \in Nat, NEW y \in Nat,
         x < b * b * b, y < b * b * b,
         (x \div (b * b)) % b = (y \div (b * b)) % b,
         (x \div b) % b = (y \div b) % b,
         x % b = y % b
  PROVE  x = y
<1>1. ASSUME NEW z \in Nat, z < b * b * b
      PROVE  (z \div b) \div b = (z \div (b * b)) % b
  <2> DEFINE e == z \div (b * b)
  <2>1. b * b \in Nat \ {0} /\ z < (b * b) * b
    BY <1>1
  <2>2. e \in Nat /\ e < b
    BY <2>1, DivBelow, DivMod
  <2>3. e % b = e
    <3> HIDE DEF e
    <3> QED
      BY <2>2
  <2> QED
    BY <2>3, DivDiv
<1>2. (x \div b) \div b = (y \div b) \div b
  BY <1>1
<1> DEFINE c == x \div b
           d == y \div b
<1>3. c \in Nat /\ x = b * c + (x % b) /\ d \in Nat /\ y = b * d + (y % b)
  BY DivMod
<1> HIDE DEF c, d
<1>4. c = b * (c \div b) + (c % b) /\ d = b * (d \div b) + (d % b)
  BY <1>3, DivMod
<1>5. c = d
  <2>1. c \div b = d \div b /\ c % b = d % b
    BY <1>2 DEF c, d
  <2> QED
    BY <1>4, <2>1
<1> QED
  BY <1>3, <1>5

LEMMA KeyDistinct ==
  ASSUME NEW f, NEW n \in 0 .. (Flows - 1), NEW m \in 0 .. (Flows - 1),
         entries \in Entries, FlowKey(f, n) = FlowKey(f, m)
  PROVE  n = m
<1> DEFINE B == ByteValueMax
<1>1. RouteOf(n) = RouteOf(m)
  BY DEF FlowKey, Key
<1>2. n \in Nat /\ m \in Nat
  OBVIOUS
<1>3. CASE Few
  BY <1>1, <1>3 DEF RouteOf
<1>4. CASE ~Few
  <2>1. n < 2 * (B * B * B) /\ m < 2 * (B * B * B) /\ B \in Nat \ {0}
    <3>1. entries \in Nat /\ entries <= HashEntries /\ HashEntries \in Nat /\ B \in Nat \ {0}
      BY RoutesAssumption
    <3>2. n < entries /\ m < entries
      BY <1>4, <3>1 DEF Flows
    <3>3. HashEntries <= 2 * B * B * B
      BY RoutesAssumption
    <3>4. 2 * B * B * B = 2 * (B * B * B) /\ B * B * B \in Nat
      BY <3>1
    <3> HIDE DEF B
    <3> QED
      BY <1>2, <3>1, <3>2, <3>3, <3>4
  <2> DEFINE c == n \div 2
             d == m \div 2
  <2>2. c \in Nat /\ d \in Nat /\ c < B * B * B /\ d < B * B * B
    <3>1. B * B * B \in Nat
      BY <2>1
    <3> HIDE DEF B
    <3> QED
      BY <1>2, <2>1, <3>1, DivBelow, DivMod
  <2>3. /\ (c \div (B * B)) % B = (d \div (B * B)) % B
        /\ (c \div B) % B = (d \div B) % B
        /\ c % B = d % B
    BY <1>4 DEF FlowKey, Key
  <2>4. c = d
    <3> HIDE DEF B, c, d
    <3> QED
      BY <2>1, <2>2, <2>3, Digits
  <2>5. n % 2 = m % 2
    BY <1>1, <1>4 DEF RouteOf
  <2> QED
    BY <1>2, <2>4, <2>5
<1> QED
  BY <1>3, <1>4

-----------------------------------------------------------------------------
(***************************************************************************)
(* The tables.  The table being filled has the keys of the first i flows,   *)
(* and flow n is at place n (HashInv): so what is written into the array    *)
(* that all sockets share was there before, or is new to all of them.  A    *)
(* socket that is done has all flows, and with LPM all rules to enabled     *)
(* ports (LpmInv).                                                          *)
(***************************************************************************)
FlowFamily == IF ipv6 THEN "ipv6" ELSE "ipv4"
KeysTo(n) == {FlowKey(FlowFamily, m) : m \in 0 .. (n - 1)}
RulesTo(n) == {[prefix |-> m, hop |-> m] : m \in {m \in enabled : m < n}}
Table == UNION {[K -> Places] : K \in SUBSET KeysTo(Flows)}
Ready(s) == s \notin todo /\ (pc \in {"hash", "lpm"} => s # socket)

OptionsInv ==
  /\ lpmOn \in BOOLEAN
  /\ lpmOn => ~ipv6
  /\ entries \in Entries
  /\ enabled \in Masks
  /\ pc \in {"setup", "hash", "lpm", "poll", "classify", "exit"}
  /\ todo \in SUBSET Sockets
  /\ socket \in Sockets
  /\ family \in Family
  /\ i \in Nat
  /\ pc = "hash" => ~lpmOn /\ family = FlowFamily /\ socket \notin todo /\ i <= Flows
  /\ pc = "lpm" => lpmOn /\ socket \notin todo /\ i <= LpmRoutes
  /\ pc \in {"poll", "classify"} => todo = {}

HashInv ==
  /\ hash \in [Sockets -> [Family -> Table]]
  /\ outIf \in [Family -> [Places -> Nat]]
  /\ \A s \in Sockets, f \in Family : \A key \in DOMAIN hash[s][f] :
       \E n \in 0 .. (Flows - 1) : /\ f = FlowFamily
                                   /\ key = FlowKey(f, n)
                                   /\ hash[s][f][key] = n
                                   /\ outIf[f][n] = FlowOut(n)
  /\ \A s \in todo : DOMAIN hash[s][FlowFamily] = {}
  /\ pc = "hash" => DOMAIN hash[socket][FlowFamily] = KeysTo(i)
  /\ pc # "exit" /\ ~lpmOn =>
       \A s \in Sockets : Ready(s) => DOMAIN hash[s][FlowFamily] = KeysTo(Flows)

LpmInv ==
  /\ lpm \in [Sockets -> [Family -> SUBSET [prefix : Nat, hop : enabled]]]
  /\ \A s \in todo, f \in Family : lpm[s][f] = {}
  /\ pc = "lpm" =>
       /\ lpm[socket][family] = RulesTo(i)
       /\ family = "ipv4" => lpm[socket]["ipv6"] = {}
       /\ family = "ipv6" => lpm[socket]["ipv4"] = RulesTo(LpmRoutes)
  /\ pc # "exit" /\ lpmOn =>
       \A s \in Sockets, f \in Family : Ready(s) => lpm[s][f] = RulesTo(LpmRoutes)

TablesInv == OptionsInv /\ HashInv /\ LpmInv

LEMMA SizesTyped ==
  ASSUME entries \in Entries
  PROVE  Flows \in Nat /\ Flows <= HashEntries /\ HashEntries \in Nat /\ LpmRoutes \in Nat
BY RoutesAssumption DEF Flows, Few

LEMMA InitTables == Init => TablesInv
<1> SUFFICES ASSUME Init PROVE TablesInv
  OBVIOUS
<1> USE DEF Init, SetupInit
<1>1. (CHOOSE s \in Sockets : TRUE) \in Sockets
  BY RoutesAssumption
<1>2. OptionsInv
  BY <1>1 DEF OptionsInv, Family
<1>3. <<>> \in Table /\ DOMAIN <<>> = {}
  <2>1. <<>> \in [{} -> Places]
    OBVIOUS
  <2> QED
    BY <2>1 DEF Table
<1>4. hash \in [Sockets -> [Family -> Table]]
  BY <1>3
<1>5. \A s \in Sockets, f \in Family : DOMAIN hash[s][f] = {}
  BY <1>3
<1>6. FlowFamily \in Family
  BY DEF FlowFamily, Family
<1>7. \A s \in Sockets : ~Ready(s)
  BY DEF Ready
<1>8. HashInv
  BY <1>4, <1>5, <1>6, <1>7 DEF HashInv
<1>9. LpmInv
  BY <1>7 DEF LpmInv
<1> QED
  BY <1>2, <1>8, <1>9 DEF TablesInv

\* A step that leaves the options and the tables alone.
LEMMA TablesKept ==
  ASSUME TablesInv, OptionsInv', UNCHANGED <<options, tables>>,
         todo' \in SUBSET todo,
         pc' = "hash" => DOMAIN hash[socket'][FlowFamily] = KeysTo(i'),
         pc' = "lpm" =>
           /\ lpm[socket'][family'] = RulesTo(i')
           /\ family' = "ipv4" => lpm[socket']["ipv6"] = {}
           /\ family' = "ipv6" => lpm[socket']["ipv4"] = RulesTo(LpmRoutes),
         pc' # "exit" =>
           \A s \in Sockets : Ready(s)' =>
             /\ ~lpmOn => DOMAIN hash[s][FlowFamily] = KeysTo(Flows)
             /\ lpmOn => \A f \in Family : lpm[s][f] = RulesTo(LpmRoutes)
  PROVE  TablesInv'
<1> USE DEF options, tables, TablesInv
<1>1. /\ FlowFamily' = FlowFamily /\ Flows' = Flows /\ Table' = Table
      /\ \A n : FlowOut(n)' = FlowOut(n)
      /\ \A f, n : FlowKey(f, n)' = FlowKey(f, n)
      /\ \A n : KeysTo(n)' = KeysTo(n) /\ RulesTo(n)' = RulesTo(n)
  <2>1. /\ FlowFamily' = FlowFamily /\ Flows' = Flows
        /\ \A n : FlowOut(n)' = FlowOut(n)
        /\ \A f, n : FlowKey(f, n)' = FlowKey(f, n)
    BY DEF FlowFamily, Flows, Few, FlowKey, FlowOut, RouteOf
  <2>2. \A n : KeysTo(n)' = KeysTo(n)
    BY <2>1 DEF KeysTo
  <2>3. \A n : RulesTo(n)' = RulesTo(n)
    BY DEF RulesTo
  <2>4. Table' = Table
    BY <2>1, <2>2 DEF Table
  <2> QED
    BY <2>1, <2>2, <2>3, <2>4
<1>2. HashInv'
  <2>1. \A s \in todo' : DOMAIN hash[s][FlowFamily] = {}
    BY DEF HashInv
  <2> QED
    BY <1>1, <2>1 DEF HashInv
<1>3. LpmInv'
  <2>1. \A s \in todo', f \in Family : lpm[s][f] = {}
    BY DEF LpmInv
  <2> QED
    BY <1>1, <2>1 DEF LpmInv
<1> QED
  BY <1>2, <1>3

\* Flow i finds its table with the keys of the flows before it, all distinct
\* and distinct from its own.
LEMMA KeysCounted ==
  ASSUME NEW n \in Nat, n <= Flows, entries \in Entries
  PROVE  IsFiniteSet(KeysTo(n)) /\ Cardinality(KeysTo(n)) = n
<1> DEFINE S == 0 .. (n - 1)
           key == [m \in S |-> FlowKey(FlowFamily, m)]
<1>1. IsFiniteSet(S) /\ Cardinality(S) = n
  <2>1. 0 \in Int /\ n - 1 \in Int
    OBVIOUS
  <2> QED
    BY <2>1, FS_Interval
<1>2. S \subseteq 0 .. (Flows - 1)
  BY SizesTyped
<1>3. key \in Surjection(S, KeysTo(n))
  BY DEF Surjection, KeysTo
<1>4. key \in Injection(S, KeysTo(n))
  <2>1. ASSUME NEW a \in S, NEW b \in S, key[a] = key[b] PROVE a = b
    <3>1. FlowKey(FlowFamily, a) = FlowKey(FlowFamily, b)
      BY <2>1
    <3> QED
      BY <1>2, <3>1, KeyDistinct
  <2> QED
    BY <2>1 DEF Injection, IsInjective, KeysTo
<1> QED
  BY <1>1, <1>3, <1>4, FS_Surjection

LEMMA AddFlowPlace ==
  ASSUME TablesInv, AddFlow
  PROVE  /\ i \in 0 .. (Flows - 1) /\ i \in Places
         /\ hash' = [hash EXCEPT ![socket][family] =
              [k \in KeysTo(i + 1) |->
                 IF k = FlowKey(FlowFamily, i) THEN i ELSE hash[socket][family][k]]]
         /\ outIf' = [outIf EXCEPT ![family][i] = FlowOut(i)]
<1> DEFINE key == FlowKey(FlowFamily, i)
           old == hash[socket][family]
           new == Added(old, key)
<1>1. /\ pc = "hash" /\ family = FlowFamily /\ i \in Nat /\ i < Flows
      /\ entries \in Entries /\ socket \in Sockets
      /\ DOMAIN old = KeysTo(i)
  BY DEF AddFlow, TablesInv, OptionsInv, HashInv
<1>2. i \in 0 .. (Flows - 1)
  BY <1>1, SizesTyped
<1>3. KeysTo(i + 1) = KeysTo(i) \cup {key}
  <2>1. 0 .. ((i + 1) - 1) = 0 .. (i - 1) \cup {i}
    BY <1>1
  <2> QED
    BY <2>1 DEF KeysTo
<1>4. key \notin KeysTo(i)
  <2>1. ASSUME NEW m \in 0 .. (i - 1), key = FlowKey(FlowFamily, m) PROVE FALSE
    <3>1. m \in 0 .. (Flows - 1) /\ m # i
      BY <1>1, SizesTyped
    <3> QED
      BY <1>1, <1>2, <2>1, <3>1, KeyDistinct
  <2> QED
    BY <2>1 DEF KeysTo
<1>5. Cardinality(KeysTo(i)) = i
  BY <1>1, SizesTyped, KeysCounted
<1>6. new = [k \in KeysTo(i + 1) |-> IF k = key THEN i ELSE old[k]]
  <2> HIDE DEF key, old
  <2> QED
    BY <1>1, <1>3, <1>4, <1>5 DEF Added
<1>7. new[key] = i
  <2>1. key \in KeysTo(i + 1)
    BY <1>3
  <2> HIDE DEF key, old, new
  <2> QED
    BY <1>6, <2>1
<1>8. /\ new[key] \in Places
      /\ hash' = [hash EXCEPT ![socket][family] = new]
      /\ outIf' = [outIf EXCEPT ![family][new[key]] = FlowOut(i)]
  BY <1>1 DEF AddFlow
<1> QED
  <2> HIDE DEF key, old, new
  <2>1. i \in Places /\ outIf' = [outIf EXCEPT ![family][i] = FlowOut(i)]
    BY <1>7, <1>8
  <2>2. hash' = [hash EXCEPT ![socket][family] =
                   [k \in KeysTo(i + 1) |-> IF k = key THEN i ELSE old[k]]]
    BY <1>6, <1>8
  <2> QED
    BY <1>2, <2>1, <2>2 DEF key, old

LEMMA AddFlowTables ==
  ASSUME TablesInv, AddFlow
  PROVE  /\ TablesInv'
         /\ \A s \in Sockets, f \in Family : \A key \in DOMAIN hash[s][f] :
              outIf'[f][hash'[s][f][key]] = outIf[f][hash[s][f][key]]
<1> DEFINE own == FlowKey(FlowFamily, i)
           old == hash[socket][family]
           new == [k \in KeysTo(i + 1) |-> IF k = own THEN i ELSE old[k]]
<1>1. /\ i \in 0 .. (Flows - 1) /\ i \in Places
      /\ hash' = [hash EXCEPT ![socket][family] = new]
      /\ outIf' = [outIf EXCEPT ![family][i] = FlowOut(i)]
  BY AddFlowPlace
<1>2. /\ UNCHANGED <<options, lpm, pc, todo, socket, family>> /\ i' = i + 1
      /\ pc = "hash" /\ ~lpmOn /\ family = FlowFamily /\ family \in Family
      /\ socket \in Sockets /\ socket \notin todo /\ i \in Nat
      /\ entries \in Entries
      /\ DOMAIN old = KeysTo(i)
  BY DEF AddFlow, TablesInv, OptionsInv, HashInv
<1>3. /\ hash \in [Sockets -> [Family -> Table]]
      /\ outIf \in [Family -> [Places -> Nat]]
      /\ \A s \in Sockets, f \in Family : \A key \in DOMAIN hash[s][f] :
           \E n \in 0 .. (Flows - 1) : /\ f = FlowFamily
                                       /\ key = FlowKey(f, n)
                                       /\ hash[s][f][key] = n
                                       /\ outIf[f][n] = FlowOut(n)
  BY DEF TablesInv, HashInv
<1>4. /\ FlowFamily' = FlowFamily /\ Flows' = Flows /\ Table' = Table
      /\ \A n : FlowOut(n)' = FlowOut(n)
      /\ \A f, n : FlowKey(f, n)' = FlowKey(f, n)
      /\ \A n : KeysTo(n)' = KeysTo(n) /\ RulesTo(n)' = RulesTo(n)
  <2> USE <1>2 DEF options
  <2>1. /\ FlowFamily' = FlowFamily /\ Flows' = Flows
        /\ \A n : FlowOut(n)' = FlowOut(n)
        /\ \A f, n : FlowKey(f, n)' = FlowKey(f, n)
    BY DEF FlowFamily, Flows, Few, FlowKey, FlowOut, RouteOf
  <2>2. \A n : KeysTo(n)' = KeysTo(n)
    BY <2>1 DEF KeysTo
  <2>3. \A n : RulesTo(n)' = RulesTo(n)
    BY DEF RulesTo
  <2>4. Table' = Table
    BY <2>1, <2>2 DEF Table
  <2> QED
    BY <2>1, <2>2, <2>3, <2>4
<1>5. KeysTo(i + 1) = KeysTo(i) \cup {own} /\ KeysTo(i + 1) \subseteq KeysTo(Flows)
  <2>1. 0 .. ((i + 1) - 1) = 0 .. (i - 1) \cup {i}
    BY <1>2
  <2>2. 0 .. ((i + 1) - 1) \subseteq 0 .. (Flows - 1)
    BY <1>1, <1>2, SizesTyped
  <2> QED
    BY <2>1, <2>2 DEF KeysTo
<1>6. \A k \in KeysTo(i) : old[k] \in Places
  <2>1. old \in Table
    BY <1>2, <1>3
  <2>2. PICK K \in SUBSET KeysTo(Flows) : old \in [K -> Places]
    BY <2>1 DEF Table
  <2> HIDE DEF old
  <2> QED
    BY <1>2, <2>2
<1>7. new \in Table /\ DOMAIN new = KeysTo(i + 1)
  <2>1. \A k \in KeysTo(i + 1) : k # own => k \in KeysTo(i)
    BY <1>5
  <2> HIDE DEF own, old
  <2>2. new \in [KeysTo(i + 1) -> Places]
    BY <1>1, <1>6, <2>1
  <2> HIDE DEF new
  <2> QED
    BY <1>5, <2>2 DEF Table
<1>8. /\ hash' \in [Sockets -> [Family -> Table]]
      /\ outIf' \in [Family -> [Places -> Nat]]
  <2>1. FlowOut(i) \in Nat
    BY <1>2 DEF FlowOut, RouteOf
  <2> HIDE DEF new
  <2> QED
    BY <1>1, <1>2, <1>3, <1>7, <2>1
<1>9. /\ hash'[socket][family] = new
      /\ \A s \in Sockets, f \in Family :
           s # socket \/ f # family => hash'[s][f] = hash[s][f]
  <2> HIDE DEF new
  <2> QED
    BY <1>1, <1>2, <1>3
<1>10. \A n \in 0 .. (Flows - 1) :
         outIf[FlowFamily][n] = FlowOut(n) \/ n = i => outIf'[FlowFamily][n] = FlowOut(n)
  BY <1>1, <1>2, <1>3
<1>11. ASSUME NEW s \in Sockets, NEW f \in Family, NEW key \in DOMAIN hash[s][f]
       PROVE  /\ key \in DOMAIN hash'[s][f]
              /\ hash'[s][f][key] = hash[s][f][key]
              /\ outIf'[f][hash'[s][f][key]] = outIf[f][hash[s][f][key]]
  <2>1. PICK n \in 0 .. (Flows - 1) : /\ f = FlowFamily
                                      /\ key = FlowKey(f, n)
                                      /\ hash[s][f][key] = n
                                      /\ outIf[f][n] = FlowOut(n)
    BY <1>3, <1>11
  <2>2. key \in DOMAIN hash'[s][f] /\ hash'[s][f][key] = hash[s][f][key]
    <3>1. CASE s = socket /\ f = family
      <4>1. key \in KeysTo(i) /\ key \in KeysTo(i + 1)
        BY <1>2, <1>5, <1>11, <3>1
      <4>2. key # own
        <5>1. PICK m \in 0 .. (i - 1) : key = FlowKey(FlowFamily, m)
          BY <4>1 DEF KeysTo
        <5>2. m \in 0 .. (Flows - 1) /\ m # i
          BY <1>1, <1>2, SizesTyped
        <5> QED
          BY <1>1, <1>2, <5>1, <5>2, KeyDistinct
      <4> HIDE DEF own
      <4> QED
        BY <1>9, <3>1, <4>1, <4>2
    <3>2. CASE s # socket \/ f # family
      BY <1>9, <1>11, <3>2
    <3> QED
      BY <3>1, <3>2
  <2>3. outIf'[f][n] = FlowOut(n)
    BY <1>10, <2>1
  <2> QED
    BY <2>1, <2>2, <2>3
<1>12. ASSUME NEW s \in Sockets, NEW f \in Family, NEW key \in DOMAIN hash'[s][f]
       PROVE  \E n \in 0 .. (Flows - 1) : /\ f = FlowFamily
                                          /\ key = FlowKey(f, n)
                                          /\ hash'[s][f][key] = n
                                          /\ outIf'[f][n] = FlowOut(n)
  <2>1. CASE key \in DOMAIN hash[s][f]
    <3>1. PICK n \in 0 .. (Flows - 1) : /\ f = FlowFamily
                                        /\ key = FlowKey(f, n)
                                        /\ hash[s][f][key] = n
                                        /\ outIf[f][n] = FlowOut(n)
      BY <1>3, <2>1
    <3> QED
      BY <1>10, <1>11, <2>1, <3>1
  <2>2. CASE key \notin DOMAIN hash[s][f]
    <3>1. s = socket /\ f = family
      BY <1>9, <1>12, <2>2
    <3>2. key = own
      BY <1>2, <1>5, <1>7, <1>9, <1>12, <2>2, <3>1
    <3>3. hash'[s][f][key] = i
      <4> HIDE DEF own
      <4> QED
        BY <1>5, <1>9, <3>1, <3>2
    <3> QED
      BY <1>1, <1>2, <1>10, <3>1, <3>2, <3>3
  <2> QED
    BY <2>1, <2>2
<1>13. OptionsInv'
  BY <1>1, <1>2, <1>4, SizesTyped DEF TablesInv, OptionsInv, options
<1>14. HashInv'
  <2>1. \A s \in Sockets, f \in Family : \A key \in DOMAIN hash'[s][f] :
           \E n \in 0 .. (Flows - 1) : /\ f = FlowFamily
                                       /\ key = FlowKey(f, n)
                                       /\ hash'[s][f][key] = n
                                       /\ outIf'[f][n] = FlowOut(n)
    BY <1>12
  <2>2. \A s \in todo' : DOMAIN hash'[s][FlowFamily] = {}
    BY <1>2, <1>9 DEF TablesInv, OptionsInv, HashInv
  <2>3. DOMAIN hash'[socket][FlowFamily] = KeysTo(i')
    <3> HIDE DEF new
    <3> QED
      BY <1>2, <1>7, <1>9
  <2>4. \A s \in Sockets : Ready(s)' => DOMAIN hash'[s][FlowFamily] = KeysTo(Flows)
    BY <1>2, <1>9 DEF TablesInv, HashInv, Ready
  <2> QED
    BY <1>2, <1>4, <1>8, <2>1, <2>2, <2>3, <2>4 DEF HashInv
<1>15. LpmInv'
  BY <1>2, <1>4 DEF TablesInv, LpmInv, Ready, options
<1> QED
  BY <1>11, <1>13, <1>14, <1>15 DEF TablesInv

LEMMA AddRuleTables ==
  ASSUME TablesInv, AddRule
  PROVE  TablesInv'
<1> DEFINE rule == [prefix |-> i, hop |-> i]
           own == lpm[socket][family]
           new == IF i \in enabled THEN own \cup {rule} ELSE own
           R == [prefix : Nat, hop : enabled]
<1>1. /\ UNCHANGED <<options, hash, outIf, pc, todo, socket, family>> /\ i' = i + 1
      /\ pc = "lpm" /\ lpmOn /\ family \in Family /\ i \in Nat /\ i < LpmRoutes
      /\ socket \in Sockets /\ socket \notin todo /\ entries \in Entries
      /\ own = RulesTo(i)
      /\ family = "ipv4" => lpm[socket]["ipv6"] = {}
      /\ family = "ipv6" => lpm[socket]["ipv4"] = RulesTo(LpmRoutes)
  BY DEF AddRule, TablesInv, OptionsInv, LpmInv
<1>2. lpm \in [Sockets -> [Family -> SUBSET R]]
  BY DEF TablesInv, LpmInv
<1>3. lpm' = [lpm EXCEPT ![socket][family] = new]
  BY <1>1, <1>2 DEF AddRule
<1>4. new \subseteq R
  <2>1. own \subseteq R
    BY <1>1, <1>2
  <2>2. i \in enabled => rule \in R
    BY <1>1
  <2> HIDE DEF own, rule, R
  <2> QED
    BY <2>1, <2>2
<1>5. new = RulesTo(i + 1)
  <2>1. {m \in enabled : m < i + 1}
          = {m \in enabled : m < i} \cup (IF i \in enabled THEN {i} ELSE {})
    <3>1. enabled \subseteq Nat
      BY RoutesAssumption DEF TablesInv, OptionsInv
    <3>2. \A m \in enabled : m < i + 1 <=> m < i \/ m = i
      BY <1>1, <3>1
    <3>3. CASE i \in enabled
      BY <1>1, <3>2, <3>3
    <3>4. CASE i \notin enabled
      BY <3>2, <3>4
    <3> QED
      BY <3>3, <3>4
  <2> HIDE DEF own
  <2> QED
    BY <1>1, <2>1 DEF RulesTo
<1>6. /\ lpm' \in [Sockets -> [Family -> SUBSET R]]
      /\ lpm'[socket][family] = new
      /\ \A s \in Sockets, f \in Family :
           s # socket \/ f # family => lpm'[s][f] = lpm[s][f]
  <2> HIDE DEF new, R
  <2> QED
    BY <1>1, <1>2, <1>3, <1>4
<1>7. /\ FlowFamily' = FlowFamily /\ Flows' = Flows /\ Table' = Table
      /\ \A n : FlowOut(n)' = FlowOut(n)
      /\ \A f, n : FlowKey(f, n)' = FlowKey(f, n)
      /\ \A n : KeysTo(n)' = KeysTo(n) /\ RulesTo(n)' = RulesTo(n)
  <2> USE <1>1 DEF options
  <2>1. /\ FlowFamily' = FlowFamily /\ Flows' = Flows
        /\ \A n : FlowOut(n)' = FlowOut(n)
        /\ \A f, n : FlowKey(f, n)' = FlowKey(f, n)
    BY DEF FlowFamily, Flows, Few, FlowKey, FlowOut, RouteOf
  <2>2. \A n : KeysTo(n)' = KeysTo(n)
    BY <2>1 DEF KeysTo
  <2>3. \A n : RulesTo(n)' = RulesTo(n)
    BY DEF RulesTo
  <2>4. Table' = Table
    BY <2>1, <2>2 DEF Table
  <2> QED
    BY <2>1, <2>2, <2>3, <2>4
<1>8. OptionsInv'
  BY <1>1, <1>7, SizesTyped DEF TablesInv, OptionsInv, options
<1>9. HashInv'
  BY <1>1, <1>7 DEF TablesInv, HashInv, options, Ready
<1>10. LpmInv'
  <2>1. lpm' \in [Sockets -> [Family -> SUBSET [prefix : Nat, hop : enabled']]]
    BY <1>1, <1>6 DEF options
  <2>2. \A s \in todo', f \in Family : lpm'[s][f] = {}
    BY <1>1, <1>6 DEF TablesInv, OptionsInv, LpmInv
  <2>3. /\ lpm'[socket'][family'] = RulesTo(i')
        /\ family' = "ipv4" => lpm'[socket']["ipv6"] = {}
        /\ family' = "ipv6" => lpm'[socket']["ipv4"] = RulesTo(LpmRoutes)
    <3> HIDE DEF new, own
    <3> QED
      BY <1>1, <1>5, <1>6 DEF Family
  <2>4. \A s \in Sockets, f \in Family : Ready(s)' => lpm'[s][f] = RulesTo(LpmRoutes)
    BY <1>1, <1>6 DEF TablesInv, LpmInv, Ready
  <2> QED
    BY <1>1, <1>7, <2>1, <2>2, <2>3, <2>4 DEF LpmInv
<1> QED
  BY <1>8, <1>9, <1>10 DEF TablesInv

LEMMA SetupTables ==
  ASSUME TablesInv, Setup
  PROVE  TablesInv'
<1> USE DEF options
<1>1. ASSUME NEW s \in Sockets, StartSocket(s) PROVE TablesInv'
  <2>1. /\ pc = "setup" /\ s \in todo /\ todo' = todo \ {s} /\ socket' = s
        /\ family' = FlowFamily /\ i' = 0
        /\ pc' = IF lpmOn THEN "lpm" ELSE "hash"
        /\ UNCHANGED <<options, tables>>
    BY <1>1 DEF StartSocket, FlowFamily
  <2>2. OptionsInv
    BY DEF TablesInv
  <2>3. OptionsInv'
    BY <2>1, <2>2, SizesTyped DEF OptionsInv, FlowFamily, Family, Flows, Few
  <2>4. KeysTo(0) = {} /\ RulesTo(0) = {}
    <3>1. enabled \subseteq Nat
      BY <2>2, RoutesAssumption DEF OptionsInv
    <3> QED
      BY <3>1 DEF KeysTo, RulesTo
  <2>5. /\ DOMAIN hash[s][FlowFamily] = {}
        /\ \A f \in Family : lpm[s][f] = {}
    BY <2>1 DEF TablesInv, HashInv, LpmInv
  <2>6. ASSUME NEW r \in Sockets, Ready(r)'
        PROVE  /\ ~lpmOn => DOMAIN hash[r][FlowFamily] = KeysTo(Flows)
               /\ lpmOn => \A f \in Family : lpm[r][f] = RulesTo(LpmRoutes)
    <3>1. Ready(r)
      BY <2>1, <2>6 DEF Ready
    <3> QED
      BY <2>1, <3>1 DEF TablesInv, HashInv, LpmInv
  <2>7. lpmOn => family' = "ipv4"
    BY <2>1, <2>2 DEF OptionsInv, FlowFamily
  <2>8. family' \in Family /\ "ipv6" \in Family
    BY <2>1 DEF FlowFamily, Family
  <2> QED
    BY <2>1, <2>3, <2>4, <2>5, <2>6, <2>7, <2>8, TablesKept
<1>2. CASE FlowsAdded
  <2>1. /\ pc = "hash" /\ i = Flows /\ pc' = "setup"
        /\ UNCHANGED <<options, tables, todo, socket, family, i>>
    BY <1>2 DEF FlowsAdded
  <2>2. OptionsInv' /\ ~lpmOn
    BY <2>1 DEF TablesInv, OptionsInv
  <2>3. ASSUME NEW r \in Sockets, Ready(r)'
        PROVE  DOMAIN hash[r][FlowFamily] = KeysTo(Flows)
    <3>1. CASE r = socket
      BY <2>1, <3>1 DEF TablesInv, HashInv
    <3>2. CASE r # socket
      BY <2>1, <2>2, <2>3, <3>2 DEF TablesInv, HashInv, Ready
    <3> QED
      BY <3>1, <3>2
  <2> QED
    BY <2>1, <2>2, <2>3, TablesKept
<1>3. CASE RulesAdded
  <2>1. /\ pc = "lpm" /\ i = LpmRoutes
        /\ UNCHANGED <<options, tables, todo, socket>>
    BY <1>3 DEF RulesAdded
  <2>2. /\ OptionsInv /\ lpmOn
        /\ lpm[socket][family] = RulesTo(LpmRoutes)
        /\ family = "ipv4" => lpm[socket]["ipv6"] = {}
        /\ family = "ipv6" => lpm[socket]["ipv4"] = RulesTo(LpmRoutes)
    BY <2>1 DEF TablesInv, OptionsInv, LpmInv
  <2>3. CASE family = "ipv4" /\ family' = "ipv6" /\ i' = 0 /\ pc' = pc
    <3>1. OptionsInv'
      BY <2>1, <2>2, <2>3, SizesTyped DEF OptionsInv, Family
    <3>2. RulesTo(0) = {}
      <4>1. enabled \subseteq Nat
        BY <2>2, RoutesAssumption DEF OptionsInv
      <4> QED
        BY <4>1 DEF RulesTo
    <3>3. ASSUME NEW r \in Sockets, Ready(r)'
          PROVE  \A f \in Family : lpm[r][f] = RulesTo(LpmRoutes)
      <4>1. Ready(r)
        BY <2>1, <2>3, <3>3 DEF Ready
      <4> QED
        BY <2>1, <2>2, <4>1 DEF TablesInv, LpmInv
    <3> QED
      BY <2>1, <2>2, <2>3, <3>1, <3>2, <3>3, TablesKept
  <2>4. CASE family = "ipv6" /\ pc' = "setup" /\ UNCHANGED <<family, i>>
    <3>1. OptionsInv'
      BY <2>1, <2>2, <2>4 DEF OptionsInv
    <3>2. ASSUME NEW r \in Sockets, Ready(r)', NEW f \in Family
          PROVE  lpm[r][f] = RulesTo(LpmRoutes)
      <4>1. CASE r = socket
        BY <2>2, <2>4, <4>1 DEF Family
      <4>2. CASE r # socket
        BY <2>1, <2>2, <3>2, <4>2 DEF TablesInv, LpmInv, Ready
      <4> QED
        BY <4>1, <4>2
    <3> QED
      BY <2>1, <2>2, <2>4, <3>1, <3>2, TablesKept
  <2> QED
    BY <1>3, <2>3, <2>4 DEF RulesAdded
<1>4. CASE SetupFails
  <2>1. /\ pc' = "exit"
        /\ UNCHANGED <<options, tables, todo, socket, family, i>>
    BY <1>4 DEF SetupFails
  <2>2. OptionsInv'
    BY <2>1 DEF TablesInv, OptionsInv
  <2> QED
    BY <2>1, <2>2, TablesKept
<1>5. CASE TablesReady
  <2>1. /\ pc = "setup" /\ pc' = "poll" /\ todo = {}
        /\ UNCHANGED <<options, tables, todo, socket, family, i>>
    BY <1>5 DEF TablesReady
  <2>2. OptionsInv'
    BY <2>1 DEF TablesInv, OptionsInv
  <2>3. ASSUME NEW r \in Sockets, Ready(r)'
        PROVE  /\ ~lpmOn => DOMAIN hash[r][FlowFamily] = KeysTo(Flows)
               /\ lpmOn => \A f \in Family : lpm[r][f] = RulesTo(LpmRoutes)
    <3>1. Ready(r)
      BY <2>1, <2>3 DEF Ready
    <3> QED
      BY <2>1, <3>1 DEF TablesInv, HashInv, LpmInv
  <2> QED
    BY <2>1, <2>2, <2>3, TablesKept
<1> QED
  BY <1>1, <1>2, <1>3, <1>4, <1>5, AddFlowTables, AddRuleTables DEF Setup

LEMMA NextTables ==
  ASSUME TablesInv, [Next]_vars
  PROVE  TablesInv'
<1>1. CASE Setup
  BY <1>1, SetupTables
<1>2. CASE Receive \/ ClassifyBatch \/ ClassifyOne \/ SendPackets \/ UNCHANGED vars
  <2>1. /\ UNCHANGED <<options, tables, todo, socket, family, i>>
        /\ pc' = pc \/ {pc, pc'} = {"poll", "classify"}
    BY <1>2
    DEF Receive, ClassifyBatch, ClassifyOne, SendPackets, vars, setupVars
  <2>2. pc' = pc \/ (pc \in {"poll", "classify"} /\ pc' \in {"poll", "classify"})
    BY <2>1
  <2>3. OptionsInv'
    BY <2>1, <2>2 DEF TablesInv, OptionsInv, options, FlowFamily, Flows, Few
  <2>4. ASSUME NEW r \in Sockets, Ready(r)', pc' # "exit"
        PROVE  /\ ~lpmOn => DOMAIN hash[r][FlowFamily] = KeysTo(Flows)
               /\ lpmOn => \A f \in Family : lpm[r][f] = RulesTo(LpmRoutes)
    <3>1. Ready(r) /\ pc # "exit"
      BY <2>1, <2>2, <2>4 DEF Ready
    <3> QED
      BY <3>1 DEF TablesInv, HashInv, LpmInv
  <2>5. pc' = "hash" => DOMAIN hash[socket'][FlowFamily] = KeysTo(i')
    BY <2>1, <2>2 DEF TablesInv, HashInv
  <2>6. pc' = "lpm" =>
           /\ lpm[socket'][family'] = RulesTo(i')
           /\ family' = "ipv4" => lpm[socket']["ipv6"] = {}
           /\ family' = "ipv6" => lpm[socket']["ipv4"] = RulesTo(LpmRoutes)
    BY <2>1, <2>2 DEF TablesInv, LpmInv
  <2> QED
    BY <2>1, <2>3, <2>4, <2>5, <2>6, TablesKept
<1> QED
  BY <1>1, <1>2 DEF Next, Finished

\* PlacesAgree of module Classify: a key leads to one port from the moment it
\* is added to the table of any socket, whatever is added later to any other.
THEOREM PlacesSettled == Spec => PlacesAgree
<1> DEFINE Kept == \A s \in Sockets, f \in Family : \A key \in DOMAIN hash[s][f] :
                     outIf'[f][hash'[s][f][key]] = outIf[f][hash[s][f][key]]
<1>1. ASSUME TablesInv, [Next]_vars PROVE [Kept]_vars
  <2>1. CASE AddFlow
    BY <1>1, <2>1, AddFlowTables
  <2>2. CASE ~AddFlow
    <3>1. UNCHANGED <<hash, outIf>>
      BY <1>1, <2>2
      DEF Next, Setup, StartSocket, FlowsAdded, AddRule, RulesAdded, SetupFails,
          TablesReady, Receive, ClassifyBatch, ClassifyOne, SendPackets, Finished,
          vars, setupVars, tables
    <3> QED
      BY <3>1
  <2> QED
    BY <2>1, <2>2
<1> QED
  BY <1>1, InitTables, NextTables, PTL DEF Spec, PlacesAgree

-----------------------------------------------------------------------------
(***************************************************************************)
(* The destination of one packet, from the type that is used for it.  A     *)
(* type is sound for a header if it lets the packet into the table of its   *)
(* family whenever a flow may be there, and into no other.                  *)
(***************************************************************************)
Plain(h, f) == h.ether = f /\ ~h.ext /\ h.proto \in {"tcp", "udp"}

Sound(t, h) ==
  /\ IsFlow(t, L3_IPV4) => h.ether = "ipv4" /\ ~h.ext
  /\ IsFlow(t, L3_IPV6) => h.ether = "ipv6"
  /\ Plain(h, "ipv4") => IsFlow(t, L3_IPV4)
  /\ Plain(h, "ipv6") => IsFlow(t, L3_IPV6)

Hidden(h) == hardware /\ ~lpmOn /\ h.ether = "ipv4" /\ h.ext

Routed(h, d) ==
  LET ports == RuledPorts(h)
      routable == h.ether # "other" /\ (lpmOn \/ (~h.ext /\ h.proto \in {"tcp", "udp"}))
  IN \/ Hidden(h)
     \/ IF ports # {} THEN d \in ports
        ELSE d \in {portid} \cup (IF build = "simple" /\ ~routable THEN {Freed} ELSE {})

LEMMA L4Device ==
  ASSUME NEW h, h.ether # "other"
  PROVE  \E l4 \in {{8}, {9}, {8, 10}} :
           DeviceType(h) = (CASE h.ether = "ipv4" -> IF h.ext THEN {4, 5} ELSE {4}
                              [] h.ether = "ipv6" -> IF h.ext THEN {6, 7} ELSE {6}
                              [] OTHER -> {}) \cup l4
<1> USE DEF DeviceType, L3_IPV4, L3_IPV4_EXT, L3_IPV6, L3_IPV6_EXT, L4_TCP, L4_UDP, L4_ICMP
<1>1. CASE h.proto = "tcp"
  BY <1>1, Zenon
<1>2. CASE h.proto # "tcp" /\ h.proto = "udp"
  BY <1>2, Zenon
<1>3. CASE h.proto # "tcp" /\ h.proto # "udp"
  BY <1>3, Zenon
<1> QED
  BY <1>1, <1>2, <1>3

\* The types of a device, one by one.
LEMMA DeviceTypes ==
  ASSUME NEW h \in Headers
  PROVE  \/ h.ether = "other" /\ DeviceType(h) = {}
         \/ \E l4 \in {{8}, {9}, {8, 10}} :
              \/ h.ether = "ipv4" /\ h.ext /\ DeviceType(h) = {4, 5} \cup l4
              \/ h.ether = "ipv4" /\ ~h.ext /\ DeviceType(h) = {4} \cup l4
              \/ h.ether = "ipv6" /\ h.ext /\ DeviceType(h) = {6, 7} \cup l4
              \/ h.ether = "ipv6" /\ ~h.ext /\ DeviceType(h) = {6} \cup l4
<1>1. h.ether \in {"ipv4", "ipv6", "other"} /\ h.ext \in BOOLEAN
  BY HeadersAssumption
<1>2. CASE h.ether = "other"
  <2>1. h.ether # "ipv4" /\ h.ether # "ipv6"
    BY <1>2
  <2> DEFINE l3 == CASE h.ether = "ipv4" -> IF h.ext THEN L3_IPV4_EXT ELSE L3_IPV4
                     [] h.ether = "ipv6" -> IF h.ext THEN L3_IPV6_EXT ELSE L3_IPV6
                     [] OTHER -> {}
  <2>2. l3 = {}
    BY <2>1, Zenon
  <2>3. DeviceType(h) = l3 \cup {}
    BY <1>2 DEF DeviceType
  <2> QED
    BY <1>2, <2>2, <2>3
<1>3. CASE h.ether # "other"
  <2>1. PICK l4 \in {{8}, {9}, {8, 10}} :
           DeviceType(h) = (CASE h.ether = "ipv4" -> IF h.ext THEN {4, 5} ELSE {4}
                              [] h.ether = "ipv6" -> IF h.ext THEN {6, 7} ELSE {6}
                              [] OTHER -> {}) \cup l4
    BY <1>3, L4Device
  <2>2. CASE h.ether = "ipv4"
    BY <1>1, <2>1, <2>2
  <2>3. CASE h.ether # "ipv4" /\ h.ether = "ipv6"
    BY <1>1, <2>1, <2>3
  <2> QED
    BY <1>1, <1>3, <2>2, <2>3
<1> QED
  BY <1>2, <1>3

\* The types of the parser for exact match, one by one.
LEMMA ParsedTypes ==
  ASSUME NEW h \in Headers
  PROVE  \/ h.ether = "other" /\ EmParse(h) = {}
         \/ h.ether = "ipv4" /\ h.ext /\ EmParse(h) = {4, 5}
         \/ h.ether = "ipv4" /\ ~h.ext /\ EmParse(h) = {4} \cup L4Type(h)
         \/ h.ether = "ipv6" /\ (h.ext \/ L4Type(h) = {}) /\ EmParse(h) = {5, 6, 7}
         \/ h.ether = "ipv6" /\ ~h.ext /\ EmParse(h) = {6} \cup L4Type(h)
<1> USE DEF EmParse, L3_IPV4, L3_IPV4_EXT, L3_IPV6, L3_IPV6_EXT_UNKNOWN
<1>1. h.ether \in {"ipv4", "ipv6", "other"} /\ h.ext \in BOOLEAN
  BY HeadersAssumption
<1>2. CASE h.ether = "ipv4" /\ h.ext
  BY <1>2, Zenon
<1>3. CASE h.ether = "ipv4" /\ ~h.ext
  BY <1>3, Zenon
<1>4. CASE h.ether # "ipv4" /\ h.ether = "ipv6" /\ (h.ext \/ L4Type(h) = {})
  BY <1>4, Zenon
<1>5. CASE h.ether # "ipv4" /\ h.ether = "ipv6" /\ ~(h.ext \/ L4Type(h) = {})
  BY <1>5, Zenon
<1>6. CASE h.ether # "ipv4" /\ h.ether # "ipv6" /\ h.ether = "other"
  BY <1>6, Zenon
<1> QED
  BY <1>1, <1>2, <1>3, <1>4, <1>5, <1>6

LEMMA PlainL4 ==
  ASSUME NEW h
  PROVE  /\ h.proto \in {"tcp", "udp"} => L4Type(h) \in {{8}, {9}}
         /\ h.proto \notin {"tcp", "udp"} => L4Type(h) = {}
<1>1. CASE h.proto = "tcp"
  BY <1>1, Zenon DEF L4Type, L4_TCP
<1>2. CASE h.proto # "tcp" /\ h.proto = "udp"
  <2>1. L4Type(h) = {9}
    BY <1>2, Zenon DEF L4Type, L4_UDP
  <2> QED
    BY <1>2, <2>1
<1>3. CASE h.proto # "tcp" /\ h.proto # "udp"
  BY <1>3, Zenon DEF L4Type
<1> QED
  BY <1>1, <1>2, <1>3

LEMMA TypeSound ==
  ASSUME NEW h \in Headers, ~lpmOn
  PROVE  Sound(Type(h), h)
<1> USE DEF Sound, Plain, IsFlow, L3_IPV4, L3_IPV6, L3_MASK, L4_TCP, L4_UDP, TCP_OR_UDP
<1>1. CASE hardware
  <2>1. Type(h) = DeviceType(h)
    BY <1>1 DEF Type
  <2> QED
    BY <2>1, DeviceTypes
<1>2. CASE ~hardware
  <2>1. Type(h) = EmParse(h)
    BY <1>2 DEF Type
  <2> QED
    BY <2>1, ParsedTypes, PlainL4
<1> QED
  BY <1>1, <1>2

\* The bits a batch has in common are sound for each of its packets, those
\* apart whose options they hide.
LEMMA CommonSound ==
  ASSUME NEW k \in 1 .. Batch, Lane(k) \in Headers, ~lpmOn, hardware,
         IsEmType(Common), ~Hidden(Lane(k))
  PROVE  Sound(Common, Lane(k))
<1> DEFINE h == Lane(k)
           t == Common
<1> USE DEF Plain, IsFlow, L3_IPV4, L3_IPV6, L3_MASK, L4_TCP, L4_UDP, TCP_OR_UDP
<1>1. \A b \in t : b \in DeviceType(h)
  BY DEF Common, Type
<1>2. ~(h.ether = "ipv4" /\ h.ext)
  BY DEF Hidden
<1>3. t \cap {8, 9} # {} /\ (t \cap (4 .. 7) = {4} \/ t \cap (4 .. 7) = {6})
  BY DEF IsEmType
<1> HIDE DEF h, t
<1>4. h \in Headers
  BY DEF h
<1>5. Sound(t, h)
  BY <1>1, <1>2, <1>3, <1>4, DeviceTypes DEF Sound
<1> QED
  BY <1>5 DEF h, t

-----------------------------------------------------------------------------
LEMMA PollReady ==
  ASSUME TablesInv, pc = "classify", lsocket \in Sockets
  PROVE  Ready(lsocket)
BY DEF TablesInv, OptionsInv, Ready

\* A key in the table of the flows leads to the port of its flow, and there is
\* one flow of that key.
LEMMA HashFinds ==
  ASSUME TablesInv, pc = "classify", lsocket \in Sockets, ~lpmOn,
         NEW f \in Family, NEW h
  PROVE  \/ /\ HashPort(f, h) = portid
            /\ ~ \E n \in 0 .. (Flows - 1) : f = FlowFamily /\ h.key = FlowKey(f, n)
         \/ \E n \in 0 .. (Flows - 1) :
              /\ f = FlowFamily /\ h.key = FlowKey(f, n) /\ HashPort(f, h) = FlowOut(n)
              /\ \A m \in 0 .. (Flows - 1) : h.key = FlowKey(f, m) => m = n
<1> DEFINE places == hash[lsocket][f]
<1>1. f = FlowFamily => DOMAIN places = KeysTo(Flows)
  BY PollReady DEF TablesInv, HashInv
<1>2. entries \in Entries
  BY DEF TablesInv, OptionsInv
<1>3. CASE h.key \in DOMAIN places
  <2>1. PICK n \in 0 .. (Flows - 1) : /\ f = FlowFamily
                                      /\ h.key = FlowKey(f, n)
                                      /\ places[h.key] = n
                                      /\ outIf[f][n] = FlowOut(n)
    BY <1>3 DEF TablesInv, HashInv
  <2>2. HashPort(f, h) = FlowOut(n)
    BY <1>3, <2>1 DEF HashPort
  <2>3. \A m \in 0 .. (Flows - 1) : h.key = FlowKey(f, m) => m = n
    BY <1>2, <2>1, KeyDistinct
  <2> QED
    BY <2>1, <2>2, <2>3
<1>4. CASE h.key \notin DOMAIN places
  <2>1. HashPort(f, h) = portid
    BY <1>4 DEF HashPort
  <2>2. ASSUME NEW n \in 0 .. (Flows - 1), f = FlowFamily, h.key = FlowKey(f, n)
        PROVE  FALSE
    BY <1>1, <1>4, <2>2 DEF KeysTo
  <2> QED
    BY <2>1, <2>2
<1> QED
  BY <1>3, <1>4

\* The first field of a key is the protocol of the flows of its family.
LEMMA KeyProto ==
  ASSUME NEW f, NEW n
  PROVE  FlowKey(f, n)[1] = Proto(f) /\ Proto(f) \in {"tcp", "udp"}
BY DEF FlowKey, Key, Proto

\* A header of a family without a flow, or with options, has no ports.
LEMMA EmLooked ==
  ASSUME TablesInv, pc = "classify", lsocket \in Sockets, ~lpmOn,
         portid \in enabled, NEW f \in Family, NEW h \in Headers,
         h.ether = f, h.ether = "ipv4" => ~h.ext
  PROVE  LET d == IfEnabled(HashPort(f, h))
         IN IF RuledPorts(h) # {} THEN d \in RuledPorts(h) ELSE d = portid
<1> DEFINE d == IfEnabled(HashPort(f, h))
           own == {n \in 0 .. (Flows - 1) :
                     h.ether = FlowFamily /\ h.proto = Proto(FlowFamily) /\ ~h.ext
                       /\ h.key = FlowKey(FlowFamily, n)}
<1>1. RuledPorts(h) = {FlowOut(n) : n \in own} \cap enabled
  BY DEF RuledPorts, FlowFamily
<1>2. enabled \subseteq Ports
  BY ClassifyAssumption DEF TablesInv, OptionsInv, Ports
<1>3. /\ h.ether \in {"ipv4", "ipv6", "other"} /\ h.ext \in BOOLEAN
      /\ ~h.ext => h.key[1] = h.proto
      /\ h.ext => h.key[1] \notin {"tcp", "udp"}
  <2>1. f \in {"ipv4", "ipv6"}
    BY DEF Family
  <2> QED
    BY <2>1, HeadersAssumption
<1>4. CASE ~ \E n \in 0 .. (Flows - 1) : f = FlowFamily /\ h.key = FlowKey(f, n)
  <2>1. HashPort(f, h) = portid
    BY <1>4, HashFinds
  <2>2. d = portid
    BY <2>1 DEF IfEnabled
  <2>3. own = {}
    BY <1>4
  <2>4. RuledPorts(h) = {}
    BY <1>1, <2>3
  <2> QED
    BY <2>2, <2>4
<1>5. CASE \E n \in 0 .. (Flows - 1) : f = FlowFamily /\ h.key = FlowKey(f, n)
  <2>1. PICK n \in 0 .. (Flows - 1) :
          /\ f = FlowFamily /\ h.key = FlowKey(f, n) /\ HashPort(f, h) = FlowOut(n)
          /\ \A m \in 0 .. (Flows - 1) : h.key = FlowKey(f, m) => m = n
    BY <1>5, HashFinds
  <2>2. ~h.ext /\ h.proto = Proto(f)
    BY <1>3, <2>1, KeyProto
  <2>3. own = {n}
    BY <2>1, <2>2
  <2>4. RuledPorts(h) = {FlowOut(n)} \cap enabled
    <3> HIDE DEF own
    <3> QED
      BY <1>1, <2>3
  <2> QED
    BY <1>2, <2>1, <2>4 DEF IfEnabled
<1> QED
  BY <1>4, <1>5

LEMMA EmRouted ==
  ASSUME TablesInv, pc = "classify", lsocket \in Sockets, ~lpmOn,
         portid \in enabled, NEW h \in Headers, NEW t, Sound(t, h)
  PROVE  Routed(h, EmPort(t, h))
<1>1. "ipv4" \in Family /\ "ipv6" \in Family
  BY DEF Family
<1>2. CASE IsFlow(t, L3_IPV4)
  <2>1. h.ether = "ipv4" /\ ~h.ext
    BY <1>2 DEF Sound
  <2>2. EmPort(t, h) = IfEnabled(HashPort("ipv4", h))
    BY <1>2 DEF EmPort
  <2> QED
    BY <1>1, <2>1, <2>2, EmLooked DEF Routed
<1>3. CASE ~IsFlow(t, L3_IPV4) /\ IsFlow(t, L3_IPV6)
  <2>1. h.ether = "ipv6"
    BY <1>3 DEF Sound
  <2>2. EmPort(t, h) = IfEnabled(HashPort("ipv6", h))
    BY <1>3 DEF EmPort
  <2>3. h.ether = "ipv4" => ~h.ext
    BY <2>1
  <2> QED
    BY <1>1, <2>1, <2>2, <2>3, EmLooked DEF Routed
<1>4. CASE ~IsFlow(t, L3_IPV4) /\ ~IsFlow(t, L3_IPV6)
  <2>1. EmPort(t, h) = Unrouted
    BY <1>4 DEF EmPort
  <2>2. ~Plain(h, "ipv4") /\ ~Plain(h, "ipv6")
    BY <1>4 DEF Sound
  <2>3. RuledPorts(h) = {}
    <3>1. FlowFamily \in {"ipv4", "ipv6"} /\ Proto(FlowFamily) \in {"tcp", "udp"}
      BY KeyProto DEF FlowFamily
    <3>2. ~(h.ether = FlowFamily /\ h.proto = Proto(FlowFamily) /\ ~h.ext)
      BY <2>2, <3>1 DEF Plain
    <3> QED
      BY <3>2 DEF RuledPorts, FlowFamily
  <2>4. ~(h.ether # "other" /\ ~h.ext /\ h.proto \in {"tcp", "udp"})
    BY <2>2, HeadersAssumption DEF Plain
  <2> QED
    BY <2>1, <2>3, <2>4 DEF Routed, Unrouted
<1> QED
  BY <1>2, <1>3, <1>4

-----------------------------------------------------------------------------
\* With LPM a type tells the family, whoever sets it.
LEMMA LpmTypes ==
  ASSUME NEW h \in Headers, lpmOn
  PROVE  /\ Type(h) \cap L3_IPV4 # {} <=> h.ether = "ipv4"
         /\ Type(h) \cap L3_IPV6 # {} <=> h.ether = "ipv6"
<1> USE DEF L3_IPV4, L3_IPV6, L3_IPV4_EXT_UNKNOWN, L3_IPV6_EXT_UNKNOWN
<1>1. CASE hardware
  <2>1. Type(h) = DeviceType(h)
    BY <1>1 DEF Type
  <2> QED
    BY <2>1, DeviceTypes
<1>2. CASE ~hardware
  <2>1. Type(h) = LpmParse(h)
    BY <1>2 DEF Type
  <2>2. h.ether \in {"ipv4", "ipv6", "other"}
    BY HeadersAssumption
  <2>3. CASE h.ether = "ipv4"
    <3>1. LpmParse(h) = {4, 7}
      BY <2>3, Zenon DEF LpmParse
    <3> QED
      BY <2>1, <2>3, <3>1
  <2>4. CASE h.ether # "ipv4" /\ h.ether = "ipv6"
    <3>1. LpmParse(h) = {5, 6, 7}
      BY <2>4, Zenon DEF LpmParse
    <3> QED
      BY <2>1, <2>4, <3>1
  <2>5. CASE h.ether # "ipv4" /\ h.ether # "ipv6"
    <3>1. LpmParse(h) = {}
      BY <2>5, Zenon DEF LpmParse
    <3> QED
      BY <2>1, <2>5, <3>1
  <2> QED
    BY <2>2, <2>3, <2>4, <2>5
<1> QED
  BY <1>1, <1>2

\* The rule of a prefix, if it leads to an enabled port, is the one found.
LEMMA LpmLooked ==
  ASSUME TablesInv, pc = "classify", lsocket \in Sockets, lpmOn,
         NEW f \in Family, NEW h, h.ether = f
  PROVE  IF RuledPorts(h) # {}
         THEN LpmPort(f, h) \in RuledPorts(h) ELSE LpmPort(f, h) = portid
<1> DEFINE rules == {r \in lpm[lsocket][f] : r.prefix = h.key[2]}
           hops == {r.hop : r \in rules}
<1>1. lpm[lsocket][f] = RulesTo(LpmRoutes)
  BY PollReady DEF TablesInv, LpmInv
<1>2. f # "other"
  BY DEF Family
<1>3. RuledPorts(h) = {n \in enabled : n < LpmRoutes /\ h.key[2] = n}
  BY <1>2 DEF RuledPorts
<1>4. hops = RuledPorts(h)
  <2>1. ASSUME NEW n \in hops PROVE n \in RuledPorts(h)
    BY <1>1, <1>3, <2>1 DEF RulesTo
  <2>2. ASSUME NEW n \in RuledPorts(h) PROVE n \in hops
    <3>1. [prefix |-> n, hop |-> n] \in rules
      BY <1>1, <1>3, <2>2 DEF RulesTo
    <3> HIDE DEF rules
    <3> QED
      BY <3>1
  <2> QED
    BY <2>1, <2>2
<1>5. LpmPort(f, h) = IF hops = {} THEN portid ELSE CHOOSE p \in hops : TRUE
  BY DEF LpmPort
<1>6. hops # {} => (CHOOSE p \in hops : TRUE) \in hops
  <2> HIDE DEF hops
  <2> QED
    OBVIOUS
<1> HIDE DEF hops
<1> QED
  BY <1>4, <1>5, <1>6

LEMMA LpmRouted ==
  ASSUME TablesInv, pc = "classify", lsocket \in Sockets, lpmOn,
         portid \in enabled, NEW h \in Headers
  PROVE  Routed(h, LpmPortOf(Type(h), h))
<1> DEFINE found == LpmFound(Type(h), h)
           to == LpmPortOf(Type(h), h)
<1>1. enabled \subseteq Ports /\ Ports \subseteq Nat
  BY ClassifyAssumption DEF TablesInv, OptionsInv, Ports
<1>2. RuledPorts(h) \subseteq enabled
  BY DEF RuledPorts
<1>3. h.ether \in {"ipv4", "ipv6", "other"} /\ "ipv4" \in Family /\ "ipv6" \in Family
  BY HeadersAssumption DEF Family
<1>4. CASE h.ether \in Family
  <2>1. found = LpmPort(h.ether, h)
    BY <1>4, LpmTypes DEF LpmFound, Family
  <2>2. IF RuledPorts(h) # {} THEN found \in RuledPorts(h) ELSE found = portid
    BY <1>4, <2>1, LpmLooked
  <2>3. found \in enabled
    BY <1>2, <2>2
  <2>4. to = found
    <3> HIDE DEF found
    <3>1. to = IF build = "simple" /\ found # Freed THEN IfEnabled(found) ELSE found
      BY DEF LpmPortOf, found
    <3> QED
      BY <1>1, <2>3, <3>1 DEF IfEnabled
  <2> HIDE DEF found, to
  <2>5. Routed(h, to)
    BY <2>2, <2>4 DEF Routed
  <2> QED
    BY <2>5 DEF to
<1>5. CASE h.ether = "other"
  <2>1. found = Unrouted
    BY <1>5, LpmTypes DEF LpmFound
  <2>2. RuledPorts(h) = {}
    BY <1>5 DEF RuledPorts
  <2>3. to = Unrouted
    <3> HIDE DEF found
    <3>1. to = IF build = "simple" /\ found # Freed THEN IfEnabled(found) ELSE found
      BY DEF LpmPortOf, found
    <3> QED
      BY <2>1, <3>1 DEF Unrouted
  <2> HIDE DEF found, to
  <2>4. Routed(h, to)
    BY <1>5, <2>2, <2>3 DEF Routed, Unrouted
  <2> QED
    BY <2>4 DEF to
<1> QED
  BY <1>3, <1>4, <1>5 DEF Family

\* A packet that is classified alone.
LEMMA AloneRouted ==
  ASSUME TablesInv, pc = "classify", lsocket \in Sockets, portid \in enabled,
         NEW h \in Headers
  PROVE  Routed(h, DstPort(Type(h), h))
<1>1. CASE lpmOn
  BY <1>1, LpmRouted DEF DstPort
<1>2. CASE ~lpmOn
  BY <1>2, TypeSound, EmRouted DEF DstPort
<1> QED
  BY <1>1, <1>2

\* A packet that is classified with its batch.
LEMMA BatchRouted ==
  ASSUME TablesInv, pc = "classify", lsocket \in Sockets, portid \in enabled,
         NEW k \in 1 .. Batch, Lane(k) \in Headers
  PROVE  Routed(Lane(k), DstPort(LaneType(k), Lane(k)))
<1>1. CASE lpmOn \/ ~hardware \/ ~OneTable
  <2>1. DstPort(LaneType(k), Lane(k)) = DstPort(Type(Lane(k)), Lane(k))
    BY <1>1, BatchAgrees DEF LaneType
  <2> QED
    BY <2>1, AloneRouted
<1>2. CASE ~lpmOn /\ hardware /\ OneTable
  <2>1. CASE Hidden(Lane(k))
    BY <2>1 DEF Routed
  <2>2. CASE ~Hidden(Lane(k))
    <3>1. LaneType(k) = Common /\ IsEmType(Common)
      BY <1>2 DEF LaneType, OneTable
    <3>2. Sound(Common, Lane(k))
      BY <1>2, <2>2, <3>1, CommonSound
    <3>3. DstPort(Common, Lane(k)) = EmPort(Common, Lane(k))
      BY <1>2 DEF DstPort
    <3> QED
      BY <1>2, <3>1, <3>2, <3>3, EmRouted
  <2> QED
    BY <2>1, <2>2
<1> QED
  BY <1>1, <1>2

-----------------------------------------------------------------------------
(***************************************************************************)
(* The burst.  While batches are left, j is at the start of one, so that a  *)
(* batch never reaches past the burst; what is classified is routed.        *)
(***************************************************************************)
BurstInv ==
  /\ burst \in Seq(Headers)
  /\ j \in 0 .. Nb
  /\ Len(dst) = j
  /\ build = "bulk" /\ j < Aligned => \E m \in Nat : j = m * Batch
  /\ pc # "classify" => j = 0 /\ dst = <<>>
  /\ \A k \in 1 .. j : Routed(burst[k], dst[k])

LEMMA InitBurst == Init => BurstInv
<1> SUFFICES ASSUME Init PROVE BurstInv
  OBVIOUS
<1>1. burst = <<>> /\ j = 0 /\ dst = <<>>
  BY DEF Init
<1>2. 0 = 0 * Batch /\ 0 \in Nat
  BY ClassifyAssumption
<1> QED
  BY <1>1, <1>2 DEF BurstInv, Nb

\* The batch at j lies within the burst.
LEMMA BatchFits ==
  ASSUME BurstInv, build = "bulk", j < Aligned
  PROVE  /\ j + Batch <= Nb
         /\ \E m \in Nat : j + Batch = m * Batch
<1>1. PICK m \in Nat : j = m * Batch
  BY DEF BurstInv
<1> DEFINE q == Nb \div Batch
<1>2. Batch \in Nat \ {0} /\ Nb \in Nat /\ j \in Nat
  BY ClassifyAssumption DEF BurstInv, Nb
<1>3. q \in Nat /\ Nb = Batch * q + (Nb % Batch) /\ Nb % Batch \in Nat
  BY <1>2, DivMod
<1>4. Aligned = q * Batch
  BY DEF Aligned
<1> HIDE DEF q
<1>5. m < q
  <2>1. CASE q <= m
    <3>1. PICK d \in Nat : m = q + d
      BY <1>3, <2>1
    <3>2. m * Batch = q * Batch + d * Batch
      BY <1>2, <1>3, <3>1
    <3>3. d * Batch \in Nat /\ q * Batch \in Nat
      BY <1>2, <1>3
    <3> QED
      BY <1>1, <1>4, <3>2, <3>3
  <2> QED
    BY <1>3, <2>1
<1>6. Batch * m + Batch <= Batch * q
  BY <1>2, <1>3, <1>5, Times
<1>7. j + Batch = (m + 1) * Batch
  BY <1>1, <1>2
<1>8. Batch * m = j /\ Batch * q \in Nat
  BY <1>1, <1>2, <1>3
<1>9. j + Batch <= Nb
  BY <1>2, <1>3, <1>6, <1>8
<1>10. m + 1 \in Nat
  OBVIOUS
<1> QED
  BY <1>7, <1>9, <1>10

LEMMA AlignedTyped ==
  ASSUME burst \in Seq(Headers)
  PROVE  Aligned \in Nat
<1> DEFINE q == Nb \div Batch
<1>1. q \in Nat /\ Batch \in Nat
  <2>1. Nb \in Nat /\ Batch \in Nat \ {0}
    BY ClassifyAssumption DEF Nb
  <2> QED
    BY <2>1, DivMod
<1>2. Aligned = q * Batch
  BY DEF Aligned
<1> HIDE DEF q
<1> QED
  BY <1>1, <1>2

LEMMA Joined ==
  ASSUME NEW S, NEW s \in Seq(S), NEW t \in Seq(S)
  PROVE  /\ Len(s \o t) = Len(s) + Len(t)
         /\ \A k \in 1 .. Len(s) : (s \o t)[k] = s[k]
         /\ \A k \in 1 .. Len(t) : (s \o t)[Len(s) + k] = t[k]
OBVIOUS

\* Nothing of a burst changes while it is classified but j and dst.
LEMMA RoutedKept ==
  ASSUME UNCHANGED <<setupVars, build, burstVars>>, NEW h, NEW d
  PROVE  Routed(h, d)' <=> Routed(h, d)
BY DEF Routed, RuledPorts, Hidden, Flows, Few, FlowKey, FlowOut, RouteOf,
       setupVars, options, burstVars

LEMMA NextBurst ==
  ASSUME EnabledInv, TablesInv, BurstInv, [Next]_vars
  PROVE  BurstInv'
<1>0. Batch \in Nat \ {0} /\ Nb \in Nat /\ j \in Nat /\ dst \in Seq(Hops)
      /\ lsocket \in Sockets
  BY ClassifyAssumption DEF BurstInv, EnabledInv, Nb
<1>1. CASE Setup /\ UNCHANGED <<build, burstVars, j, dst>>
  <2>1. pc # "classify" /\ pc' # "classify"
    BY <1>1
    DEF Setup, StartSocket, AddFlow, FlowsAdded, AddRule, RulesAdded, SetupFails, TablesReady
  <2>2. j = 0 /\ dst = <<>> /\ j' = 0 /\ dst' = <<>> /\ burst' = burst /\ build' = build
    BY <1>1, <2>1 DEF BurstInv, burstVars
  <2>3. 0 = 0 * Batch /\ 0 \in Nat
    BY <1>0
  <2> QED
    BY <2>2, <2>3 DEF BurstInv, Nb, Aligned
<1>2. CASE Receive
  <2>1. j = 0 /\ dst = <<>> /\ j' = 0 /\ dst' = <<>> /\ pc' = "classify"
    BY <1>2 DEF Receive, BurstInv
  <2>2. burst' \in Seq(Headers)
    BY <1>2 DEF Receive, BoundedSeq, SeqOf
  <2>3. 0 = 0 * Batch /\ 0 \in Nat
    BY <1>0
  <2> QED
    BY <2>1, <2>2, <2>3 DEF BurstInv, Nb
<1>3. CASE ClassifyBatch
  <2> DEFINE more == [k \in 1 .. Batch |-> DstPort(LaneType(k), Lane(k))]
  <2>1. /\ pc = "classify" /\ build = "bulk" /\ j < Aligned
        /\ dst' = dst \o more /\ j' = j + Batch
        /\ UNCHANGED <<setupVars, build, burstVars>>
    BY <1>3 DEF ClassifyBatch
  <2>2. j + Batch <= Nb /\ \E m \in Nat : j + Batch = m * Batch
    BY <2>1, BatchFits
  <2>3. portid \in enabled
    BY <2>1 DEF EnabledInv
  <2>4. ASSUME NEW k \in 1 .. Batch PROVE Routed(Lane(k), more[k])
    <3>1. j + k \in 1 .. Nb
      BY <1>0, <2>2
    <3>2. Lane(k) \in Headers
      BY <3>1 DEF Lane, BurstInv, Nb
    <3> QED
      BY <1>0, <2>1, <2>3, <3>2, BatchRouted
  <2>5. more \in Seq(Hops) /\ Len(more) = Batch
    <3>1. \A k \in 1 .. Batch : DstPort(LaneType(k), Lane(k)) \in Hops
      BY <2>3, DstHop
    <3> QED
      BY <1>0, <3>1
  <2> HIDE DEF more
  <2>6. /\ Len(dst') = j'
        /\ \A k \in 1 .. j : dst'[k] = dst[k]
        /\ \A k \in 1 .. Batch : dst'[j + k] = more[k]
    <3>1. Len(dst) = j
      BY DEF BurstInv
    <3>2. /\ Len(dst \o more) = j + Batch
          /\ \A k \in 1 .. j : (dst \o more)[k] = dst[k]
          /\ \A k \in 1 .. Batch : (dst \o more)[j + k] = more[k]
      <4>1. dst \in Seq(Hops) /\ more \in Seq(Hops) /\ Len(more) = Batch
        BY <1>0, <2>5
      <4>2. Len(dst \o more) = Len(dst) + Len(more)
        BY <4>1, Joined, Zenon
      <4>3. \A k \in 1 .. Len(dst) : (dst \o more)[k] = dst[k]
        BY <4>1, Joined, Zenon
      <4>4. \A k \in 1 .. Len(more) : (dst \o more)[Len(dst) + k] = more[k]
        BY <4>1, Joined, SMT
      <4> QED
        BY <3>1, <4>1, <4>2, <4>3, <4>4, Zenon
    <3> QED
      BY <2>1, <3>2
  <2>7. ASSUME NEW k \in 1 .. j' PROVE Routed(burst[k], dst'[k])
    <3>0. k \in Nat /\ j \in Nat
      BY <1>0, <2>1
    <3>1. CASE k <= j
      <4>1. k \in 1 .. j
        BY <1>0, <2>1, <3>1
      <4> QED
        BY <2>6, <4>1 DEF BurstInv
    <3>2. CASE k > j
      <4>1. k - j \in 1 .. Batch /\ j + (k - j) = k
        BY <1>0, <2>1, <3>2
      <4>2. Routed(burst[j + (k - j)], more[k - j])
        BY <2>4, <4>1 DEF Lane
      <4> QED
        BY <2>6, <4>1, <4>2
    <3> QED
      BY <3>0, <3>1, <3>2
  <2>8. \A k \in 1 .. j' : Routed(burst[k], dst[k])'
    <3>1. burst' = burst
      BY <2>1 DEF burstVars
    <3>2. \A h, d : Routed(h, d) => Routed(h, d)'
      BY <2>1, RoutedKept
    <3> QED
      BY <2>7, <3>1, <3>2
  <2>9. burst' = burst /\ build' = build /\ pc' = pc
    BY <2>1 DEF burstVars, setupVars
  <2>10. j' \in 0 .. Nb /\ \E m \in Nat : j' = m * Batch
    <3>1. j' = j + Batch /\ j \in Nat /\ Batch \in Nat /\ Nb \in Nat
      BY <1>0, <2>1
    <3>2. j' \in 0 .. Nb
      BY <2>2, <3>1
    <3> QED
      BY <2>2, <3>1, <3>2, Zenon
  <2>11. Nb' = Nb /\ burst' \in Seq(Headers) /\ pc' = "classify"
    BY <2>1, <2>9 DEF Nb, BurstInv
  <2> QED
    BY <2>6, <2>8, <2>10, <2>11 DEF BurstInv
<1>4. CASE ClassifyOne
  <2> DEFINE d == DstPort(Type(Lane(1)), Lane(1))
  <2>1. /\ pc = "classify" /\ (build = "bulk" => j >= Aligned) /\ j < Nb
        /\ dst' = Append(dst, d) /\ j' = j + 1
        /\ UNCHANGED <<setupVars, build, burstVars>>
    BY <1>4 DEF ClassifyOne
  <2>2. portid \in enabled
    BY <2>1 DEF EnabledInv
  <2>3. Routed(burst[j + 1], d) /\ d \in Hops
    <3>1. Lane(1) \in Headers
      BY <1>0, <2>1 DEF Lane, BurstInv, Nb
    <3>2. Routed(Lane(1), d)
      BY <1>0, <2>1, <2>2, <3>1, AloneRouted
    <3> QED
      BY <2>2, <3>2, DstHop DEF Lane
  <2> HIDE DEF d
  <2>4. /\ Len(dst') = j'
        /\ \A k \in 1 .. j : dst'[k] = dst[k]
        /\ dst'[j + 1] = d
    BY <1>0, <2>1, <2>3 DEF BurstInv
  <2>5. \A k \in 1 .. j' : Routed(burst[k], dst'[k])
    <3>1. \A k \in 1 .. j' : k \in 1 .. j \/ k = j + 1
      BY <1>0, <2>1
    <3> QED
      BY <2>3, <2>4, <3>1 DEF BurstInv
  <2>6. burst' = burst /\ build' = build /\ pc' = pc
    BY <2>1 DEF burstVars, setupVars
  <2>7. \A k \in 1 .. j' : Routed(burst[k], dst[k])'
    <3>1. \A h, e : Routed(h, e) => Routed(h, e)'
      BY <2>1, RoutedKept
    <3> QED
      BY <2>5, <2>6, <3>1
  <2>8. build = "bulk" => ~(j + 1 < Aligned)
    <3>1. Aligned \in Nat
      BY AlignedTyped DEF BurstInv
    <3> QED
      BY <1>0, <2>1, <3>1
  <2> QED
    BY <1>0, <2>1, <2>4, <2>6, <2>7, <2>8 DEF BurstInv, Nb, Aligned
<1>5. CASE SendPackets
  <2>1. j' = 0 /\ dst' = <<>> /\ burst' = <<>> /\ build' = build
    BY <1>5 DEF SendPackets
  <2>2. 0 = 0 * Batch /\ 0 \in Nat
    BY <1>0
  <2> QED
    BY <2>1, <2>2 DEF BurstInv, Nb
<1>6. CASE UNCHANGED vars
  <2>1. UNCHANGED <<setupVars, build, burstVars>> /\ j' = j /\ dst' = dst
    BY <1>6 DEF vars
  <2>2. burst' = burst /\ build' = build /\ pc' = pc
    BY <2>1 DEF burstVars, setupVars
  <2>3. \A k \in 1 .. j' : Routed(burst[k], dst[k])'
    <3>1. \A h, e : Routed(h, e) => Routed(h, e)'
      BY <2>1, RoutedKept
    <3> QED
      BY <2>1, <2>2, <3>1 DEF BurstInv
  <2> QED
    BY <2>1, <2>2, <2>3 DEF BurstInv, Nb, Aligned
<1> QED
  BY <1>1, <1>2, <1>3, <1>4, <1>5, <1>6 DEF Next, Finished

\* RoutedByRule of module Classify: whichever flows or rules there are, on
\* whatever socket, in whatever build, batch and burst, and whoever sets the
\* packet types, a packet leaves on the port of its rule.
THEOREM RoutedRight == Spec => []RoutedByRule
<1>1. BurstInv => RoutedByRule
  BY DEF BurstInv, RoutedByRule, Classified, Routed, Hidden
<1>2. Init => EnabledInv /\ TablesInv /\ BurstInv
  BY InitEnabled, InitTables, InitBurst
<1>3. EnabledInv /\ TablesInv /\ BurstInv /\ [Next]_vars
        => (EnabledInv /\ TablesInv /\ BurstInv)'
  BY NextEnabled, NextTables, NextBurst
<1> QED
  BY <1>1, <1>2, <1>3, PTL DEF Spec
=============================================================================
