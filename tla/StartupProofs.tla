---------------------------- MODULE StartupProofs ----------------------------
(***************************************************************************)
(* That start-up partitions the queues, for any --config, port mask, set of *)
(* lcores and sizes.  Both partitions rest on counting: an id or a place is *)
(* the number of those before it, and such ranks are without gaps and       *)
(* without repetition.  Then the pools: what suffices for MbufsSuffice.     *)
(***************************************************************************)
EXTENDS Startup, TLAPS, FiniteSetTheorems

Below(S, x) == {y \in S : y < x}
Rank(S, x) == Cardinality(Below(S, x))

LEMMA RankInRange ==
  ASSUME NEW S \in SUBSET Nat, IsFiniteSet(S), NEW x \in S
  PROVE  /\ Rank(S, x) \in Nat
         /\ Rank(S, x) < Cardinality(S)
<1>1. Below(S, x) \in SUBSET S /\ x \in S /\ x \notin Below(S, x)
  BY DEF Below
<1>2. Rank(S, x) \in Nat /\ Rank(S, x) <= Cardinality(S) /\ Cardinality(S) # Rank(S, x)
  BY <1>1, FS_Subset, FS_CardinalityType, Zenon DEF Rank
<1> QED
  BY <1>2, FS_CardinalityType

LEMMA RankIncreases ==
  ASSUME NEW S \in SUBSET Nat, IsFiniteSet(S), NEW x \in S, NEW y \in S, x < y
  PROVE  Rank(S, x) < Rank(S, y)
<1> DEFINE T == Below(S, y)
<1>1. T \in SUBSET S /\ IsFiniteSet(T)
  BY FS_Subset DEF Below
<1>2. x \in T /\ T \in SUBSET Nat
  BY DEF Below
<1>3. \A z \in S : z < x => z < y
  OBVIOUS
<1>4. Below(T, x) = Below(S, x)
  BY <1>3 DEF Below
<1>5. Rank(T, x) < Cardinality(T)
  BY <1>1, <1>2, RankInRange
<1> QED
  BY <1>4, <1>5 DEF Rank

LEMMA RankDistinct ==
  ASSUME NEW S \in SUBSET Nat, IsFiniteSet(S), NEW x \in S, NEW y \in S, x # y
  PROVE  Rank(S, x) # Rank(S, y)
<1>1. CASE x < y
  BY <1>1, RankIncreases, RankInRange
<1>2. CASE y < x
  BY <1>2, RankIncreases, RankInRange
<1> QED
  BY <1>1, <1>2

\* Every number below the size of the set is the rank of an element.
LEMMA RankReached ==
  ASSUME NEW S \in SUBSET Nat, IsFiniteSet(S), NEW r \in 0 .. (Cardinality(S) - 1)
  PROVE  \E x \in S : Rank(S, x) = r
<1> DEFINE c == Cardinality(S)
           T == 0 .. (c - 1)
           f == [x \in S |-> Rank(S, x)]
<1>1. c \in Nat
  BY FS_CardinalityType
<1>2. f \in [S -> T]
  BY <1>1, RankInRange
<1>3. \A x, y \in S : f[x] = f[y] => x = y
  BY RankDistinct
<1>4. f \in Injection(S, T)
  BY <1>2, <1>3 DEF Injection, IsInjective
<1>5. IsFiniteSet(T) /\ Cardinality(T) = c
  <2>1. c - 1 \in Int
    BY <1>1
  <2>2. IsFiniteSet(T) /\ Cardinality(T) = IF 0 > c - 1 THEN 0 ELSE c - 1 - 0 + 1
    BY <2>1, FS_Interval
  <2> QED
    BY <1>1, <2>2
<1>6. f \in Surjection(S, T)
  <2> HIDE DEF f, T, c
  <2> QED
    BY <1>4, <1>5, FS_Injection DEF c
<1>7. PICK x \in S : f[x] = r
  BY <1>6 DEF Surjection
<1> QED
  BY <1>7

-----------------------------------------------------------------------------
(***************************************************************************)
(* The inductive invariant.  The params taken so far lie in the lists of    *)
(* their lcores, each at the place that is its rank among those of the same *)
(* lcore (QueuesPlaced).  The ports initialised so far are configured with  *)
(* what the params and the number of lcores say (PortsConfigured).          *)
(***************************************************************************)
Param == [port : Nat, queue : Nat, lcore : Nat]
Entry == [port : Nat, queue : Nat]

Taken == IF pc = "check" THEN 0 ELSE IF pc = "queues" THEN i ELSE Len(params)
OfLcore(l, n) == {m \in 1 .. n : params[m].lcore = l}
Place(n) == Cardinality(OfLcore(params[n].lcore, n))
EntryOf(n) == [port |-> params[n].port, queue |-> params[n].queue]

Initialised(p) ==
  /\ InSequence(p)
  /\ SocketsUsed \subseteq Sockets
  /\ NbLcores <= NTxQueue
  /\ nbRxq[p] = PortNRxQueues(p)
  /\ nbTxq[p] = NTxQueue
  /\ \A l \in Lcores : txQueue[l][p] = QueueIdOf(l)

Done == {p \in Ports \cap mask : p < i}

Typed ==
  /\ pc \in {"check", "queues", "checkPorts", "ports", "rxqs", "ptypes", "ready", "exit"}
  /\ params \in Configs
  /\ mask \in Masks
  /\ ptype \in BOOLEAN
  /\ i \in Nat
  /\ pc = "check" => i = 0
  /\ pc = "queues" => i <= Len(params)
  /\ rxQueues \in [Lcores -> Seq(Entry)]
  /\ txPorts \in [Lcores -> Seq(Ports)]
  /\ txQueue \in [Lcores -> [Ports -> Nat]]
  /\ nbRxq \in [Ports -> Nat \cup {-1}]
  /\ nbTxq \in [Ports -> 0 .. MaxTxQueuePerPort]
  /\ pool \in [Sockets -> Nat]

QueuesPlaced ==
  /\ pc \notin {"check", "exit"} => \A n \in 1 .. Len(params) : ParamOK(params[n])
  /\ pc # "exit" =>
       /\ \A l \in Lcores : /\ Len(rxQueues[l]) = Cardinality(OfLcore(l, Taken))
                            /\ Len(rxQueues[l]) <= MaxRxQueuePerLcore
       /\ \A n \in 1 .. Taken : rxQueues[params[n].lcore][Place(n)] = EntryOf(n)

PortsConfigured ==
  /\ pc \in {"check", "queues", "checkPorts"} => \A l \in Lcores : txPorts[l] = <<>>
  /\ pc \in {"ports", "rxqs", "ptypes", "ready"} =>
       /\ \A n \in 1 .. Len(params) : PortOK(params[n])
       /\ i \in 0 .. NbPorts
       /\ pc # "ports" => i = NbPorts
       /\ \A p \in Done : Initialised(p)
       /\ \A l \in Lcores : /\ Len(txPorts[l]) = Cardinality(Done)
                            /\ {txPorts[l][n] : n \in 1 .. Len(txPorts[l])} = Done

QueuesSetUp == pc \in {"ptypes", "ready"} => \A x \in Polled : RxSetupOK(x)

IInv == Typed /\ QueuesPlaced /\ PortsConfigured /\ QueuesSetUp

LEMMA ParamsTyped ==
  ASSUME Typed
  PROVE  /\ Len(params) \in Nat
         /\ \A n \in 1 .. Len(params) : params[n] \in Param
         /\ mask \in SUBSET Nat
<1>1. Configs \in SUBSET Seq(Param) /\ params \in Configs
  BY StartupAssumption DEF Typed, Param
<1>2. params \in Seq(Param)
  BY <1>1
<1>3. mask \in SUBSET Nat
  BY StartupAssumption DEF Typed
<1> HIDE DEF Param
<1> QED
  BY <1>2, <1>3

LEMMA OfLcoreFinite ==
  ASSUME NEW l, NEW n \in Nat
  PROVE  /\ IsFiniteSet(OfLcore(l, n))
         /\ OfLcore(l, n) \in SUBSET Nat
         /\ Cardinality(OfLcore(l, n)) \in Nat
<1>1. IsFiniteSet(1 .. n) /\ OfLcore(l, n) \in SUBSET (1 .. n)
  BY FS_Interval DEF OfLcore
<1>2. IsFiniteSet(OfLcore(l, n))
  BY <1>1, FS_Subset
<1> QED
  BY <1>1, <1>2, FS_CardinalityType

LEMMA OfLcoreGrows ==
  ASSUME NEW l, NEW n \in Nat
  PROVE  Cardinality(OfLcore(l, n + 1)) =
           IF params[n + 1].lcore = l THEN Cardinality(OfLcore(l, n)) + 1
           ELSE Cardinality(OfLcore(l, n))
<1>0. n + 1 \notin 1 .. n /\ 1 .. (n + 1) = (1 .. n) \cup {n + 1}
  OBVIOUS
<1>1. n + 1 \notin OfLcore(l, n) /\ IsFiniteSet(OfLcore(l, n))
  <2>1. n + 1 \notin OfLcore(l, n)
    BY <1>0 DEF OfLcore
  <2> QED
    BY <2>1, OfLcoreFinite
<1>2. CASE params[n + 1].lcore = l
  <2>1. OfLcore(l, n + 1) = OfLcore(l, n) \cup {n + 1}
    <3>1. \A m : m \in 1 .. (n + 1) <=> m \in 1 .. n \/ m = n + 1
      BY <1>0
    <3> QED
      BY <1>2, <3>1, Zenon DEF OfLcore
  <2> QED
    BY <1>1, <1>2, <2>1, FS_AddElement
<1>3. CASE params[n + 1].lcore # l
  <2>1. OfLcore(l, n + 1) = OfLcore(l, n)
    <3>1. \A m : m \in 1 .. (n + 1) <=> m \in 1 .. n \/ m = n + 1
      BY <1>0
    <3> QED
      BY <1>3, <3>1, Zenon DEF OfLcore
  <2> QED
    BY <1>3, <2>1
<1> QED
  BY <1>2, <1>3

\* The place of a param is its rank among the params of its lcore, from 1.
LEMMA PlaceIsRank ==
  ASSUME NEW l, NEW d \in Nat, NEW n \in OfLcore(l, d)
  PROVE  Place(n) = Rank(OfLcore(l, d), n) + 1
<1> DEFINE S == OfLcore(l, n)
<1>1. n \in Nat /\ n \in S /\ params[n].lcore = l /\ IsFiniteSet(S)
  <2>1. n \in 1 .. d /\ params[n].lcore = l
    BY DEF OfLcore
  <2>2. n \in S
    BY <2>1 DEF OfLcore
  <2> QED
    BY <2>1, <2>2, OfLcoreFinite
<1>2. S \ {n} = Below(OfLcore(l, d), n)
  <2>1. n \in 1 .. d
    BY DEF OfLcore
  <2>2. \A m : m \in 1 .. n /\ m # n <=> m \in 1 .. d /\ m < n
    BY <2>1
  <2> QED
    BY <1>1, <2>2, Zenon DEF OfLcore, Below
<1>3. Cardinality(S) \in Nat /\ Cardinality(S \ {n}) = Cardinality(S) - 1
  <2> HIDE DEF S
  <2>1. Cardinality(S \ {n}) = IF n \in S THEN Cardinality(S) - 1 ELSE Cardinality(S)
    BY <1>1, FS_RemoveElement
  <2> QED
    BY <1>1, <2>1, FS_CardinalityType
<1> QED
  <2>1. Place(n) = Cardinality(S) /\ Rank(OfLcore(l, d), n) = Cardinality(S \ {n})
    BY <1>1, <1>2, Zenon DEF Place, Rank
  <2> HIDE DEF S
  <2> QED
    BY <1>3, <2>1

-----------------------------------------------------------------------------
LEMMA InitIInv == Init => IInv
<1> SUFFICES ASSUME Init PROVE IInv
  OBVIOUS
<1> USE DEF Init
<1>1. Typed
  <2>1. MaxTxQueuePerPort \in Nat
    BY StartupAssumption
  <2>2. rxQueues \in [Lcores -> Seq(Entry)] /\ txPorts \in [Lcores -> Seq(Ports)]
    OBVIOUS
  <2> QED
    BY <2>1, <2>2 DEF Typed
<1>2. QueuesPlaced
  <2>1. \A l : OfLcore(l, 0) = {}
    BY DEF OfLcore
  <2>2. MaxRxQueuePerLcore \in Nat
    BY StartupAssumption
  <2>3. \A l \in Lcores : Len(rxQueues[l]) = 0
    OBVIOUS
  <2> QED
    BY <2>1, <2>2, <2>3, FS_EmptySet DEF QueuesPlaced, Taken
<1>3. PortsConfigured
  BY DEF PortsConfigured
<1>4. QueuesSetUp
  BY DEF QueuesSetUp
<1> QED
  BY <1>1, <1>2, <1>3, <1>4 DEF IInv

\* The numbers behind the size of a pool are natural.
LEMMA PoolSize ==
  ASSUME NEW nbRx \in Nat
  PROVE  NbMbuf(nbRx) \in Nat
<1> DEFINE L == NbLcores
           T == NTxQueue
<1>1. L \in Nat /\ T \in Nat
  BY StartupAssumption, FS_CardinalityType DEF NbLcores, NTxQueue
<1>2. \A a, b \in Nat : a * b \in Nat
  OBVIOUS
<1>3. /\ NbPorts \in Nat /\ NbRxd \in Nat /\ NbTxd \in Nat /\ MaxPktBurst \in Nat
      /\ CacheSize \in Nat /\ MinMbufs \in Nat
  BY StartupAssumption
<1> HIDE DEF L, T
<1>4. /\ NbPorts * nbRx * NbRxd \in Nat
      /\ NbPorts * L * MaxPktBurst \in Nat
      /\ NbPorts * T * NbTxd \in Nat
      /\ L * CacheSize \in Nat
  BY <1>1, <1>2, <1>3
<1> DEFINE A == NbPorts * nbRx * NbRxd
           B == NbPorts * L * MaxPktBurst
           C == NbPorts * T * NbTxd
           D == L * CacheSize
<1>5. NbMbuf(nbRx) = IF A + B + C + D > MinMbufs THEN A + B + C + D ELSE MinMbufs
  BY DEF NbMbuf, L, T
<1> HIDE DEF A, B, C, D
<1>6. A \in Nat /\ B \in Nat /\ C \in Nat /\ D \in Nat
  BY <1>4 DEF A, B, C, D
<1> QED
  BY <1>3, <1>5, <1>6

LEMMA ParamsOfFinite ==
  ASSUME Typed, NEW p
  PROVE  /\ IsFiniteSet(ParamsOf(p))
         /\ ParamsOf(p) \in SUBSET Nat
         /\ PortNRxQueues(p) \in Nat
<1>1. IsFiniteSet(1 .. Len(params)) /\ ParamsOf(p) \in SUBSET (1 .. Len(params))
  BY ParamsTyped, FS_Interval DEF ParamsOf
<1>2. IsFiniteSet(ParamsOf(p))
  BY <1>1, FS_Subset
<1>3. \A n \in 1 .. Len(params) : n \in Nat
  BY ParamsTyped
<1> QED
  BY <1>1, <1>2, <1>3, FS_CardinalityType DEF PortNRxQueues

LEMMA QueueIds ==
  ASSUME NEW l \in Lcores
  PROVE  /\ QueueIdOf(l) = Rank(Lcores, l)
         /\ QueueIdOf(l) \in Nat
         /\ QueueIdOf(l) < NbLcores
<1>1. QueueIdOf(l) = Rank(Lcores, l)
  BY DEF QueueIdOf, Rank, Below
<1> QED
  BY <1>1, RankInRange, StartupAssumption DEF NbLcores

LEMMA NextTyped == IInv /\ [Next]_vars => Typed'
<1> SUFFICES ASSUME IInv, [Next]_vars PROVE Typed'
  OBVIOUS
<1> USE DEF IInv, input, conf, device
<1>0. Len(params) \in Nat
  BY ParamsTyped
<1>1. CASE CheckLcores
  BY <1>0, <1>1 DEF CheckLcores, Typed, Entry, Ports, Sockets
<1>2. CASE Exit
  BY <1>2 DEF Exit, Typed, Entry, Ports, Sockets
<1>3. CASE AddQueue
  <2> DEFINE c == params[i + 1]
             e == [port |-> c.port, queue |-> c.queue]
  <2>1. i + 1 \in 1 .. Len(params)
    BY <1>0, <1>3 DEF AddQueue, Typed
  <2>2. c \in Param
    BY <2>1, ParamsTyped
  <2>3. e \in Entry
    BY <2>2 DEF Param, Entry
  <2>4. rxQueues' = [rxQueues EXCEPT ![c.lcore] = Append(@, e)]
    BY <1>3 DEF AddQueue
  <2> HIDE DEF e, c
  <2>5. rxQueues' \in [Lcores -> Seq(Entry)]
    <3>1. rxQueues \in [Lcores -> Seq(Entry)]
      BY DEF Typed
    <3>2. \A l \in Lcores : Append(rxQueues[l], e) \in Seq(Entry)
      BY <2>3, <3>1
    <3> QED
      BY <2>4, <3>1, <3>2
  <2> QED
    BY <1>0, <1>3, <2>5 DEF AddQueue, Typed
<1>4. CASE QueuesAdded
  BY <1>0, <1>4 DEF QueuesAdded, Typed, Entry, Ports, Sockets
<1>5. CASE CheckPorts
  BY <1>5 DEF CheckPorts, Typed, Entry, Ports, Sockets
<1>6. CASE SkipPort
  BY <1>6 DEF SkipPort, Typed, Entry, Ports, Sockets
<1>7. CASE InitPort
  <2>1. i \in Ports /\ i + 1 \in Nat
    BY <1>7, StartupAssumption DEF InitPort, Typed, Ports
  <2>2. PortNRxQueues(i) \in Nat /\ NbMbuf(PortNRxQueues(i)) \in Nat
    BY ParamsOfFinite, PoolSize
  <2>3. NTxQueue \in 0 .. MaxTxQueuePerPort
    BY StartupAssumption, FS_CardinalityType DEF NTxQueue, NbLcores
  <2>4. pool' \in [Sockets -> Nat]
    BY <1>7, <2>2 DEF InitPort, InitMem, Typed
  <2>5. txQueue' \in [Lcores -> [Ports -> Nat]]
    <3>1. \A l \in Lcores : [txQueue[l] EXCEPT ![i] = QueueIdOf(l)] \in [Ports -> Nat]
      BY <2>1, QueueIds DEF Typed
    <3> QED
      BY <1>7, <3>1 DEF InitPort
  <2>6. txPorts' \in [Lcores -> Seq(Ports)]
    <3>1. \A l \in Lcores : Append(txPorts[l], i) \in Seq(Ports)
      BY <2>1 DEF Typed
    <3> QED
      BY <1>7, <3>1 DEF InitPort
  <2>7. nbRxq' \in [Ports -> Nat \cup {-1}] /\ nbTxq' \in [Ports -> 0 .. MaxTxQueuePerPort]
    BY <1>7, <2>1, <2>2, <2>3 DEF InitPort, Typed
  <2> QED
    BY <1>7, <2>1, <2>4, <2>5, <2>6, <2>7 DEF InitPort, Typed
<1>8. CASE PortsDone
  BY <1>8 DEF PortsDone, Typed, Entry, Ports, Sockets
<1>9. CASE SetupRxQueues
  BY <1>9 DEF SetupRxQueues, Typed, Entry, Ports, Sockets
<1>10. CASE PreparePtypes
  BY <1>10 DEF PreparePtypes, Typed, Entry, Ports, Sockets
<1>11. CASE UNCHANGED vars
  BY <1>11 DEF vars, Typed, Entry, Ports, Sockets
<1> QED
  BY <1>1, <1>2, <1>3, <1>4, <1>5, <1>6, <1>7, <1>8, <1>9, <1>10, <1>11
  DEF Next, LcoresRefused, TooManyQueues, PortsRefused, PortRefused, SetupRefused, Finished

\* A step that leaves the params and the lists alone.
LEMMA PlacedKept ==
  ASSUME QueuesPlaced, params' = params, rxQueues' = rxQueues, pc # "exit",
         Taken' = Taken,
         pc' \notin {"check", "exit"} => \A n \in 1 .. Len(params) : ParamOK(params[n])
  PROVE  QueuesPlaced'
<1>1. \A l, n : OfLcore(l, n)' = OfLcore(l, n)
  BY DEF OfLcore
<1>2. \A n : Place(n)' = Place(n) /\ EntryOf(n)' = EntryOf(n)
  BY <1>1 DEF Place, EntryOf
<1>3. \A n : ParamOK(params[n])' <=> ParamOK(params[n])
  BY DEF ParamOK
<1> QED
  BY <1>1, <1>2, <1>3 DEF QueuesPlaced

\* The place of a param taken is one of the list of its lcore.
LEMMA PlaceInList ==
  ASSUME IInv, pc # "exit", NEW n \in 1 .. Taken
  PROVE  /\ params[n].lcore \in Lcores
         /\ Place(n) \in 1 .. Len(rxQueues[params[n].lcore])
<1> DEFINE l == params[n].lcore
           S == OfLcore(l, Taken)
<1>1. Taken \in Nat /\ Taken <= Len(params) /\ Len(params) \in Nat
  BY ParamsTyped DEF IInv, Typed, Taken
<1>2. n \in S
  BY DEF OfLcore
<1>3. l \in Lcores
  <2>1. pc # "check" /\ n \in 1 .. Len(params)
    BY <1>1 DEF Taken
  <2> QED
    BY <2>1 DEF IInv, QueuesPlaced, ParamOK
<1>4. IsFiniteSet(S) /\ S \in SUBSET Nat
  BY <1>1, OfLcoreFinite
<1>5. Place(n) = Rank(S, n) + 1
  BY <1>1, <1>2, PlaceIsRank
<1>6. Cardinality(S) \in Nat /\ Rank(S, n) \in Nat /\ Rank(S, n) < Cardinality(S)
  <2> HIDE DEF S
  <2> QED
    BY <1>2, <1>4, RankInRange, FS_CardinalityType
<1>7. Len(rxQueues[l]) = Cardinality(S)
  BY <1>3 DEF IInv, QueuesPlaced
<1> HIDE DEF S, l
<1> QED
  BY <1>3, <1>5, <1>6, <1>7 DEF l

LEMMA AddQueuePlaced ==
  ASSUME IInv, AddQueue
  PROVE  QueuesPlaced'
<1> USE DEF IInv, input
<1> DEFINE N == i + 1
           c == params[N]
           L == c.lcore
           q == rxQueues[L]
<1>1. /\ i \in Nat /\ Len(params) \in Nat /\ N \in 1 .. Len(params)
      /\ pc = "queues" /\ pc' = "queues" /\ i' = N /\ params' = params
      /\ Taken = i /\ Taken' = N
  BY ParamsTyped DEF AddQueue, Typed, Taken
<1>2. \A n \in 1 .. Len(params) : ParamOK(params[n])
  BY <1>1 DEF QueuesPlaced
<1>3. L \in Lcores /\ q \in Seq(Entry) /\ rxQueues \in [Lcores -> Seq(Entry)]
  BY <1>1, <1>2 DEF ParamOK, Typed
<1>4. Len(q) \in Nat /\ Len(q) < MaxRxQueuePerLcore /\ Len(q) = Cardinality(OfLcore(L, i))
  BY <1>1, <1>3 DEF AddQueue, QueuesPlaced
<1>5. rxQueues' = [rxQueues EXCEPT ![L] = Append(q, EntryOf(N))]
  BY <1>1, <1>3 DEF AddQueue, EntryOf
<1>6. \A l, n : OfLcore(l, n)' = OfLcore(l, n)
  BY <1>1 DEF OfLcore
<1>7. \A n : Place(n)' = Place(n) /\ EntryOf(n)' = EntryOf(n)
  BY <1>1, <1>6 DEF Place, EntryOf
<1>8. Place(N) = Len(q) + 1
  BY <1>1, <1>4, OfLcoreGrows DEF Place
<1>9. /\ rxQueues'[L] = Append(q, EntryOf(N))
      /\ \A l \in Lcores : l # L => rxQueues'[l] = rxQueues[l]
  BY <1>3, <1>5
<1>10. /\ Len(rxQueues'[L]) = Len(q) + 1
       /\ \A k \in 1 .. Len(q) : rxQueues'[L][k] = q[k]
       /\ rxQueues'[L][Len(q) + 1] = EntryOf(N)
  <2>1. EntryOf(N) \in Entry
    BY <1>1, ParamsTyped DEF EntryOf, Entry, Param
  <2> HIDE DEF q, N, L, c
  <2> QED
    BY <1>3, <1>4, <1>9, <2>1
<1>11. ASSUME NEW l \in Lcores
       PROVE  /\ Len(rxQueues'[l]) = Cardinality(OfLcore(l, N))
              /\ Len(rxQueues'[l]) <= MaxRxQueuePerLcore
  <2>1. Cardinality(OfLcore(l, N)) =
          IF L = l THEN Cardinality(OfLcore(l, i)) + 1 ELSE Cardinality(OfLcore(l, i))
    BY <1>1, OfLcoreGrows
  <2>2. CASE l = L
    <3> HIDE DEF q, N, L, c
    <3> QED
      BY <1>4, <1>10, <2>1, <2>2, StartupAssumption
  <2>3. CASE l # L
    <3>1. Len(rxQueues[l]) = Cardinality(OfLcore(l, i)) /\ Len(rxQueues[l]) <= MaxRxQueuePerLcore
      BY <1>1 DEF QueuesPlaced
    <3> HIDE DEF q, N, L, c
    <3> QED
      BY <1>9, <2>1, <2>3, <3>1
  <2> QED
    BY <2>2, <2>3
<1>12. \A l \in Lcores : \A k \in 1 .. Len(rxQueues[l]) : rxQueues'[l][k] = rxQueues[l][k]
  <2> SUFFICES ASSUME NEW l \in Lcores, NEW k \in 1 .. Len(rxQueues[l])
               PROVE  rxQueues'[l][k] = rxQueues[l][k]
    OBVIOUS
  <2>1. CASE l = L
    <3>1. rxQueues'[l] = rxQueues'[L] /\ rxQueues[l] = q
      BY <2>1
    <3> HIDE DEF q, N, L, c
    <3> QED
      BY <1>10, <3>1
  <2>2. CASE l # L
    BY <1>9, <2>2
  <2> QED
    BY <2>1, <2>2
<1>13. ASSUME NEW n \in 1 .. N
       PROVE  rxQueues'[params[n].lcore][Place(n)] = EntryOf(n)
  <2>1. CASE n = N
    <3>1. rxQueues'[L][Place(N)] = EntryOf(N)
      BY <1>8, <1>10, Zenon
    <3> QED
      BY <2>1, <3>1
  <2>2. CASE n # N
    <3>1. n \in 1 .. Taken
      BY <1>1, <2>2
    <3>2. /\ params[n].lcore \in Lcores
          /\ Place(n) \in 1 .. Len(rxQueues[params[n].lcore])
      BY <1>1, <3>1, PlaceInList
    <3>3. rxQueues[params[n].lcore][Place(n)] = EntryOf(n)
      BY <1>1, <3>1 DEF QueuesPlaced
    <3> HIDE DEF q, N, L, c
    <3> QED
      BY <1>12, <3>2, <3>3
  <2> QED
    BY <2>1, <2>2
<1> HIDE DEF q, N, L, c
<1>14. pc' \notin {"check", "exit"} => \A n \in 1 .. Len(params') : ParamOK(params'[n])
  BY <1>1, <1>2
<1>15. \A n : params'[n] = params[n]
  BY <1>1
<1> QED
  BY <1>1, <1>2, <1>6, <1>7, <1>11, <1>13, <1>15 DEF QueuesPlaced, ParamOK

LEMMA NextPlaced == IInv /\ [Next]_vars => QueuesPlaced'
<1> SUFFICES ASSUME IInv, [Next]_vars PROVE QueuesPlaced'
  OBVIOUS
<1> USE DEF input, conf, device
<1>0. QueuesPlaced /\ Typed
  BY DEF IInv
<1>1. CASE CheckLcores
  BY <1>0, <1>1, PlacedKept DEF CheckLcores, Typed, Taken
<1>2. CASE Exit
  BY <1>2 DEF Exit, QueuesPlaced
<1>3. CASE AddQueue
  BY <1>3, AddQueuePlaced
<1>4. CASE QueuesAdded
  BY <1>0, <1>4, PlacedKept DEF QueuesAdded, QueuesPlaced, Taken
<1>5. CASE CheckPorts
  BY <1>0, <1>5, PlacedKept DEF CheckPorts, QueuesPlaced, Taken
<1>6. CASE SkipPort \/ InitPort
  BY <1>0, <1>6, PlacedKept DEF SkipPort, InitPort, QueuesPlaced, Taken
<1>7. CASE PortsDone \/ SetupRxQueues \/ PreparePtypes
  BY <1>0, <1>7, PlacedKept
  DEF PortsDone, SetupRxQueues, PreparePtypes, QueuesPlaced, Taken
<1>8. CASE UNCHANGED vars
  <2>1. CASE pc = "exit"
    BY <1>8, <2>1 DEF vars, QueuesPlaced
  <2>2. CASE pc # "exit"
    BY <1>0, <1>8, <2>2, PlacedKept DEF vars, QueuesPlaced, Taken
  <2> QED
    BY <2>1, <2>2
<1> QED
  BY <1>1, <1>2, <1>3, <1>4, <1>5, <1>6, <1>7, <1>8
  DEF Next, LcoresRefused, TooManyQueues, PortsRefused, PortRefused, SetupRefused, Finished

\* A step that leaves the ports alone.
LEMMA ConfiguredKept ==
  ASSUME PortsConfigured, pc \in {"ports", "rxqs", "ptypes"},
         pc' \in {"rxqs", "ptypes", "ready"}, i = NbPorts,
         UNCHANGED <<input, i, conf, nbRxq, nbTxq>>
  PROVE  PortsConfigured'
<1> USE DEF input, conf
<1>1. \A p : Initialised(p)' <=> Initialised(p)
  BY DEF Initialised, InSequence, ParamsOf, PortNRxQueues
<1>2. Done' = Done
  BY DEF Done
<1>3. \A n : PortOK(params[n])' <=> PortOK(params[n])
  BY DEF PortOK
<1> QED
  BY <1>1, <1>2, <1>3 DEF PortsConfigured

\* The ports done when the loop goes on, with the port at hand or without.
LEMMA DoneGrows ==
  ASSUME IInv, pc = "ports", i < NbPorts, i' = i + 1, mask' = mask
  PROVE  /\ i \notin Done
         /\ IsFiniteSet(Done)
         /\ i \in mask => Done' = Done \cup {i}
         /\ i \notin mask => Done' = Done
<1>1. i \in Nat /\ NbPorts \in Nat /\ i \in Ports
  BY StartupAssumption DEF IInv, Typed, Ports
<1>2. i \notin Done
  BY <1>1 DEF Done
<1>3. Done \in SUBSET (0 .. (NbPorts - 1)) /\ NbPorts - 1 \in Int
  BY <1>1 DEF Done, Ports
<1>4. IsFiniteSet(Done)
  <2>1. IsFiniteSet(0 .. (NbPorts - 1))
    BY <1>3, FS_Interval
  <2> QED
    BY <1>3, <2>1, FS_Subset
<1>5. \A p \in Ports : p < i + 1 <=> p < i \/ p = i
  BY <1>1 DEF Ports
<1>6. i \in mask => Done' = Done \cup {i}
  BY <1>1, <1>5 DEF Done
<1>7. i \notin mask => Done' = Done
  BY <1>1, <1>5 DEF Done
<1> QED
  BY <1>2, <1>4, <1>6, <1>7

LEMMA SkipPortConfigured ==
  ASSUME IInv, SkipPort
  PROVE  PortsConfigured'
<1> USE DEF input, conf, device
<1>1. pc = "ports" /\ pc' = "ports" /\ i < NbPorts /\ i' = i + 1 /\ mask' = mask
  BY DEF SkipPort
<1>2. Done' = Done
  BY <1>1, DoneGrows DEF SkipPort
<1>3. \A p : Initialised(p)' <=> Initialised(p)
  BY DEF SkipPort, Initialised, InSequence, ParamsOf, PortNRxQueues
<1>4. \A n : PortOK(params[n])' <=> PortOK(params[n])
  BY DEF SkipPort, PortOK
<1>5. i' \in 0 .. NbPorts
  BY <1>1, StartupAssumption DEF IInv, Typed
<1> QED
  BY <1>1, <1>2, <1>3, <1>4, <1>5 DEF IInv, PortsConfigured, SkipPort

LEMMA InitPortConfigured ==
  ASSUME IInv, InitPort
  PROVE  PortsConfigured'
<1> USE DEF input
<1>1. /\ pc = "ports" /\ pc' = "ports" /\ i < NbPorts /\ i' = i + 1
      /\ mask' = mask /\ params' = params /\ i \in mask
  BY DEF InitPort
<1>2. Done' = Done \cup {i} /\ i \notin Done /\ IsFiniteSet(Done)
  BY <1>1, DoneGrows
<1>3. i \in Ports /\ i' \in 0 .. NbPorts
  BY <1>1, StartupAssumption DEF IInv, Typed, Ports
<1>4. Typed /\ PortsConfigured
  BY DEF IInv
<1>5. \A p : /\ InSequence(p)' <=> InSequence(p)
             /\ PortNRxQueues(p)' = PortNRxQueues(p)
  BY <1>1 DEF InSequence, ParamsOf, PortNRxQueues
<1>6. \A p \in Ports :
        /\ nbRxq'[p] = IF p = i THEN PortNRxQueues(i) ELSE nbRxq[p]
        /\ nbTxq'[p] = IF p = i THEN NTxQueue ELSE nbTxq[p]
        /\ \A l \in Lcores : txQueue'[l][p] = IF p = i THEN QueueIdOf(l) ELSE txQueue[l][p]
  BY <1>3, <1>4 DEF InitPort, Typed
<1>7. ASSUME NEW p \in Done'
      PROVE  Initialised(p)'
  <2>1. p \in Ports
    BY <1>2, <1>3 DEF Done
  <2>2. CASE p = i
    <3>1. InSequence(p) /\ SocketsUsed \subseteq Sockets /\ NbLcores <= NTxQueue
      BY <2>2 DEF InitPort
    <3> QED
      BY <1>5, <1>6, <2>1, <2>2, <3>1 DEF Initialised
  <2>3. CASE p # i
    <3>1. Initialised(p)
      BY <1>1, <1>2, <1>4, <2>3 DEF PortsConfigured
    <3> QED
      BY <1>5, <1>6, <2>1, <2>3, <3>1 DEF Initialised
  <2> QED
    BY <2>2, <2>3
<1>8. ASSUME NEW l \in Lcores
      PROVE  /\ Len(txPorts'[l]) = Cardinality(Done')
             /\ {txPorts'[l][n] : n \in 1 .. Len(txPorts'[l])} = Done'
  <2> DEFINE s == txPorts[l]
             D == Done
  <2>1. txPorts'[l] = Append(s, i) /\ s \in Seq(Ports)
    BY <1>4 DEF InitPort, Typed
  <2>2. Len(s) = Cardinality(D) /\ {s[n] : n \in 1 .. Len(s)} = D
    BY <1>1, <1>4 DEF PortsConfigured
  <2>3. Cardinality(Done') = Cardinality(D) + 1
    BY <1>2, FS_AddElement
  <2> HIDE DEF s, D
  <2>4. Len(Append(s, i)) = Len(s) + 1 /\ Len(s) \in Nat
    BY <1>3, <2>1
  <2>5. \A n \in 1 .. Len(s) + 1 :
          Append(s, i)[n] = IF n = Len(s) + 1 THEN i ELSE s[n]
    BY <1>3, <2>1, <2>4
  <2>6. {Append(s, i)[n] : n \in 1 .. Len(s) + 1} = {s[n] : n \in 1 .. Len(s)} \cup {i}
    <3>1. \A n : n \in 1 .. Len(s) + 1 <=> n \in 1 .. Len(s) \/ n = Len(s) + 1
      BY <2>4
    <3>2. Len(s) + 1 \notin 1 .. Len(s)
      BY <2>4
    <3> QED
      BY <2>5, <3>1, <3>2
  <2>7. Done' = D \cup {i}
    BY <1>2 DEF D
  <2> QED
    BY <2>1, <2>2, <2>3, <2>4, <2>6, <2>7
<1>9. \A n : PortOK(params[n])' <=> PortOK(params[n])
  BY <1>1 DEF PortOK
<1> QED
  BY <1>1, <1>3, <1>4, <1>7, <1>8, <1>9 DEF PortsConfigured

LEMMA NextConfigured == IInv /\ [Next]_vars => PortsConfigured'
<1> SUFFICES ASSUME IInv, [Next]_vars PROVE PortsConfigured'
  OBVIOUS
<1> USE DEF input, conf, device
<1>0. PortsConfigured /\ Typed
  BY DEF IInv
<1>1. CASE CheckLcores \/ AddQueue \/ QueuesAdded
  BY <1>0, <1>1 DEF CheckLcores, AddQueue, QueuesAdded, PortsConfigured
<1>2. CASE Exit
  BY <1>2 DEF Exit, PortsConfigured
<1>3. CASE CheckPorts
  <2>1. Done' = {}
    BY <1>3 DEF CheckPorts, Done, Ports
  <2>2. \A l \in Lcores : txPorts'[l] = <<>>
    BY <1>0, <1>3 DEF CheckPorts, PortsConfigured
  <2>3. \A n \in 1 .. Len(params) : PortOK(params[n])'
    BY <1>3 DEF CheckPorts, PortOK
  <2>4. \A l \in Lcores : /\ Len(txPorts'[l]) = Cardinality(Done')
                          /\ {txPorts'[l][n] : n \in 1 .. Len(txPorts'[l])} = Done'
    BY <2>1, <2>2, FS_EmptySet
  <2>5. i' \in 0 .. NbPorts /\ pc' = "ports" /\ params' = params
    BY <1>3, StartupAssumption DEF CheckPorts
  <2>6. \A n \in 1 .. Len(params') : PortOK(params[n])'
    BY <2>3, <2>5
  <2>7. \A p \in Done' : Initialised(p)'
    BY <2>1
  <2> QED
    BY <2>4, <2>5, <2>6, <2>7, Zenon DEF PortsConfigured
<1>4. CASE SkipPort
  BY <1>4, SkipPortConfigured
<1>5. CASE InitPort
  BY <1>5, InitPortConfigured
<1>6. CASE PortsDone \/ SetupRxQueues \/ PreparePtypes
  BY <1>0, <1>6, ConfiguredKept
  DEF PortsDone, SetupRxQueues, PreparePtypes, PortsConfigured
<1>7. CASE UNCHANGED vars
  <2>1. \A p : Initialised(p)' <=> Initialised(p)
    BY <1>7 DEF vars, Initialised, InSequence, ParamsOf, PortNRxQueues
  <2>2. Done' = Done
    BY <1>7 DEF vars, Done
  <2>3. \A n : PortOK(params[n])' <=> PortOK(params[n])
    BY <1>7 DEF vars, PortOK
  <2> QED
    BY <1>0, <1>7, <2>1, <2>2, <2>3 DEF vars, PortsConfigured
<1> QED
  BY <1>1, <1>2, <1>3, <1>4, <1>5, <1>6, <1>7
  DEF Next, LcoresRefused, TooManyQueues, PortsRefused, PortRefused, SetupRefused, Finished

LEMMA NextSetUp == IInv /\ [Next]_vars => QueuesSetUp'
<1> SUFFICES ASSUME IInv, [Next]_vars PROVE QueuesSetUp'
  OBVIOUS
<1> USE DEF input, conf, device
<1>1. ASSUME UNCHANGED <<conf, nbRxq, pool>>
      PROVE  Polled' = Polled /\ \A x : RxSetupOK(x)' <=> RxSetupOK(x)
  BY <1>1 DEF Polled, RxSetupOK
<1>2. CASE SetupRxQueues
  BY <1>1, <1>2 DEF SetupRxQueues, QueuesSetUp
<1>3. CASE PreparePtypes
  BY <1>1, <1>3 DEF PreparePtypes, QueuesSetUp, IInv
<1>4. CASE UNCHANGED vars
  BY <1>1, <1>4 DEF vars, QueuesSetUp, IInv
<1>5. CASE pc' \notin {"ptypes", "ready"}
  BY <1>5 DEF QueuesSetUp
<1> QED
  BY <1>2, <1>3, <1>4, <1>5
  DEF Next, CheckLcores, LcoresRefused, AddQueue, TooManyQueues, QueuesAdded, CheckPorts,
      PortsRefused, SkipPort, InitPort, PortRefused, PortsDone, SetupRefused, Finished, Exit

LEMMA Invariance == Spec => []IInv
<1>1. IInv /\ [Next]_vars => IInv'
  BY NextTyped, NextPlaced, NextConfigured, NextSetUp DEF IInv
<1> QED
  BY InitIInv, <1>1, PTL DEF Spec

-----------------------------------------------------------------------------
\* TxQueuesPrivate of module Startup: the id of an lcore's TX queue is the
\* number of lcores before it, so no two lcores have one in common and none is
\* past those set up; the drain loop finds every enabled port once.
THEOREM QueuesPrivate == Spec => []TxQueuesPrivate
<1>1. ASSUME IInv PROVE TxQueuesPrivate
  <2> SUFFICES ASSUME pc = "ready"
               PROVE  /\ \A p \in EnabledPorts, l \in Lcores :
                           /\ txQueue[l][p] < nbTxq[p]
                           /\ \A m \in Lcores \ {l} : txQueue[m][p] # txQueue[l][p]
                      /\ \A l \in Lcores :
                           /\ Len(txPorts[l]) = Cardinality(EnabledPorts)
                           /\ {txPorts[l][n] : n \in 1 .. Len(txPorts[l])} = EnabledPorts
    BY DEF TxQueuesPrivate
  <2>1. PortsConfigured
    BY <1>1 DEF IInv
  <2>2. i = NbPorts /\ NbPorts \in Nat
    BY <2>1, StartupAssumption DEF PortsConfigured
  <2>3. Done = EnabledPorts
    BY <2>2 DEF Done, EnabledPorts, Ports
  <2>4. ASSUME NEW p \in EnabledPorts, NEW l \in Lcores
        PROVE  /\ txQueue[l][p] < nbTxq[p]
               /\ \A m \in Lcores \ {l} : txQueue[m][p] # txQueue[l][p]
    <3>1. Initialised(p)
      BY <2>1, <2>3 DEF PortsConfigured
    <3>2. \A m \in Lcores : txQueue[m][p] = Rank(Lcores, m) /\ Rank(Lcores, m) \in Nat
      BY <3>1, QueueIds DEF Initialised
    <3>3. txQueue[l][p] < NbLcores
      BY <3>1, QueueIds DEF Initialised
    <3>4. NbLcores <= nbTxq[p] /\ NbLcores \in Nat /\ nbTxq[p] \in Nat
      BY <3>1, StartupAssumption, FS_CardinalityType DEF Initialised, NbLcores, NTxQueue
    <3>5. \A m \in Lcores \ {l} : Rank(Lcores, m) # Rank(Lcores, l)
      BY RankDistinct, StartupAssumption
    <3> QED
      BY <3>2, <3>3, <3>4, <3>5
  <2>5. \A l \in Lcores : /\ Len(txPorts[l]) = Cardinality(EnabledPorts)
                          /\ {txPorts[l][n] : n \in 1 .. Len(txPorts[l])} = EnabledPorts
    BY <2>1, <2>3 DEF PortsConfigured
  <2> QED
    BY <2>4, <2>5
<1> QED
  BY Invariance, <1>1, PTL

\* The queue of a port that has the id q is named by one param only.
LEMMA QueueNamedOnce ==
  ASSUME IInv, NEW p, InSequence(p), NEW q \in 0 .. (PortNRxQueues(p) - 1)
  PROVE  \E n \in 1 .. Len(params) :
           /\ EntryOf(n) = [port |-> p, queue |-> q]
           /\ \A m \in 1 .. Len(params) : EntryOf(m) = [port |-> p, queue |-> q] => m = n
<1> DEFINE S == ParamsOf(p)
<1>1. S \in SUBSET Nat /\ IsFiniteSet(S) /\ S \in SUBSET (1 .. Len(params))
  BY ParamsOfFinite DEF IInv, ParamsOf
<1>2. \A m \in S : params[m].queue = Rank(S, m)
  BY DEF InSequence, Rank, Below
<1>3. PICK n \in S : Rank(S, n) = q
  <2> HIDE DEF S
  <2> QED
    BY <1>1, RankReached DEF PortNRxQueues, S
<1>4. EntryOf(n) = [port |-> p, queue |-> q]
  BY <1>2, <1>3 DEF EntryOf, ParamsOf
<1>5. ASSUME NEW m \in 1 .. Len(params), EntryOf(m) = [port |-> p, queue |-> q]
      PROVE  m = n
  <2>1. params[m].port = p /\ params[m].queue = q
    BY <1>5 DEF EntryOf
  <2>2. m \in S
    BY <2>1 DEF ParamsOf
  <2>3. Rank(S, m) = Rank(S, n)
    BY <1>2, <1>3, <2>1, <2>2
  <2> HIDE DEF S
  <2> QED
    BY <1>1, <1>3, <2>2, <2>3, RankDistinct
<1> QED
  BY <1>1, <1>3, <1>4, <1>5

\* Every place of a list holds a param of its lcore, and that param has it to
\* itself.
LEMMA PlaceHolds ==
  ASSUME IInv, pc # "exit", NEW l \in Lcores, NEW k \in 1 .. Len(rxQueues[l])
  PROVE  \E n \in 1 .. Taken :
           /\ params[n].lcore = l
           /\ Place(n) = k
           /\ rxQueues[l][k] = EntryOf(n)
<1> DEFINE S == OfLcore(l, Taken)
<1>1. Taken \in Nat
  BY ParamsTyped DEF IInv, Typed, Taken
<1>2. Len(rxQueues[l]) = Cardinality(S)
  BY DEF IInv, QueuesPlaced
<1>3. IsFiniteSet(S) /\ S \in SUBSET Nat /\ Cardinality(S) \in Nat
  BY <1>1, OfLcoreFinite
<1>4. PICK n \in S : Rank(S, n) = k - 1
  <2> HIDE DEF S
  <2>1. k - 1 \in 0 .. (Cardinality(S) - 1)
    BY <1>2, <1>3
  <2> QED
    BY <1>3, <2>1, RankReached
<1>5. Place(n) = Rank(S, n) + 1
  BY <1>1, PlaceIsRank
<1>6. n \in 1 .. Taken /\ params[n].lcore = l
  BY DEF OfLcore
<1>7. Place(n) = k
  BY <1>2, <1>3, <1>4, <1>5
<1>8. rxQueues[l][k] = EntryOf(n)
  BY <1>6, <1>7 DEF IInv, QueuesPlaced
<1> QED
  BY <1>6, <1>7, <1>8

LEMMA OwnedReady == IInv => RxQueuesOwned
<1>1. ASSUME IInv, pc = "ready", NEW p \in EnabledPorts, NEW q \in 0 .. (nbRxq[p] - 1)
      PROVE  Cardinality({x \in Lcores \X (1 .. MaxRxQueuePerLcore) :
                            /\ x[2] <= Len(rxQueues[x[1]])
                            /\ rxQueues[x[1]][x[2]] = [port |-> p, queue |-> q]}) = 1
  <2> DEFINE e == [port |-> p, queue |-> q]
             X == {x \in Lcores \X (1 .. MaxRxQueuePerLcore) :
                     /\ x[2] <= Len(rxQueues[x[1]])
                     /\ rxQueues[x[1]][x[2]] = e}
  <2>1. Initialised(p) /\ Taken = Len(params) /\ Len(params) \in Nat
    <3>1. i = NbPorts /\ NbPorts \in Nat
      BY <1>1, StartupAssumption DEF IInv, PortsConfigured
    <3>2. p \in Done
      BY <3>1 DEF EnabledPorts, Ports, Done
    <3> QED
      BY <1>1, <3>2, ParamsTyped DEF IInv, PortsConfigured, Taken
  <2>2. InSequence(p) /\ q \in 0 .. (PortNRxQueues(p) - 1)
    BY <2>1 DEF Initialised
  <2>3. PICK n \in 1 .. Len(params) :
          /\ EntryOf(n) = e
          /\ \A m \in 1 .. Len(params) : EntryOf(m) = e => m = n
    BY <1>1, <2>2, QueueNamedOnce
  <2> DEFINE l == params[n].lcore
             k == Place(n)
  <2>4. l \in Lcores /\ k \in 1 .. Len(rxQueues[l])
    BY <1>1, <2>1, PlaceInList
  <2>5. rxQueues[l][k] = e
    BY <1>1, <2>1, <2>3 DEF IInv, QueuesPlaced
  <2>6. \A h \in Lcores : Len(rxQueues[h]) \in Nat /\ Len(rxQueues[h]) <= MaxRxQueuePerLcore
    BY <1>1 DEF IInv, QueuesPlaced, Typed
  <2>7. MaxRxQueuePerLcore \in Nat
    BY StartupAssumption
  <2>8. k \in 1 .. MaxRxQueuePerLcore
    <3> HIDE DEF k, l
    <3> QED
      BY <2>4, <2>6, <2>7
  <2>9. <<l, k>> \in X
    <3> HIDE DEF k, l, e
    <3> QED
      BY <2>4, <2>5, <2>6, <2>8
  <2>10. ASSUME NEW x \in X PROVE x = <<l, k>>
    <3> DEFINE h == x[1]
               r == x[2]
    <3>1. h \in Lcores /\ r \in 1 .. Len(rxQueues[h]) /\ rxQueues[h][r] = e /\ x = <<h, r>>
      BY <2>6
    <3>2. PICK m \in 1 .. Taken : params[m].lcore = h /\ Place(m) = r /\ rxQueues[h][r] = EntryOf(m)
      <4> HIDE DEF h, r
      <4> QED
        BY <1>1, <3>1, PlaceHolds
    <3>3. m = n
      BY <2>1, <2>3, <3>1, <3>2
    <3> QED
      BY <3>1, <3>2, <3>3
  <2>11. X = {<<l, k>>}
    <3> HIDE DEF X, k, l
    <3> QED
      BY <2>9, <2>10
  <2>12. Cardinality(X) = 1
    <3> HIDE DEF X
    <3> QED
      BY <2>11, FS_Singleton
  <2> QED
    BY <2>12
<1>2. ASSUME IInv, pc = "ready", NEW x \in Polled
      PROVE  x[1] \in EnabledPorts /\ x[2] < nbRxq[x[1]] /\ pool[x[3]] # 0
  <2>0. PICK l \in Lcores : \E k \in 1 .. Len(rxQueues[l]) :
          x = <<rxQueues[l][k].port, rxQueues[l][k].queue, SocketOf[l]>>
    BY <1>2 DEF Polled
  <2>1. PICK k \in 1 .. Len(rxQueues[l]) :
          x = <<rxQueues[l][k].port, rxQueues[l][k].queue, SocketOf[l]>>
    BY <2>0
  <2>2. PICK n \in 1 .. Len(params) : rxQueues[l][k] = EntryOf(n)
    BY <1>2, PlaceHolds DEF Taken
  <2>3. PortOK(params[n]) /\ params[n] \in Param
    BY <1>2, ParamsTyped DEF IInv, PortsConfigured
  <2>4. x[1] = params[n].port
    BY <2>1, <2>2 DEF EntryOf
  <2>5. x[1] \in EnabledPorts
    BY <2>3, <2>4, StartupAssumption DEF PortOK, EnabledPorts, Ports, Param
  <2> QED
    BY <1>2, <2>5 DEF IInv, QueuesSetUp, RxSetupOK
<1> QED
  BY <1>1, <1>2 DEF RxQueuesOwned

\* RxQueuesOwned of module Startup: every RX queue a port was configured with
\* is in one place of one list, and no list holds another one.
THEOREM QueuesOwned == Spec => []RxQueuesOwned
BY Invariance, OwnedReady, PTL

-----------------------------------------------------------------------------
\* What TypeOK says beyond Typed.
Bounded ==
  /\ i <= Len(params) + NbPorts
  /\ \A l \in Lcores : Len(rxQueues[l]) <= MaxRxQueuePerLcore
  /\ rxSetup \subseteq Ports \X Nat \X Sockets
  /\ parsed \subseteq Ports \X Nat

LEMMA PolledTyped ==
  ASSUME IInv, pc \in {"rxqs", "ptypes", "ready"}, NEW x \in Polled
  PROVE  x \in Ports \X Nat \X Sockets /\ <<x[1], x[2]>> \in Ports \X Nat
<1>0. PICK l \in Lcores : \E k \in 1 .. Len(rxQueues[l]) :
        x = <<rxQueues[l][k].port, rxQueues[l][k].queue, SocketOf[l]>>
  BY DEF Polled
<1>1. PICK k \in 1 .. Len(rxQueues[l]) :
        x = <<rxQueues[l][k].port, rxQueues[l][k].queue, SocketOf[l]>>
  BY <1>0
<1>2. PICK n \in 1 .. Len(params) : rxQueues[l][k] = EntryOf(n)
  BY PlaceHolds DEF Taken
<1>3. PortOK(params[n]) /\ params[n] \in Param
  BY ParamsTyped DEF IInv, PortsConfigured
<1> DEFINE p == params[n].port
           q == params[n].queue
<1>4. x = <<p, q, SocketOf[l]>> /\ q \in Nat
  BY <1>1, <1>2, <1>3 DEF EntryOf, Param
<1>5. p \in Ports
  <2>1. p \in Nat /\ p < NbPorts /\ NbPorts \in Nat
    BY <1>3, StartupAssumption DEF PortOK, Param
  <2> HIDE DEF p
  <2> QED
    BY <2>1 DEF Ports
<1>6. i = NbPorts /\ NbPorts \in Nat
  BY StartupAssumption DEF IInv, PortsConfigured
<1>7. p \in Done
  BY <1>3, <1>5, <1>6 DEF Done, PortOK, Ports
<1>8. SocketOf[l] \in Sockets
  BY <1>7 DEF IInv, PortsConfigured, Initialised, SocketsUsed
<1> HIDE DEF p, q
<1> QED
  BY <1>4, <1>5, <1>8

LEMMA NextBounded == IInv /\ IInv' /\ Bounded /\ [Next]_vars => Bounded'
<1> SUFFICES ASSUME IInv, IInv', Bounded, [Next]_vars PROVE Bounded'
  OBVIOUS
<1> USE DEF input, conf, device
<1>0. /\ i \in Nat /\ Len(params) \in Nat /\ NbPorts \in Nat /\ MaxRxQueuePerLcore \in Nat
      /\ rxQueues \in [Lcores -> Seq(Entry)]
  BY ParamsTyped, StartupAssumption DEF IInv, Typed
<1>1. CASE AddQueue
  <2>1. pc' # "exit"
    BY <1>1 DEF AddQueue
  <2>2. \A l \in Lcores : Len(rxQueues'[l]) <= MaxRxQueuePerLcore
    BY <2>1 DEF IInv, QueuesPlaced
  <2>3. i' <= Len(params') + NbPorts
    BY <1>0, <1>1 DEF AddQueue
  <2>4. rxSetup' = rxSetup /\ parsed' = parsed
    BY <1>1 DEF AddQueue
  <2> QED
    BY <2>2, <2>3, <2>4 DEF Bounded, Ports, Sockets
<1>2. CASE CheckPorts \/ SkipPort \/ InitPort
  <2>1. i' <= Len(params') + NbPorts
    BY <1>0, <1>2 DEF CheckPorts, SkipPort, InitPort
  <2>2. rxSetup' = rxSetup /\ parsed' = parsed /\ rxQueues' = rxQueues
    BY <1>2 DEF CheckPorts, SkipPort, InitPort
  <2> QED
    BY <2>1, <2>2 DEF Bounded, Ports, Sockets
<1>3. CASE SetupRxQueues
  <2>1. rxSetup' \subseteq Ports \X Nat \X Sockets
    BY <1>3, PolledTyped DEF SetupRxQueues
  <2>2. UNCHANGED <<i, params, rxQueues, parsed>>
    BY <1>3 DEF SetupRxQueues
  <2> QED
    BY <2>1, <2>2 DEF Bounded
<1>4. CASE PreparePtypes
  <2>1. parsed' \subseteq Ports \X Nat
    BY <1>4, PolledTyped DEF PreparePtypes
  <2>2. UNCHANGED <<i, params, rxQueues, rxSetup>>
    BY <1>4 DEF PreparePtypes
  <2> QED
    BY <2>1, <2>2 DEF Bounded
<1>5. CASE UNCHANGED <<i, params, rxQueues, rxSetup, parsed>>
  BY <1>5 DEF Bounded, Ports, Sockets
<1> QED
  BY <1>1, <1>2, <1>3, <1>4, <1>5
  DEF Next, CheckLcores, LcoresRefused, TooManyQueues, QueuesAdded, PortsRefused,
      PortRefused, PortsDone, SetupRefused, Finished, Exit, vars

\* TypeOK of module Startup: no list of queues outgrows its array, no port
\* gets more queues than it may have, and what is set up are queues of ports
\* and sockets there are.
THEOREM StartupTyped == Spec => []TypeOK
<1>1. Init => Bounded
  <2> SUFFICES ASSUME Init PROVE Bounded
    OBVIOUS
  <2>1. Typed
    BY InitIInv DEF IInv
  <2>2. Len(params) \in Nat /\ NbPorts \in Nat /\ MaxRxQueuePerLcore \in Nat
    BY <2>1, ParamsTyped, StartupAssumption
  <2>3. \A l \in Lcores : Len(rxQueues[l]) = 0
    BY DEF Init
  <2> QED
    BY <2>2, <2>3 DEF Init, Bounded
<1>2. IInv /\ Bounded => TypeOK
  <2> SUFFICES ASSUME IInv, Bounded PROVE TypeOK
    OBVIOUS
  <2>1. i \in 0 .. (Len(params) + NbPorts)
    BY ParamsTyped, StartupAssumption DEF IInv, Typed, Bounded
  <2> QED
    BY <2>1 DEF IInv, Typed, Bounded, TypeOK, Entry
<1> QED
  BY Invariance, NextBounded, <1>1, <1>2, PTL DEF Spec

-----------------------------------------------------------------------------
(***************************************************************************)
(* How large the pools are.  A pool is made for the first enabled port and  *)
(* kept, so it is sized by the RX queues of that port alone.                *)
(***************************************************************************)
First(p) == p \in EnabledPorts /\ \A r \in EnabledPorts : p <= r

\* The port that main comes to first is the one the pools are sized by.
Sized ==
  /\ pc \in {"check", "queues", "checkPorts"} \/ (pc = "ports" /\ Done = {}) =>
       \A s \in Sockets : pool[s] = 0
  /\ pc \in {"ports", "rxqs", "ptypes", "ready"} =>
       \A p \in Done : First(p) => \A s \in SocketsUsed : pool[s] >= NbMbuf(PortNRxQueues(p))
  /\ pc \in {"ptypes", "ready"} => rxSetup = Polled

\* No enabled port has more RX queues than the first.
FirstBusiest ==
  \A f, p \in EnabledPorts : First(f) => PortNRxQueues(p) <= PortNRxQueues(f)

\* The first enabled port.
LEMMA FirstExists ==
  ASSUME EnabledPorts # {}
  PROVE  \E f \in EnabledPorts : First(f)
<1>1. NbPorts \in Nat /\ NbPorts - 1 \in Int
  BY StartupAssumption
<1>2. IsFiniteSet(Ports)
  BY <1>1, FS_Interval DEF Ports
<1>3. IsFiniteSet(EnabledPorts) /\ EnabledPorts \in SUBSET Nat
  <2>1. EnabledPorts \in SUBSET Ports /\ Ports \in SUBSET Nat
    BY DEF EnabledPorts, Ports
  <2> QED
    BY <1>2, <2>1, FS_Subset
<1>4. Cardinality(EnabledPorts) \in Nat \ {0}
  BY <1>3, FS_EmptySet, FS_CardinalityType
<1>5. PICK f \in EnabledPorts : Rank(EnabledPorts, f) = 0
  BY <1>3, <1>4, RankReached
<1>6. Below(EnabledPorts, f) = {}
  <2>1. IsFiniteSet(Below(EnabledPorts, f))
    BY <1>3, FS_Subset DEF Below
  <2> QED
    BY <1>5, <2>1, FS_EmptySet DEF Rank
<1>7. \A r \in EnabledPorts : f <= r
  BY <1>3, <1>6 DEF Below
<1> QED
  BY <1>7 DEF First

LEMMA SizedKept ==
  ASSUME Sized, UNCHANGED <<params, mask, pool, i>>,
         pc \in {"ports", "rxqs", "ptypes", "ready"}, pc' \in {"ports", "rxqs", "ptypes", "ready"}
  PROVE  \A p \in Done' : First(p)' =>
           \A s \in SocketsUsed : pool'[s] >= NbMbuf(PortNRxQueues(p))'
<1>1. Done' = Done /\ EnabledPorts' = EnabledPorts
  BY DEF Done, EnabledPorts
<1>2. \A p : /\ First(p)' <=> First(p)
             /\ PortNRxQueues(p)' = PortNRxQueues(p)
  BY <1>1 DEF First, PortNRxQueues, ParamsOf
<1>3. \A p : NbMbuf(PortNRxQueues(p))' = NbMbuf(PortNRxQueues(p))
  BY <1>2 DEF NbMbuf
<1> QED
  BY <1>1, <1>2, <1>3 DEF Sized

\* A pool is not made anew, and one that is made is as large as it has to be.
LEMMA InitPortSized ==
  ASSUME IInv, IInv', Sized, InitPort
  PROVE  \A p \in Done' : First(p)' =>
           \A s \in SocketsUsed : pool'[s] >= NbMbuf(PortNRxQueues(p))'
<1>1. /\ pc = "ports" /\ i < NbPorts /\ i' = i + 1 /\ i \in mask
      /\ mask' = mask /\ params' = params /\ SocketsUsed \subseteq Sockets
  BY DEF InitPort, input
<1>2. Done' = Done \cup {i} /\ i \notin Done
  BY <1>1, DoneGrows
<1>3. EnabledPorts' = EnabledPorts
  BY <1>1 DEF EnabledPorts
<1>4. \A p : /\ First(p)' <=> First(p)
             /\ PortNRxQueues(p)' = PortNRxQueues(p)
  BY <1>1, <1>3 DEF First, PortNRxQueues, ParamsOf
<1>5. \A p : NbMbuf(PortNRxQueues(p))' = NbMbuf(PortNRxQueues(p))
  BY <1>4 DEF NbMbuf
<1>6. pool' = [s \in Sockets |-> IF s \in SocketsUsed /\ pool[s] = 0
                                 THEN NbMbuf(PortNRxQueues(i)) ELSE pool[s]]
  BY DEF InitPort, InitMem
<1>7. \A p : NbMbuf(PortNRxQueues(p)) \in Nat
  BY ParamsOfFinite, PoolSize DEF IInv
<1>8. pool \in [Sockets -> Nat] /\ i \in Nat
  BY DEF IInv, Typed
<1> SUFFICES ASSUME NEW p \in Done', First(p), NEW s \in SocketsUsed
             PROVE  pool'[s] >= NbMbuf(PortNRxQueues(p))
  BY <1>4, <1>5
<1>9. CASE p \in Done
  <2>1. pool[s] >= NbMbuf(PortNRxQueues(p))
    BY <1>1, <1>9 DEF Sized
  <2> DEFINE a == NbMbuf(PortNRxQueues(p))
             b == NbMbuf(PortNRxQueues(i))
  <2>2. a \in Nat /\ b \in Nat /\ pool[s] \in Nat /\ pool'[s] = IF pool[s] = 0 THEN b ELSE pool[s]
    BY <1>1, <1>6, <1>7, <1>8
  <2>3. pool[s] >= a
    BY <2>1
  <2> HIDE DEF a, b
  <2>4. pool'[s] >= a
    BY <2>2, <2>3
  <2> QED
    BY <2>4 DEF a
<1>10. CASE p = i
  <2>1. Done = {}
    <3> SUFFICES ASSUME NEW r \in Done PROVE FALSE
      OBVIOUS
    <3>1. r \in EnabledPorts /\ r < i /\ r \in Nat
      BY <1>8 DEF Done, EnabledPorts, Ports
    <3>2. i <= r
      BY <1>10, <3>1 DEF First
    <3> QED
      BY <1>8, <3>1, <3>2
  <2>2. pool[s] = 0
    BY <2>1, <1>1 DEF Sized
  <2> DEFINE b == NbMbuf(PortNRxQueues(i))
  <2>3. b \in Nat /\ pool'[s] = b
    BY <2>2, <1>1, <1>6, <1>7
  <2> HIDE DEF b
  <2>4. pool'[s] >= b
    BY <2>3
  <2> QED
    BY <2>4, <1>10 DEF b
<1> QED
  BY <1>2, <1>9, <1>10

LEMMA NextSized == IInv /\ IInv' /\ Sized /\ [Next]_vars => Sized'
<1> SUFFICES ASSUME IInv, IInv', Sized, [Next]_vars PROVE Sized'
  OBVIOUS
<1> USE DEF input, conf, device
<1> DEFINE Enough == \A p \in Done' : First(p)' =>
             \A s \in SocketsUsed : pool'[s] >= NbMbuf(PortNRxQueues(p))'
<1>1. CASE CheckLcores \/ AddQueue \/ QueuesAdded
  BY <1>1 DEF CheckLcores, AddQueue, QueuesAdded, Sized
<1>2. CASE Exit
  BY <1>2 DEF Exit, Sized
<1>3. CASE CheckPorts
  <2>1. Done' = {}
    BY <1>3 DEF CheckPorts, Done, Ports
  <2> QED
    BY <1>3, <2>1 DEF CheckPorts, Sized
<1>4. CASE SkipPort
  <2>1. Done' = Done /\ pc = "ports" /\ pc' = "ports" /\ UNCHANGED <<params, mask, pool>>
    BY <1>4, DoneGrows DEF SkipPort
  <2>2. EnabledPorts' = EnabledPorts
    BY <2>1 DEF EnabledPorts
  <2>3. \A p : First(p)' <=> First(p)
    BY <2>2 DEF First
  <2>4. \A p : NbMbuf(PortNRxQueues(p))' = NbMbuf(PortNRxQueues(p))
    BY <2>1 DEF NbMbuf, PortNRxQueues, ParamsOf
  <2> QED
    BY <2>1, <2>3, <2>4 DEF Sized
<1>5. CASE InitPort
  <2>1. pc = "ports" /\ pc' = "ports" /\ Done' # {}
    BY <1>5, DoneGrows DEF InitPort
  <2>2. Enough
    BY <1>5, InitPortSized
  <2> QED
    BY <2>1, <2>2 DEF Sized
<1>6. CASE PortsDone \/ SetupRxQueues \/ PreparePtypes \/ UNCHANGED vars
  <2>1. UNCHANGED <<params, mask, pool, i, rxQueues>>
    BY <1>6 DEF PortsDone, SetupRxQueues, PreparePtypes, vars
  <2>2. /\ pc' \in {"check", "queues", "checkPorts", "ports"} => pc = pc'
        /\ pc' \in {"ports", "rxqs", "ptypes", "ready"} => pc \in {"ports", "rxqs", "ptypes", "ready"}
    BY <1>6 DEF PortsDone, SetupRxQueues, PreparePtypes, vars
  <2>3. pc' \in {"ports", "rxqs", "ptypes", "ready"} => Enough
    BY <2>1, <2>2, SizedKept
  <2>4. Polled' = Polled /\ Done' = Done
    BY <2>1 DEF Polled, Done
  <2>5. pc' \in {"ptypes", "ready"} => rxSetup' = Polled'
    BY <1>6, <2>4 DEF PortsDone, SetupRxQueues, PreparePtypes, vars, Sized
  <2> QED
    BY <2>1, <2>2, <2>3, <2>4, <2>5 DEF Sized
<1> QED
  BY <1>1, <1>2, <1>3, <1>4, <1>5, <1>6
  DEF Next, LcoresRefused, TooManyQueues, PortsRefused, PortRefused, SetupRefused, Finished

LEMMA Monotonic ==
  ASSUME NEW a \in Nat, NEW b \in Nat, NEW c \in Nat, a <= b
  PROVE  a * c <= b * c /\ a * c \in Nat
<1>1. (b - a) * c >= 0 /\ (b - a) * c = b * c - a * c
  OBVIOUS
<1> QED
  BY <1>1

\* As many RX queues as the ports would have if each had those of the first.
LEMMA QueuesSetUpAtMost ==
  ASSUME IInv, pc = "ready", NEW n \in Nat,
         \A p \in EnabledPorts : PortNRxQueues(p) <= n
  PROVE  /\ Cardinality({<<x[1], x[2]>> : x \in Polled}) <= NbPorts * n
         /\ Cardinality({<<x[1], x[2]>> : x \in Polled}) \in Nat
<1> DEFINE Q == {<<x[1], x[2]>> : x \in Polled}
           S == 0 .. (n - 1)
<1>0. NbPorts \in Nat
  BY StartupAssumption
<1>1. IsFiniteSet(Ports) /\ Cardinality(Ports) = NbPorts
  <2>1. NbPorts - 1 \in Int
    BY <1>0
  <2>2. IsFiniteSet(Ports) /\ Cardinality(Ports) = IF 0 > NbPorts - 1 THEN 0 ELSE NbPorts - 1 - 0 + 1
    BY <2>1, FS_Interval DEF Ports
  <2> QED
    BY <1>0, <2>2
<1>2. IsFiniteSet(S) /\ Cardinality(S) = n
  <2>1. n - 1 \in Int
    OBVIOUS
  <2>2. IsFiniteSet(S) /\ Cardinality(S) = IF 0 > n - 1 THEN 0 ELSE n - 1 - 0 + 1
    BY <2>1, FS_Interval
  <2> QED
    BY <2>2
<1>3. IsFiniteSet(Ports \X S) /\ Cardinality(Ports \X S) = NbPorts * n
  BY <1>1, <1>2, FS_Product
<1>4. ASSUME NEW x \in Polled PROVE <<x[1], x[2]>> \in Ports \X S
  <2>1. x[1] \in Ports /\ x[2] \in Nat
    BY PolledTyped
  <2>2. x[1] \in EnabledPorts /\ x[2] < nbRxq[x[1]]
    BY OwnedReady DEF RxQueuesOwned
  <2>3. nbRxq[x[1]] = PortNRxQueues(x[1]) /\ PortNRxQueues(x[1]) \in Nat
    <3>1. x[1] \in Done /\ NbPorts \in Nat
      BY <1>0, <2>2 DEF Done, EnabledPorts, Ports, IInv, PortsConfigured
    <3> QED
      BY <3>1, ParamsOfFinite DEF IInv, PortsConfigured, Initialised
  <2>4. x[2] < PortNRxQueues(x[1]) /\ PortNRxQueues(x[1]) <= n
    BY <2>2, <2>3
  <2> DEFINE q == x[2]
             m == PortNRxQueues(x[1])
  <2>5. q \in Nat /\ m \in Nat /\ q < m /\ m <= n
    BY <2>1, <2>3, <2>4
  <2> HIDE DEF q, m
  <2>6. q \in S
    BY <2>5
  <2> QED
    BY <2>1, <2>6 DEF q
<1>5. Q \in SUBSET (Ports \X S)
  BY <1>4
<1> QED
  BY <1>3, <1>5, FS_Subset, FS_CardinalityType

\* What the rings, caches and tables of all ports hold is in NB_MBUF.
LEMMA DemandCovered ==
  ASSUME NEW q \in Nat, NEW e \in Nat, NEW n \in Nat,
         q <= NbPorts * n, e <= NbPorts, NbLcores <= NTxQueue
  PROVE  q * NbRxd + e * NbLcores * (MaxPktBurst + NbTxd) + NbLcores * CacheSize <= NbMbuf(n)
<1> DEFINE L == NbLcores
           T == NTxQueue
<1>1. L \in Nat /\ T \in Nat
  BY StartupAssumption, FS_CardinalityType DEF NbLcores, NTxQueue
<1>2. /\ NbPorts \in Nat /\ NbRxd \in Nat /\ NbTxd \in Nat /\ MaxPktBurst \in Nat
      /\ CacheSize \in Nat /\ MinMbufs \in Nat
  BY StartupAssumption
<1>3. \A a, b \in Nat : a * b \in Nat
  OBVIOUS
<1>4. L <= T
  OBVIOUS
<1> DEFINE N == NbMbuf(n)
<1>5. N = LET k == NbPorts * n * NbRxd + NbPorts * L * MaxPktBurst
                     + NbPorts * T * NbTxd + L * CacheSize
          IN IF k > MinMbufs THEN k ELSE MinMbufs
  BY DEF NbMbuf
<1> HIDE DEF L, T, N
<1> DEFINE A == NbPorts * n * NbRxd
           B == NbPorts * L * MaxPktBurst
           C == NbPorts * T * NbTxd
           D == L * CacheSize
<1>6. q * NbRxd <= A /\ q * NbRxd \in Nat /\ A \in Nat
  BY <1>2, <1>3, Monotonic
<1>7. e * L <= NbPorts * L /\ e * L \in Nat /\ NbPorts * L \in Nat
  BY <1>1, <1>2, <1>3, Monotonic
<1>8. NbPorts * L <= NbPorts * T /\ NbPorts * T \in Nat
  <2>1. L * NbPorts <= T * NbPorts
    BY <1>1, <1>2, <1>4, Monotonic
  <2>2. L * NbPorts = NbPorts * L /\ T * NbPorts = NbPorts * T
    BY <1>1, <1>2
  <2> QED
    BY <1>1, <1>2, <1>3, <2>1, <2>2
<1>9. e * L * MaxPktBurst <= B /\ e * L * MaxPktBurst \in Nat /\ B \in Nat
  BY <1>2, <1>3, <1>7, Monotonic
<1>10. e * L * NbTxd <= C /\ e * L * NbTxd \in Nat /\ C \in Nat
  <2>1. e * L <= NbPorts * T
    BY <1>7, <1>8
  <2> QED
    BY <1>2, <1>3, <1>7, <1>8, <2>1, Monotonic
<1>11. e * L * (MaxPktBurst + NbTxd) = e * L * MaxPktBurst + e * L * NbTxd
  <2> DEFINE h == e * L
  <2>1. h \in Nat
    BY <1>7
  <2> HIDE DEF h
  <2>2. h * (MaxPktBurst + NbTxd) = h * MaxPktBurst + h * NbTxd
    BY <2>1, <1>2
  <2> QED
    BY <2>2 DEF h
<1>12. D \in Nat
  BY <1>1, <1>2, <1>3
<1>13. N = IF A + B + C + D > MinMbufs THEN A + B + C + D ELSE MinMbufs
  BY <1>5
<1> DEFINE a == q * NbRxd
           b == e * L * MaxPktBurst
           c == e * L * NbTxd
<1>14. /\ a \in Nat /\ b \in Nat /\ c \in Nat /\ A \in Nat /\ B \in Nat /\ C \in Nat /\ D \in Nat
       /\ a <= A /\ b <= B /\ c <= C
  BY <1>6, <1>9, <1>10, <1>12
<1>15. q * NbRxd + e * L * (MaxPktBurst + NbTxd) + L * CacheSize = a + (b + c) + D
  BY <1>11
<1> HIDE DEF a, b, c, A, B, C, D
<1>16. a + (b + c) + D <= N
  BY <1>2, <1>13, <1>14
<1> QED
  BY <1>15, <1>16 DEF L, N

(***************************************************************************)
(* MbufsSuffice of module Startup fails (run startup_pool), and this is     *)
(* when it holds: where no enabled port has more RX queues than the first.  *)
(* Any number of lcores, ports and sockets is then served (main.c 589-602,  *)
(* 775-820, 1012-1016).                                                     *)
(***************************************************************************)
THEOREM PoolsSuffice == Spec => [](FirstBusiest => MbufsSuffice)
<1>1. Init => Sized
  BY DEF Init, Sized
<1>2. IInv /\ Sized => (FirstBusiest => MbufsSuffice)
  <2> SUFFICES ASSUME IInv, Sized, FirstBusiest, pc = "ready",
                      NEW s \in SocketsUsed, EnabledPorts # {}
               PROVE  pool[s] >= Demand
    BY DEF MbufsSuffice
  <2>2. PICK f \in EnabledPorts : First(f)
    BY FirstExists
  <2> DEFINE n == PortNRxQueues(f)
             q == Cardinality({<<x[1], x[2]>> : x \in rxSetup})
             e == Cardinality(EnabledPorts)
  <2>3. n \in Nat
    BY ParamsOfFinite DEF IInv
  <2>4. \A p \in EnabledPorts : PortNRxQueues(p) <= n
    BY <2>2 DEF FirstBusiest
  <2>5. f \in Done /\ NbLcores <= NTxQueue /\ s \in Sockets
    <3>1. i = NbPorts /\ NbPorts \in Nat
      BY StartupAssumption DEF IInv, PortsConfigured
    <3>2. f \in Done
      BY <2>2, <3>1 DEF Done, EnabledPorts, Ports
    <3> QED
      BY <3>2 DEF IInv, PortsConfigured, Initialised
  <2>6. pool[s] >= NbMbuf(n)
    BY <2>2, <2>5 DEF Sized
  <2>7. q <= NbPorts * n /\ q \in Nat
    BY <2>3, <2>4, QueuesSetUpAtMost DEF Sized
  <2>8. e \in Nat /\ e <= NbPorts
    <3>1. NbPorts \in Nat /\ NbPorts - 1 \in Int
      BY StartupAssumption
    <3>2. IsFiniteSet(Ports) /\ Cardinality(Ports) = IF 0 > NbPorts - 1 THEN 0 ELSE NbPorts - 1 - 0 + 1
      BY <3>1, FS_Interval DEF Ports
    <3>3. Cardinality(Ports) = NbPorts
      BY <3>1, <3>2
    <3>4. EnabledPorts \in SUBSET Ports
      BY DEF EnabledPorts
    <3> QED
      BY <3>2, <3>3, <3>4, FS_Subset, FS_CardinalityType
  <2>9. Demand = q * NbRxd + e * NbLcores * (MaxPktBurst + NbTxd) + NbLcores * CacheSize
    BY DEF Demand
  <2> HIDE DEF n, q, e
  <2> DEFINE d == q * NbRxd + e * NbLcores * (MaxPktBurst + NbTxd) + NbLcores * CacheSize
             m == NbMbuf(n)
  <2>10. d <= m
    BY <2>3, <2>5, <2>7, <2>8, DemandCovered
  <2>11. d \in Nat /\ m \in Nat /\ pool[s] \in Nat
    <3>1. NbLcores \in Nat
      BY StartupAssumption, FS_CardinalityType DEF NbLcores
    <3>2. /\ NbRxd \in Nat /\ MaxPktBurst + NbTxd \in Nat /\ CacheSize \in Nat
      BY StartupAssumption
    <3>3. \A a, b \in Nat : a * b \in Nat /\ a + b \in Nat
      OBVIOUS
    <3>4. d \in Nat
      BY <2>7, <2>8, <3>1, <3>2, <3>3
    <3> QED
      BY <2>3, <2>5, <3>4, PoolSize DEF IInv, Typed
  <2> HIDE DEF d, m
  <2>12. pool[s] >= m
    BY <2>6 DEF m
  <2>13. pool[s] >= d
    BY <2>10, <2>11, <2>12
  <2> QED
    BY <2>9, <2>13 DEF d
<1> QED
  BY Invariance, NextSized, <1>1, <1>2, PTL DEF Spec
=============================================================================
