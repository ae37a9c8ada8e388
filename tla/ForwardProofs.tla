---------------------------- MODULE ForwardProofs ----------------------------
(***************************************************************************)
(* Theorems about Forward, for every value of its constants: its invariant, *)
(* the refinement of LossyFifo, the group there is to dispatch, what a drain*)
(* leaves and how many steps a turn of the loop can take.                   *)
(***************************************************************************)
EXTENDS Forward, Integers, TLAPS, FiniteSetTheorems, WellFoundedInduction

(***************************************************************************)
(* The inductive invariant.  The packets of a burst have consecutive numbers*)
(* (BurstRange), so Dispatched splits those received into the dispatched and*)
(* the waiting; a buffer holds dispatched packets, in order (BufferRange,   *)
(* BufferOrder), all that are still owned (NoLeak), and all younger than    *)
(* what its port transmitted (SentFirst).                                   *)
(***************************************************************************)
Position ==
  /\ nbRx <= arrived
  /\ pc = "send" => next < nbRx
  /\ pc # "send" => next = 0 /\ nbRx = 0

BurstRange ==
  \A i \in Slots : next <= i /\ i < nbRx => burst[i] = (arrived + i + 1) - nbRx

ArrivedOwned ==
  \A x \in Packets : /\ x > arrived <=> owner[x] = "wire"
                     /\ Dispatched < x /\ x <= arrived => owner[x] = "app"

BufferRange ==
  \A p \in Ports, i \in Slots :
    i < len[p] => /\ mTable[p][i] \in 1 .. Dispatched
                  /\ owner[mTable[p][i]] = "app"
                  /\ route[mTable[p][i]] = p

BufferOrder ==
  \A p \in Ports, i, k \in Slots :
    i < k /\ k < len[p] => mTable[p][i] < mTable[p][k]

NoLeak ==
  \A x \in Packets :
    owner[x] = "app" /\ x <= Dispatched => \E p \in Ports : Buffered(p, x)

SentFirst ==
  \A x \in Packets :
    owner[x] \in Ports =>
      /\ x <= Dispatched
      /\ route[x] = owner[x]
      /\ \A i \in Slots : i < len[owner[x]] => x < mTable[owner[x]][i]

IInv ==
  /\ TypeOK
  /\ Position
  /\ BurstRange
  /\ ArrivedOwned
  /\ BufferRange
  /\ BufferOrder
  /\ NoLeak
  /\ SentFirst
-----------------------------------------------------------------------------
(***************************************************************************)
(* Init and the actions that move no packet.                                *)
(***************************************************************************)
LEMMA InitIInv == Init => IInv
<1> SUFFICES ASSUME Init PROVE IInv
  OBVIOUS
<1> USE PortsAssumption, SizesAssumption DEF Init, Slots, Packets
<1>1. TypeOK
  <2>1. /\ 0 \in Slots
        /\ [i \in Slots |-> NoPacket] \in [Slots -> Packets \cup {NoPacket}]
        /\ rxq \in 0 .. (NumRxQueues - 1)
    OBVIOUS
  <2>2. len \in [Ports -> Slots] /\ mTable \in [Ports -> [Slots -> Packets \cup {NoPacket}]]
    BY <2>1
  <2>3. route \in [Packets -> Ports \cup {BadPort}] /\ owner \in [Packets -> Owners]
    BY DEF Owners
  <2>4. /\ pc \in {"top", "drain", "poll", "send", "done"}
        /\ elapsed \in BOOLEAN /\ forceQuit \in BOOLEAN
        /\ undrained \in SUBSET Ports
    OBVIOUS
  <2>5. /\ burst \in [Slots -> Packets \cup {NoPacket}]
        /\ nbRx \in 0 .. MaxPktBurst /\ next \in 0 .. MaxPktBurst
        /\ arrived \in 0 .. MaxArrivals
    BY <2>1
  <2> HIDE DEF Init
  <2>6. QED BY <2>1, <2>2, <2>3, <2>4, <2>5 DEF TypeOK
<1>2. Position /\ BurstRange
  BY DEF Position, BurstRange
<1>3. ArrivedOwned /\ NoLeak /\ SentFirst
  BY DEF ArrivedOwned, NoLeak, SentFirst, Dispatched
<1>4. BufferRange /\ BufferOrder
  BY DEF BufferRange, BufferOrder
<1>5. QED BY <1>1, <1>2, <1>3, <1>4 DEF IInv

LEMMA NextQueueType ==
  ASSUME TypeOK, NextQueue
  PROVE  /\ rxq' \in 0 .. (NumRxQueues - 1)
         /\ pc' \in {"poll", "top"}
BY SizesAssumption DEF TypeOK, NextQueue

\* A step that leaves the packets alone, and is not in the middle of a burst.
LEMMA IdleStep ==
  ASSUME IInv, TypeOK', UNCHANGED <<burstVars, bufVars, owner>>,
         pc = "send" <=> pc' = "send"
  PROVE  IInv'
BY DEF IInv, Position, BurstRange, ArrivedOwned, BufferRange, BufferOrder, NoLeak,
       SentFirst, Dispatched, Buffered, burstVars, bufVars

LEMMA QuietIInv ==
  ASSUME IInv, Tick \/ Signal \/ Top \/ PollEmpty \/ UNCHANGED vars
  PROVE  IInv'
<1>1. CASE Tick
  BY <1>1, IdleStep DEF Tick, IInv, TypeOK, burstVars, bufVars
<1>2. CASE Signal
  BY <1>2, IdleStep DEF Signal, IInv, TypeOK, burstVars, bufVars
<1>3. CASE Top
  BY <1>3, IdleStep DEF Top, IInv, TypeOK, burstVars, bufVars
<1>4. CASE PollEmpty
  <2>1. TypeOK'
    BY <1>4, NextQueueType DEF PollEmpty, IInv, TypeOK, burstVars, bufVars
  <2>2. QED
    BY <1>4, <2>1, IdleStep, NextQueueType DEF PollEmpty, IInv
<1>5. CASE UNCHANGED vars
  BY <1>5, IdleStep DEF vars, IInv, TypeOK, burstVars, bufVars
<1>6. QED
  BY <1>1, <1>2, <1>3, <1>4, <1>5

-----------------------------------------------------------------------------
(***************************************************************************)
(* The drain of one port.                                                   *)
(***************************************************************************)
LEMMA DrainIInv ==
  ASSUME IInv, NEW p \in Ports, NEW ret \in Accepted, DrainPort(p, ret)
  PROVE  IInv'
<1> USE SizesAssumption, PortsAssumption DEF IInv, DrainPort, burstVars, Slots, Packets, Accepted
<1> DEFINE held == {mTable[p][i] : i \in 0 .. (len[p] - 1)}
<1>0. /\ TypeOK
      /\ len[p] \in 0 .. (MaxPktBurst - 1)
      /\ next = 0 /\ nbRx = 0 /\ Dispatched = arrived
  BY DEF TypeOK, Position, Dispatched
<1>1. \A x \in Packets : /\ x \notin held => owner'[x] = owner[x]
                         /\ x \in held => owner'[x] \in {p, "pool"}
  BY <1>0 DEF TxBurst
<1>2. \A x \in held : x \in 1 .. arrived /\ owner[x] = "app" /\ route[x] = p
  BY <1>0 DEF BufferRange, TypeOK
<1>3. TypeOK'
  <2>1. owner' \in [Packets -> Owners]
    BY <1>0 DEF TxBurst, TypeOK, Owners
  <2>2. QED BY <1>0, <2>1 DEF TypeOK
<1>4. Position' /\ BurstRange'
  BY <1>0 DEF Position, BurstRange
<1>5. ArrivedOwned'
  BY <1>0, <1>1, <1>2 DEF ArrivedOwned, Dispatched, TypeOK
<1>6. BufferRange'
  <2> SUFFICES ASSUME NEW q \in Ports, NEW i \in Slots, i < len'[q]
               PROVE  /\ mTable[q][i] \in 1 .. Dispatched'
                      /\ owner'[mTable[q][i]] = "app"
                      /\ route[mTable[q][i]] = q
    BY DEF BufferRange
  <2>1. q # p /\ i < len[q]
    BY <1>0 DEF TypeOK
  <2>2. mTable[q][i] \in 1 .. Dispatched /\ owner[mTable[q][i]] = "app" /\ route[mTable[q][i]] = q
    BY <2>1 DEF BufferRange
  <2>3. mTable[q][i] \notin held /\ mTable[q][i] \in Packets
    BY <2>1, <2>2, <1>2, <1>0 DEF TypeOK
  <2>4. QED BY <2>2, <2>3, <1>1 DEF Dispatched
<1>7. BufferOrder'
  BY <1>0 DEF BufferOrder, TypeOK
<1>8. NoLeak'
  <2> SUFFICES ASSUME NEW x \in Packets, owner'[x] = "app", x <= Dispatched'
               PROVE  \E q \in Ports : Buffered(q, x)'
    BY DEF NoLeak
  <2>1. owner[x] = "app" /\ x \notin held
    BY <1>1
  <2>2. PICK q \in Ports : Buffered(q, x)
    BY <2>1 DEF NoLeak, Dispatched
  <2>3. q # p
    BY <2>1, <2>2, <1>0 DEF Buffered, TypeOK
  <2>4. QED BY <2>2, <2>3, <1>0 DEF Buffered, TypeOK
<1>9. SentFirst'
  <2> SUFFICES ASSUME NEW x \in Packets, owner'[x] \in Ports
               PROVE  /\ x <= Dispatched'
                      /\ route[x] = owner'[x]
                      /\ \A i \in Slots : i < len'[owner'[x]] => x < mTable[owner'[x]][i]
    BY DEF SentFirst
  <2>1. CASE x \in held
    BY <2>1, <1>0, <1>1, <1>2 DEF TypeOK, Dispatched
  <2>2. CASE x \notin held
    <3>1. owner'[x] = owner[x] /\ owner[x] \in Ports
      BY <2>2, <1>1
    <3>2. /\ x <= Dispatched
          /\ route[x] = owner[x]
          /\ \A i \in Slots : i < len[owner[x]] => x < mTable[owner[x]][i]
      BY <3>1 DEF SentFirst
    <3>3. \A i \in Slots : i < len'[owner[x]] => i < len[owner[x]]
      BY <1>0, <3>1 DEF TypeOK
    <3>4. QED BY <3>1, <3>2, <3>3 DEF Dispatched
  <2>3. QED BY <2>1, <2>2
<1>10. QED BY <1>3, <1>4, <1>5, <1>6, <1>7, <1>8, <1>9

-----------------------------------------------------------------------------
(***************************************************************************)
(* The dispatch of a group of k packets: facts the four dispatch actions     *)
(* share.                                                                    *)
(***************************************************************************)
LEMMA GroupFacts ==
  ASSUME IInv, NEW k \in Counts, pc = "send", next + k <= nbRx, Group(k)
  PROVE  /\ Dispatched \in Nat /\ Dispatched + k <= arrived /\ arrived <= MaxArrivals
         /\ \A i \in 0 .. (k - 1) : Pending(i) = Dispatched + 1 + i
         /\ \A x \in (Dispatched + 1) .. (Dispatched + k) :
               x \in Packets /\ owner[x] = "app" /\ route[x] = Dst
         /\ Dst \in Ports \cup {BadPort}
<1> USE SizesAssumption DEF IInv, Slots, Packets, Counts
<1>1. /\ nbRx \in 0 .. MaxPktBurst /\ next \in 0 .. MaxPktBurst
      /\ arrived \in 0 .. MaxArrivals /\ nbRx <= arrived
  BY DEF TypeOK, Position
<1>2. \A i \in 0 .. (k - 1) : /\ Pending(i) = burst[next + i]
                              /\ burst[next + i] = Dispatched + 1 + i
  BY <1>1 DEF BurstRange, Dispatched, Pending
<1>3. Dispatched \in Nat /\ Dispatched + k <= arrived
  BY <1>1 DEF Dispatched
<1>4. \A i \in 0 .. (k - 1) : route[burst[next + i]] = Dst
  <2>1. CASE Simd
    BY <2>1, <1>1 DEF Group
  <2>2. CASE ~Simd
    BY <2>2, <1>1 DEF Group, Dst
  <2>3. QED BY <2>1, <2>2
<1>5. ASSUME NEW x \in (Dispatched + 1) .. (Dispatched + k)
      PROVE  x \in Packets /\ owner[x] = "app" /\ route[x] = Dst
  <2>1. x \in Packets /\ owner[x] = "app"
    BY <1>1, <1>3 DEF ArrivedOwned
  <2>2. x - Dispatched - 1 \in 0 .. (k - 1) /\ x = Dispatched + 1 + (x - Dispatched - 1)
    BY <1>3
  <2>3. x = burst[next + (x - Dispatched - 1)]
    BY <1>2, <2>2
  <2>4. QED BY <2>1, <2>2, <2>3, <1>4
<1>6. Dst \in Ports \cup {BadPort}
  <2>1. Dispatched + 1 \in (Dispatched + 1) .. (Dispatched + k)
    BY <1>3
  <2>2. Dispatched + 1 \in Packets /\ route[Dispatched + 1] = Dst
    BY <2>1, <1>5
  <2>3. QED BY <2>2 DEF TypeOK
<1>7. QED BY <1>1, <1>2, <1>3, <1>5, <1>6

LEMMA AdvanceFacts ==
  ASSUME IInv, NEW k \in Counts, pc = "send", next + k <= nbRx, Advance(k)
  PROVE  /\ Dispatched' = Dispatched + k
         /\ Position' /\ BurstRange'
         /\ rxq' \in 0 .. (NumRxQueues - 1)
         /\ pc' \in {"top", "poll", "send"}
         /\ nbRx' \in 0 .. MaxPktBurst /\ next' \in 0 .. MaxPktBurst
         /\ UNCHANGED <<burst, arrived, route, elapsed, forceQuit, undrained>>
<1> USE SizesAssumption DEF IInv, Slots, Counts, Advance
<1>1. /\ nbRx \in 0 .. MaxPktBurst /\ next \in 0 .. MaxPktBurst
      /\ arrived \in 0 .. MaxArrivals /\ nbRx <= arrived
      /\ rxq \in 0 .. (NumRxQueues - 1)
  BY DEF TypeOK, Position
<1>2. CASE next + k < nbRx
  BY <1>1, <1>2 DEF Dispatched, Position, BurstRange
<1>3. CASE ~(next + k < nbRx)
  BY <1>1, <1>3, NextQueueType DEF Dispatched, Position, BurstRange
<1>4. QED BY <1>2, <1>3

LEMMA DispatchStep ==
  ASSUME IInv, NEW k \in Counts, pc = "send", next + k <= nbRx, Advance(k),
         owner' \in [Packets -> Owners],
         len' \in [Ports -> Slots],
         mTable' \in [Ports -> [Slots -> Packets \cup {NoPacket}]],
         \A x \in Packets :
           \/ owner'[x] = owner[x]
           \/ /\ owner[x] = "app"
              /\ x <= Dispatched + k
              /\ owner'[x] \in Ports \cup {"pool"}
  PROVE  TypeOK' /\ Position' /\ BurstRange' /\ ArrivedOwned'
<1>1. TypeOK'
  BY AdvanceFacts DEF IInv, TypeOK
<1>2. ArrivedOwned'
  <2> SUFFICES ASSUME NEW x \in Packets
               PROVE  /\ x > arrived <=> owner'[x] = "wire"
                      /\ Dispatched' < x /\ x <= arrived => owner'[x] = "app"
    BY AdvanceFacts DEF ArrivedOwned
  <2>1. /\ Dispatched' = Dispatched + k /\ Dispatched \in Nat /\ arrived \in Nat
        /\ x \in Nat /\ k \in Nat
    BY AdvanceFacts, SizesAssumption DEF IInv, TypeOK, Position, Dispatched, Packets, Counts
  <2>2. /\ x > arrived <=> owner[x] = "wire"
        /\ Dispatched < x /\ x <= arrived => owner[x] = "app"
    BY DEF IInv, ArrivedOwned
  <2>3. CASE owner'[x] = owner[x]
    BY <2>1, <2>2, <2>3
  <2>4. CASE owner'[x] # owner[x]
    BY <2>1, <2>2, <2>4, PortsAssumption
  <2>5. QED BY <2>3, <2>4
<1>3. QED BY <1>1, <1>2, AdvanceFacts

-----------------------------------------------------------------------------
(***************************************************************************)
(* The two dispatches that leave the buffers alone.                          *)
(***************************************************************************)
LEMMA BypassIInv ==
  ASSUME IInv, NEW k \in Counts, pc = "send", next + k <= nbRx, Group(k),
         Advance(k), UNCHANGED bufVars,
         owner' \in [Packets -> Owners],
         \A x \in Packets :
           IF x \in (Dispatched + 1) .. (Dispatched + k)
           THEN \/ owner'[x] = "pool"
                \/ owner'[x] = Dst /\ Dst \in Ports /\ len[Dst] = 0
           ELSE owner'[x] = owner[x]
  PROVE  IInv'
<1> DEFINE group == (Dispatched + 1) .. (Dispatched + k)
<1>1. /\ Dispatched \in Nat /\ Dispatched' = Dispatched + k /\ k \in Nat
      /\ len' = len /\ mTable' = mTable /\ route' = route
      /\ len \in [Ports -> Slots] /\ mTable \in [Ports -> [Slots -> Packets \cup {NoPacket}]]
  BY GroupFacts, AdvanceFacts, SizesAssumption DEF bufVars, IInv, TypeOK, Counts
<1>2. \A x \in Packets : x \notin group => owner'[x] = owner[x]
  OBVIOUS
<1>3. \A x \in group : x \in Packets /\ owner[x] = "app" /\ route[x] = Dst
                       /\ x > Dispatched /\ x <= Dispatched + k
  BY GroupFacts, <1>1
<1>4. TypeOK' /\ Position' /\ BurstRange' /\ ArrivedOwned'
  <2>1. \A x \in Packets :
           \/ owner'[x] = owner[x]
           \/ /\ owner[x] = "app"
              /\ x <= Dispatched + k
              /\ owner'[x] \in Ports \cup {"pool"}
    BY <1>3
  <2>2. QED BY <2>1, <1>1, DispatchStep
<1>5. BufferRange'
  <2> SUFFICES ASSUME NEW p \in Ports, NEW i \in Slots, i < len[p]
               PROVE  /\ mTable[p][i] \in 1 .. Dispatched'
                      /\ owner'[mTable[p][i]] = "app"
                      /\ route[mTable[p][i]] = p
    BY <1>1 DEF BufferRange
  <2>1. /\ mTable[p][i] \in 1 .. Dispatched
        /\ owner[mTable[p][i]] = "app" /\ route[mTable[p][i]] = p
    BY DEF IInv, BufferRange
  <2>2. mTable[p][i] \in Packets /\ mTable[p][i] \notin group
    BY <2>1, <1>1, <1>3 DEF NoPacket
  <2>3. QED BY <2>1, <2>2, <1>1, <1>2
<1>6. BufferOrder'
  BY <1>1 DEF IInv, BufferOrder
<1>7. NoLeak'
  <2> SUFFICES ASSUME NEW x \in Packets, owner'[x] = "app", x <= Dispatched'
               PROVE  \E p \in Ports : Buffered(p, x)'
    BY DEF NoLeak
  <2>1. x \notin group
    BY PortsAssumption
  <2>2. owner[x] = "app" /\ x <= Dispatched
    BY <2>1, <1>1, <1>2 DEF Packets
  <2>3. QED BY <2>2, <1>1 DEF IInv, NoLeak, Buffered
<1>8. SentFirst'
  <2> SUFFICES ASSUME NEW x \in Packets, owner'[x] \in Ports
               PROVE  /\ x <= Dispatched'
                      /\ route[x] = owner'[x]
                      /\ \A i \in Slots : i < len[owner'[x]] => x < mTable[owner'[x]][i]
    BY <1>1 DEF SentFirst
  <2>1. CASE x \in group
    <3>1. owner'[x] = Dst /\ len[Dst] = 0
      BY <2>1, PortsAssumption
    <3>2. QED BY <3>1, <2>1, <1>1, <1>3 DEF Slots
  <2>2. CASE x \notin group
    BY <2>2, <1>1, <1>2 DEF IInv, SentFirst, Packets
  <2>3. QED BY <2>1, <2>2
<1>9. QED BY <1>4, <1>5, <1>6, <1>7, <1>8 DEF IInv

LEMMA DropIInv ==
  ASSUME IInv, NEW k \in Counts, DropGroup(k)
  PROVE  IInv'
<1> DEFINE m == [i \in 0 .. (k - 1) |-> Pending(i)]
<1>1. /\ Dispatched \in Nat /\ k \in Nat
      /\ \A i \in 0 .. (k - 1) : m[i] = Dispatched + 1 + i
  BY GroupFacts, SizesAssumption DEF DropGroup, Counts
<1>2. ASSUME NEW x \in Packets
      PROVE  (\E i \in 0 .. (k - 1) : m[i] = x)
             <=> x \in (Dispatched + 1) .. (Dispatched + k)
  <2>1. x \in (Dispatched + 1) .. (Dispatched + k) =>
          /\ x - Dispatched - 1 \in 0 .. (k - 1)
          /\ Dispatched + 1 + (x - Dispatched - 1) = x
    BY <1>1
  <2>2. QED BY <2>1, <1>1
<1>3. \A x \in Packets :
         owner'[x] = IF x \in (Dispatched + 1) .. (Dispatched + k)
                     THEN "pool" ELSE owner[x]
  BY <1>2 DEF DropGroup, Free
<1>4. owner' \in [Packets -> Owners]
  BY DEF DropGroup, Free, IInv, TypeOK, Owners
<1>5. QED
  BY <1>3, <1>4, BypassIInv DEF DropGroup

LEMMA DirectIInv ==
  ASSUME IInv, NEW k \in Counts, NEW ret \in Accepted, SendDirect(k, ret)
  PROVE  IInv'
<1> DEFINE m == [i \in 0 .. (k - 1) |-> Pending(i)]
<1>1. /\ Dispatched \in Nat /\ k \in Nat
      /\ \A i \in 0 .. (k - 1) : m[i] = Dispatched + 1 + i
      /\ Dst \in Ports
  BY GroupFacts, SizesAssumption DEF SendDirect, Counts
<1>2. ASSUME NEW x \in Packets
      PROVE  (\E i \in 0 .. (k - 1) : m[i] = x)
             <=> x \in (Dispatched + 1) .. (Dispatched + k)
  <2>1. x \in (Dispatched + 1) .. (Dispatched + k) =>
          /\ x - Dispatched - 1 \in 0 .. (k - 1)
          /\ Dispatched + 1 + (x - Dispatched - 1) = x
    BY <1>1
  <2>2. QED BY <2>1, <1>1
<1>3. \A x \in Packets :
         IF x \in (Dispatched + 1) .. (Dispatched + k)
         THEN owner'[x] \in {"pool", Dst} ELSE owner'[x] = owner[x]
  BY <1>2 DEF SendDirect, TxBurst
<1>4. owner' \in [Packets -> Owners]
  BY <1>1 DEF SendDirect, TxBurst, IInv, TypeOK, Owners
<1>5. QED
  BY <1>1, <1>3, <1>4, BypassIInv DEF SendDirect

-----------------------------------------------------------------------------
(***************************************************************************)
(* The two dispatches that use the buffer.                                   *)
(***************************************************************************)
\* A buffer with the first n packets of the group behind what it held.
LEMMA FilledFacts ==
  ASSUME IInv, NEW k \in Counts, pc = "send", next + k <= nbRx, Group(k),
         Dst \in Ports, NEW n \in 1 .. k, len[Dst] + n <= MaxPktBurst
  PROVE  /\ Filled(n) \in [Slots -> Packets \cup {NoPacket}]
         /\ \A i \in Slots : i < len[Dst] => Filled(n)[i] = mTable[Dst][i]
         /\ \A i \in Slots : len[Dst] <= i /\ i < len[Dst] + n =>
                               Filled(n)[i] = Dispatched + 1 + (i - len[Dst])
         /\ \A i \in Slots : i < len[Dst] + n =>
               /\ Filled(n)[i] \in 1 .. (Dispatched + n)
               /\ owner[Filled(n)[i]] = "app"
               /\ route[Filled(n)[i]] = Dst
         /\ \A i, j \in Slots :
               i < j /\ j < len[Dst] + n => Filled(n)[i] < Filled(n)[j]
         /\ \A x \in (Dispatched + 1) .. (Dispatched + n) :
               \E i \in Slots : i < len[Dst] + n /\ Filled(n)[i] = x
<1> USE SizesAssumption DEF Slots, Counts
<1>1. /\ Dispatched \in Nat /\ Dispatched + k <= arrived /\ arrived <= MaxArrivals
      /\ arrived \in Nat /\ len[Dst] \in Slots /\ n \in Nat
      /\ mTable[Dst] \in [Slots -> Packets \cup {NoPacket}]
      /\ \A i \in 0 .. (n - 1) : Pending(i) = Dispatched + 1 + i
  BY GroupFacts DEF IInv, TypeOK
<1>2. \A i \in Slots : i < len[Dst] => Filled(n)[i] = mTable[Dst][i]
  BY <1>1 DEF Filled
<1>3. \A i \in Slots : len[Dst] <= i /\ i < len[Dst] + n =>
                         Filled(n)[i] = Dispatched + 1 + (i - len[Dst])
  <2> SUFFICES ASSUME NEW i \in Slots, len[Dst] <= i, i < len[Dst] + n
               PROVE  Filled(n)[i] = Dispatched + 1 + (i - len[Dst])
    OBVIOUS
  <2>1. i \in len[Dst] .. (len[Dst] + n - 1) /\ i - len[Dst] \in 0 .. (n - 1)
    BY <1>1
  <2>2. Filled(n)[i] = Pending(i - len[Dst])
    BY <2>1 DEF Filled
  <2>3. QED BY <2>1, <2>2, <1>1
<1>4. ASSUME NEW i \in Slots, i < len[Dst]
      PROVE  /\ Filled(n)[i] \in 1 .. Dispatched
             /\ owner[Filled(n)[i]] = "app"
             /\ route[Filled(n)[i]] = Dst
  BY <1>2, <1>4 DEF IInv, BufferRange
<1>5. ASSUME NEW i \in Slots, len[Dst] <= i, i < len[Dst] + n
      PROVE  /\ Filled(n)[i] \in (Dispatched + 1) .. (Dispatched + n)
             /\ owner[Filled(n)[i]] = "app"
             /\ route[Filled(n)[i]] = Dst
  <2>1. Filled(n)[i] \in (Dispatched + 1) .. (Dispatched + n)
    BY <1>1, <1>3, <1>5
  <2>2. Filled(n)[i] \in (Dispatched + 1) .. (Dispatched + k)
    BY <1>1, <2>1
  <2>3. QED BY <2>1, <2>2, GroupFacts
<1>6. Filled(n) \in [Slots -> Packets \cup {NoPacket}]
  <2>1. \A i \in Slots : i \in len[Dst] .. (len[Dst] + n - 1) =>
                           Pending(i - len[Dst]) \in Packets
    BY <1>1 DEF Packets
  <2>2. QED BY <2>1, <1>1 DEF Filled
<1>7. \A i \in Slots : i < len[Dst] + n =>
               /\ Filled(n)[i] \in 1 .. (Dispatched + n)
               /\ owner[Filled(n)[i]] = "app"
               /\ route[Filled(n)[i]] = Dst
  BY <1>1, <1>4, <1>5
<1>8. ASSUME NEW i \in Slots, NEW j \in Slots, i < j, j < len[Dst] + n
      PROVE  Filled(n)[i] < Filled(n)[j]
  <2>1. CASE j < len[Dst]
    <3>1. i < len[Dst]
      BY <1>1, <1>8, <2>1
    <3>2. Filled(n)[i] = mTable[Dst][i] /\ Filled(n)[j] = mTable[Dst][j]
      BY <3>1, <1>2, <2>1
    <3>3. QED BY <3>2, <1>8, <2>1 DEF IInv, BufferOrder
  <2>2. CASE i < len[Dst] /\ len[Dst] <= j
    BY <1>1, <1>4, <1>5, <1>8, <2>2
  <2>3. CASE len[Dst] <= i
    <3>1. i \in Nat /\ j \in Nat /\ len[Dst] \in Nat /\ len[Dst] <= j /\ i < len[Dst] + n
      BY <1>1, <1>8, <2>3
    <3>2. /\ Filled(n)[i] = Dispatched + 1 + (i - len[Dst])
          /\ Filled(n)[j] = Dispatched + 1 + (j - len[Dst])
      BY <3>1, <1>3, <1>8, <2>3
    <3>3. QED BY <3>1, <3>2, <1>1, <1>8
  <2>4. QED BY <2>1, <2>2, <2>3, <1>1, <1>8
<1>9. ASSUME NEW x \in (Dispatched + 1) .. (Dispatched + n)
      PROVE  \E i \in Slots : i < len[Dst] + n /\ Filled(n)[i] = x
  <2> DEFINE i == len[Dst] + (x - Dispatched - 1)
  <2>1. /\ i \in Slots /\ len[Dst] <= i /\ i < len[Dst] + n
        /\ Dispatched + 1 + (i - len[Dst]) = x
    BY <1>1
  <2>2. Filled(n)[i] = x
    BY <2>1, <1>3
  <2>3. QED BY <2>1, <2>2
<1>10. QED BY <1>2, <1>3, <1>6, <1>7, <1>8, <1>9

LEMMA BufferIInv ==
  ASSUME IInv, NEW k \in Counts, SendBuffer(k)
  PROVE  IInv'
<1> USE SizesAssumption DEF Slots, Counts
<1>1. /\ pc = "send" /\ next + k <= nbRx /\ Group(k) /\ Advance(k)
      /\ Dst \in Ports /\ len[Dst] + k < MaxPktBurst
      /\ Dispatched \in Nat /\ Dispatched' = Dispatched + k /\ k \in 1 .. k /\ k \in Nat
      /\ len \in [Ports -> Slots] /\ mTable \in [Ports -> [Slots -> Packets \cup {NoPacket}]]
      /\ route' = route /\ owner' = owner
  BY GroupFacts, AdvanceFacts DEF SendBuffer, IInv, TypeOK
<1>2. /\ len' \in [Ports -> Slots] /\ mTable' \in [Ports -> [Slots -> Packets \cup {NoPacket}]]
      /\ len'[Dst] = len[Dst] + k /\ mTable'[Dst] = Filled(k)
      /\ \A p \in Ports \ {Dst} : len'[p] = len[p] /\ mTable'[p] = mTable[p]
  <2>1. Filled(k) \in [Slots -> Packets \cup {NoPacket}] /\ len[Dst] + k \in Slots
    BY <1>1, FilledFacts
  <2>2. QED BY <1>1, <2>1 DEF SendBuffer
<1>3. TypeOK' /\ Position' /\ BurstRange' /\ ArrivedOwned'
  BY <1>1, <1>2, DispatchStep DEF IInv, TypeOK
<1>4. BufferRange'
  <2> SUFFICES ASSUME NEW p \in Ports, NEW i \in Slots, i < len'[p]
               PROVE  /\ mTable'[p][i] \in 1 .. Dispatched'
                      /\ owner[mTable'[p][i]] = "app"
                      /\ route[mTable'[p][i]] = p
    BY <1>1 DEF BufferRange
  <2>1. CASE p = Dst
    BY <2>1, <1>1, <1>2, FilledFacts
  <2>2. CASE p # Dst
    <3>1. i < len[p] /\ mTable'[p][i] = mTable[p][i]
      BY <2>2, <1>2
    <3>2. QED BY <3>1, <1>1 DEF IInv, BufferRange
  <2>3. QED BY <2>1, <2>2
<1>5. BufferOrder'
  <2> SUFFICES ASSUME NEW p \in Ports, NEW i \in Slots, NEW j \in Slots, i < j, j < len'[p]
               PROVE  mTable'[p][i] < mTable'[p][j]
    BY DEF BufferOrder
  <2>1. CASE p = Dst
    BY <2>1, <1>1, <1>2, FilledFacts
  <2>2. CASE p # Dst
    BY <2>2, <1>2 DEF IInv, BufferOrder
  <2>3. QED BY <2>1, <2>2
<1>6. NoLeak'
  <2> SUFFICES ASSUME NEW x \in Packets, owner[x] = "app", x <= Dispatched'
               PROVE  \E p \in Ports, i \in Slots : i < len'[p] /\ mTable'[p][i] = x
    BY <1>1 DEF NoLeak, Buffered
  <2>1. CASE x > Dispatched
    <3>1. x \in (Dispatched + 1) .. (Dispatched + k)
      BY <2>1, <1>1 DEF Packets
    <3>2. PICK i \in Slots : i < len[Dst] + k /\ Filled(k)[i] = x
      BY <3>1, <1>1, FilledFacts
    <3>3. QED BY <3>2, <1>1, <1>2
  <2>2. CASE ~(x > Dispatched)
    <3>1. PICK p \in Ports, i \in Slots : i < len[p] /\ mTable[p][i] = x
      BY <2>2, <1>1 DEF IInv, NoLeak, Buffered, Packets
    <3>2. CASE p = Dst
      <4>1. Filled(k)[i] = x /\ i < len[Dst] + k
        BY <3>1, <3>2, <1>1, FilledFacts
      <4>2. QED BY <4>1, <1>1, <1>2
    <3>3. CASE p # Dst
      BY <3>1, <3>3, <1>2
    <3>4. QED BY <3>2, <3>3
  <2>3. QED BY <2>1, <2>2
<1>7. SentFirst'
  <2> SUFFICES ASSUME NEW x \in Packets, owner[x] \in Ports
               PROVE  /\ x <= Dispatched'
                      /\ route[x] = owner[x]
                      /\ \A i \in Slots : i < len'[owner[x]] => x < mTable'[owner[x]][i]
    BY <1>1 DEF SentFirst
  <2>1. /\ x <= Dispatched /\ route[x] = owner[x] /\ x \in Nat
        /\ \A i \in Slots : i < len[owner[x]] => x < mTable[owner[x]][i]
    BY DEF IInv, SentFirst, Packets
  <2>2. CASE owner[x] = Dst
    <3> SUFFICES ASSUME NEW i \in Slots, i < len[Dst] + k
                 PROVE  x < Filled(k)[i]
      BY <2>1, <2>2, <1>1, <1>2
    <3>1. CASE i < len[Dst]
      BY <3>1, <2>1, <2>2, <1>1, FilledFacts
    <3>2. CASE ~(i < len[Dst])
      <4>1. Filled(k)[i] = Dispatched + 1 + (i - len[Dst]) /\ len[Dst] \in Slots
        <5>1. k \in 1 .. k /\ len[Dst] <= i /\ len[Dst] + k <= MaxPktBurst
          BY <3>2, <1>1
        <5>2. \A t \in Slots : len[Dst] <= t /\ t < len[Dst] + k =>
                               Filled(k)[t] = Dispatched + 1 + (t - len[Dst])
          <6> HIDE DEF Slots, Counts
          <6>1. QED BY <5>1, <1>1, FilledFacts
        <5>3. QED BY <5>1, <5>2, <1>1
      <4>2. i - len[Dst] \in Nat /\ x <= Dispatched /\ Dispatched \in Nat /\ x \in Nat
        BY <4>1, <3>2, <2>1, <1>1
      <4>3. QED BY <4>1, <4>2
    <3>3. QED BY <3>1, <3>2
  <2>3. CASE owner[x] # Dst
    BY <2>1, <2>3, <1>1, <1>2
  <2>4. QED BY <2>2, <2>3
<1>8. QED BY <1>3, <1>4, <1>5, <1>6, <1>7 DEF IInv

\* The buffer fills up: it is handed over whole and the rest of the group starts it anew.
LEMMA FlushIInv ==
  ASSUME IInv, NEW k \in Counts, NEW ret \in Accepted, SendFlush(k, ret)
  PROVE  IInv'
<1> USE SizesAssumption DEF Slots, Counts
<1> DEFINE n == Fit(k)
           rest == k - n
           m == Filled(n)
           sent == {m[i] : i \in Slots}
<1>1. /\ pc = "send" /\ next + k <= nbRx /\ Group(k) /\ Advance(k)
      /\ Dst \in Ports
      /\ Dispatched \in Nat /\ Dispatched' = Dispatched + k /\ k \in Nat
      /\ len \in [Ports -> Slots] /\ mTable \in [Ports -> [Slots -> Packets \cup {NoPacket}]]
      /\ route' = route
  BY GroupFacts, AdvanceFacts DEF SendFlush, IInv, TypeOK
<1>2. n \in 1 .. k /\ len[Dst] + n = MaxPktBurst /\ rest \in Slots
  BY <1>1 DEF SendFlush, Fit
<1>3. /\ m \in [Slots -> Packets \cup {NoPacket}]
      /\ \A i \in Slots : i < len[Dst] => m[i] = mTable[Dst][i]
      /\ \A i \in Slots : /\ m[i] \in 1 .. (Dispatched + n)
                          /\ owner[m[i]] = "app"
                          /\ route[m[i]] = Dst
      /\ \A x \in (Dispatched + 1) .. (Dispatched + n) : x \in sent
  <2> HIDE DEF n
  <2>1. \A i \in Slots : i < len[Dst] + n
    BY <1>2
  <2>2. len[Dst] + n <= MaxPktBurst
    BY <1>2
  <2> HIDE DEF sent
  <2>3. /\ m \in [Slots -> Packets \cup {NoPacket}]
        /\ \A i \in Slots : i < len[Dst] => m[i] = mTable[Dst][i]
        /\ \A i \in Slots : /\ m[i] \in 1 .. (Dispatched + n)
                            /\ owner[m[i]] = "app"
                            /\ route[m[i]] = Dst
    BY <1>1, <1>2, <2>1, <2>2, FilledFacts
  <2>4. \A x \in (Dispatched + 1) .. (Dispatched + n) : \E i \in Slots : m[i] = x
    BY <1>1, <1>2, <2>2, FilledFacts
  <2>5. QED BY <2>3, <2>4 DEF sent
<1>4. \A i \in Slots : i < rest => Pending(n + i) = Dispatched + n + 1 + i
  <2> HIDE DEF n
  <2>1. \A i \in 0 .. (k - 1) : Pending(i) = Dispatched + 1 + i
    BY <1>1, GroupFacts
  <2>2. \A i \in Slots : i < rest => n + i \in 0 .. (k - 1)
    BY <1>1, <1>2
  <2>3. QED BY <1>1, <1>2, <2>1, <2>2
<1>5. /\ len' = [len EXCEPT ![Dst] = rest]
      /\ mTable' = [mTable EXCEPT ![Dst] =
                     [i \in Slots |-> IF i < Copied(rest) THEN Pending(n + i) ELSE m[i]]]
      /\ owner' = TxBurst(Dst, m, MaxPktBurst, ret)
  BY DEF SendFlush
<1> HIDE DEF n, m
<1>6. /\ len' \in [Ports -> Slots] /\ mTable' \in [Ports -> [Slots -> Packets \cup {NoPacket}]]
      /\ len'[Dst] = rest
      /\ \A i \in Slots : i < rest => mTable'[Dst][i] = Dispatched + n + 1 + i
      /\ \A p \in Ports \ {Dst} : len'[p] = len[p] /\ mTable'[p] = mTable[p]
  <2>1. \A i \in Slots : Pending(n + i) \in Packets \cup {NoPacket}
    <3>1. burst \in [Slots -> Packets \cup {NoPacket}] /\ next \in Nat
      BY DEF IInv, TypeOK
    <3>2. QED BY <3>1, <1>2 DEF Pending
  <2>2. [i \in Slots |-> IF i < Copied(rest) THEN Pending(n + i) ELSE m[i]]
          \in [Slots -> Packets \cup {NoPacket}]
    BY <2>1, <1>3
  <2>3. mTable' \in [Ports -> [Slots -> Packets \cup {NoPacket}]]
    BY <2>2, <1>1, <1>5
  <2>4. \A i \in Slots : i < rest => i < Copied(rest)
    BY <1>2 DEF Copied
  <2>5. mTable'[Dst] = [i \in Slots |-> IF i < Copied(rest) THEN Pending(n + i) ELSE m[i]]
    BY <1>1, <1>5
  <2>6. \A i \in Slots : i < rest => mTable'[Dst][i] = Dispatched + n + 1 + i
    BY <2>4, <2>5, <1>4
  <2>7. /\ len' \in [Ports -> Slots] /\ len'[Dst] = rest
        /\ \A p \in Ports \ {Dst} : len'[p] = len[p] /\ mTable'[p] = mTable[p]
    BY <1>1, <1>2, <1>5
  <2>8. QED BY <2>3, <2>6, <2>7
<1>7. /\ owner' \in [Packets -> Owners]
      /\ \A x \in Packets : /\ x \notin sent => owner'[x] = owner[x]
                            /\ x \in sent => owner'[x] \in {Dst, "pool"}
  <2>1. 0 .. (MaxPktBurst - 1) = Slots
    OBVIOUS
  <2>2. QED BY <2>1, <1>1, <1>5 DEF TxBurst, IInv, TypeOK, Owners
<1>8. \A x \in sent : /\ x \in 1 .. (Dispatched + n) /\ x \in Packets
                      /\ owner[x] = "app" /\ route[x] = Dst
  <2>1. Dispatched + n <= MaxArrivals /\ MaxArrivals \in Nat
    <3>1. Dispatched + k <= arrived /\ arrived <= MaxArrivals
      BY <1>1, GroupFacts
    <3>2. arrived \in Nat
      BY DEF IInv, TypeOK
    <3>3. n <= k /\ n \in Nat /\ k \in Nat /\ Dispatched \in Nat
      BY <1>1, <1>2
    <3>4. QED BY <3>1, <3>2, <3>3
  <2>2. \A y \in 1 .. (Dispatched + n) : y \in 1 .. MaxArrivals
    BY <2>1, <1>1, <1>2
  <2>3. QED BY <2>2, <1>3 DEF Packets
<1>9. TypeOK' /\ Position' /\ BurstRange' /\ ArrivedOwned'
  <2>1. \A x \in Packets :
           \/ owner'[x] = owner[x]
           \/ /\ owner[x] = "app"
              /\ x <= Dispatched + k
              /\ owner'[x] \in Ports \cup {"pool"}
    BY <1>1, <1>2, <1>7, <1>8
  <2>2. QED BY <2>1, <1>1, <1>6, <1>7, DispatchStep
<1>8a. \A i \in Slots : m[i] \in sent
  OBVIOUS
<1> HIDE DEF sent
<1>10. \A i \in Slots : i < rest =>
          /\ Dispatched + n + 1 + i \in (Dispatched + 1) .. (Dispatched + k)
          /\ Dispatched + n + 1 + i \notin sent
  BY <1>1, <1>2, <1>8
<1>11. BufferRange'
  <2> SUFFICES ASSUME NEW p \in Ports, NEW i \in Slots, i < len'[p]
               PROVE  /\ mTable'[p][i] \in 1 .. Dispatched'
                      /\ owner'[mTable'[p][i]] = "app"
                      /\ route[mTable'[p][i]] = p
    BY <1>1 DEF BufferRange
  <2>1. CASE p = Dst
    <3> DEFINE x == Dispatched + n + 1 + i
    <3>1. mTable'[p][i] = x /\ x \in (Dispatched + 1) .. (Dispatched + k) /\ x \notin sent
      BY <2>1, <1>6, <1>10
    <3>2. x \in Packets /\ owner[x] = "app" /\ route[x] = Dst
      BY <3>1, <1>1, GroupFacts
    <3> HIDE DEF x
    <3>3. x \in 1 .. Dispatched'
      BY <3>1, <1>1
    <3>4. owner'[x] = "app"
      BY <3>1, <3>2, <1>7
    <3>5. QED BY <2>1, <3>1, <3>2, <3>3, <3>4
  <2>2. CASE p # Dst
    <3>1. i < len[p] /\ mTable'[p][i] = mTable[p][i]
      BY <2>2, <1>6
    <3>2. /\ mTable[p][i] \in 1 .. Dispatched
          /\ owner[mTable[p][i]] = "app" /\ route[mTable[p][i]] = p
      BY <3>1 DEF IInv, BufferRange
    <3>3. mTable[p][i] \in Packets /\ mTable[p][i] \notin sent
      BY <2>2, <3>2, <1>1, <1>8 DEF NoPacket
    <3>4. QED BY <3>1, <3>2, <3>3, <1>1, <1>7
  <2>3. QED BY <2>1, <2>2
<1>12. BufferOrder'
  <2> SUFFICES ASSUME NEW p \in Ports, NEW i \in Slots, NEW j \in Slots, i < j, j < len'[p]
               PROVE  mTable'[p][i] < mTable'[p][j]
    BY DEF BufferOrder
  <2>1. CASE p = Dst
    BY <2>1, <1>1, <1>2, <1>6
  <2>2. CASE p # Dst
    BY <2>2, <1>6 DEF IInv, BufferOrder
  <2>3. QED BY <2>1, <2>2
<1>13. NoLeak'
  <2> SUFFICES ASSUME NEW x \in Packets, owner'[x] = "app", x <= Dispatched'
               PROVE  \E p \in Ports, i \in Slots : i < len'[p] /\ mTable'[p][i] = x
    BY DEF NoLeak, Buffered
  <2>1. x \notin sent /\ owner[x] = "app" /\ x \in Nat
    BY <1>1, <1>7, PortsAssumption DEF Packets
  <2>2. CASE x > Dispatched
    <3> DEFINE i == x - Dispatched - n - 1
    <3>1. x > Dispatched + n
      BY <2>1, <2>2, <1>1, <1>2, <1>3
    <3>2. i \in Slots /\ i < rest /\ Dispatched + n + 1 + i = x
      BY <2>1, <3>1, <1>1, <1>2
    <3>3. mTable'[Dst][i] = x
      BY <3>2, <1>6
    <3>4. QED BY <3>2, <3>3, <1>1, <1>6
  <2>3. CASE ~(x > Dispatched)
    <3>1. PICK p \in Ports, i \in Slots : i < len[p] /\ mTable[p][i] = x
      BY <2>1, <2>3, <1>1 DEF IInv, NoLeak, Buffered
    <3>2. p # Dst
      BY <2>1, <3>1, <1>3, <1>8a
    <3>3. QED BY <3>1, <3>2, <1>6
  <2>4. QED BY <2>2, <2>3
<1>14. SentFirst'
  <2> SUFFICES ASSUME NEW x \in Packets, owner'[x] \in Ports
               PROVE  /\ x <= Dispatched'
                      /\ route[x] = owner'[x]
                      /\ \A i \in Slots : i < len'[owner'[x]] => x < mTable'[owner'[x]][i]
    BY <1>1 DEF SentFirst
  <2>1. x \in Nat
    BY DEF Packets
  <2>2. CASE x \in sent
    <3>1. owner'[x] = Dst /\ x <= Dispatched + n /\ route[x] = Dst
      BY <2>2, <1>1, <1>2, <1>7, <1>8, PortsAssumption
    <3>2. x <= Dispatched'
      BY <2>1, <3>1, <1>1, <1>2
    <3>3. ASSUME NEW i \in Slots, i < rest PROVE x < mTable'[Dst][i]
      <4>1. mTable'[Dst][i] = Dispatched + n + 1 + i
        BY <3>3, <1>6
      <4>2. QED BY <2>1, <3>1, <4>1, <1>1, <1>2
    <3>4. QED BY <3>1, <3>2, <3>3, <1>6
  <2>3. CASE x \notin sent
    <3>1. /\ owner'[x] = owner[x] /\ x <= Dispatched /\ route[x] = owner[x]
          /\ \A i \in Slots : i < len[owner[x]] => x < mTable[owner[x]][i]
      BY <2>3, <1>7 DEF IInv, SentFirst
    <3>2. x <= Dispatched'
      <4>1. Dispatched' = Dispatched + k /\ k \in Nat /\ Dispatched \in Nat
        BY <1>1, <1>2
      <4>2. QED BY <2>1, <3>1, <4>1
    <3>3. CASE owner[x] = Dst
      <4>1. ASSUME NEW i \in Slots, i < rest PROVE x < mTable'[Dst][i]
        <5>1. mTable'[Dst][i] = Dispatched + n + 1 + i
          BY <4>1, <1>6
        <5>2. QED BY <2>1, <3>1, <5>1, <1>1, <1>2
      <4>2. QED BY <3>1, <3>2, <3>3, <4>1, <1>6
    <3>4. CASE owner[x] # Dst
      BY <3>1, <3>2, <3>4, <1>6
    <3>5. QED BY <3>3, <3>4
  <2>4. QED BY <2>2, <2>3
<1>15. QED BY <1>9, <1>11, <1>12, <1>13, <1>14 DEF IInv

-----------------------------------------------------------------------------
(***************************************************************************)
(* Receiving a burst.                                                       *)
(***************************************************************************)
LEMMA ReceiveIInv ==
  ASSUME IInv, NEW n \in Counts, NEW dst \in [1 .. n -> Ports \cup {BadPort}],
         PollBurst(n, dst)
  PROVE  IInv'
<1> USE SizesAssumption DEF IInv, PollBurst, bufVars, Slots, Packets, Counts
<1>1. /\ next = 0 /\ nbRx = 0 /\ Dispatched = arrived /\ Dispatched' = arrived
      /\ arrived \in Nat /\ n \in Nat /\ arrived' \in 0 .. MaxArrivals
      /\ len' = len /\ mTable' = mTable
      /\ next' = 0 /\ nbRx' = n /\ arrived' = arrived + n
  BY DEF Position, Dispatched, TypeOK
<1>2. \A x \in Packets : x <= arrived => owner'[x] = owner[x] /\ route'[x] = route[x]
  BY <1>1
<1>3. TypeOK'
  <2>1. burst' \in [Slots -> Packets \cup {NoPacket}]
    BY <1>1 DEF TypeOK
  <2>2. route' \in [Packets -> Ports \cup {BadPort}]
    <3>1. \A x \in Packets : x \in (arrived + 1) .. (arrived + n) =>
                               dst[x - arrived] \in Ports \cup {BadPort}
      BY <1>1
    <3>2. QED BY <3>1 DEF TypeOK
  <2>3. owner' \in [Packets -> Owners]
    BY DEF TypeOK, Owners
  <2>4. QED BY <1>1, <2>1, <2>2, <2>3 DEF TypeOK
<1>4. Position' /\ BurstRange'
  BY <1>1 DEF Position, BurstRange, TypeOK
<1>5. ArrivedOwned'
  BY <1>1 DEF ArrivedOwned, TypeOK
<1>6. BufferRange'
  <2> SUFFICES ASSUME NEW p \in Ports, NEW i \in Slots, i < len[p]
               PROVE  /\ mTable[p][i] \in 1 .. arrived
                      /\ owner'[mTable[p][i]] = "app"
                      /\ route'[mTable[p][i]] = p
    BY <1>1 DEF BufferRange
  <2>1. /\ mTable[p][i] \in 1 .. arrived
        /\ owner[mTable[p][i]] = "app" /\ route[mTable[p][i]] = p
    BY <1>1 DEF BufferRange
  <2>2. mTable[p][i] \in Packets /\ mTable[p][i] <= arrived
    BY <1>1, <2>1
  <2>3. QED BY <1>2, <2>1, <2>2
<1>7. BufferOrder'
  BY <1>1 DEF BufferOrder
<1>8. NoLeak'
  BY <1>1, <1>2 DEF NoLeak, Buffered
<1>9. SentFirst'
  <2> SUFFICES ASSUME NEW x \in Packets, owner'[x] \in Ports
               PROVE  /\ x <= arrived
                      /\ route'[x] = owner'[x]
                      /\ \A i \in Slots : i < len[owner'[x]] => x < mTable[owner'[x]][i]
    BY <1>1 DEF SentFirst
  <2>1. x \notin (arrived + 1) .. (arrived + n) /\ owner'[x] = owner[x] /\ route'[x] = route[x]
    BY <1>1, PortsAssumption
  <2>2. QED BY <2>1, <1>1 DEF SentFirst
<1>10. QED BY <1>3, <1>4, <1>5, <1>6, <1>7, <1>8, <1>9

-----------------------------------------------------------------------------
(***************************************************************************)
(* The invariant, and what follows from it.                                 *)
(***************************************************************************)
LEMMA NextIInv == IInv /\ [Next]_vars => IInv'
<1> SUFFICES ASSUME IInv, [Next]_vars PROVE IInv'
  OBVIOUS
<1>1. CASE Drain
  BY <1>1, DrainIInv DEF Drain
<1>2. CASE Receive
  BY <1>2, ReceiveIInv DEF Receive
<1>3. CASE Drop
  BY <1>3, DropIInv DEF Drop
<1>4. CASE Direct
  BY <1>4, DirectIInv DEF Direct
<1>5. CASE Buffer
  BY <1>5, BufferIInv DEF Buffer
<1>6. CASE Flush
  BY <1>6, FlushIInv DEF Flush
<1>7. CASE Tick \/ Signal \/ Top \/ PollEmpty \/ Finished \/ UNCHANGED vars
  BY <1>7, QuietIInv DEF Finished
<1>8. QED
  BY <1>1, <1>2, <1>3, <1>4, <1>5, <1>6, <1>7 DEF Next, Lcore

\* The inductive invariant holds of every behaviour of the loop.
THEOREM Invariance == Spec => []IInv
<1>1. QED
  BY InitIInv, NextIInv, PTL DEF Spec

\* No buffer is left full: send_packetsx4 and send_single_packet always find a free slot.
THEOREM TypeCorrect == Spec => []TypeOK
<1>1. IInv => TypeOK
  BY DEF IInv
<1>2. QED BY <1>1, Invariance, PTL

\* Each mbuf the lcore owns is in one live place, and is given away once.
THEOREM MbufsHeldOnce == Spec => []OneHolder
<1>1. IInv => OneHolder
  <2> SUFFICES ASSUME IInv PROVE OneHolder
    OBVIOUS
  <2> USE SizesAssumption DEF IInv, Slots
  <2>1. /\ Dispatched \in Nat /\ arrived \in Nat /\ Dispatched <= arrived
        /\ arrived <= MaxArrivals /\ nbRx \in Nat /\ next \in Nat
        /\ Dispatched = arrived + next - nbRx
    BY DEF TypeOK, Position, Dispatched
  <2>2. ASSUME NEW x \in Packets
        PROVE  owner[x] = "app" <=> \/ x \in (Dispatched + 1) .. arrived
                                    \/ \E p \in Ports : Buffered(p, x)
    <3>1. CASE x > Dispatched
      BY <2>1, <3>1 DEF ArrivedOwned, Packets, Buffered, BufferRange
    <3>2. CASE ~(x > Dispatched)
      BY <2>1, <3>2 DEF NoLeak, Packets, Buffered, BufferRange
    <3>3. QED BY <3>1, <3>2
  <2>3. \A i \in Slots :
          next <= i /\ i < nbRx => burst[i] \in (Dispatched + 1) .. arrived
    BY <2>1 DEF BurstRange
  <2>4. ASSUME NEW p \in Ports, NEW i \in Slots, i < len[p]
        PROVE  /\ mTable[p][i] \in 1 .. Dispatched
               /\ owner[mTable[p][i]] = "app"
               /\ route[mTable[p][i]] = p
    BY <2>4 DEF BufferRange
  <2>5. ASSUME NEW p \in Ports, NEW i \in Slots, NEW k \in Slots, i < k, k < len[p]
        PROVE  mTable[p][k] # mTable[p][i]
    <3>1. len[p] \in Slots
      BY DEF TypeOK
    <3>2. mTable[p][i] \in Nat /\ mTable[p][i] < mTable[p][k]
      BY <2>1, <2>4, <2>5, <3>1 DEF BufferOrder
    <3>3. QED BY <3>2
  <2>6. QED BY <2>2, <2>3, <2>4, <2>5 DEF OneHolder
<1>2. QED BY <1>1, Invariance, PTL

\* The packets routed to one port leave in the order of their arrival.
THEOREM PortOrdered == Spec => []PortOrder
<1>1. IInv => PortOrder
  <2> SUFFICES ASSUME IInv, NEW x \in Packets, NEW y \in Packets, x < y,
                      owner[y] \in Ports, route[x] = owner[y], owner[x] = "app"
               PROVE  FALSE
    BY DEF PortOrder
  <2> USE DEF IInv
  <2>1. /\ y <= Dispatched
        /\ \A i \in Slots : i < len[owner[y]] => y < mTable[owner[y]][i]
    BY DEF SentFirst
  <2>2. x \in Nat /\ y \in Nat /\ Dispatched \in Nat
    BY DEF Packets, TypeOK, Position, Dispatched
  <2>3. PICK p \in Ports, i \in Slots : i < len[p] /\ mTable[p][i] = x
    BY <2>1, <2>2 DEF NoLeak, Buffered
  <2>4. p = owner[y]
    BY <2>3 DEF BufferRange
  <2>5. QED BY <2>1, <2>2, <2>3, <2>4
<1>2. QED BY <1>1, Invariance, PTL

\* A packet is transmitted on the port it was routed to, a bad one on none.
THEOREM RightPorts == Spec => []RightPort
<1>1. IInv => RightPort
  BY DEF IInv, SentFirst, RightPort
<1>2. QED BY <1>1, Invariance, PTL

-----------------------------------------------------------------------------
(***************************************************************************)
(* The loop implements LossyFifo.                                           *)
(***************************************************************************)
\* A burst taken, in order, from the front of what is held for p.
LEMMA BurstEmits ==
  ASSUME NEW p \in Ports, NEW n \in Nat, NEW m, NEW ret \in Nat,
         \A i \in 0 .. (n - 1) : m[i] \in Packets /\ m[i] \in Fifo!Held(p),
         \A i, j \in 0 .. (n - 1) : i < j => m[i] < m[j],
         \A y \in Fifo!Held(p), i \in 0 .. (n - 1) :
            y < m[i] => \E j \in 0 .. (n - 1) : m[j] = y,
         owner' = TxBurst(p, m, n, ret),
         UNCHANGED <<arrived, route>>
  PROVE  \E S \in SUBSET Fifo!Held(p) : \E T \in SUBSET S : Fifo!Emit(p, S, T)
<1> DEFINE S == {m[i] : i \in 0 .. (n - 1)}
           T == {x \in S : \E i \in 0 .. (n - 1) : m[i] = x /\ i < ret}
<1>1. S \in SUBSET Fifo!Held(p) /\ T \in SUBSET S
  OBVIOUS
<1>2. Fifo!Oldest(S, Fifo!Held(p))
  BY <1>1 DEF Fifo!Oldest
<1>3. Fifo!Oldest(T, S)
  <2> SUFFICES ASSUME NEW i \in 0 .. (n - 1), i < ret, NEW j \in 0 .. (n - 1), m[j] < m[i]
               PROVE  j < ret
    BY DEF Fifo!Oldest
  <2>1. m[i] \in Nat /\ m[j] \in Nat
    BY DEF Packets
  <2>2. ~(i < j) /\ i # j
    BY <2>1
  <2>3. QED BY <2>2
<1>4. owner' = [x \in Packets |->
                  IF x \in T THEN p ELSE IF x \in S THEN "pool" ELSE owner[x]]
  BY DEF TxBurst
<1>5. Fifo!Emit(p, S, T)
  <2> HIDE DEF S, T
  <2>1. QED BY <1>2, <1>3, <1>4 DEF Fifo!Emit, Fifo!Packets, Packets
<1> HIDE DEF S, T
<1>6. QED BY <1>1, <1>5

LEMMA HeldPackets ==
  \A p : Fifo!Held(p) = {x \in Packets : owner[x] = "app" /\ route[x] = p}
BY DEF Fifo!Held, Fifo!Packets, Packets

LEMMA DrainEmits ==
  ASSUME IInv, NEW p \in Ports, NEW ret \in Accepted, DrainPort(p, ret)
  PROVE  Fifo!Next
<1> USE SizesAssumption DEF Slots, Accepted
<1>1. /\ len[p] \in 0 .. (MaxPktBurst - 1) /\ Dispatched = arrived
      /\ arrived \in 0 .. MaxArrivals
  BY DEF DrainPort, IInv, TypeOK, Position, Dispatched
<1>2. \A i \in 0 .. (len[p] - 1) : mTable[p][i] \in Packets /\ mTable[p][i] \in Fifo!Held(p)
  BY <1>1, HeldPackets DEF IInv, BufferRange, Packets
<1>3. \A i, j \in 0 .. (len[p] - 1) : i < j => mTable[p][i] < mTable[p][j]
  BY <1>1 DEF IInv, BufferOrder
<1>4. ASSUME NEW y \in Fifo!Held(p)
      PROVE  \E j \in 0 .. (len[p] - 1) : mTable[p][j] = y
  <2>1. y \in Packets /\ owner[y] = "app" /\ route[y] = p
    BY HeldPackets
  <2>2. y <= arrived
    BY <2>1, <1>1 DEF IInv, ArrivedOwned, Packets
  <2>3. PICK q \in Ports, j \in Slots : j < len[q] /\ mTable[q][j] = y
    BY <1>1, <2>1, <2>2 DEF IInv, NoLeak, Buffered
  <2>4. q = p
    BY <2>1, <2>3 DEF IInv, BufferRange
  <2>5. QED BY <2>3, <2>4, <1>1
<1>5. \E S \in SUBSET Fifo!Held(p) : \E T \in SUBSET S : Fifo!Emit(p, S, T)
  <2>1. /\ owner' = TxBurst(p, mTable[p], len[p], ret)
        /\ UNCHANGED <<arrived, route>>
        /\ ret \in Nat /\ len[p] \in Nat
    BY <1>1 DEF DrainPort, burstVars
  <2>2. QED BY <1>2, <1>3, <1>4, <2>1, BurstEmits
<1>6. QED BY <1>5 DEF Fifo!Next

LEMMA DirectEmits ==
  ASSUME IInv, NEW k \in Counts, NEW ret \in Accepted, SendDirect(k, ret)
  PROVE  Fifo!Next
<1> DEFINE m == [i \in 0 .. (k - 1) |-> Pending(i)]
<1>1. /\ Dispatched \in Nat /\ k \in Nat /\ ret \in Nat /\ Dispatched + k <= arrived
      /\ \A i \in 0 .. (k - 1) : m[i] = Dispatched + 1 + i
      /\ Dst \in Ports /\ len[Dst] = 0
      /\ owner' = TxBurst(Dst, m, k, ret) /\ UNCHANGED <<arrived, route>>
  BY GroupFacts, SizesAssumption DEF SendDirect, Counts, Accepted, Advance
<1> HIDE DEF m
<1>2. ASSUME NEW i \in 0 .. (k - 1)
      PROVE  m[i] \in Packets /\ m[i] \in Fifo!Held(Dst)
  <2>1. m[i] \in (Dispatched + 1) .. (Dispatched + k)
    BY <1>1
  <2>2. QED BY <2>1, GroupFacts, HeldPackets DEF SendDirect
<1>3. \A i, j \in 0 .. (k - 1) : i < j => m[i] < m[j]
  BY <1>1
<1>4. ASSUME NEW y \in Fifo!Held(Dst), NEW i \in 0 .. (k - 1), y < m[i]
      PROVE  \E j \in 0 .. (k - 1) : m[j] = y
  <2>1. y \in Packets /\ y \in Nat /\ owner[y] = "app" /\ route[y] = Dst
    BY HeldPackets DEF Packets
  <2>2. y > Dispatched
    <3> SUFFICES ASSUME y <= Dispatched PROVE FALSE
      BY <1>1, <2>1
    <3>1. PICK q \in Ports, j \in Slots : j < len[q] /\ mTable[q][j] = y
      BY <2>1 DEF IInv, NoLeak, Buffered
    <3>2. q = Dst
      BY <2>1, <3>1 DEF IInv, BufferRange
    <3>3. QED BY <3>1, <3>2, <1>1, SizesAssumption DEF Slots
  <2>3. y - Dispatched - 1 \in 0 .. (k - 1)
    BY <1>1, <1>4, <2>1, <2>2
  <2>4. m[y - Dispatched - 1] = y
    BY <2>1, <2>3, <1>1
  <2>5. QED BY <2>3, <2>4
<1>5. \E S \in SUBSET Fifo!Held(Dst) : \E T \in SUBSET S : Fifo!Emit(Dst, S, T)
  BY <1>1, <1>2, <1>3, <1>4, BurstEmits
<1>6. QED BY <1>1, <1>5 DEF Fifo!Next

LEMMA FlushEmits ==
  ASSUME IInv, NEW k \in Counts, NEW ret \in Accepted, SendFlush(k, ret)
  PROVE  Fifo!Next
<1> USE SizesAssumption DEF Slots, Counts, Accepted
<1> DEFINE n == Fit(k)
           m == Filled(n)
<1>1. /\ pc = "send" /\ next + k <= nbRx /\ Group(k)
      /\ Dst \in Ports /\ len[Dst] \in Slots
      /\ Dispatched \in Nat /\ k \in Nat /\ Dispatched + k <= arrived /\ arrived <= MaxArrivals
      /\ owner' = TxBurst(Dst, m, MaxPktBurst, ret) /\ UNCHANGED <<arrived, route>>
  BY GroupFacts DEF SendFlush, IInv, TypeOK, Advance
<1>2. n \in 1 .. k /\ len[Dst] + n = MaxPktBurst /\ len[Dst] + n <= MaxPktBurst
  BY <1>1 DEF SendFlush, Fit
<1> HIDE DEF n
<1>3. /\ \A i \in Slots : i < len[Dst] => m[i] = mTable[Dst][i]
      /\ \A i \in Slots : i < len[Dst] + n =>
            /\ m[i] \in 1 .. (Dispatched + n)
            /\ owner[m[i]] = "app"
            /\ route[m[i]] = Dst
      /\ \A i, j \in Slots : i < j /\ j < len[Dst] + n => m[i] < m[j]
      /\ \A x \in (Dispatched + 1) .. (Dispatched + n) :
            \E i \in Slots : i < len[Dst] + n /\ m[i] = x
  <2>1. k \in Counts /\ n \in 1 .. k /\ len[Dst] + n <= MaxPktBurst
    BY <1>2
  <2> HIDE DEF Slots, Counts
  <2>2. QED BY <1>1, <2>1, FilledFacts
<1> HIDE DEF m
<1>4. arrived \in Nat /\ MaxArrivals \in Nat
  BY DEF IInv, TypeOK
<1>5. ASSUME NEW i \in 0 .. (MaxPktBurst - 1)
      PROVE  m[i] \in Packets /\ m[i] \in Fifo!Held(Dst)
  <2>1. m[i] \in 1 .. (Dispatched + n) /\ owner[m[i]] = "app" /\ route[m[i]] = Dst
    BY <1>2, <1>3
  <2>2. m[i] \in Packets
    BY <2>1, <1>1, <1>2, <1>4 DEF Packets
  <2>3. QED BY <2>1, <2>2, HeldPackets
<1>6. \A i, j \in 0 .. (MaxPktBurst - 1) : i < j => m[i] < m[j]
  BY <1>2, <1>3
<1>7. ASSUME NEW y \in Fifo!Held(Dst), NEW i \in 0 .. (MaxPktBurst - 1), y < m[i]
      PROVE  \E j \in 0 .. (MaxPktBurst - 1) : m[j] = y
  <2>1. y \in Packets /\ y \in Nat /\ owner[y] = "app" /\ route[y] = Dst
    BY HeldPackets DEF Packets
  <2>2. CASE y <= Dispatched
    <3>1. PICK q \in Ports, j \in Slots : j < len[q] /\ mTable[q][j] = y
      BY <2>1, <2>2 DEF IInv, NoLeak, Buffered
    <3>2. q = Dst
      BY <2>1, <3>1 DEF IInv, BufferRange
    <3>3. QED BY <3>1, <3>2, <1>3
  <2>3. CASE ~(y <= Dispatched)
    <3>1. y < Dispatched + n + 1
      BY <1>1, <1>2, <1>3, <1>7, <2>1
    <3>2. y \in (Dispatched + 1) .. (Dispatched + n)
      BY <2>1, <2>3, <3>1, <1>1, <1>2
    <3>3. QED BY <3>2, <1>3
  <2>4. QED BY <2>2, <2>3
<1>8. \E S \in SUBSET Fifo!Held(Dst) : \E T \in SUBSET S : Fifo!Emit(Dst, S, T)
  BY <1>1, <1>5, <1>6, <1>7, BurstEmits
<1>9. QED BY <1>1, <1>8 DEF Fifo!Next

LEMMA DropDiscards ==
  ASSUME IInv, NEW k \in Counts, DropGroup(k)
  PROVE  Fifo!Next
<1> DEFINE S == {Pending(i) : i \in 0 .. (k - 1)}
<1>1. S \in SUBSET Fifo!Held(BadPort)
  <2> SUFFICES ASSUME NEW i \in 0 .. (k - 1) PROVE Pending(i) \in Fifo!Held(BadPort)
    OBVIOUS
  <2>1. Pending(i) = Dispatched + 1 + i /\ Dispatched \in Nat /\ k \in Nat
    BY GroupFacts, SizesAssumption DEF DropGroup, Counts
  <2>2. Pending(i) \in (Dispatched + 1) .. (Dispatched + k)
    BY <2>1
  <2>3. QED BY <2>2, GroupFacts, HeldPackets DEF DropGroup
<1>2. /\ owner' = [x \in Packets |-> IF x \in S THEN "pool" ELSE owner[x]]
      /\ UNCHANGED <<arrived, route>>
  BY DEF DropGroup, Free, Advance
<1> HIDE DEF S
<1>3. Fifo!Discard(S)
  BY <1>2 DEF Fifo!Discard, Fifo!Packets, Packets
<1>4. QED BY <1>1, <1>3 DEF Fifo!Next

LEMMA ReceiveArrives ==
  ASSUME IInv, IInv', NEW n \in Counts, NEW dst \in [1 .. n -> Ports \cup {BadPort}],
         PollBurst(n, dst)
  PROVE  Fifo!Next
<1>1. arrived' \in arrived .. MaxArrivals /\ arrived' = arrived + n
  BY SizesAssumption DEF PollBurst, IInv, TypeOK, Counts
<1>2. /\ owner' = [x \in Packets |->
                     IF x \in (arrived + 1) .. arrived' THEN "app" ELSE owner[x]]
      /\ \A x \in Packets : x \notin (arrived + 1) .. arrived' => route'[x] = route[x]
  BY <1>1 DEF PollBurst
<1>3. route' \in [Packets -> Ports \cup {BadPort}]
  BY DEF IInv, TypeOK
<1>4. Fifo!Arrive
  BY <1>1, <1>2, <1>3 DEF Fifo!Arrive, Fifo!Packets, Packets
<1>5. QED BY <1>4 DEF Fifo!Next

\* The forwarding loop, its buffers hidden, is a queue per port, lossy at its head only.
THEOREM FifoImplemented == Spec => ImplementsFifo
<1>1. Init => Fifo!Init
  BY DEF Init, Fifo!Init, Fifo!Packets, Packets
<1>2. IInv /\ IInv' /\ [Next]_vars => [Fifo!Next]_<<arrived, route, owner>>
  <2> SUFFICES ASSUME IInv, IInv', [Next]_vars
               PROVE  Fifo!Next \/ UNCHANGED <<arrived, route, owner>>
    OBVIOUS
  <2>1. CASE Drain
    BY <2>1, DrainEmits DEF Drain
  <2>2. CASE Receive
    BY <2>2, ReceiveArrives DEF Receive
  <2>3. CASE Drop
    BY <2>3, DropDiscards DEF Drop
  <2>4. CASE Direct
    BY <2>4, DirectEmits DEF Direct
  <2>5. CASE Buffer
    BY <2>5 DEF Buffer, SendBuffer, Advance
  <2>6. CASE Flush
    BY <2>6, FlushEmits DEF Flush
  <2>7. CASE Tick \/ Signal \/ Top \/ PollEmpty \/ Finished \/ UNCHANGED vars
    BY <2>7 DEF Tick, Signal, Top, PollEmpty, Finished, vars, burstVars
  <2>8. QED
    BY <2>1, <2>2, <2>3, <2>4, <2>5, <2>6, <2>7 DEF Next, Lcore
<1>3. QED
  BY <1>1, <1>2, Invariance, PTL DEF Spec, ImplementsFifo, Fifo!Spec

-----------------------------------------------------------------------------
(***************************************************************************)
(* The groups of a burst.                                                   *)
(***************************************************************************)
\* Every set of naturals has a least element.
LEMMA LeastElement ==
  ASSUME NEW T \in SUBSET Nat, T # {}
  PROVE  \E x \in T : \A y \in T : x <= y
<1> DEFINE R == {p \in Nat \X Nat : p[1] < p[2]}
<1>1. IsWellFoundedOn(OpToRel(<, Nat), Nat)
  BY NatLessThanWellFounded
<1>2. OpToRel(<, Nat) = R
  BY DEF OpToRel
<1>3. IsWellFoundedOn(R, Nat)
  BY <1>1, <1>2
<1> HIDE DEF R
<1>4. PICK x \in T : \A y \in T : ~(<<y, x>> \in R)
  BY <1>3, WFMin
<1>5. \A y \in T : ~(y < x) /\ y \in Nat /\ x \in Nat
  BY <1>4 DEF R
<1> QED
  BY <1>5

(***************************************************************************)
(* While packets wait there is a group to dispatch, and only one: pnum,     *)
(* which the x86 path reads without a check, is never 0 or past the burst,  *)
(* so the loop over j always comes to its end (l3fwd_sse.h 232-256).        *)
(***************************************************************************)
THEOREM GroupFound ==
  Spec => [](pc = "send" =>
               \E k \in Counts :
                 /\ next + k <= nbRx /\ Group(k)
                 /\ \A m \in Counts : next + m <= nbRx /\ Group(m) => m = k)
<1>1. ASSUME IInv, pc = "send"
      PROVE  \E k \in Counts :
               /\ next + k <= nbRx /\ Group(k)
               /\ \A m \in Counts : next + m <= nbRx /\ Group(m) => m = k
  <2>1. /\ next \in Nat /\ nbRx \in Nat /\ next < nbRx /\ nbRx <= MaxPktBurst
        /\ MaxPktBurst \in Nat
    BY <1>1, SizesAssumption DEF IInv, TypeOK, Position
  <2>2. CASE ~Simd
    <3>1. 1 \in Counts /\ next + 1 <= nbRx
      BY <2>1 DEF Counts
    <3> QED
      BY <2>2, <3>1 DEF Group
  <2>3. CASE Simd
    <3> DEFINE To(k) == route[burst[next + k]]
               T == {k \in Counts : next + k = nbRx \/ (next + k < nbRx /\ To(k) # Dst)}
    <3>1. nbRx - next \in T /\ T \in SUBSET Nat
      BY <2>1 DEF Counts
    <3>2. PICK k \in T : \A m \in T : k <= m
      <4> HIDE DEF T
      <4> QED
        BY <3>1, LeastElement
    <3>3. k \in Counts /\ k \in Nat /\ next + k <= nbRx
      BY <2>1 DEF Counts
    <3>4. \A i \in next .. (next + k - 1) : route[burst[i]] = Dst
      <4> SUFFICES ASSUME NEW i \in next .. (next + k - 1) PROVE route[burst[i]] = Dst
        OBVIOUS
      <4>1. CASE i = next
        BY <4>1 DEF Dst
      <4>2. CASE i # next
        <5>1. /\ i - next \in Counts /\ i - next < k /\ next + (i - next) = i
              /\ next + (i - next) < nbRx
          BY <2>1, <3>3, <4>2 DEF Counts
        <5>2. i - next \notin T
          BY <3>1, <3>2, <3>3, <5>1
        <5>3. To(i - next) = Dst
          BY <5>1, <5>2
        <5> QED
          BY <5>1, <5>3
      <4> QED
        BY <4>1, <4>2
    <3>5. Group(k)
      BY <2>3, <3>4, <2>1, <3>3 DEF Group
    <3>6. ASSUME NEW m \in Counts, next + m <= nbRx, Group(m) PROVE m = k
      <4>1. m \in Nat /\ m >= 1 /\ k >= 1
        BY <3>3 DEF Counts
      <4>2. ~(m < k)
        <5> SUFFICES ASSUME m < k PROVE FALSE
          OBVIOUS
        <5>1. next + m < nbRx /\ To(m) # Dst
          BY <2>1, <2>3, <3>3, <3>6, <4>1 DEF Group
        <5>2. next + m \in next .. (next + k - 1)
          BY <2>1, <3>3, <4>1
        <5> QED
          BY <3>4, <5>1, <5>2
      <4>3. ~(k < m)
        <5> SUFFICES ASSUME k < m PROVE FALSE
          OBVIOUS
        <5>1. next + k < nbRx
          BY <2>1, <3>3, <3>6, <4>1
        <5>2. To(k) # Dst
          BY <2>1, <3>3, <5>1
        <5>3. next + k \in next .. (next + m - 1)
          BY <2>1, <3>3, <4>1
        <5>4. To(k) = Dst
          BY <2>3, <3>6, <5>3 DEF Group
        <5> QED
          BY <5>2, <5>4
      <4> QED
        BY <3>3, <4>1, <4>2, <4>3
    <3> QED
      BY <3>3, <3>5, <3>6
  <2> QED
    BY <2>2, <2>3, SizesAssumption
<1> QED
  BY <1>1, Invariance, PTL

-----------------------------------------------------------------------------
(***************************************************************************)
(* One turn of the loop.                                                    *)
(***************************************************************************)
\* The steps that polling the queues from r on can take.
QueuesLeft(r) == (NumRxQueues - r) * (MaxPktBurst + 1)

\* The steps the loop can take before it tests force_quit the next time.
TurnLeft ==
  CASE pc = "drain" -> 1 + QueuesLeft(0) + Cardinality(undrained)
    [] pc = "poll"  -> 1 + QueuesLeft(rxq)
    [] pc = "send"  -> 1 + QueuesLeft(rxq + 1) + (nbRx - next)
    [] pc = "top"   -> 1
    [] pc = "done"  -> 0

\* What the drain loop has done of its work.
DrainInv ==
  /\ pc = "drain" <=> undrained # {}
  /\ pc = "drain" => \A p \in Ports \ undrained : len[p] = 0
  /\ pc \in {"top", "drain", "done"} => rxq = 0

LEMMA QueuesLeftNat ==
  ASSUME NEW r \in 0 .. (NumRxQueues - 1)
  PROVE  /\ QueuesLeft(r) \in Nat /\ QueuesLeft(r + 1) \in Nat
         /\ QueuesLeft(r) = QueuesLeft(r + 1) + MaxPktBurst + 1
<1> DEFINE a == NumRxQueues - (r + 1)
           w == MaxPktBurst + 1
<1>1. a \in Nat /\ w \in Nat /\ NumRxQueues - r = a + 1
  BY SizesAssumption
<1>2. QueuesLeft(r) = (a + 1) * w /\ QueuesLeft(r + 1) = a * w
  BY <1>1 DEF QueuesLeft
<1> HIDE DEF a
<1>3. \A b \in Nat : a * b \in Nat /\ (a + 1) * b = a * b + b
  BY <1>1
<1>4. a * w \in Nat /\ (a + 1) * w = a * w + w
  BY <1>1, <1>3
<1>5. MaxPktBurst \in Nat
  BY SizesAssumption
<1> QED
  BY <1>2, <1>4, <1>5

LEMMA UndrainedFinite ==
  ASSUME TypeOK
  PROVE  IsFiniteSet(undrained) /\ Cardinality(undrained) \in Nat
BY PortsAssumption, FS_Subset, FS_CardinalityType DEF TypeOK

\* The end of a queue, from anywhere within it.
LEMMA NextQueueTurn ==
  ASSUME TypeOK, NextQueue, pc \in {"poll", "send"}
  PROVE  /\ TurnLeft' = 1 + QueuesLeft(rxq + 1) \/ (TurnLeft' = 1 /\ pc' = "top")
         /\ pc' \in {"poll", "top"} /\ (pc' = "top" => rxq' = 0)
BY DEF NextQueue, TurnLeft

LEMMA DrainInvStep == IInv /\ DrainInv /\ [Next]_vars => DrainInv'
<1> SUFFICES ASSUME IInv, DrainInv, [Next]_vars PROVE DrainInv'
  OBVIOUS
<1> USE DEF DrainInv
<1>1. CASE Top
  BY <1>1, PortsAssumption DEF Top, bufVars
<1>2. ASSUME NEW p \in Ports, NEW ret \in Accepted, DrainPort(p, ret) PROVE DrainInv'
  BY <1>2 DEF DrainPort, IInv, TypeOK
<1>3. CASE PollEmpty
  BY <1>3, NextQueueType DEF PollEmpty, NextQueue, IInv
<1>4. CASE Receive
  BY <1>4 DEF Receive, PollBurst
<1>5. ASSUME NEW k \in Counts, Advance(k), pc = "send" PROVE DrainInv'
  <2>1. undrained' = undrained /\ pc' \in {"send", "poll", "top"} /\ (pc' = "top" => rxq' = 0)
    BY <1>5 DEF Advance, NextQueue
  <2> QED
    BY <1>5, <2>1
<1>6. CASE Drop \/ Direct \/ Buffer \/ Flush
  BY <1>5, <1>6 DEF Drop, DropGroup, Direct, SendDirect, Buffer, SendBuffer, Flush, SendFlush
<1>7. CASE Tick \/ Signal \/ Finished \/ UNCHANGED vars
  BY <1>7 DEF Tick, Signal, Finished, vars, bufVars
<1> QED
  BY <1>1, <1>2, <1>3, <1>4, <1>6, <1>7 DEF Next, Lcore, Drain

LEMMA DrainInvariance == Spec => [](IInv /\ DrainInv)
<1>1. Init => DrainInv
  BY DEF Init, DrainInv
<1> QED
  BY InitIInv, NextIInv, DrainInvStep, <1>1, PTL DEF Spec

(***************************************************************************)
(* Once the drain loop has visited every port, no packet that was received  *)
(* is in the lcore's hands any more: it was sent or freed (l3fwd_em.c       *)
(* 704-717, l3fwd_lpm.c 240-253, send_burst).                               *)
(***************************************************************************)
THEOREM DrainLeavesNone ==
  Spec => [][pc = "drain" /\ pc' # "drain" => \A x \in Packets : owner'[x] # "app"]_vars
<1> DEFINE None == pc = "drain" /\ pc' # "drain" => \A x \in Packets : owner'[x] # "app"
<1>1. ASSUME IInv, DrainInv, IInv', [Next]_vars PROVE [None]_vars
  <2> SUFFICES ASSUME Next, pc = "drain", pc' # "drain", NEW x \in Packets, owner'[x] = "app"
               PROVE  FALSE
    BY <1>1
  <2>1. PICK p \in Ports, ret \in Accepted : DrainPort(p, ret)
    BY DEF Next, Lcore, Drain, Top, PollEmpty, Receive, PollBurst, Drop, DropGroup, Direct,
       SendDirect, Buffer, SendBuffer, Flush, SendFlush, Tick, Signal, Finished, vars
  <2>2. \A q \in Ports : len'[q] = 0
    BY <1>1, <2>1 DEF DrainPort, DrainInv, IInv, TypeOK
  <2>3. x <= Dispatched'
    <3>2. nbRx' = 0 /\ next' = 0 /\ arrived' = arrived
      <4>1. nbRx = 0 /\ next = 0
        BY <1>1 DEF IInv, Position
      <4>2. nbRx' = nbRx /\ next' = next /\ arrived' = arrived
        BY <2>1 DEF DrainPort, burstVars
      <4> QED
        BY <4>1, <4>2
    <3>1. /\ nbRx' = 0 /\ next' = 0 /\ arrived' \in Nat
      BY <1>1, <3>2 DEF IInv, TypeOK
    <3>3. x <= arrived'
      BY <1>1, <3>1, PortsAssumption DEF IInv, ArrivedOwned, Packets
    <3> QED
      BY <3>1, <3>3 DEF Dispatched
  <2>4. \E q \in Ports : Buffered(q, x)'
    BY <1>1, <2>3 DEF IInv, NoLeak
  <2> QED
    BY <2>2, <2>4, SizesAssumption DEF Buffered, Slots
<1> QED
  BY DrainInvariance, NextIInv, <1>1, PTL DEF Spec

LEMMA TurnNat ==
  ASSUME IInv, DrainInv
  PROVE  TurnLeft \in Nat
<1>1. rxq \in 0 .. (NumRxQueues - 1) /\ 0 \in 0 .. (NumRxQueues - 1)
  BY SizesAssumption DEF IInv, TypeOK
<1>2. /\ QueuesLeft(rxq) \in Nat /\ QueuesLeft(rxq + 1) \in Nat /\ QueuesLeft(0) \in Nat
  BY <1>1, QueuesLeftNat
<1>3. Cardinality(undrained) \in Nat
  BY UndrainedFinite DEF IInv
<1>4. pc = "send" => nbRx - next \in Nat
  BY DEF IInv, TypeOK, Position
<1>5. pc \in {"top", "drain", "poll", "send", "done"}
  BY DEF IInv, TypeOK
<1> QED
  BY <1>2, <1>3, <1>4, <1>5 DEF TurnLeft

LEMMA TurnNatNext ==
  ASSUME IInv', DrainInv'
  PROVE  TurnLeft' \in Nat
<1>1. rxq' \in 0 .. (NumRxQueues - 1) /\ 0 \in 0 .. (NumRxQueues - 1)
  BY SizesAssumption DEF IInv, TypeOK
<1>2. /\ QueuesLeft(rxq') \in Nat /\ QueuesLeft(rxq' + 1) \in Nat /\ QueuesLeft(0) \in Nat
  BY <1>1, QueuesLeftNat
<1>3. Cardinality(undrained') \in Nat
  <2>1. undrained' \subseteq Ports
    BY DEF IInv, TypeOK
  <2>2. IsFiniteSet(undrained')
    BY <2>1, PortsAssumption, FS_Subset
  <2> QED
    BY <2>2, FS_CardinalityType
<1>4. pc' = "send" => nbRx' - next' \in Nat
  <2>1. nbRx' \in Nat /\ next' \in Nat
    BY DEF IInv, TypeOK
  <2>2. pc' = "send" => next' < nbRx'
    BY DEF IInv, Position
  <2>3. \A a, b \in Nat : b < a => a - b \in Nat
    OBVIOUS
  <2> QED
    BY <2>1, <2>2, <2>3
<1>5. pc' \in {"top", "drain", "poll", "send", "done"}
  BY DEF IInv, TypeOK
<1> QED
  BY <1>2, <1>3, <1>4, <1>5 DEF TurnLeft

(***************************************************************************)
(* Between two tests of force_quit the lcore takes no more than TurnLeft    *)
(* steps, each step one fewer; the clock and the signal change nothing of   *)
(* it, and once force_quit is set no test starts another turn.  So the loop *)
(* ends after a bounded number of its own steps, however the devices answer *)
(* (l3fwd_em.c 696-748, l3fwd_lpm.c 232-274).                               *)
(***************************************************************************)
THEOREM TurnsBounded ==
  Spec =>
    /\ [](TurnLeft \in Nat /\ (TurnLeft = 0 => pc = "done"))
    /\ [][/\ Lcore /\ (forceQuit \/ pc # "top") => TurnLeft' < TurnLeft
          /\ Tick \/ Signal => TurnLeft' = TurnLeft]_vars
<1> DEFINE Fewer == /\ Lcore /\ (forceQuit \/ pc # "top") => TurnLeft' < TurnLeft
                    /\ Tick \/ Signal => TurnLeft' = TurnLeft
<1>1. ASSUME IInv, DrainInv, IInv', DrainInv', Lcore, forceQuit \/ pc # "top"
      PROVE  TurnLeft' < TurnLeft
  <2>1. TurnLeft \in Nat /\ TurnLeft' \in Nat
    BY <1>1, TurnNat, TurnNatNext
  <2>2. rxq \in 0 .. (NumRxQueues - 1) /\ MaxPktBurst \in Nat /\ TypeOK
    BY <1>1, SizesAssumption DEF IInv, TypeOK
  <2>3. /\ QueuesLeft(rxq) \in Nat /\ QueuesLeft(rxq + 1) \in Nat
        /\ QueuesLeft(rxq) = QueuesLeft(rxq + 1) + MaxPktBurst + 1
    BY <2>2, QueuesLeftNat
  <2>4. CASE Top
    BY <1>1, <2>4 DEF Top, TurnLeft
  <2>5. ASSUME NEW p \in Ports, NEW ret \in Accepted, DrainPort(p, ret)
        PROVE  TurnLeft' < TurnLeft
    <3>1. /\ pc = "drain" /\ p \in undrained /\ undrained' = undrained \ {p} /\ rxq' = rxq
          /\ pc' = IF undrained' = {} THEN "poll" ELSE "drain"
      BY <2>5 DEF DrainPort
    <3>2. Cardinality(undrained') = Cardinality(undrained) - 1 /\ Cardinality(undrained) \in Nat
      BY <2>2, <3>1, UndrainedFinite, FS_RemoveElement
    <3>3. rxq = 0 /\ QueuesLeft(0) \in Nat
      BY <1>1, <2>3, <3>1 DEF DrainInv
    <3>4. TurnLeft = 1 + QueuesLeft(0) + Cardinality(undrained)
      BY <3>1 DEF TurnLeft
    <3>5. CASE undrained' = {}
      <4>1. TurnLeft' = 1 + QueuesLeft(0)
        BY <3>1, <3>3, <3>5 DEF TurnLeft
      <4>2. Cardinality(undrained') = 0
        BY <3>5, FS_EmptySet
      <4> QED
        BY <3>2, <3>3, <3>4, <4>1, <4>2
    <3>6. CASE undrained' # {}
      <4>1. TurnLeft' = 1 + QueuesLeft(0) + Cardinality(undrained')
        BY <3>1, <3>6 DEF TurnLeft
      <4> QED
        BY <3>2, <3>3, <3>4, <4>1
    <3> QED
      BY <3>5, <3>6
  <2>6. CASE PollEmpty
    <3>1. pc = "poll" /\ NextQueue
      BY <2>6 DEF PollEmpty
    <3>2. TurnLeft = 1 + QueuesLeft(rxq)
      BY <3>1 DEF TurnLeft
    <3>3. TurnLeft' = 1 + QueuesLeft(rxq + 1) \/ TurnLeft' = 1
      BY <2>2, <3>1, NextQueueTurn
    <3> QED
      BY <2>2, <2>3, <3>2, <3>3
  <2>7. CASE Receive
    <3>1. PICK n \in Counts : nbRx' = n /\ next' = 0 /\ pc = "poll" /\ pc' = "send" /\ rxq' = rxq
      BY <2>7 DEF Receive, PollBurst
    <3>2. TurnLeft = 1 + QueuesLeft(rxq) /\ TurnLeft' = 1 + QueuesLeft(rxq + 1) + (n - 0)
      BY <3>1 DEF TurnLeft
    <3>3. n \in Nat /\ n <= MaxPktBurst
      BY <2>2 DEF Counts
    <3> QED
      BY <2>2, <2>3, <3>2, <3>3
  <2>8. ASSUME NEW k \in Counts, Advance(k), pc = "send", next + k <= nbRx
        PROVE  TurnLeft' < TurnLeft
    <3>1. /\ next \in Nat /\ nbRx \in Nat /\ next < nbRx /\ k \in Nat /\ k >= 1
      BY <1>1, <2>8, SizesAssumption DEF IInv, TypeOK, Position, Counts
    <3>2. TurnLeft = 1 + QueuesLeft(rxq + 1) + (nbRx - next)
      BY <2>8 DEF TurnLeft
    <3>3. CASE next + k < nbRx
      <4>1. pc' = "send" /\ rxq' = rxq /\ next' = next + k /\ nbRx' = nbRx
        BY <2>8, <3>3 DEF Advance
      <4>2. TurnLeft' = 1 + QueuesLeft(rxq + 1) + (nbRx - (next + k))
        BY <4>1 DEF TurnLeft
      <4> QED
        BY <2>3, <3>1, <3>2, <3>3, <4>2
    <3>4. CASE ~(next + k < nbRx)
      <4>1. NextQueue
        BY <2>8, <3>4 DEF Advance
      <4>2. TurnLeft' = 1 + QueuesLeft(rxq + 1) \/ TurnLeft' = 1
        BY <2>2, <2>8, <4>1, NextQueueTurn
      <4> QED
        BY <2>3, <3>1, <3>2, <4>2
    <3> QED
      BY <3>3, <3>4
  <2>9. CASE Drop \/ Direct \/ Buffer \/ Flush
    BY <2>8, <2>9 DEF Drop, DropGroup, Direct, SendDirect, Buffer, SendBuffer, Flush, SendFlush
  <2> QED
    BY <1>1, <2>4, <2>5, <2>6, <2>7, <2>9 DEF Lcore, Drain
<1>2. Tick \/ Signal => TurnLeft' = TurnLeft
  BY DEF Tick, Signal, TurnLeft, burstVars
<1>3. IInv /\ DrainInv => TurnLeft \in Nat /\ (TurnLeft = 0 => pc = "done")
  <2> SUFFICES ASSUME IInv, DrainInv, pc # "done" PROVE TurnLeft >= 1
    BY TurnNat
  <2>1. pc \in {"top", "drain", "poll", "send"}
    BY DEF IInv, TypeOK
  <2>2. rxq \in 0 .. (NumRxQueues - 1) /\ 0 \in 0 .. (NumRxQueues - 1)
    BY SizesAssumption DEF IInv, TypeOK
  <2>3. /\ QueuesLeft(rxq) \in Nat /\ QueuesLeft(rxq + 1) \in Nat /\ QueuesLeft(0) \in Nat
        /\ Cardinality(undrained) \in Nat /\ (pc = "send" => nbRx - next \in Nat)
    BY <2>2, QueuesLeftNat, UndrainedFinite DEF IInv, TypeOK, Position
  <2> QED
    BY <2>1, <2>3 DEF TurnLeft
<1> QED
  BY DrainInvariance, NextIInv, DrainInvStep, <1>1, <1>2, <1>3, PTL DEF Spec
=============================================================================
