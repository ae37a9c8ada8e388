---------------------------- MODULE ReflectProofs ----------------------------
(***************************************************************************)
(* What the four programs leave behind, how bursts are numbered, how far   *)
(* the shared counter can get and where an mbuf is, for any number of      *)
(* lcores, ports and mbufs and any size of bursts and rings; where a send   *)
(* finds no queue, where packets are overwritten, and how many steps are    *)
(* left after the signal.                                                   *)
(***************************************************************************)
EXTENDS Reflect, FiniteSetTheorems, TLAPS

Busy == {"count", "copy", "send", "free"}
PCs == {"idle", "init", "set", "top", "poll", "done"} \cup Busy

Kinds ==
  /\ program \in Programs
  /\ main \in {"launch", "join", "end", "crash"}
  /\ pc \in [Lcores -> PCs]
  /\ burst \in [Lcores -> Seq(Mbufs)]
  /\ i \in [Lcores -> Nat]
  /\ DOMAIN count = Lcores
  /\ a16 \in Nat
  /\ port \in 0 .. Ports - 1
  /\ rates \subseteq Lcores
  /\ rx \in [RxQueues(program) -> Seq(Mbufs)]

\* An lcore holds mbufs only while it handles a burst, it stores its rate
\* before it is done, and main ends after all.
Finishing ==
  /\ \A l \in Lcores : pc[l] \notin Busy => burst[l] = <<>>
  /\ \A l \in Lcores : pc[l] = "done" /\ program \in Handles => l \in rates
  /\ main = "launch" => pc[Master] = "idle"
  /\ main = "end" => \A l \in Running : pc[l] = "done"
  /\ \A l \in Lcores \ Running : pc[l] = "idle"

\* The counter of the one lcore of basicfwd.c while it numbers a burst.
Numbering ==
  program = "pair" =>
    /\ count[Master] = i[Master]
    /\ pc[Master] \in {"count", "copy"} =>
         /\ i[Master] < Len(burst[Master])
         /\ Len(burst[Master]) <= Burst
    /\ pc[Master] = "count" => a16 = i[Master]
    /\ pc[Master] = "copy" => a16 = i[Master] + 1

RInv == Kinds /\ Finishing /\ Numbering

LEMMA QueueRange ==
  ASSUME NEW l \in Lcores
  PROVE  Queue(l) \in 0 .. Cardinality(Lcores) - 1
<1> DEFINE below == {k \in Lcores : k < l}
<1>1. IsFiniteSet(Lcores \ {l}) /\ Cardinality(Lcores \ {l}) = Cardinality(Lcores) - 1
  BY FS_RemoveElement, ReflectAssumption
<1>2. below \subseteq Lcores \ {l}
  BY ReflectAssumption
<1>3. IsFiniteSet(below) /\ Cardinality(below) <= Cardinality(Lcores \ {l})
  BY <1>1, <1>2, FS_Subset
<1>4. Cardinality(below) \in Nat /\ Cardinality(Lcores) \in Nat
  BY <1>3, FS_CardinalityType, ReflectAssumption
<1> QED
  BY <1>1, <1>3, <1>4 DEF Queue

LEMMA PolledQueue ==
  ASSUME Kinds, NEW l \in Lcores
  PROVE  Polled(l) \in RxQueues(program)
BY QueueRange DEF Polled, RxQueues, Kinds

\* A burst can be numbered without the counter wrapping around.
LEMMA BurstFits == Burst \in Nat \ {0} /\ Wrap \in Nat \ {0} /\ Burst < Wrap
<1>1. Cardinality(Lcores) \in Nat
  BY FS_CardinalityType, ReflectAssumption
<1>2. Cardinality(Lcores) # 0
  BY FS_EmptySet, ReflectAssumption
<1> DEFINE N == Cardinality(Lcores)
<1>3. /\ N \in Nat /\ N >= 1
      /\ SetTo \in Nat /\ Burst \in Nat \ {0} /\ Wrap \in Nat \ {0}
      /\ SetTo + N * Burst < Wrap
  BY <1>1, <1>2, ReflectAssumption
<1> HIDE DEF N
<1>4. N * Burst >= Burst
  BY <1>3
<1> QED
  BY <1>3, <1>4

\* What the provers need of the remainder.
LEMMA Remainder ==
  ASSUME NEW a \in Nat, NEW b \in Nat \ {0}
  PROVE  /\ a % b \in 0 .. b - 1
         /\ a < b => a % b = a
<1>1. a % b \in 0 .. b - 1
  OBVIOUS
<1>2. a < b => a % b = a
  OBVIOUS
<1> QED
  BY <1>1, <1>2

LEMMA RInit == Init => RInv
<1> SUFFICES ASSUME Init PROVE RInv
  OBVIOUS
<1> USE ReflectAssumption DEF Init
<1>1. Kinds
  BY DEF Kinds, PCs
<1>2. Finishing
  BY DEF Finishing, Busy, Running
<1>3. Numbering
  BY DEF Numbering
<1> QED
  BY <1>1, <1>2, <1>3 DEF RInv

-----------------------------------------------------------------------------
LEMMA FirstPlace ==
  ASSUME Kinds
  PROVE  First \in PCs \ (Busy \cup {"done", "idle"})
BY DEF First, Kinds, Programs, Counting, PCs, Busy

LEMMA MainStep ==
  ASSUME RInv, Main \/ Signal
  PROVE  RInv'
<1> USE ReflectAssumption, FirstPlace DEF RInv, At
<1>1. CASE \E l \in Running : Launch(l)
  <2> PICK l \in Running : Launch(l)
    BY <1>1
  <2>1. program # "pair" /\ Running = Lcores
    BY DEF Launch, Running
  <2>2. Kinds'
    BY <2>1 DEF Launch, Goto, Kinds, counter, device
  <2>3. Finishing'
    BY <2>1 DEF Launch, Goto, Kinds, Finishing, Running, counter, device, Busy
  <2>4. Numbering'
    BY <2>1 DEF Launch, Numbering
  <2> QED
    BY <2>2, <2>3, <2>4
<1>2. CASE CallMaster
  <2>1. Kinds'
    BY <1>2 DEF CallMaster, Goto, Kinds, counter, device
  <2>2. Finishing'
    BY <1>2 DEF CallMaster, Goto, Kinds, Finishing, Running, counter, device, Busy
  <2>3. Numbering'
    BY <1>2 DEF CallMaster, Goto, Kinds, Numbering, counter, Busy
  <2> QED
    BY <2>1, <2>2, <2>3
<1>3. CASE Join \/ Signal
  <2>1. Kinds'
    BY <1>3 DEF Join, Signal, Kinds, counter, device
  <2>2. Finishing'
    BY <1>3 DEF Join, Signal, Finishing, Running, Handles
  <2>3. Numbering'
    BY <1>3 DEF Join, Signal, Numbering, counter
  <2> QED
    BY <2>1, <2>2, <2>3
<1> QED
  BY <1>1, <1>2, <1>3 DEF Main

\* Where an lcore goes while it holds no burst before and after.
LEMMA IdleStep ==
  ASSUME RInv, NEW l \in Lcores, InitCounter(l) \/ SetCounter(l) \/ Again(l) \/ Leave(l)
  PROVE  RInv'
<1> USE ReflectAssumption DEF RInv, At
<1>1. UNCHANGED <<program, main, port, burst, i, count, device>>
  BY DEF InitCounter, SetCounter, Again, Leave, counter
<1>2. /\ l \in Running
      /\ main # "end"
      /\ pc[l] \notin Busy \cup {"idle"}
      /\ a16' \in Nat
  BY DEF InitCounter, SetCounter, Again, Leave, Finishing, counter, Kinds, Busy
<1>3. \E w \in {"set", "top", "poll", "done"} :
        /\ pc' = [pc EXCEPT ![l] = w]
        /\ rates \subseteq rates' /\ rates' \subseteq Lcores
        /\ w = "done" => l \in rates'
  BY DEF InitCounter, SetCounter, Again, Leave, Goto, Kinds
<1>4. PICK w \in {"set", "top", "poll", "done"} :
        /\ pc' = [pc EXCEPT ![l] = w]
        /\ rates \subseteq rates' /\ rates' \subseteq Lcores
        /\ w = "done" => l \in rates'
  BY <1>3
<1>5. Kinds'
  BY <1>1, <1>2, <1>4 DEF Kinds, PCs, device
<1>6. Finishing'
  BY <1>1, <1>2, <1>4 DEF Kinds, Finishing, Running, Busy
<1>7. Numbering'
  BY <1>1, <1>2, <1>4 DEF Kinds, Numbering, Running, Busy
<1> QED
  BY <1>5, <1>6, <1>7

LEMMA PollStep ==
  ASSUME RInv, NEW l \in Lcores, Poll(l)
  PROVE  RInv'
<1> USE ReflectAssumption, BurstFits DEF RInv, At
<1> DEFINE q == Polled(l)
<1>1. PICK n \in 0 .. Burst :
        /\ n <= Len(rx[q])
        /\ burst' = [burst EXCEPT ![l] = SubSeq(rx[q], 1, n)]
        /\ rx' = [rx EXCEPT ![q] = SubSeq(@, n + 1, Len(@))]
        /\ pc' = [pc EXCEPT ![l] = AfterPoll(n)]
  BY DEF Poll, Goto
<1>2. q \in RxQueues(program) /\ rx[q] \in Seq(Mbufs)
  BY PolledQueue DEF Kinds
<1>3. /\ SubSeq(rx[q], 1, n) \in Seq(Mbufs) /\ Len(SubSeq(rx[q], 1, n)) = n
      /\ SubSeq(rx[q], n + 1, Len(rx[q])) \in Seq(Mbufs)
      /\ n = 0 => SubSeq(rx[q], 1, n) = <<>>
  <2> HIDE DEF q
  <2> QED
    BY <1>1, <1>2
<1>4. /\ l \in Running /\ pc[l] # "idle" /\ main # "end" /\ main' = main
      /\ program' = program /\ rates' = rates /\ port' = port
      /\ i' = [i EXCEPT ![l] = 0] /\ count' = [count EXCEPT ![l] = 0]
      /\ a16' = IF program \in Counting THEN 0 ELSE a16
  BY DEF Poll, Finishing
<1>5. /\ AfterPoll(n) \in Busy \cup {"done"}
      /\ AfterPoll(n) = "done" => program = "swap" /\ n = 0
      /\ AfterPoll(n) \in {"count", "copy"} => AfterPoll(n) = "count" /\ n > 0
  BY DEF AfterPoll, Kinds, Programs, Busy
<1> HIDE DEF q
<1>6. Kinds'
  <2>1. rx' \in [RxQueues(program) -> Seq(Mbufs)]
    BY <1>1, <1>2, <1>3 DEF Kinds
  <2> QED
    BY <1>1, <1>3, <1>4, <1>5, <2>1 DEF Kinds, PCs
<1>7. Finishing'
  BY <1>1, <1>3, <1>4, <1>5 DEF Kinds, Finishing, Running, Handles, Busy
<1>8. Numbering'
  BY <1>1, <1>3, <1>4, <1>5 DEF Kinds, Numbering, Running, Counting
<1> QED
  BY <1>6, <1>7, <1>8

LEMMA CountStep ==
  ASSUME RInv, NEW l \in Lcores, Increment(l) \/ Copy(l)
  PROVE  RInv'
<1> USE ReflectAssumption, BurstFits DEF RInv, At
<1>1. /\ l \in Running /\ main # "end" /\ pc[l] \in Busy
      /\ UNCHANGED <<program, main, port, burst, rates, device>>
  BY DEF Increment, Copy, Finishing, Busy
<1>2. a16' \in Nat
  <2>1. (a16 + 1) % Wrap \in Nat
    BY Remainder DEF Kinds
  <2> QED
    BY <2>1 DEF Increment, Copy, Kinds
<1>3. PICK w \in Busy : pc' = [pc EXCEPT ![l] = w]
  BY DEF Increment, Copy, Goto, Busy
<1>4. Kinds'
  <2>1. i' \in [Lcores -> Nat] /\ DOMAIN count' = Lcores
    BY DEF Increment, Copy, Kinds
  <2> QED
    BY <1>1, <1>2, <1>3, <2>1 DEF Kinds, PCs, device
<1>5. Finishing'
  BY <1>1, <1>3 DEF Kinds, Finishing, Running, Busy
<1>6. Numbering'
  <2> SUFFICES ASSUME program = "pair" PROVE Numbering'
    BY <1>1 DEF Numbering
  <2>1. l = Master
    BY <1>1 DEF Running
  <2>2. i[Master] \in Nat /\ Len(burst[Master]) \in Nat
    BY DEF Kinds
  <2>3. CASE Increment(l)
    <3>1. /\ a16 = i[Master] /\ i[Master] < Len(burst[Master]) /\ Len(burst[Master]) <= Burst
          /\ a16' = (a16 + 1) % Wrap /\ pc' = [pc EXCEPT ![Master] = "copy"]
          /\ UNCHANGED <<i, count>>
      BY <2>1, <2>3 DEF Increment, Numbering, Goto
    <3>2. a16 + 1 \in Nat /\ a16 + 1 < Wrap
      BY <2>2, <3>1
    <3>3. a16' = i[Master] + 1
      BY <3>1, <3>2, Remainder
    <3> QED
      BY <1>1, <3>1, <3>3 DEF Numbering, Kinds
  <2>4. CASE Copy(l)
    <3>1. /\ a16 = i[Master] + 1 /\ i[Master] < Len(burst[Master]) /\ Len(burst[Master]) <= Burst
          /\ a16' = a16
          /\ i' = [i EXCEPT ![Master] = @ + 1] /\ count' = [count EXCEPT ![Master] = a16]
          /\ pc' = [pc EXCEPT ![Master] = IF i[Master] + 1 < Len(burst[Master]) THEN "count" ELSE "send"]
      BY <2>1, <2>4 DEF Copy, Numbering, Goto
    <3> QED
      BY <1>1, <2>2, <3>1 DEF Numbering, Kinds
  <2> QED
    BY <2>3, <2>4
<1> QED
  BY <1>4, <1>5, <1>6

LEMMA FreeStep ==
  ASSUME RInv, NEW l \in Lcores, Send(l) \/ SendNowhere(l) \/ FreeOne(l) \/ NextBurst(l)
  PROVE  RInv'
<1> USE ReflectAssumption DEF RInv, At
<1>1. /\ l \in Running /\ main # "end" /\ main' # "end"
      /\ main' \in {main, "crash"}
      /\ pc[l] \in {"send", "free"}
      /\ UNCHANGED <<program, rates, a16, i, count, rx>>
  BY DEF Send, SendNowhere, FreeOne, NextBurst, Finishing, counter, device, Kinds
<1>2. port' \in 0 .. Ports - 1
  <2>1. port + 1 \in Nat /\ Ports \in Nat \ {0}
    BY DEF Kinds
  <2>2. (port + 1) % Ports \in 0 .. Ports - 1
    BY <2>1, Remainder
  <2> QED
    BY <2>2 DEF Send, SendNowhere, FreeOne, NextBurst, Kinds
<1>3. burst[l] \in Seq(Mbufs)
  BY DEF Kinds
<1>4. \E w \in {"send", "free", "top", "poll"}, s \in Seq(Mbufs) :
        /\ pc' = [pc EXCEPT ![l] = w]
        /\ burst' = [burst EXCEPT ![l] = s]
        /\ w \in {"top", "poll"} => s = <<>>
  <2>1. CASE Send(l)
    <3>1. PICK k \in 0 .. Len(burst[l]) : burst' = [burst EXCEPT ![l] = Unsent(l, k)]
      BY <2>1 DEF Send
    <3>2. Unsent(l, k) \in Seq(Mbufs)
      BY <1>3, <3>1 DEF Unsent
    <3> QED
      BY <2>1, <3>1, <3>2 DEF Send, Goto
  <2>2. CASE SendNowhere(l)
    <3>1. pc' = [pc EXCEPT ![l] = "send"] /\ burst' = [burst EXCEPT ![l] = burst[l]]
      BY <2>2 DEF SendNowhere, Kinds
    <3> QED
      BY <1>3, <3>1
  <2>3. CASE FreeOne(l)
    <3>1. pc' = [pc EXCEPT ![l] = "free"] /\ burst' = [burst EXCEPT ![l] = Tail(burst[l])]
      BY <2>3 DEF FreeOne, Kinds
    <3>2. Tail(burst[l]) \in Seq(Mbufs)
      BY <1>3, <2>3 DEF FreeOne
    <3> QED
      BY <3>1, <3>2
  <2>4. CASE NextBurst(l)
    <3>1. burst[l] = <<>> /\ burst' = [burst EXCEPT ![l] = burst[l]]
      BY <2>4 DEF NextBurst, Kinds
    <3>2. \E w \in {"top", "poll"} : pc' = [pc EXCEPT ![l] = w]
      BY <2>4 DEF NextBurst, Goto
    <3> QED
      BY <1>3, <3>1, <3>2
  <2> QED
    BY <2>1, <2>2, <2>3, <2>4
<1>5. PICK w \in {"send", "free", "top", "poll"}, s \in Seq(Mbufs) :
        /\ pc' = [pc EXCEPT ![l] = w]
        /\ burst' = [burst EXCEPT ![l] = s]
        /\ w \in {"top", "poll"} => s = <<>>
  BY <1>4
<1>6. Kinds'
  BY <1>1, <1>2, <1>5 DEF Kinds, PCs, Busy
<1>7. Finishing'
  BY <1>1, <1>5 DEF Kinds, Finishing, Running, Busy
<1>8. Numbering'
  BY <1>1, <1>5 DEF Kinds, Numbering, Running
<1> QED
  BY <1>6, <1>7, <1>8

LEMMA DeviceStep ==
  ASSUME RInv, Device
  PROVE  RInv'
<1> USE DEF RInv
<1>1. UNCHANGED <<program, main, pc, port, burst, rates, a16, i, count>>
  BY DEF Device, Arrive, Sent, counter
<1>2. rx' \in [RxQueues(program) -> Seq(Mbufs)]
  <2>1. CASE \E q \in RxQueues(program), m \in Mbufs : Arrive(q, m)
    <3> PICK q \in RxQueues(program), m \in Mbufs : Arrive(q, m)
      BY <2>1
    <3>1. Append(rx[q], m) \in Seq(Mbufs)
      BY DEF Kinds
    <3> QED
      BY <3>1 DEF Arrive, Kinds
  <2>2. CASE \E q \in TxQueues(program) : Sent(q)
    BY <2>2 DEF Sent, Kinds
  <2> QED
    BY <2>1, <2>2 DEF Device
<1>3. Kinds'
  BY <1>1, <1>2 DEF Kinds
<1>4. Finishing' /\ Numbering'
  BY <1>1 DEF Finishing, Numbering, Running
<1> QED
  BY <1>3, <1>4

LEMMA RInvStep == RInv /\ [Next]_vars => RInv'
<1> SUFFICES ASSUME RInv, [Next]_vars PROVE RInv'
  OBVIOUS
<1>1. CASE Main \/ Signal
  BY <1>1, MainStep
<1>2. CASE \E l \in Lcores : Lcore(l)
  BY <1>2, IdleStep, PollStep, CountStep, FreeStep DEF Lcore
<1>3. CASE Device
  BY <1>3, DeviceStep
<1>4. CASE UNCHANGED vars
  BY <1>4 DEF vars, counter, device, RInv, Kinds, Finishing, Numbering, Running
<1> QED
  BY <1>1, <1>2, <1>3, <1>4 DEF Next, Ended

THEOREM RInvariant == Spec => []RInv
BY RInit, RInvStep, PTL DEF Spec

(***************************************************************************)
(* When main adds up the rates every lcore has stored its own and holds no  *)
(* mbuf (reflect.c 545, 636-642).                                           *)
(***************************************************************************)
THEOREM RatesSummedLast == Spec => []SummedLast
<1>1. RInv => SummedLast
  BY DEF RInv, Kinds, Finishing, SummedLast, Running, Handles, Busy
<1> QED
  BY RInvariant, <1>1, PTL

(***************************************************************************)
(* basicfwd.c numbers the packets of each burst 1, 2, 3, ...: the set-up to *)
(* 32 never shows, and the counter does not wrap around (basicfwd.c 156-227).*)
(***************************************************************************)
THEOREM BurstsNumbered == Spec => []NumberedFromOne
<1>1. RInv => NumberedFromOne
  BY DEF RInv, Numbering, NumberedFromOne
<1> QED
  BY RInvariant, <1>1, PTL

-----------------------------------------------------------------------------
(***************************************************************************)
(* The counter that the lcores share.  An increment that is not cleared     *)
(* away stands for a packet that is polled and not yet numbered to its end,  *)
(* and there are Burst of those for an lcore at most.                       *)
(***************************************************************************)
CounterInv ==
  /\ a16 \in 0 .. Wrap - 1
  /\ i \in [Lcores -> 0 .. Burst]
  /\ count \in [Lcores -> 0 .. Wrap - 1]
  /\ \A l \in Lcores : Len(burst[l]) <= Burst
  /\ \A l \in Lcores : pc[l] \in {"count", "copy"} => i[l] < Len(burst[l])
  /\ CounterExplained

LEMMA Units ==
  ASSUME NEW S \in SUBSET (Lcores \X (1 .. Burst))
  PROVE  /\ IsFiniteSet(S) /\ Cardinality(S) \in Nat
         /\ SetTo + Cardinality(S) < Wrap
<1>1. IsFiniteSet(1 .. Burst) /\ Cardinality(1 .. Burst) = Burst
  BY BurstFits, FS_Interval
<1> DEFINE P == Lcores \X (1 .. Burst)
           N == Cardinality(Lcores)
<1>2. IsFiniteSet(P) /\ Cardinality(P) = N * Burst
  BY <1>1, FS_Product, ReflectAssumption
<1>3. IsFiniteSet(S) /\ Cardinality(S) <= Cardinality(P) /\ Cardinality(S) \in Nat
  BY <1>2, FS_Subset, FS_CardinalityType
<1>4. N \in Nat /\ N * Burst \in Nat /\ SetTo \in Nat /\ Wrap \in Nat /\ SetTo + N * Burst < Wrap
  <2>1. N \in Nat
    BY FS_CardinalityType, ReflectAssumption
  <2>2. SetTo \in Nat /\ Wrap \in Nat /\ Burst \in Nat /\ SetTo + N * Burst < Wrap
    BY ReflectAssumption
  <2> HIDE DEF N
  <2> QED
    BY <2>1, <2>2
<1> HIDE DEF P, N
<1> QED
  BY <1>2, <1>3, <1>4

LEMMA CounterInit == Init => CounterInv
<1> SUFFICES ASSUME Init PROVE CounterInv
  OBVIOUS
<1>1. Counted \in SUBSET (Lcores \X (1 .. Burst))
  BY DEF Counted
<1>2. Cardinality(Counted) \in Nat
  BY <1>1, Units
<1>3. CounterExplained
  BY <1>2, ReflectAssumption DEF Init, CounterExplained
<1> QED
  BY <1>3, BurstFits DEF Init, CounterInv

\* An lcore that goes where it does not number packets, its burst not longer.
LEMMA CounterKept ==
  ASSUME Kinds, CounterInv, UNCHANGED <<program, a16, i, count>>,
         \E l \in Lcores :
           /\ pc[l] \notin {"count", "copy"}
           /\ \E w \in PCs \ {"count", "copy"} : pc' = [pc EXCEPT ![l] = w]
           /\ \A k \in Lcores : k # l => burst'[k] = burst[k]
           /\ Len(burst'[l]) <= Burst
  PROVE  CounterInv'
<1>1. PICK l \in Lcores, w \in PCs \ {"count", "copy"} :
        /\ pc[l] \notin {"count", "copy"}
        /\ pc' = [pc EXCEPT ![l] = w]
        /\ \A k \in Lcores : k # l => burst'[k] = burst[k]
        /\ Len(burst'[l]) <= Burst
  OBVIOUS
<1>2. \A k \in Lcores : k # l => pc'[k] = pc[k]
  BY <1>1 DEF Kinds
<1>3. pc'[l] \notin {"count", "copy"}
  BY <1>1 DEF Kinds
<1>4. \A k \in Lcores : (pc'[k] = "copy") <=> (pc[k] = "copy")
  BY <1>1, <1>2, <1>3
<1>5. Counted' = Counted
  BY <1>4 DEF Counted
<1>6. CounterExplained'
  BY <1>5 DEF CounterInv, CounterExplained
<1> QED
  BY <1>1, <1>2, <1>3, <1>6 DEF CounterInv

\* Where nothing of the counter changes.
LEMMA CounterSame ==
  ASSUME CounterInv, UNCHANGED <<program, a16, i, count, pc, burst>>
  PROVE  CounterInv'
<1>1. CounterExplained'
  BY DEF CounterInv, CounterExplained, Counted
<1> QED
  BY <1>1 DEF CounterInv

LEMMA CounterIncrement ==
  ASSUME RInv, CounterInv, NEW l \in Lcores, Increment(l)
  PROVE  CounterInv'
<1>1. /\ pc[l] = "count" /\ pc' = [pc EXCEPT ![l] = "copy"]
      /\ a16' = (a16 + 1) % Wrap
      /\ UNCHANGED <<program, i, count, burst>>
  BY DEF Increment, At, Goto
<1>2. pc'[l] = "copy" /\ \A k \in Lcores : k # l => pc'[k] = pc[k]
  BY <1>1 DEF RInv, Kinds
<1>3. i[l] \in 0 .. Burst /\ i[l] < Len(burst[l]) /\ Len(burst[l]) <= Burst /\ Burst \in Nat
      /\ Len(burst[l]) \in Nat
  BY <1>1, BurstFits DEF CounterInv, RInv, Kinds
<1> DEFINE u == <<l, i[l] + 1>>
<1>4. u \in Lcores \X (1 .. Burst) /\ u \notin Counted
  BY <1>1, <1>3 DEF Counted
<1>5. Counted' = Counted \cup {u}
  <2>1. ASSUME NEW e \in Lcores \X (1 .. Burst) PROVE e \in Counted' <=> e \in Counted \/ e = u
    <3>1. CASE e[1] = l
      BY <1>1, <1>2, <1>3, <2>1, <3>1 DEF Counted
    <3>2. CASE e[1] # l
      BY <1>1, <1>2, <2>1, <3>2 DEF Counted
    <3> QED
      BY <3>1, <3>2
  <2>2. Counted \in SUBSET (Lcores \X (1 .. Burst)) /\ Counted' \in SUBSET (Lcores \X (1 .. Burst))
    BY DEF Counted
  <2> QED
    BY <1>4, <2>1, <2>2
<1>6. Counted \in SUBSET (Lcores \X (1 .. Burst)) /\ Counted' \in SUBSET (Lcores \X (1 .. Burst))
  BY DEF Counted
<1>7. /\ Cardinality(Counted) \in Nat
      /\ Cardinality(Counted') = Cardinality(Counted) + 1
      /\ SetTo + Cardinality(Counted') < Wrap
  <2>1. IsFiniteSet(Counted) /\ Cardinality(Counted) \in Nat
    BY <1>6, Units
  <2>2. SetTo + Cardinality(Counted') < Wrap
    BY <1>6, Units
  <2> HIDE DEF u
  <2>3. Cardinality(Counted \cup {u}) = Cardinality(Counted) + 1
    BY <2>1, <1>4, FS_AddElement
  <2> QED
    BY <2>1, <2>2, <2>3, <1>5
<1>8. a16 + 1 \in Nat /\ Wrap \in Nat \ {0} /\ SetTo \in Nat
  <2>1. a16 + 1 \in Nat
    BY DEF RInv, Kinds
  <2>2. Wrap \in Nat \ {0} /\ SetTo \in Nat
    BY ReflectAssumption
  <2> QED
    BY <2>1, <2>2
<1>9. a16' \in 0 .. Wrap - 1
  BY <1>1, <1>8, Remainder
<1>10. CounterExplained'
  <2>1. SUFFICES ASSUME program \in Counting PROVE a16' <= SetTo + Cardinality(Counted')
    BY <1>1 DEF CounterExplained
  <2>2. a16 <= SetTo + Cardinality(Counted)
    BY <2>1 DEF CounterInv, CounterExplained
  <2>3. a16 \in Nat /\ a16 + 1 < Wrap
    BY <1>7, <1>8, <2>2 DEF RInv, Kinds
  <2>4. a16' = a16 + 1
    BY <1>1, <1>8, <2>3, Remainder
  <2> QED
    BY <1>7, <1>8, <2>2, <2>3, <2>4
<1> QED
  BY <1>1, <1>2, <1>3, <1>9, <1>10 DEF CounterInv

LEMMA CounterCopy ==
  ASSUME RInv, CounterInv, NEW l \in Lcores, Copy(l)
  PROVE  CounterInv'
<1>1. PICK w \in {"count", "send", "free"} :
        /\ pc' = [pc EXCEPT ![l] = w]
        /\ w = "count" => i[l] + 1 < Len(burst[l])
  BY DEF Copy, Goto
<1>2. /\ pc[l] = "copy"
      /\ count' = [count EXCEPT ![l] = a16] /\ i' = [i EXCEPT ![l] = @ + 1]
      /\ UNCHANGED <<program, a16, burst>>
  BY DEF Copy, At
<1>3. pc'[l] = w /\ \A k \in Lcores : k # l => pc'[k] = pc[k]
  BY <1>1 DEF RInv, Kinds
<1>4. i[l] \in 0 .. Burst /\ i[l] < Len(burst[l]) /\ Len(burst[l]) <= Burst /\ Burst \in Nat
      /\ Len(burst[l]) \in Nat
  BY <1>2, BurstFits DEF CounterInv, RInv, Kinds
<1>5. i' \in [Lcores -> 0 .. Burst] /\ i'[l] = i[l] + 1 /\ \A k \in Lcores : k # l => i'[k] = i[k]
  BY <1>2, <1>4 DEF CounterInv
<1>6. count' \in [Lcores -> 0 .. Wrap - 1]
  BY <1>2 DEF CounterInv
<1>7. Counted' = Counted
  <2>1. ASSUME NEW e \in Lcores \X (1 .. Burst) PROVE e \in Counted' <=> e \in Counted
    <3>1. CASE e[1] = l
      <4>1. e[2] \in Nat /\ i[l] \in Nat
        BY <1>4, <2>1
      <4>2. e \in Counted <=> (e[2] <= i[l] \/ e[2] = i[l] + 1)
        BY <1>2, <2>1, <3>1 DEF Counted
      <4>3. e \in Counted' <=> e[2] <= i[l] + 1
        BY <1>3, <1>5, <2>1, <3>1 DEF Counted
      <4> QED
        BY <4>1, <4>2, <4>3
    <3>2. CASE e[1] # l
      <4>1. e[1] \in Lcores /\ i'[e[1]] = i[e[1]] /\ pc'[e[1]] = pc[e[1]]
        BY <1>3, <1>5, <2>1, <3>2
      <4> QED
        BY <2>1, <4>1 DEF Counted
    <3> QED
      BY <3>1, <3>2
  <2>2. Counted \in SUBSET (Lcores \X (1 .. Burst)) /\ Counted' \in SUBSET (Lcores \X (1 .. Burst))
    BY DEF Counted
  <2> QED
    BY <2>1, <2>2
<1>8. CounterExplained'
  BY <1>2, <1>7 DEF CounterInv, CounterExplained
<1>9. \A k \in Lcores : pc'[k] \in {"count", "copy"} => i'[k] < Len(burst'[k])
  BY <1>1, <1>2, <1>3, <1>5 DEF CounterInv
<1> QED
  BY <1>2, <1>5, <1>6, <1>8, <1>9 DEF CounterInv

\* Where the counter is given a value no greater than SetTo.
LEMMA CounterCleared ==
  ASSUME ReflectAssumption, a16' \in 0 .. SetTo
  PROVE  a16' \in 0 .. Wrap - 1 /\ CounterExplained'
<1>1. Counted' \in SUBSET (Lcores \X (1 .. Burst)) /\ {} \in SUBSET (Lcores \X (1 .. Burst))
  BY DEF Counted
<1>2. Cardinality(Counted') \in Nat /\ SetTo + Cardinality(Counted') < Wrap
  BY <1>1, Units
<1>3. SetTo \in Nat /\ Wrap \in Nat
  BY ReflectAssumption
<1>4. a16' \in 0 .. Wrap - 1 /\ a16' <= SetTo + Cardinality(Counted')
  BY <1>2, <1>3
<1> QED
  BY <1>4 DEF CounterExplained

LEMMA CounterPoll ==
  ASSUME RInv, CounterInv, NEW l \in Lcores, Poll(l)
  PROVE  CounterInv'
<1>1. PICK n \in 0 .. Burst :
        /\ n <= Len(rx[Polled(l)])
        /\ burst' = [burst EXCEPT ![l] = SubSeq(rx[Polled(l)], 1, n)]
        /\ pc' = [pc EXCEPT ![l] = AfterPoll(n)]
  BY DEF Poll, Goto
<1>2. rx[Polled(l)] \in Seq(Mbufs)
  BY PolledQueue DEF RInv, Kinds
<1> DEFINE s == SubSeq(rx[Polled(l)], 1, n)
<1>3. n \in Nat /\ n <= Burst /\ Len(s) = n /\ Burst \in Nat
  BY <1>1, <1>2, BurstFits
<1>4. burst'[l] = s /\ \A k \in Lcores : k # l => burst'[k] = burst[k]
  BY <1>1 DEF RInv, Kinds
<1>5. /\ AfterPoll(n) \in Busy \cup {"done"}
      /\ AfterPoll(n) \in {"count", "copy"} => AfterPoll(n) = "count" /\ n > 0
      /\ AfterPoll(n) = "count" => program \in Counting
  BY <1>3 DEF AfterPoll, RInv, Kinds, Programs, Busy, Counting
<1>6. pc'[l] = AfterPoll(n) /\ \A k \in Lcores : k # l => pc'[k] = pc[k]
  BY <1>1 DEF RInv, Kinds
<1>7. /\ program' = program /\ pc[l] = "poll"
      /\ i' = [i EXCEPT ![l] = 0] /\ count' = [count EXCEPT ![l] = 0]
      /\ a16' = IF program \in Counting THEN 0 ELSE a16
  BY DEF Poll, At
<1>8. i' \in [Lcores -> 0 .. Burst] /\ i'[l] = 0 /\ \A k \in Lcores : k # l => i'[k] = i[k]
  BY <1>3, <1>7 DEF CounterInv
<1>9. count' \in [Lcores -> 0 .. Wrap - 1]
  BY <1>7, BurstFits DEF CounterInv
<1>10. a16' \in 0 .. Wrap - 1 /\ CounterExplained'
  <2>1. CASE program \in Counting
    <3>1. a16' \in 0 .. SetTo
      BY <1>7, <2>1, ReflectAssumption
    <3> QED
      BY <3>1, CounterCleared, ReflectAssumption
  <2>2. CASE program \notin Counting
    BY <1>7, <2>2 DEF CounterInv, CounterExplained
  <2> QED
    BY <2>1, <2>2
<1> HIDE DEF s
<1>11. \A k \in Lcores : /\ Len(burst'[k]) <= Burst
                         /\ pc'[k] \in {"count", "copy"} => i'[k] < Len(burst'[k])
  BY <1>3, <1>4, <1>5, <1>6, <1>8 DEF CounterInv
<1> QED
  BY <1>8, <1>9, <1>10, <1>11 DEF CounterInv

LEMMA CounterStep ==
  RInv /\ CounterInv /\ [Next]_vars => CounterInv'
<1> SUFFICES ASSUME RInv, CounterInv, [Next]_vars PROVE CounterInv'
  OBVIOUS
<1>k. Kinds /\ Burst \in Nat /\ \A l \in Lcores : burst[l] \in Seq(Mbufs) /\ Len(burst[l]) <= Burst
  BY BurstFits DEF RInv, Kinds, CounterInv
<1>1. CASE Join \/ Signal \/ Device \/ UNCHANGED vars \/ \E l \in Lcores : SendNowhere(l)
  <2>1. UNCHANGED <<program, a16, i, count, pc, burst>>
    BY <1>1 DEF Join, Signal, Device, Arrive, Sent, SendNowhere, vars, counter
  <2> QED
    BY <2>1, CounterSame
<1>2. CASE (\E l \in Running : Launch(l)) \/ CallMaster
  <2>1. UNCHANGED <<program, a16, i, count, burst>>
    BY <1>2 DEF Launch, CallMaster, counter
  <2>2. \E l \in Lcores : pc[l] = "idle" /\ pc' = [pc EXCEPT ![l] = First]
    BY <1>2, ReflectAssumption DEF Launch, CallMaster, Goto, At, Running, RInv, Finishing
  <2>3. First \in PCs \ {"count", "copy"}
    BY <1>k, FirstPlace DEF Busy
  <2> QED
    BY <1>k, <2>1, <2>2, <2>3, CounterKept
<1>3. ASSUME NEW l \in Lcores, Again(l) \/ Leave(l) \/ Send(l) \/ FreeOne(l) \/ NextBurst(l)
      PROVE  CounterInv'
  <2>1. UNCHANGED <<program, a16, i, count>>
    BY <1>3 DEF Again, Leave, Send, FreeOne, NextBurst, counter
  <2>2. pc[l] \in {"top", "send", "free"}
    BY <1>3 DEF Again, Leave, Send, FreeOne, NextBurst, At
  <2>3. \E w \in PCs \ {"count", "copy"} : pc' = [pc EXCEPT ![l] = w]
    <3>1. CASE FreeOne(l)
      <4>1. pc' = [pc EXCEPT ![l] = "free"]
        BY <3>1, <1>k DEF FreeOne, At, Kinds
      <4> QED
        BY <4>1 DEF PCs, Busy
    <3>2. CASE ~FreeOne(l)
      <4>1. \E w \in {"poll", "done", "free", "top"} : pc' = [pc EXCEPT ![l] = w]
        BY <1>3, <3>2 DEF Again, Leave, Send, NextBurst, Goto
      <4> QED
        BY <4>1 DEF PCs, Busy
    <3> QED
      BY <3>1, <3>2
  <2>4. (\A k \in Lcores : k # l => burst'[k] = burst[k]) /\ Len(burst'[l]) <= Burst
    <3>1. CASE Again(l) \/ Leave(l) \/ NextBurst(l)
      BY <3>1, <1>k DEF Again, Leave, NextBurst
    <3>2. CASE Send(l)
      <4>1. PICK k \in 0 .. Len(burst[l]) : burst' = [burst EXCEPT ![l] = Unsent(l, k)]
        BY <3>2 DEF Send
      <4>2. Len(burst[l]) \in Nat /\ Len(SubSeq(burst[l], k + 1, Len(burst[l]))) <= Len(burst[l])
        BY <1>k
      <4>3. Len(Unsent(l, k)) <= Burst
        <5>1. CASE program = "swap"
          BY <5>1, <1>k DEF Unsent
        <5>2. CASE program # "swap"
          <6>1. Len(SubSeq(burst[l], k + 1, Len(burst[l]))) = Len(burst[l]) - k
            BY <1>k
          <6> QED
            BY <5>2, <6>1, <4>2, <1>k DEF Unsent
        <5> QED
          BY <5>1, <5>2
      <4> QED
        BY <4>1, <4>3, <1>k DEF Kinds
    <3>3. CASE FreeOne(l)
      <4>1. burst' = [burst EXCEPT ![l] = Tail(burst[l])] /\ burst[l] # <<>>
        BY <3>3, <1>k DEF FreeOne, Kinds
      <4>2. Len(burst[l]) \in Nat /\ Len(Tail(burst[l])) = Len(burst[l]) - 1
        BY <4>1, <1>k
      <4> QED
        BY <4>1, <4>2, <1>k DEF Kinds
    <3> QED
      BY <1>3, <3>1, <3>2, <3>3
  <2> QED
    BY <1>k, <2>1, <2>2, <2>3, <2>4, CounterKept
<1>4. ASSUME NEW l \in Lcores, InitCounter(l) \/ SetCounter(l) PROVE CounterInv'
  <2>1. UNCHANGED <<program, i, count, burst>> /\ a16' \in 0 .. SetTo
    BY <1>4, ReflectAssumption DEF InitCounter, SetCounter
  <2>2. a16' \in 0 .. Wrap - 1 /\ CounterExplained'
    BY <2>1, CounterCleared, ReflectAssumption
  <2>3. PICK w \in {"set", "top", "poll"} : pc' = [pc EXCEPT ![l] = w]
    BY <1>4 DEF InitCounter, SetCounter, Goto
  <2>4. \A k \in Lcores : pc'[k] \in {"count", "copy"} => pc'[k] = pc[k]
    BY <1>k, <2>3 DEF Kinds
  <2> QED
    BY <2>1, <2>2, <2>4 DEF CounterInv
<1> QED
  BY <1>1, <1>2, <1>3, <1>4, CounterIncrement, CounterCopy, CounterPoll DEF Next, Main, Lcore, Ended

(***************************************************************************)
(* However many lcores set, clear and increase the counter at once, it is   *)
(* no further than the set-up and the packets being numbered, and does not  *)
(* wrap around (multi-core/reflect.c 434-470, basicfwd.c 200-230).          *)
(***************************************************************************)
THEOREM CounterBounded == Spec => []CounterExplained
<1>1. CounterInv => CounterExplained
  BY DEF CounterInv
<1> QED
  BY RInvariant, CounterInit, CounterStep, <1>1, PTL DEF Spec

-----------------------------------------------------------------------------
(* The pool.                                                                *)

EntriesOf(q) == {e \in Mbufs \X (1 .. PoolSize) : e[2] <= q[e[1]]}

LEMMA PoolRoom ==
  /\ Cardinality(Mbufs) \in Nat /\ PoolSize \in Nat /\ PoolSize >= 1
  /\ Cardinality(Mbufs) <= PoolSize
BY FS_CardinalityType, ReflectAssumption

\* Where no mbuf is twice in the pool, its entries are as many as its mbufs.
LEMMA EntriesCount ==
  ASSUME NEW q, \A m \in Mbufs : q[m] \in {0, 1}
  PROVE  Cardinality(EntriesOf(q)) = Cardinality({m \in Mbufs : q[m] = 1})
<1> DEFINE P == {m \in Mbufs : q[m] = 1}
           E == {e \in Mbufs \X (1 .. PoolSize) : e[2] <= q[e[1]]}
           f == [m \in P |-> <<m, 1>>]
<1>1. PoolSize \in Nat /\ PoolSize >= 1
  BY PoolRoom
<1>2. \A e \in E : e[1] \in P /\ e = <<e[1], 1>>
  BY <1>1
<1>3. \A m \in P : <<m, 1>> \in E
  BY <1>1
<1>4. f \in Bijection(P, E)
  <2>1. f \in [P -> E]
    BY <1>3
  <2>2. \A a, b \in P : f[a] = f[b] => a = b
    OBVIOUS
  <2>3. \A e \in E : \E a \in P : f[a] = e
    BY <1>2
  <2> QED
    BY <2>1, <2>2, <2>3 DEF Bijection, Injection, Surjection, IsInjective
<1>5. IsFiniteSet(P)
  BY FS_Subset, ReflectAssumption
<1>6. Cardinality(E) = Cardinality(P)
  BY <1>4, <1>5, FS_Bijection DEF ExistsBijection
<1> QED
  BY <1>6 DEF EntriesOf

LEMMA EntriesFinite ==
  ASSUME NEW q
  PROVE  IsFiniteSet(EntriesOf(q)) /\ Cardinality(EntriesOf(q)) \in Nat
<1>1. IsFiniteSet(1 .. PoolSize)
  BY PoolRoom, FS_Interval
<1>2. IsFiniteSet(Mbufs \X (1 .. PoolSize))
  BY <1>1, FS_Product, ReflectAssumption
<1>3. EntriesOf(q) \in SUBSET (Mbufs \X (1 .. PoolSize))
  BY DEF EntriesOf
<1> QED
  BY <1>2, <1>3, FS_Subset, FS_CardinalityType

\* An mbuf is in the pool no more often than the pool has entries.
LEMMA EntriesOfOne ==
  ASSUME NEW q \in [Mbufs -> 0 .. PoolSize], NEW m \in Mbufs
  PROVE  q[m] <= Cardinality(EntriesOf(q))
<1> DEFINE f == [k \in 1 .. q[m] |-> <<m, k>>]
<1>1. q[m] \in 0 .. PoolSize /\ PoolSize \in Nat
  BY PoolRoom
<1>2. f \in Injection(1 .. q[m], EntriesOf(q))
  <2>1. \A k \in 1 .. q[m] : <<m, k>> \in EntriesOf(q)
    BY <1>1 DEF EntriesOf
  <2>2. f \in [1 .. q[m] -> EntriesOf(q)]
    BY <2>1
  <2>3. \A h, k \in 1 .. q[m] : f[h] = f[k] => h = k
    OBVIOUS
  <2> QED
    BY <2>2, <2>3 DEF Injection, IsInjective
<1>3. Cardinality(1 .. q[m]) = q[m]
  BY <1>1, FS_Interval
<1>4. Cardinality(1 .. q[m]) <= Cardinality(EntriesOf(q))
  BY <1>2, EntriesFinite, FS_Injection
<1> QED
  BY <1>3, <1>4

\* Taking from the pool leaves it room.
LEMMA TakenTyped ==
  ASSUME NEW q \in [Mbufs -> 0 .. PoolSize], NEW r \in [Mbufs -> Nat],
         \A m \in Mbufs : r[m] <= q[m]
  PROVE  /\ r \in [Mbufs -> 0 .. PoolSize]
         /\ Cardinality(EntriesOf(r)) <= Cardinality(EntriesOf(q))
<1>1. PoolSize \in Nat
  BY PoolRoom
<1>2. EntriesOf(r) \in SUBSET EntriesOf(q)
  BY <1>1 DEF EntriesOf
<1>3. Cardinality(EntriesOf(r)) <= Cardinality(EntriesOf(q))
  BY <1>2, EntriesFinite, FS_Subset
<1>4. \A m \in Mbufs : r[m] \in 0 .. PoolSize
  BY <1>1
<1> QED
  BY <1>3, <1>4

\* What is put back fits.
LEMMA ReturnedTyped ==
  ASSUME NEW q \in [Mbufs -> 0 .. PoolSize], NEW m \in Mbufs,
         Cardinality(EntriesOf(q)) < PoolSize
  PROVE  /\ [q EXCEPT ![m] = @ + 1] \in [Mbufs -> 0 .. PoolSize]
         /\ Cardinality(EntriesOf([q EXCEPT ![m] = @ + 1])) <= PoolSize
<1> DEFINE r == [q EXCEPT ![m] = @ + 1]
           x == <<m, q[m] + 1>>
<1>1. PoolSize \in Nat /\ Cardinality(EntriesOf(q)) \in Nat /\ q[m] \in Nat
  BY PoolRoom, EntriesFinite
<1>2. q[m] < PoolSize
  BY <1>1, EntriesOfOne
<1>3. EntriesOf(r) \in SUBSET (EntriesOf(q) \cup {x})
  <2>1. ASSUME NEW e \in EntriesOf(r), e \notin EntriesOf(q) PROVE e = x
    <3>1. e \in Mbufs \X (1 .. PoolSize) /\ e[2] <= r[e[1]] /\ ~(e[2] <= q[e[1]])
      BY <2>1 DEF EntriesOf
    <3>2. e[1] = m
      BY <3>1
    <3>3. e[2] \in Nat /\ e[2] <= q[m] + 1 /\ ~(e[2] <= q[m])
      BY <3>1, <3>2, <1>1
    <3>4. e[2] = q[m] + 1
      BY <3>3, <1>1
    <3> QED
      BY <3>1, <3>2, <3>4
  <2> QED
    BY <2>1
<1>4. /\ IsFiniteSet(EntriesOf(q) \cup {x})
      /\ Cardinality(EntriesOf(q) \cup {x}) <= Cardinality(EntriesOf(q)) + 1
  BY <1>1, EntriesFinite, FS_AddElement
<1>5. Cardinality(EntriesOf(r)) <= Cardinality(EntriesOf(q) \cup {x})
  BY <1>3, <1>4, FS_Subset
<1>6. Cardinality(EntriesOf(r)) \in Nat /\ Cardinality(EntriesOf(q) \cup {x}) \in Nat
  BY <1>4, EntriesFinite, FS_CardinalityType
<1>7. r \in [Mbufs -> 0 .. PoolSize]
  BY <1>1, <1>2
<1> HIDE DEF r, x
<1>8. Cardinality(EntriesOf(r)) <= PoolSize
  BY <1>1, <1>4, <1>5, <1>6
<1> QED
  BY <1>7, <1>8 DEF r

-----------------------------------------------------------------------------
(* The types, the room in the pool and in the rings among them.             *)

Room(q) == q \in [Mbufs -> 0 .. PoolSize] /\ Cardinality(EntriesOf(q)) <= PoolSize

DeviceTyped ==
  /\ Room(pool)
  /\ DOMAIN rx = RxQueues(program) /\ \A q \in RxQueues(program) : Bounded(rx[q], RxDesc)
  /\ tx \in [TxQueues(program) -> Seq(Mbufs)] /\ \A q \in TxQueues(program) : Len(tx[q]) <= TxDesc
  /\ origin \in [Mbufs -> RxQueues(program)]
  /\ keepRunning \in BOOLEAN

LEMMA PutTyped ==
  ASSUME Room(pool), NEW m \in Mbufs
  PROVE  Room(Put(m))
<1>1. InPool = Cardinality(EntriesOf(pool))
  BY DEF InPool, EntriesOf
<1>2. CASE InPool < PoolSize
  BY <1>1, <1>2, ReturnedTyped DEF Put, Room
<1>3. CASE ~(InPool < PoolSize)
  BY <1>3 DEF Put
<1> QED
  BY <1>2, <1>3

LEMMA DeviceInit == Init => DeviceTyped
<1> SUFFICES ASSUME Init PROVE DeviceTyped
  OBVIOUS
<1>1. pool \in [Mbufs -> 0 .. PoolSize] /\ \A m \in Mbufs : pool[m] \in {0, 1}
  BY PoolRoom DEF Init
<1>2. Cardinality(EntriesOf(pool)) = Cardinality({m \in Mbufs : pool[m] = 1})
  BY <1>1, EntriesCount
<1>3. {m \in Mbufs : pool[m] = 1} = Mbufs
  BY DEF Init
<1>4. Room(pool)
  BY <1>1, <1>2, <1>3, PoolRoom DEF Room
<1>5. 0 \in RxQueues(program)
  <2>1. Cardinality(Lcores) \in Nat /\ Cardinality(Lcores) # 0
    BY FS_CardinalityType, FS_EmptySet, ReflectAssumption
  <2> QED
    BY <2>1, ReflectAssumption DEF RxQueues
<1> QED
  BY <1>4, <1>5, ReflectAssumption DEF Init, DeviceTyped, Bounded

LEMMA PollTyped ==
  ASSUME Kinds, DeviceTyped, NEW l \in Lcores, Poll(l)
  PROVE  DeviceTyped'
<1> DEFINE q == Polled(l)
<1>1. PICK n \in 0 .. Burst :
        n <= Len(rx[q]) /\ rx' = [rx EXCEPT ![q] = SubSeq(@, n + 1, Len(@))]
  BY DEF Poll
<1>2. q \in RxQueues(program) /\ Bounded(rx[q], RxDesc)
  BY PolledQueue DEF DeviceTyped
<1> HIDE DEF q
<1>3. Bounded(SubSeq(rx[q], n + 1, Len(rx[q])), RxDesc)
  <2>1. rx[q] \in Seq(Mbufs) /\ Len(rx[q]) <= RxDesc /\ Len(rx[q]) \in Nat /\ RxDesc \in Nat
    BY <1>2, ReflectAssumption DEF Bounded
  <2>2. Len(SubSeq(rx[q], n + 1, Len(rx[q]))) = Len(rx[q]) - n
    BY <1>1, <2>1
  <2>3. SubSeq(rx[q], n + 1, Len(rx[q])) \in Seq(Mbufs)
    BY <1>1, <2>1
  <2> QED
    BY <1>1, <2>1, <2>2, <2>3 DEF Bounded
<1>4. UNCHANGED <<program, pool, tx, origin, keepRunning>>
  BY DEF Poll
<1> QED
  BY <1>1, <1>2, <1>3, <1>4 DEF DeviceTyped

LEMMA SendTyped ==
  ASSUME Kinds, DeviceTyped, NEW l \in Lcores, Send(l)
  PROVE  DeviceTyped'
<1> DEFINE q == Out(l)
<1>1. PICK k \in 0 .. Len(burst[l]) :
        Len(tx[q]) + k <= TxDesc /\ tx' = [tx EXCEPT ![q] = @ \o SubSeq(burst[l], 1, k)]
  BY DEF Send
<1>2. q \in TxQueues(program) /\ tx[q] \in Seq(Mbufs) /\ burst[l] \in Seq(Mbufs)
  BY DEF DeviceTyped, Send, Kinds
<1> HIDE DEF q
<1>3. SubSeq(burst[l], 1, k) \in Seq(Mbufs) /\ Len(SubSeq(burst[l], 1, k)) = k
  BY <1>1, <1>2
<1>4. tx[q] \o SubSeq(burst[l], 1, k) \in Seq(Mbufs)
      /\ Len(tx[q] \o SubSeq(burst[l], 1, k)) <= TxDesc
  <2> DEFINE t == SubSeq(burst[l], 1, k)
  <2>1. t \in Seq(Mbufs) /\ Len(t) = k /\ tx[q] \in Seq(Mbufs) /\ Len(tx[q]) + k <= TxDesc
    BY <1>1, <1>2, <1>3
  <2> HIDE DEF t
  <2>2. tx[q] \o t \in Seq(Mbufs) /\ Len(tx[q] \o t) = Len(tx[q]) + Len(t)
    BY <2>1
  <2>3. Len(tx[q] \o t) <= TxDesc
    BY <2>1, <2>2
  <2> QED
    BY <2>2, <2>3 DEF t
<1>5. UNCHANGED <<program, pool, rx, origin, keepRunning>>
  BY DEF Send
<1> QED
  BY <1>1, <1>2, <1>4, <1>5 DEF DeviceTyped

LEMMA ArriveTyped ==
  ASSUME DeviceTyped, NEW q \in RxQueues(program), NEW m \in Mbufs, Arrive(q, m)
  PROVE  DeviceTyped'
<1>1. /\ pool[m] > 0 /\ pool' = [pool EXCEPT ![m] = @ - 1]
      /\ Len(rx[q]) < RxDesc /\ rx' = [rx EXCEPT ![q] = Append(@, m)]
      /\ origin' = [origin EXCEPT ![m] = q]
      /\ UNCHANGED <<program, tx, keepRunning>>
  BY DEF Arrive
<1>2. pool \in [Mbufs -> 0 .. PoolSize] /\ PoolSize \in Nat
  BY PoolRoom DEF DeviceTyped, Room
<1>3. pool' \in [Mbufs -> Nat] /\ \A k \in Mbufs : pool'[k] <= pool[k]
  BY <1>1, <1>2
<1>4. Room(pool')
  <2>1. /\ pool' \in [Mbufs -> 0 .. PoolSize]
        /\ Cardinality(EntriesOf(pool')) <= Cardinality(EntriesOf(pool))
    BY <1>2, <1>3, TakenTyped
  <2>2. Cardinality(EntriesOf(pool')) \in Nat /\ Cardinality(EntriesOf(pool)) \in Nat
    BY EntriesFinite
  <2> QED
    BY <1>2, <2>1, <2>2 DEF DeviceTyped, Room
<1>5. Bounded(Append(rx[q], m), RxDesc)
  <2>1. rx[q] \in Seq(Mbufs) /\ Len(rx[q]) \in Nat /\ RxDesc \in Nat
    BY ReflectAssumption DEF DeviceTyped, Bounded
  <2> QED
    BY <1>1, <2>1 DEF Bounded
<1> QED
  BY <1>1, <1>4, <1>5 DEF DeviceTyped

LEMMA SentTyped ==
  ASSUME DeviceTyped, NEW q \in TxQueues(program), Sent(q)
  PROVE  DeviceTyped'
<1>1. /\ tx[q] # <<>> /\ tx' = [tx EXCEPT ![q] = Tail(@)] /\ pool' = Put(Head(tx[q]))
      /\ UNCHANGED <<program, rx, origin, keepRunning>>
  BY DEF Sent
<1>2. tx[q] \in Seq(Mbufs) /\ Len(tx[q]) <= TxDesc /\ TxDesc \in Nat
  BY ReflectAssumption DEF DeviceTyped
<1>3. Head(tx[q]) \in Mbufs /\ Tail(tx[q]) \in Seq(Mbufs) /\ Len(Tail(tx[q])) = Len(tx[q]) - 1
  BY <1>1, <1>2
<1>4. Room(pool')
  BY <1>1, <1>3, PutTyped DEF DeviceTyped
<1> QED
  BY <1>1, <1>2, <1>3, <1>4 DEF DeviceTyped

LEMMA DeviceTypedStep ==
  Kinds /\ DeviceTyped /\ [Next]_vars => DeviceTyped'
<1> SUFFICES ASSUME Kinds, DeviceTyped, [Next]_vars PROVE DeviceTyped'
  OBVIOUS
<1>1. CASE UNCHANGED <<program, device, keepRunning>>
  BY <1>1 DEF device, DeviceTyped
<1>2. CASE Signal
  BY <1>2 DEF Signal, device, DeviceTyped
<1>3. ASSUME NEW l \in Lcores, FreeOne(l) PROVE DeviceTyped'
  <2>1. Head(burst[l]) \in Mbufs
    BY <1>3 DEF FreeOne, Kinds
  <2>2. Room(pool')
    BY <1>3, <2>1, PutTyped DEF FreeOne, DeviceTyped
  <2> QED
    BY <1>3, <2>2 DEF FreeOne, DeviceTyped
<1>4. CASE Main \/ (\E l \in Lcores : InitCounter(l) \/ SetCounter(l) \/ Again(l) \/ Leave(l)
                      \/ Increment(l) \/ Copy(l) \/ SendNowhere(l) \/ NextBurst(l))
  <2>1. UNCHANGED <<program, device, keepRunning>>
    BY <1>4 DEF Main, Launch, CallMaster, Join, InitCounter, SetCounter, Again, Leave, Increment,
                Copy, SendNowhere, NextBurst
  <2> QED
    BY <1>1, <2>1
<1>5. CASE UNCHANGED vars
  BY <1>1, <1>5 DEF vars
<1> QED
  BY <1>2, <1>3, <1>4, <1>5, PollTyped, SendTyped, ArriveTyped, SentTyped
     DEF Next, Lcore, Device, Ended

LEMMA TypesFollow == Kinds /\ CounterInv /\ DeviceTyped => TypeOK
<1> SUFFICES ASSUME Kinds, CounterInv, DeviceTyped PROVE TypeOK
  OBVIOUS
<1>1. InPool = Cardinality(EntriesOf(pool))
  BY DEF InPool, EntriesOf
<1>2. pool \in [Mbufs -> 0 .. PoolSize] /\ InPool <= PoolSize
  BY <1>1 DEF DeviceTyped, Room
<1>3. DOMAIN burst = Lcores /\ \A l \in Lcores : Bounded(burst[l], Burst)
  BY DEF Kinds, CounterInv, Bounded
<1>4. DOMAIN rx = RxQueues(program) /\ \A q \in DOMAIN rx : Bounded(rx[q], RxDesc)
  BY DEF DeviceTyped
<1>5. DOMAIN tx = TxQueues(program) /\ \A q \in DOMAIN tx : Bounded(tx[q], TxDesc)
  BY DEF DeviceTyped, Bounded
<1>6. pc \in [Lcores -> {"idle", "init", "set", "top", "poll", "count", "copy", "send", "free", "done"}]
  BY DEF Kinds, PCs, Busy
<1> QED
  BY <1>2, <1>3, <1>4, <1>5, <1>6 DEF TypeOK, Kinds, CounterInv, DeviceTyped

(***************************************************************************)
(* TypeOK of module Reflect: no ring takes more than it has descriptors, the*)
(* pool no more than it has room for, in atomic.c too, which frees mbufs    *)
(* that the device still holds (atomic.c 392-420, basicfwd.c 240-256).      *)
(***************************************************************************)
THEOREM ReflectTyped == Spec => []TypeOK
<1>1. RInv => Kinds
  BY DEF RInv
<1> QED
  BY RInvariant, CounterInit, CounterStep, DeviceInit, DeviceTypedStep, TypesFollow, <1>1, PTL
     DEF Spec

-----------------------------------------------------------------------------
(***************************************************************************)
(* Where the mbufs are.  The queues of the device and the bursts are slots, *)
(* each with a sequence of mbufs; a step moves a part of one slot to the    *)
(* end of another, or a head to the pool, or an mbuf of the pool to a slot. *)
(***************************************************************************)
Slots ==
  ({"rx"} \X RxQueues(program)) \cup ({"tx"} \X TxQueues(program)) \cup ({"burst"} \X Lcores)

Held ==
  [s \in Slots |-> IF s[1] = "rx" THEN rx[s[2]] ELSE IF s[1] = "tx" THEN tx[s[2]] ELSE burst[s[2]]]

Once(p, F, m) ==
  \/ /\ p[m] = 1
     /\ \A s \in DOMAIN F : \A k \in 1 .. Len(F[s]) : F[s][k] # m
  \/ /\ p[m] = 0
     /\ \E s \in DOMAIN F : \E k \in 1 .. Len(F[s]) :
          /\ F[s][k] = m
          /\ \A t \in DOMAIN F : \A n \in 1 .. Len(F[t]) : F[t][n] = m => t = s /\ n = k

OnceInv == program # "swap" => \A m \in Mbufs : Once(pool, Held, m)

LEMMA OnceAt ==
  ASSUME NEW p, NEW G, NEW m, NEW d \in DOMAIN G, NEW j \in 1 .. Len(G[d]), p[m] = 0,
         G[d][j] = m /\ \A t \in DOMAIN G : \A n \in 1 .. Len(G[t]) : G[t][n] = m => t = d /\ n = j
  PROVE  Once(p, G, m)
BY DEF Once

\* The first n of a slot go to the end of another.
Moves(D, F, G, s, t, n) ==
  /\ F \in [D -> Seq(Mbufs)] /\ G \in [D -> Seq(Mbufs)]
  /\ s \in D /\ t \in D /\ s # t /\ n \in 0 .. Len(F[s])
  /\ G[s] = SubSeq(F[s], n + 1, Len(F[s]))
  /\ G[t] = F[t] \o SubSeq(F[s], 1, n)
  /\ \A d \in D : d # s /\ d # t => G[d] = F[d]

LEMMA PrefixMoved ==
  ASSUME NEW D, NEW F, NEW G, NEW p, NEW m, NEW s, NEW t, NEW n,
         Moves(D, F, G, s, t, n), Once(p, F, m)
  PROVE  Once(p, G, m)
<1> USE DEF Moves
<1> DEFINE L == Len(F[s])
           K == Len(F[t])
<1>1. L \in Nat /\ K \in Nat /\ n \in Nat /\ n <= L /\ F[s] \in Seq(Mbufs) /\ F[t] \in Seq(Mbufs)
  OBVIOUS
<1>2. Len(G[s]) = L - n /\ \A k \in 1 .. L - n : G[s][k] = F[s][k + n]
  BY <1>1
<1>3. /\ Len(SubSeq(F[s], 1, n)) = n /\ SubSeq(F[s], 1, n) \in Seq(Mbufs)
      /\ \A k \in 1 .. n : SubSeq(F[s], 1, n)[k] = F[s][k]
  BY <1>1
<1> DEFINE part == SubSeq(F[s], 1, n)
<1> HIDE DEF part
<1>4. /\ Len(G[t]) = K + n
      /\ \A k \in 1 .. K : G[t][k] = F[t][k]
      /\ \A k \in K + 1 .. K + n : G[t][k] = part[k - K] /\ k - K \in 1 .. n
  BY <1>1, <1>3 DEF part
<1>5. /\ \A k \in 1 .. n : k + K \in K + 1 .. K + n /\ G[t][k + K] = F[s][k]
      /\ \A k \in K + 1 .. K + n : k - K \in 1 .. n /\ G[t][k] = F[s][k - K]
  <2>1. \A k \in 1 .. n : part[k] = F[s][k]
    BY <1>3 DEF part
  <2>2. ASSUME NEW k \in 1 .. n PROVE k + K \in K + 1 .. K + n /\ (k + K) - K = k
    BY <1>1
  <2> QED
    BY <1>4, <2>1, <2>2
<1>6. DOMAIN F = D /\ DOMAIN G = D
  OBVIOUS
<1> HIDE DEF L, K
\* Every place of G was a place of F.
<1> DEFINE Back(d, k) == IF d = s THEN <<s, k + n>>
                         ELSE IF d = t /\ k > K THEN <<s, k - K>> ELSE <<d, k>>
<1>7. ASSUME NEW d \in D, NEW k \in 1 .. Len(G[d])
      PROVE  /\ Back(d, k)[1] \in D /\ Back(d, k)[2] \in 1 .. Len(F[Back(d, k)[1]])
             /\ G[d][k] = F[Back(d, k)[1]][Back(d, k)[2]]
  <2>1. CASE d = s
    BY <1>1, <1>2, <2>1 DEF L
  <2>2. CASE d = t /\ k > K
    <3>1. k \in K + 1 .. K + n
      BY <1>1, <1>4, <2>2
    <3>2. k - K \in 1 .. n /\ G[t][k] = F[s][k - K]
      BY <1>5, <3>1
    <3>3. k - K \in 1 .. L
      BY <1>1, <3>2
    <3> QED
      BY <2>2, <3>2, <3>3 DEF L
  <2>3. CASE d = t /\ ~(k > K)
    <3>1. k \in 1 .. K
      BY <1>1, <1>4, <2>3
    <3> QED
      BY <1>4, <2>3, <3>1 DEF K
  <2>4. CASE d # s /\ d # t
    BY <2>4
  <2> QED
    BY <2>1, <2>2, <2>3, <2>4
<1> HIDE DEF Back
<1>8. CASE /\ p[m] = 1
           /\ \A d \in D : \A k \in 1 .. Len(F[d]) : F[d][k] # m
  <2>1. ASSUME NEW d \in D, NEW k \in 1 .. Len(G[d]) PROVE G[d][k] # m
    BY <1>6, <1>7, <1>8
  <2> QED
    BY <1>6, <1>8, <2>1 DEF Once
<1>9. CASE /\ p[m] = 0
           /\ \E d \in D : \E k \in 1 .. Len(F[d]) :
                /\ F[d][k] = m
                /\ \A e \in D : \A j \in 1 .. Len(F[e]) : F[e][j] = m => e = d /\ j = k
  <2>0. PICK d \in D : \E k \in 1 .. Len(F[d]) :
          /\ F[d][k] = m
          /\ \A e \in D : \A j \in 1 .. Len(F[e]) : F[e][j] = m => e = d /\ j = k
    BY <1>9
  <2>1. PICK k \in 1 .. Len(F[d]) :
          /\ F[d][k] = m
          /\ \A e \in D : \A j \in 1 .. Len(F[e]) : F[e][j] = m => e = d /\ j = k
    BY <2>0
  <2>2. \E e \in D : \E j \in 1 .. Len(G[e]) : G[e][j] = m /\ Back(e, j) = <<d, k>>
    <3>1. CASE d = s /\ k <= n
      <4>1. k \in 1 .. n /\ k + K \in 1 .. Len(G[t]) /\ k + K > K /\ (k + K) - K = k
        BY <1>1, <1>4, <3>1
      <4>2. G[t][k + K] = m
        BY <1>5, <2>1, <3>1, <4>1
      <4>3. Back(t, k + K) = <<d, k>>
        BY <3>1, <4>1 DEF Back
      <4> QED
        BY <4>1, <4>2, <4>3
    <3>2. CASE d = s /\ ~(k <= n)
      <4>1. k - n \in 1 .. Len(G[s]) /\ (k - n) + n = k /\ k - n \in 1 .. L - n
        BY <1>1, <1>2, <3>2 DEF L
      <4>2. G[s][k - n] = m
        BY <1>2, <2>1, <3>2, <4>1
      <4>3. Back(s, k - n) = <<d, k>>
        BY <3>2, <4>1 DEF Back
      <4> QED
        BY <4>1, <4>2, <4>3
    <3>3. CASE d = t
      <4>1. k \in 1 .. K /\ k \in 1 .. Len(G[t]) /\ ~(k > K)
        BY <1>1, <1>4, <3>3 DEF K
      <4>2. G[t][k] = m
        BY <1>4, <2>1, <3>3, <4>1
      <4>3. Back(t, k) = <<d, k>>
        BY <3>3, <4>1 DEF Back
      <4> QED
        BY <4>1, <4>2, <4>3
    <3>4. CASE d # s /\ d # t
      BY <2>1, <3>4 DEF Back
    <3> QED
      BY <3>1, <3>2, <3>3, <3>4
  <2>e. PICK e \in D : \E j \in 1 .. Len(G[e]) : G[e][j] = m /\ Back(e, j) = <<d, k>>
    BY <2>2
  <2>3. PICK j \in 1 .. Len(G[e]) : G[e][j] = m /\ Back(e, j) = <<d, k>>
    BY <2>e
  <2>4. ASSUME NEW c \in D, NEW o \in 1 .. Len(G[c]), G[c][o] = m PROVE c = e /\ o = j
    <3>1. Back(c, o)[1] = d /\ Back(c, o)[2] = k
      <4>1. PICK b \in D : b = Back(c, o)[1]
        BY <1>7
      <4>2. PICK q \in 1 .. Len(F[b]) : q = Back(c, o)[2]
        BY <1>7, <4>1
      <4>3. F[b][q] = m
        BY <1>7, <2>4, <4>1, <4>2
      <4> QED
        BY <2>1, <4>1, <4>2, <4>3
    <3>2. Back(c, o)[1] = Back(e, j)[1] /\ Back(c, o)[2] = Back(e, j)[2]
      BY <2>3, <3>1
    <3>3. o \in Int /\ j \in Int /\ o >= 1 /\ j >= 1
      OBVIOUS
    <3>4. o + n > n /\ j + n > n
      BY <1>1, <3>3
    <3>5. c = t => o - K <= n
      <4>1. c = t => o <= K + n
        BY <1>4
      <4> QED
        BY <1>1, <3>3, <4>1
    <3>6. e = t => j - K <= n
      <4>1. e = t => j <= K + n
        BY <1>4
      <4> QED
        BY <1>1, <3>3, <4>1
    <3> QED
      BY <1>1, <3>2, <3>3, <3>4, <3>5, <3>6 DEF Back
  <2> QED
    BY <1>6, <1>9, <2>3, <2>4 DEF Once
<1> QED
  BY <1>6, <1>8, <1>9 DEF Once

\* The head of a slot is put back into the pool.
LEMMA HeadFreed ==
  ASSUME NEW D, NEW F \in [D -> Seq(Mbufs)], NEW G, NEW p \in [Mbufs -> Nat], NEW m \in Mbufs,
         NEW s \in D, F[s] # <<>>, G = [F EXCEPT ![s] = Tail(@)],
         \A k \in Mbufs : Once(p, F, k)
  PROVE  p[Head(F[s])] = 0 /\ Once([p EXCEPT ![Head(F[s])] = @ + 1], G, m)
<1> DEFINE h == Head(F[s])
           r == [p EXCEPT ![h] = @ + 1]
           L == Len(F[s])
<1>1. F[s] \in Seq(Mbufs) /\ L \in Nat /\ L >= 1 /\ h \in Mbufs /\ h = F[s][1]
  OBVIOUS
<1>2. Len(Tail(F[s])) = L - 1 /\ \A k \in 1 .. L - 1 : Tail(F[s])[k] = F[s][k + 1]
  BY <1>1
<1>3. /\ DOMAIN F = D /\ DOMAIN G = D /\ G[s] = Tail(F[s])
      /\ \A d \in D : d # s => G[d] = F[d]
  OBVIOUS
<1>4. p[h] = 0 /\ \A t \in D : \A n \in 1 .. Len(F[t]) : F[t][n] = h => t = s /\ n = 1
  <2>1. Once(p, F, h) /\ 1 \in 1 .. Len(F[s])
    BY <1>1
  <2> QED
    BY <1>1, <1>3, <2>1 DEF Once
<1> HIDE DEF h, L
<1>5. CASE m = h
  <2>1. r[m] = 1
    BY <1>1, <1>4, <1>5
  <2>2. ASSUME NEW t \in D, NEW n \in 1 .. Len(G[t]) PROVE G[t][n] # m
    <3>1. CASE t = s
      <4>1. n + 1 \in 1 .. Len(F[s]) /\ n + 1 # 1 /\ G[t][n] = F[s][n + 1]
        BY <1>1, <1>2, <1>3, <3>1 DEF L
      <4> QED
        BY <1>4, <1>5, <4>1
    <3>2. CASE t # s
      BY <1>3, <1>4, <1>5, <3>2
    <3> QED
      BY <3>1, <3>2
  <2> QED
    BY <1>3, <1>4, <2>1, <2>2 DEF Once, h
<1>6. CASE m # h
  <2>1. r[m] = p[m] /\ Once(p, F, m)
    BY <1>6
  <2>2. CASE /\ p[m] = 1
             /\ \A t \in D : \A n \in 1 .. Len(F[t]) : F[t][n] # m
    <3>1. ASSUME NEW t \in D, NEW n \in 1 .. Len(G[t]) PROVE G[t][n] # m
      <4>1. CASE t = s
        <5>1. n + 1 \in 1 .. Len(F[s]) /\ G[t][n] = F[s][n + 1]
          BY <1>1, <1>2, <1>3, <4>1 DEF L
        <5> QED
          BY <2>2, <5>1
      <4>2. CASE t # s
        BY <1>3, <2>2, <4>2
      <4> QED
        BY <4>1, <4>2
    <3> QED
      BY <1>3, <1>4, <2>1, <2>2, <3>1 DEF Once, h
  <2>3. CASE /\ p[m] = 0
             /\ \E d \in D : \E k \in 1 .. Len(F[d]) :
                  /\ F[d][k] = m
                  /\ \A t \in D : \A n \in 1 .. Len(F[t]) : F[t][n] = m => t = d /\ n = k
    <3>0. PICK d \in D : \E k \in 1 .. Len(F[d]) :
            /\ F[d][k] = m
            /\ \A t \in D : \A n \in 1 .. Len(F[t]) : F[t][n] = m => t = d /\ n = k
      BY <2>3
    <3>1. PICK k \in 1 .. Len(F[d]) :
            /\ F[d][k] = m
            /\ \A t \in D : \A n \in 1 .. Len(F[t]) : F[t][n] = m => t = d /\ n = k
      BY <3>0
    <3> DEFINE j == IF d = s THEN k - 1 ELSE k
    <3>2. j \in 1 .. Len(G[d]) /\ G[d][j] = m
      <4>1. CASE d = s
        <5>1. k # 1
          BY <1>1, <1>6, <3>1, <4>1
        <5>2. k - 1 \in 1 .. L - 1 /\ (k - 1) + 1 = k
          BY <5>1, <4>1, <1>1 DEF L
        <5> QED
          BY <1>2, <1>3, <3>1, <4>1, <5>2
      <4>2. CASE d # s
        BY <1>3, <3>1, <4>2
      <4> QED
        BY <4>1, <4>2
    <3>3. ASSUME NEW t \in D, NEW n \in 1 .. Len(G[t]), G[t][n] = m PROVE t = d /\ n = j
      <4>1. CASE t = s
        <5>1. n + 1 \in 1 .. Len(F[s]) /\ G[t][n] = F[s][n + 1] /\ n = (n + 1) - 1
          BY <1>1, <1>2, <1>3, <4>1 DEF L
        <5>2. s = d /\ n + 1 = k
          BY <3>1, <3>3, <5>1
        <5> QED
          BY <4>1, <5>1, <5>2
      <4>2. CASE t # s
        BY <1>3, <3>1, <3>3, <4>2
      <4> QED
        BY <4>1, <4>2
    <3> HIDE DEF j, r
    <3>4. \A t \in D : \A n \in 1 .. Len(G[t]) : G[t][n] = m => t = d /\ n = j
      BY <3>3
    <3>5. r[m] = 0 /\ DOMAIN G = D
      BY <1>3, <2>1, <2>3
    <3>6. Once(r, G, m)
      <4>1. PICK o \in 1 .. Len(G[d]) : o = j
        BY <3>2
      <4>2. \A t \in DOMAIN G : \A n \in 1 .. Len(G[t]) : G[t][n] = m => t = d /\ n = o
        BY <3>4, <3>5, <4>1
      <4>3. d \in DOMAIN G /\ G[d][o] = m
        BY <3>2, <3>5, <4>1
      <4> QED
        BY ONLY <3>5, <4>2, <4>3, OnceAt
    <3> QED
      BY <1>4, <3>6 DEF h, r
  <2>4. \/ /\ p[m] = 1
           /\ \A t \in D : \A n \in 1 .. Len(F[t]) : F[t][n] # m
        \/ /\ p[m] = 0
           /\ \E d \in D : \E k \in 1 .. Len(F[d]) :
                /\ F[d][k] = m
                /\ \A t \in D : \A n \in 1 .. Len(F[t]) : F[t][n] = m => t = d /\ n = k
    BY <1>3, <2>1 DEF Once
  <2> QED
    BY <2>2, <2>3, <2>4
<1> QED
  BY <1>5, <1>6

\* An mbuf of the pool goes to the end of a slot.
LEMMA PoolTaken ==
  ASSUME NEW D, NEW F \in [D -> Seq(Mbufs)], NEW G, NEW p \in [Mbufs -> Nat], NEW m \in Mbufs,
         NEW s \in D, NEW h \in Mbufs, p[h] > 0, G = [F EXCEPT ![s] = Append(@, h)],
         \A k \in Mbufs : Once(p, F, k)
  PROVE  Once([p EXCEPT ![h] = @ - 1], G, m)
<1> DEFINE r == [p EXCEPT ![h] = @ - 1]
           L == Len(F[s])
<1>1. F[s] \in Seq(Mbufs) /\ L \in Nat
  OBVIOUS
<1>2. /\ Len(Append(F[s], h)) = L + 1 /\ Append(F[s], h)[L + 1] = h
      /\ \A k \in 1 .. L : Append(F[s], h)[k] = F[s][k]
  BY <1>1
<1>3. /\ DOMAIN F = D /\ DOMAIN G = D /\ G[s] = Append(F[s], h)
      /\ \A d \in D : d # s => G[d] = F[d]
  OBVIOUS
<1>4. p[h] = 1 /\ \A t \in D : \A n \in 1 .. Len(F[t]) : F[t][n] # h
  BY <1>3 DEF Once
\* The places of G are those of F and one more.
<1>5. ASSUME NEW t \in D, NEW n \in 1 .. Len(G[t])
      PROVE  \/ n \in 1 .. Len(F[t]) /\ G[t][n] = F[t][n]
             \/ t = s /\ n = L + 1 /\ G[t][n] = h
  <2>1. CASE t = s
    <3>1. n \in 1 .. L + 1
      BY <1>2, <1>3, <2>1
    <3> QED
      BY <1>1, <1>2, <1>3, <2>1, <3>1
  <2>2. CASE t # s
    BY <1>3, <2>2
  <2> QED
    BY <2>1, <2>2
<1>6. ASSUME NEW t \in D, NEW n \in 1 .. Len(F[t])
      PROVE  n \in 1 .. Len(G[t]) /\ G[t][n] = F[t][n]
  <2>1. CASE t = s
    <3>1. n \in 1 .. L /\ n \in 1 .. L + 1
      BY <1>1, <2>1
    <3> QED
      BY <1>2, <1>3, <2>1, <3>1
  <2>2. CASE t # s
    BY <1>3, <2>2
  <2> QED
    BY <2>1, <2>2
<1>7. L + 1 \in 1 .. Len(G[s]) /\ G[s][L + 1] = h
  BY <1>1, <1>2, <1>3
<1> HIDE DEF L
<1>8. CASE m = h
  <2>1. r[m] = 0
    BY <1>4, <1>8
  <2>2. ASSUME NEW t \in D, NEW n \in 1 .. Len(G[t]), G[t][n] = m PROVE t = s /\ n = L + 1
    BY <1>4, <1>5, <1>8, <2>2
  <2> QED
    BY <1>3, <1>7, <1>8, <2>1, <2>2 DEF Once
<1>9. CASE m # h
  <2>1. r[m] = p[m] /\ Once(p, F, m)
    BY <1>9
  <2>2. CASE /\ p[m] = 1
             /\ \A t \in D : \A n \in 1 .. Len(F[t]) : F[t][n] # m
    <3>1. ASSUME NEW t \in D, NEW n \in 1 .. Len(G[t]) PROVE G[t][n] # m
      BY <1>5, <1>9, <2>2
    <3> QED
      BY <1>3, <2>1, <2>2, <3>1 DEF Once
  <2>3. CASE /\ p[m] = 0
             /\ \E d \in D : \E k \in 1 .. Len(F[d]) :
                  /\ F[d][k] = m
                  /\ \A t \in D : \A n \in 1 .. Len(F[t]) : F[t][n] = m => t = d /\ n = k
    <3>0. PICK d \in D : \E k \in 1 .. Len(F[d]) :
            /\ F[d][k] = m
            /\ \A t \in D : \A n \in 1 .. Len(F[t]) : F[t][n] = m => t = d /\ n = k
      BY <2>3
    <3>1. PICK k \in 1 .. Len(F[d]) :
            /\ F[d][k] = m
            /\ \A t \in D : \A n \in 1 .. Len(F[t]) : F[t][n] = m => t = d /\ n = k
      BY <3>0
    <3>2. k \in 1 .. Len(G[d]) /\ G[d][k] = m
      BY <1>6, <3>1
    <3>3. ASSUME NEW t \in D, NEW n \in 1 .. Len(G[t]), G[t][n] = m PROVE t = d /\ n = k
      BY <1>5, <1>9, <3>1, <3>3
    <3> QED
      BY <1>3, <2>1, <2>3, <3>2, <3>3 DEF Once
  <2>4. \/ /\ p[m] = 1
           /\ \A t \in D : \A n \in 1 .. Len(F[t]) : F[t][n] # m
        \/ /\ p[m] = 0
           /\ \E d \in D : \E k \in 1 .. Len(F[d]) :
                /\ F[d][k] = m
                /\ \A t \in D : \A n \in 1 .. Len(F[t]) : F[t][n] = m => t = d /\ n = k
    BY <1>3, <2>1 DEF Once
  <2> QED
    BY <2>2, <2>3, <2>4
<1> QED
  BY <1>8, <1>9

-----------------------------------------------------------------------------
LEMMA HeldTyped ==
  ASSUME Kinds, DeviceTyped
  PROVE  /\ Held \in [Slots -> Seq(Mbufs)]
         /\ pool \in [Mbufs -> Nat]
         /\ \A q \in RxQueues(program) : <<"rx", q>> \in Slots /\ Held[<<"rx", q>>] = rx[q]
         /\ \A q \in TxQueues(program) : <<"tx", q>> \in Slots /\ Held[<<"tx", q>>] = tx[q]
         /\ \A l \in Lcores : <<"burst", l>> \in Slots /\ Held[<<"burst", l>>] = burst[l]
<1>1. /\ \A q \in RxQueues(program) : rx[q] \in Seq(Mbufs)
      /\ \A q \in TxQueues(program) : tx[q] \in Seq(Mbufs)
      /\ \A l \in Lcores : burst[l] \in Seq(Mbufs)
  BY DEF Kinds, DeviceTyped
<1>2. \A s \in Slots : Held[s] \in Seq(Mbufs)
  <2> TAKE s \in Slots
  <2>1. \/ s[1] = "rx" /\ s[2] \in RxQueues(program)
        \/ s[1] = "tx" /\ s[2] \in TxQueues(program)
        \/ s[1] = "burst" /\ s[2] \in Lcores
    BY DEF Slots
  <2> QED
    BY <1>1, <2>1 DEF Held
<1>3. Held \in [Slots -> Seq(Mbufs)]
  BY <1>2 DEF Held
<1>4. pool \in [Mbufs -> Nat]
  BY PoolRoom DEF DeviceTyped, Room
<1> QED
  BY <1>3, <1>4 DEF Held, Slots

LEMMA HeldNext ==
  ASSUME Kinds', DeviceTyped'
  PROVE  Held' \in [Slots' -> Seq(Mbufs)]
<1>1. /\ \A q \in RxQueues(program') : rx'[q] \in Seq(Mbufs)
      /\ \A q \in TxQueues(program') : tx'[q] \in Seq(Mbufs)
      /\ \A l \in Lcores : burst'[l] \in Seq(Mbufs)
  BY DEF Kinds, DeviceTyped
<1>2. \A s \in Slots' : Held'[s] \in Seq(Mbufs)
  <2> TAKE s \in Slots'
  <2>1. \/ s[1] = "rx" /\ s[2] \in RxQueues(program')
        \/ s[1] = "tx" /\ s[2] \in TxQueues(program')
        \/ s[1] = "burst" /\ s[2] \in Lcores
    BY DEF Slots
  <2> QED
    BY <1>1, <2>1 DEF Held
<1> QED
  BY <1>2 DEF Held

\* An mbuf that is not in the pool leaves room for itself.
LEMMA PutFits ==
  ASSUME pool \in [Mbufs -> Nat], \A m \in Mbufs : Once(pool, Held, m),
         NEW h \in Mbufs, pool[h] = 0
  PROVE  Put(h) = [pool EXCEPT ![h] = @ + 1]
<1>1. \A m \in Mbufs : pool[m] \in {0, 1}
  BY DEF Once
<1> DEFINE P == {m \in Mbufs : pool[m] = 1}
<1>2. InPool = Cardinality(P)
  BY <1>1, EntriesCount DEF InPool, EntriesOf
<1>3. IsFiniteSet(Mbufs) /\ P \in SUBSET Mbufs /\ P # Mbufs
  BY ReflectAssumption
<1>4. Cardinality(P) \in Nat /\ Cardinality(P) < Cardinality(Mbufs)
  <2>1. IsFiniteSet(P) /\ Cardinality(P) <= Cardinality(Mbufs)
        /\ (Cardinality(Mbufs) = Cardinality(P) => Mbufs = P)
    BY <1>3, FS_Subset
  <2>2. Cardinality(P) \in Nat
    BY <2>1, FS_CardinalityType
  <2> QED
    BY <1>3, <2>1, <2>2, PoolRoom
<1> HIDE DEF P
<1>5. InPool < PoolSize
  BY <1>2, <1>4, PoolRoom
<1> QED
  BY <1>5 DEF Put

LEMMA OnceInit == Init => OnceInv
<1> SUFFICES ASSUME Init, NEW m \in Mbufs PROVE Once(pool, Held, m)
  BY DEF OnceInv
<1>1. pool[m] = 1
  BY DEF Init
<1>2. ASSUME NEW s \in Slots PROVE Held[s] = <<>>
  <2>1. \/ s[1] = "rx" /\ s[2] \in RxQueues(program)
        \/ s[1] = "tx" /\ s[2] \in TxQueues(program)
        \/ s[1] = "burst" /\ s[2] \in Lcores
    BY DEF Slots
  <2> QED
    BY <2>1 DEF Held, Init
<1>3. DOMAIN Held = Slots
  BY DEF Held
<1> QED
  BY <1>1, <1>2, <1>3 DEF Once

\* A step that fills and empties nothing.
LEMMA OnceSame ==
  ASSUME OnceInv, UNCHANGED <<program, pool, rx, tx, burst>>
  PROVE  OnceInv'
BY DEF OnceInv, Held, Slots

LEMMA OncePoll ==
  ASSUME RInv, DeviceTyped, DeviceTyped', Kinds', OnceInv, NEW l \in Lcores, Poll(l)
  PROVE  OnceInv'
<1> DEFINE q == Polled(l)
           s == <<"rx", q>>
           t == <<"burst", l>>
<1>1. PICK n \in 0 .. Burst :
        /\ n <= Len(rx[q])
        /\ burst' = [burst EXCEPT ![l] = SubSeq(rx[q], 1, n)]
        /\ rx' = [rx EXCEPT ![q] = SubSeq(@, n + 1, Len(@))]
  BY DEF Poll
<1>2. q \in RxQueues(program) /\ UNCHANGED <<program, pool, tx>> /\ burst[l] = <<>>
  BY PolledQueue DEF Poll, At, RInv, Finishing, Busy
<1>3. Slots' = Slots
  BY <1>2 DEF Slots
<1> HIDE DEF q
<1>4. Held \in [Slots -> Seq(Mbufs)] /\ Held' \in [Slots -> Seq(Mbufs)]
  BY <1>3, HeldTyped, HeldNext DEF RInv
<1>5. s \in Slots /\ t \in Slots /\ s # t /\ Held[s] = rx[q] /\ Held[t] = burst[l]
  BY <1>2, HeldTyped DEF RInv
<1>6. Held'[s] = rx'[q] /\ Held'[t] = burst'[l]
  BY <1>3, <1>5 DEF Held
<1>7. ASSUME NEW d \in Slots, d # s, d # t PROVE Held'[d] = Held[d]
  <2>1. \/ d[1] = "rx" /\ d = <<"rx", d[2]>>
        \/ d[1] = "tx"
        \/ d[1] = "burst" /\ d = <<"burst", d[2]>>
    BY DEF Slots
  <2>2. d[1] = "rx" => d[2] # q
    BY <1>7, <2>1
  <2>3. d[1] = "burst" => d[2] # l
    BY <1>7, <2>1
  <2>4. /\ d[1] = "rx" => d[2] \in RxQueues(program)
        /\ d[1] = "burst" => d[2] \in Lcores
    BY DEF Slots
  <2> QED
    BY <1>1, <1>2, <1>3, <2>1, <2>2, <2>3, <2>4 DEF Held, RInv, Kinds
<1>8. /\ rx'[q] = SubSeq(rx[q], n + 1, Len(rx[q]))
      /\ burst'[l] = SubSeq(rx[q], 1, n)
      /\ n \in 0 .. Len(rx[q]) /\ rx[q] \in Seq(Mbufs)
  BY <1>1, <1>2 DEF RInv, Kinds
<1>9. burst'[l] = burst[l] \o SubSeq(rx[q], 1, n)
  <2>1. SubSeq(rx[q], 1, n) \in Seq(Mbufs)
    BY <1>8
  <2> QED
    BY <1>2, <1>8, <2>1
<1> HIDE DEF s, t
<1>10. /\ n \in 0 .. Len(Held[s])
       /\ Held'[s] = SubSeq(Held[s], n + 1, Len(Held[s]))
       /\ Held'[t] = Held[t] \o SubSeq(Held[s], 1, n)
       /\ \A d \in Slots : d # s /\ d # t => Held'[d] = Held[d]
  BY <1>5, <1>6, <1>7, <1>8, <1>9
<1>11. s \in Slots /\ t \in Slots /\ s # t
  BY <1>5
<1>12. Moves(Slots, Held, Held', s, t, n)
  BY <1>4, <1>10, <1>11 DEF Moves
<1>13. ASSUME NEW m, Once(pool, Held, m) PROVE Once(pool, Held', m)
  BY ONLY <1>12, <1>13, PrefixMoved
<1> QED
  BY <1>2, <1>13 DEF OnceInv

LEMMA OnceSend ==
  ASSUME RInv, DeviceTyped, DeviceTyped', Kinds', OnceInv, NEW l \in Lcores, Send(l)
  PROVE  OnceInv'
<1> SUFFICES ASSUME program # "swap" PROVE OnceInv'
  BY DEF Send, OnceInv
<1> DEFINE q == Out(l)
           s == <<"burst", l>>
           t == <<"tx", q>>
<1>1. PICK k \in 0 .. Len(burst[l]) :
        /\ tx' = [tx EXCEPT ![q] = @ \o SubSeq(burst[l], 1, k)]
        /\ burst' = [burst EXCEPT ![l] = SubSeq(burst[l], k + 1, Len(burst[l]))]
  BY DEF Send, Unsent
<1>2. q \in TxQueues(program) /\ UNCHANGED <<program, pool, rx>>
  BY DEF Send
<1>3. Slots' = Slots
  BY <1>2 DEF Slots
<1> HIDE DEF q
<1>4. Held \in [Slots -> Seq(Mbufs)] /\ Held' \in [Slots -> Seq(Mbufs)]
  BY <1>3, HeldTyped, HeldNext DEF RInv
<1>5. s \in Slots /\ t \in Slots /\ s # t /\ Held[s] = burst[l] /\ Held[t] = tx[q]
  BY <1>2, HeldTyped DEF RInv
<1>6. Held'[s] = burst'[l] /\ Held'[t] = tx'[q]
  BY <1>3, <1>5 DEF Held
<1>7. ASSUME NEW d \in Slots, d # s, d # t PROVE Held'[d] = Held[d]
  <2>1. \/ d[1] = "tx" /\ d = <<"tx", d[2]>>
        \/ d[1] = "rx"
        \/ d[1] = "burst" /\ d = <<"burst", d[2]>>
    BY DEF Slots
  <2>2. d[1] = "tx" => d[2] # q
    BY <1>7, <2>1
  <2>3. d[1] = "burst" => d[2] # l
    BY <1>7, <2>1
  <2>4. /\ d[1] = "tx" => d[2] \in TxQueues(program)
        /\ d[1] = "burst" => d[2] \in Lcores
    BY DEF Slots
  <2> QED
    BY <1>1, <1>2, <1>3, <2>1, <2>2, <2>3, <2>4 DEF Held, RInv, Kinds, DeviceTyped
<1>8. /\ burst'[l] = SubSeq(burst[l], k + 1, Len(burst[l]))
      /\ tx'[q] = tx[q] \o SubSeq(burst[l], 1, k)
  BY <1>1, <1>2 DEF RInv, Kinds, DeviceTyped
<1> HIDE DEF s, t
<1>9. /\ k \in 0 .. Len(Held[s])
      /\ Held'[s] = SubSeq(Held[s], k + 1, Len(Held[s]))
      /\ Held'[t] = Held[t] \o SubSeq(Held[s], 1, k)
      /\ \A d \in Slots : d # s /\ d # t => Held'[d] = Held[d]
  BY <1>5, <1>6, <1>7, <1>8
<1>10. s \in Slots /\ t \in Slots /\ s # t
  BY <1>5
<1>11. Moves(Slots, Held, Held', s, t, k)
  BY <1>4, <1>9, <1>10 DEF Moves
<1>12. ASSUME NEW m, Once(pool, Held, m) PROVE Once(pool, Held', m)
  BY ONLY <1>11, <1>12, PrefixMoved
<1> QED
  BY <1>2, <1>12 DEF OnceInv

LEMMA OnceFree ==
  ASSUME RInv, DeviceTyped, OnceInv, NEW l \in Lcores, FreeOne(l)
  PROVE  OnceInv'
<1> SUFFICES ASSUME program # "swap" PROVE OnceInv'
  BY DEF FreeOne, OnceInv
<1> DEFINE s == <<"burst", l>>
<1>1. /\ burst[l] # <<>> /\ burst' = [burst EXCEPT ![l] = Tail(@)]
      /\ pool' = Put(Head(burst[l])) /\ UNCHANGED <<program, rx, tx>>
  BY DEF FreeOne
<1>2. Slots' = Slots
  BY <1>1 DEF Slots
<1>3. /\ Held \in [Slots -> Seq(Mbufs)] /\ pool \in [Mbufs -> Nat]
      /\ s \in Slots /\ Held[s] = burst[l]
  BY HeldTyped DEF RInv
<1>4. Held' = [Held EXCEPT ![s] = Tail(@)]
  <2>1. ASSUME NEW d \in Slots PROVE Held'[d] = IF d = s THEN Tail(Held[s]) ELSE Held[d]
    <3>1. d[1] = "burst" => d[2] \in Lcores /\ d = <<"burst", d[2]>>
      BY DEF Slots
    <3>2. d[1] = "rx" \/ d[1] = "tx" \/ d[1] = "burst"
      BY DEF Slots
    <3>3. CASE d[1] = "burst"
      BY <1>1, <1>2, <1>3, <3>1, <3>3 DEF Held, RInv, Kinds
    <3>4. CASE d[1] # "burst"
      BY <1>1, <1>2, <1>3, <3>2, <3>4 DEF Held
    <3> QED
      BY <3>3, <3>4
  <2>2. DOMAIN Held = Slots /\ DOMAIN Held' = Slots /\ Held' = [d \in Slots |-> Held'[d]]
    BY <1>2 DEF Held
  <2> QED
    BY <1>3, <2>1, <2>2
<1>5. \A m \in Mbufs : Once(pool, Held, m)
  BY DEF OnceInv
<1>6. Head(Held[s]) \in Mbufs /\ Held[s] # <<>>
  BY <1>1, <1>3
<1> HIDE DEF s
<1>7. /\ pool[Head(Held[s])] = 0
      /\ \A m \in Mbufs : Once([pool EXCEPT ![Head(Held[s])] = @ + 1], Held', m)
  BY <1>3, <1>4, <1>5, <1>6, HeadFreed
<1>8. pool' = [pool EXCEPT ![Head(Held[s])] = @ + 1]
  BY <1>1, <1>3, <1>5, <1>6, <1>7, PutFits
<1> QED
  BY <1>1, <1>7, <1>8 DEF OnceInv

LEMMA OnceSent ==
  ASSUME RInv, DeviceTyped, OnceInv, NEW q \in TxQueues(program), Sent(q)
  PROVE  OnceInv'
<1> SUFFICES ASSUME program # "swap" PROVE OnceInv'
  BY DEF Sent, OnceInv
<1> DEFINE s == <<"tx", q>>
<1>1. /\ tx[q] # <<>> /\ tx' = [tx EXCEPT ![q] = Tail(@)]
      /\ pool' = Put(Head(tx[q])) /\ UNCHANGED <<program, rx, burst>>
  BY DEF Sent
<1>2. Slots' = Slots
  BY <1>1 DEF Slots
<1>3. /\ Held \in [Slots -> Seq(Mbufs)] /\ pool \in [Mbufs -> Nat]
      /\ s \in Slots /\ Held[s] = tx[q]
  BY HeldTyped DEF RInv
<1>4. Held' = [Held EXCEPT ![s] = Tail(@)]
  <2>1. ASSUME NEW d \in Slots PROVE Held'[d] = IF d = s THEN Tail(Held[s]) ELSE Held[d]
    <3>1. d[1] = "tx" => d[2] \in TxQueues(program) /\ d = <<"tx", d[2]>>
      BY DEF Slots
    <3>2. d[1] = "rx" \/ d[1] = "tx" \/ d[1] = "burst"
      BY DEF Slots
    <3>3. CASE d[1] = "tx"
      BY <1>1, <1>2, <1>3, <3>1, <3>3 DEF Held, DeviceTyped
    <3>4. CASE d[1] # "tx"
      BY <1>1, <1>2, <1>3, <3>2, <3>4 DEF Held
    <3> QED
      BY <3>3, <3>4
  <2>2. DOMAIN Held = Slots /\ DOMAIN Held' = Slots /\ Held' = [d \in Slots |-> Held'[d]]
    BY <1>2 DEF Held
  <2> QED
    BY <1>3, <2>1, <2>2
<1>5. \A m \in Mbufs : Once(pool, Held, m)
  BY DEF OnceInv
<1>6. Head(Held[s]) \in Mbufs /\ Held[s] # <<>>
  BY <1>1, <1>3
<1> HIDE DEF s
<1>7. /\ pool[Head(Held[s])] = 0
      /\ \A m \in Mbufs : Once([pool EXCEPT ![Head(Held[s])] = @ + 1], Held', m)
  BY <1>3, <1>4, <1>5, <1>6, HeadFreed
<1>8. pool' = [pool EXCEPT ![Head(Held[s])] = @ + 1]
  BY <1>1, <1>3, <1>5, <1>6, <1>7, PutFits
<1> QED
  BY <1>1, <1>7, <1>8 DEF OnceInv

LEMMA OnceArrive ==
  ASSUME RInv, DeviceTyped, OnceInv, NEW q \in RxQueues(program), NEW h \in Mbufs, Arrive(q, h)
  PROVE  OnceInv'
<1> SUFFICES ASSUME program # "swap" PROVE OnceInv'
  BY DEF Arrive, OnceInv
<1> DEFINE s == <<"rx", q>>
<1>1. /\ pool[h] > 0 /\ pool' = [pool EXCEPT ![h] = @ - 1]
      /\ rx' = [rx EXCEPT ![q] = Append(@, h)] /\ UNCHANGED <<program, tx, burst>>
  BY DEF Arrive
<1>2. Slots' = Slots
  BY <1>1 DEF Slots
<1>3. /\ Held \in [Slots -> Seq(Mbufs)] /\ pool \in [Mbufs -> Nat]
      /\ s \in Slots /\ Held[s] = rx[q]
  BY HeldTyped DEF RInv
<1>4. Held' = [Held EXCEPT ![s] = Append(@, h)]
  <2>1. ASSUME NEW d \in Slots PROVE Held'[d] = IF d = s THEN Append(Held[s], h) ELSE Held[d]
    <3>1. d[1] = "rx" => d[2] \in RxQueues(program) /\ d = <<"rx", d[2]>>
      BY DEF Slots
    <3>2. d[1] = "rx" \/ d[1] = "tx" \/ d[1] = "burst"
      BY DEF Slots
    <3>3. CASE d[1] = "rx"
      BY <1>1, <1>2, <1>3, <3>1, <3>3 DEF Held, RInv, Kinds
    <3>4. CASE d[1] # "rx"
      BY <1>1, <1>2, <1>3, <3>2, <3>4 DEF Held
    <3> QED
      BY <3>3, <3>4
  <2>2. DOMAIN Held = Slots /\ DOMAIN Held' = Slots /\ Held' = [d \in Slots |-> Held'[d]]
    BY <1>2 DEF Held
  <2> QED
    BY <1>3, <2>1, <2>2
<1>5. \A m \in Mbufs : Once(pool, Held, m)
  BY DEF OnceInv
<1> HIDE DEF s
<1>6. \A m \in Mbufs : Once([pool EXCEPT ![h] = @ - 1], Held', m)
  BY <1>1, <1>3, <1>4, <1>5, PoolTaken
<1> QED
  BY <1>1, <1>6 DEF OnceInv

LEMMA OnceStep ==
  RInv /\ RInv' /\ DeviceTyped /\ DeviceTyped' /\ OnceInv /\ [Next]_vars => OnceInv'
<1> SUFFICES ASSUME RInv, RInv', DeviceTyped, DeviceTyped', OnceInv, [Next]_vars PROVE OnceInv'
  OBVIOUS
<1>1. CASE Main \/ Signal \/ UNCHANGED vars
        \/ (\E l \in Lcores : InitCounter(l) \/ SetCounter(l) \/ Again(l) \/ Leave(l)
              \/ Increment(l) \/ Copy(l) \/ SendNowhere(l) \/ NextBurst(l))
  <2>1. UNCHANGED <<program, pool, rx, tx, burst>>
    BY <1>1 DEF Main, Launch, CallMaster, Join, Signal, InitCounter, SetCounter, Again, Leave,
                Increment, Copy, SendNowhere, NextBurst, vars, device
  <2> QED
    BY <2>1, OnceSame
<1> QED
  BY <1>1, OncePoll, OnceSend, OnceFree, OnceSent, OnceArrive DEF Next, Lcore, Device, Ended, RInv

LEMMA OnePlace ==
  ASSUME RInv, DeviceTyped, NEW m \in Mbufs, Once(pool, Held, m)
  PROVE  Cardinality(Places(m)) = 1
<1>1. ASSUME NEW e \in Places(m)
      PROVE  \/ e = <<"pool", 0, e[3]>> /\ e[3] \in 1 .. pool[m]
             \/ /\ <<e[1], e[2]>> \in Slots /\ e = <<e[1], e[2], e[3]>>
                /\ e[3] \in 1 .. Len(Held[<<e[1], e[2]>>])
                /\ Held[<<e[1], e[2]>>][e[3]] = m
  <2>1. CASE e \in {"pool"} \X {0} \X (1 .. pool[m])
    BY <2>1
  <2>2. CASE e \in PlacesIn("rx", rx, m)
    BY <2>2, HeldTyped DEF PlacesIn, RInv, Kinds
  <2>3. CASE e \in PlacesIn("tx", tx, m)
    BY <2>3, HeldTyped DEF PlacesIn, RInv, DeviceTyped
  <2>4. CASE e \in PlacesIn("burst", burst, m)
    BY <2>4, HeldTyped DEF PlacesIn, RInv, Kinds
  <2> QED
    BY <1>1, <2>1, <2>2, <2>3, <2>4 DEF Places
<1>2. DOMAIN Held = Slots /\ pool[m] \in Nat
  BY HeldTyped DEF RInv, Held
<1>3. CASE pool[m] = 1 /\ \A s \in Slots : \A k \in 1 .. Len(Held[s]) : Held[s][k] # m
  <2>1. <<"pool", 0, 1>> \in Places(m)
    BY <1>3 DEF Places
  <2>2. ASSUME NEW e \in Places(m) PROVE e = <<"pool", 0, 1>>
    <3>1. e = <<"pool", 0, e[3]>> /\ e[3] \in 1 .. pool[m]
      BY <1>1, <1>3
    <3>2. e[3] = 1
      BY <1>3, <3>1
    <3> QED
      BY <3>1, <3>2
  <2>3. Places(m) = {<<"pool", 0, 1>>}
    BY <2>1, <2>2
  <2> QED
    BY <2>3, FS_Singleton
<1>4. CASE /\ pool[m] = 0
           /\ \E s \in Slots : \E k \in 1 .. Len(Held[s]) :
                /\ Held[s][k] = m
                /\ \A t \in Slots : \A n \in 1 .. Len(Held[t]) : Held[t][n] = m => t = s /\ n = k
  <2>1. PICK s \in Slots : \E k \in 1 .. Len(Held[s]) :
          /\ Held[s][k] = m
          /\ \A t \in Slots : \A n \in 1 .. Len(Held[t]) : Held[t][n] = m => t = s /\ n = k
    BY <1>4
  <2>2. PICK k \in 1 .. Len(Held[s]) :
          /\ Held[s][k] = m
          /\ \A t \in Slots : \A n \in 1 .. Len(Held[t]) : Held[t][n] = m => t = s /\ n = k
    BY <2>1
  <2> DEFINE o == <<s[1], s[2], k>>
  <2>3. o \in Places(m)
    <3>1. \/ s[1] = "rx" /\ s[2] \in RxQueues(program) /\ s = <<"rx", s[2]>>
          \/ s[1] = "tx" /\ s[2] \in TxQueues(program) /\ s = <<"tx", s[2]>>
          \/ s[1] = "burst" /\ s[2] \in Lcores /\ s = <<"burst", s[2]>>
      BY DEF Slots
    <3>2. CASE s[1] = "rx"
      <4>1. s[2] \in DOMAIN rx /\ k \in {n \in 1 .. Len(rx[s[2]]) : rx[s[2]][n] = m}
        BY <2>2, <3>1, <3>2 DEF Held, RInv, Kinds
      <4>2. o \in PlacesIn("rx", rx, m)
        BY <3>2, <4>1 DEF PlacesIn
      <4> QED
        BY <4>2 DEF Places
    <3>3. CASE s[1] = "tx"
      <4>1. s[2] \in DOMAIN tx /\ k \in {n \in 1 .. Len(tx[s[2]]) : tx[s[2]][n] = m}
        BY <2>2, <3>1, <3>3 DEF Held, DeviceTyped
      <4>2. o \in PlacesIn("tx", tx, m)
        BY <3>3, <4>1 DEF PlacesIn
      <4> QED
        BY <4>2 DEF Places
    <3>4. CASE s[1] = "burst"
      <4>1. s[2] \in DOMAIN burst /\ k \in {n \in 1 .. Len(burst[s[2]]) : burst[s[2]][n] = m}
        BY <2>2, <3>1, <3>4 DEF Held, RInv, Kinds
      <4>2. o \in PlacesIn("burst", burst, m)
        BY <3>4, <4>1 DEF PlacesIn
      <4> QED
        BY <4>2 DEF Places
    <3> QED
      BY <3>1, <3>2, <3>3, <3>4
  <2>4. ASSUME NEW e \in Places(m) PROVE e = o
    <3>1. <<e[1], e[2]>> \in Slots /\ e = <<e[1], e[2], e[3]>>
          /\ e[3] \in 1 .. Len(Held[<<e[1], e[2]>>]) /\ Held[<<e[1], e[2]>>][e[3]] = m
      BY <1>1, <1>4
    <3>2. <<e[1], e[2]>> = s /\ e[3] = k
      BY <2>2, <3>1
    <3> QED
      BY <3>1, <3>2
  <2>5. Places(m) = {o}
    BY <2>3, <2>4
  <2> QED
    BY <2>5, FS_Singleton
<1> QED
  BY <1>2, <1>3, <1>4 DEF Once

(***************************************************************************)
(* reflect.c, multi-core/reflect.c and basicfwd.c lose no mbuf and free none*)
(* twice: whatever part of a burst is sent, an mbuf is in one place.        *)
(***************************************************************************)
THEOREM BurstsConserved == Spec => []Conserved
<1>1. RInv => Kinds
  BY DEF RInv
<1>2. RInv /\ DeviceTyped /\ OnceInv => Conserved
  BY OnePlace DEF OnceInv, Conserved
<1> QED
  BY RInvariant, DeviceInit, DeviceTypedStep, OnceInit, OnceStep, <1>1, <1>2, PTL DEF Spec
-----------------------------------------------------------------------------
(* What the device was given, and where a send may go.                      *)

\* Only the two programs without a handler send.
Receivers == program \in Handles => \A l \in Lcores : pc[l] # "send"

LEMMA ReceiversStep ==
  RInv /\ Receivers /\ [Next]_vars => Receivers'
<1> SUFFICES ASSUME RInv, Receivers, [Next]_vars PROVE Receivers'
  OBVIOUS
<1> USE DEF RInv, Kinds
<1>1. CASE UNCHANGED <<program, pc>>
  BY <1>1 DEF Receivers
<1>2. ASSUME NEW l \in Lcores, NEW w, w # "send", pc' = [pc EXCEPT ![l] = w], program' = program
      PROVE  Receivers'
  BY <1>2 DEF Receivers
<1>3. CASE \/ Join \/ Signal \/ Device \/ UNCHANGED vars
           \/ \E l \in Lcores : SendNowhere(l) \/ FreeOne(l)
  <2>1. UNCHANGED <<program, pc>>
    BY <1>3 DEF Join, Signal, Device, Arrive, Sent, SendNowhere, FreeOne, vars
  <2> QED
    BY <1>1, <2>1
<1>4. CASE (\E l \in Running : Launch(l)) \/ CallMaster
  <2>1. \E l \in Lcores : pc' = [pc EXCEPT ![l] = First] /\ program' = program
    BY <1>4, ReflectAssumption DEF Launch, CallMaster, Goto, Running
  <2>2. First # "send"
    BY FirstPlace DEF Busy
  <2> QED
    BY <1>2, <2>1, <2>2
<1>5. ASSUME NEW l \in Lcores,
             \/ InitCounter(l) \/ SetCounter(l) \/ Again(l) \/ Leave(l) \/ Increment(l)
             \/ Send(l) \/ NextBurst(l)
      PROVE  Receivers'
  <2>1. \E w \in {"set", "top", "poll", "done", "copy", "free"} :
          pc' = [pc EXCEPT ![l] = w] /\ program' = program
    BY <1>5 DEF InitCounter, SetCounter, Again, Leave, Increment, Send, NextBurst, Goto
  <2> QED
    BY <1>2, <2>1
<1>6. ASSUME NEW l \in Lcores, Poll(l) PROVE Receivers'
  <2>1. PICK n \in 0 .. Burst : pc' = [pc EXCEPT ![l] = AfterPoll(n)]
    BY <1>6 DEF Poll, Goto
  <2>2. program \in Handles => AfterPoll(n) # "send"
    BY DEF AfterPoll, Handles
  <2> QED
    BY <1>6, <2>1, <2>2 DEF Poll, Receivers
<1>7. ASSUME NEW l \in Lcores, Copy(l) PROVE Receivers'
  <2> DEFINE w == IF i[l] + 1 < Len(burst[l]) THEN "count"
                  ELSE IF program = "pair" THEN "send" ELSE "free"
  <2>1. pc' = [pc EXCEPT ![l] = w] /\ program' = program
    BY <1>7 DEF Copy, Goto
  <2>2. program \in Handles => w # "send"
    BY DEF Handles
  <2> HIDE DEF w
  <2> QED
    BY <2>1, <2>2 DEF Receivers
<1> QED
  BY <1>3, <1>4, <1>5, <1>6, <1>7 DEF Next, Main, Lcore, Ended

\* A paired port is a port, since their number is even.
LEMMA PairedPort ==
  ASSUME NEW p \in 0 .. Ports - 1
  PROVE  Paired(p) \in 0 .. Ports - 1
<1>1. Ports \in Nat /\ Ports >= 2 /\ Ports % 2 = 0
  BY ReflectAssumption
<1> QED
  BY <1>1 DEF Paired

NowhereInv == Receivers /\ (main = "crash" => program = "swap" /\ \E k, l \in Lcores : k < l)

LEMMA NowhereStep == RInv /\ NowhereInv /\ [Next]_vars => NowhereInv'
<1> SUFFICES ASSUME RInv, NowhereInv, [Next]_vars PROVE NowhereInv'
  OBVIOUS
<1>1. Receivers' /\ program' = program
  BY ReceiversStep DEF NowhereInv, Next, Main, Launch, CallMaster, Join, Signal, Lcore, InitCounter,
     SetCounter, Again, Leave, Poll, Increment, Copy, Send, SendNowhere, FreeOne, NextBurst,
     Device, Arrive, Sent, Ended, vars
<1>2. ASSUME NEW l \in Lcores, SendNowhere(l)
      PROVE  program = "swap" /\ \E k \in Lcores : k < l
  <2>1. pc[l] = "send" /\ Out(l) \notin TxQueues(program) /\ program \in {"swap", "pair"}
    BY <1>2 DEF SendNowhere, At, NowhereInv, Receivers, RInv, Kinds, Programs, Handles
  <2>2. program # "pair"
    BY <2>1, PairedPort DEF Out, TxQueues, RInv, Kinds
  <2>3. Queue(l) # 0
    BY <2>1, <2>2 DEF Out, TxQueues
  <2>4. {k \in Lcores : k < l} # {}
    BY <2>3, FS_EmptySet DEF Queue
  <2> QED
    BY <2>1, <2>2, <2>4
<1>3. ~(\E l \in Lcores : SendNowhere(l)) => main' = main \/ main' \in {"join", "end"}
  BY DEF Next, Main, Launch, CallMaster, Join, Signal, Lcore, InitCounter,
     SetCounter, Again, Leave, Poll, Increment, Copy, Send, FreeOne, NextBurst,
     Device, Arrive, Sent, Ended, vars
<1> QED
  BY <1>1, <1>2, <1>3 DEF NowhereInv

(***************************************************************************)
(* A send to a TX queue that was never set up ends only atomic.c, and only  *)
(* where it runs on two lcores or more: the queue of the one lcore is 0,    *)
(* and a paired port has a queue (atomic.c 290-305, 392; basicfwd.c 244).   *)
(***************************************************************************)
THEOREM SendsSomewhere ==
  Spec => [](main = "crash" => program = "swap" /\ \E k, l \in Lcores : k < l)
<1>1. Init => NowhereInv
  BY DEF Init, NowhereInv, Receivers
<1>2. NowhereInv => (main = "crash" => program = "swap" /\ \E k, l \in Lcores : k < l)
  BY DEF NowhereInv
<1> QED
  BY RInvariant, NowhereStep, <1>1, <1>2, PTL DEF Spec

(***************************************************************************)
(* What atomic.c breaks holds of the others: a packet that was handed to    *)
(* the device is not overwritten before it is sent (basicfwd.c 244-254).    *)
(***************************************************************************)
THEOREM ForwardedElsewhere ==
  Spec => [][program # "swap" =>
               \A q \in DOMAIN tx : \A k \in 1 .. Len(tx[q]) : origin'[tx[q][k]] = origin[tx[q][k]]]_vars
<1> DEFINE Kept == program # "swap" =>
             \A q \in DOMAIN tx : \A k \in 1 .. Len(tx[q]) : origin'[tx[q][k]] = origin[tx[q][k]]
<1>1. ASSUME RInv, DeviceTyped, OnceInv, [Next]_vars PROVE [Kept]_vars
  <2>1. CASE origin' = origin
    BY <2>1
  <2>2. ASSUME NEW r \in RxQueues(program), NEW m \in Mbufs, Arrive(r, m),
               program # "swap", NEW q \in DOMAIN tx, NEW k \in 1 .. Len(tx[q])
        PROVE  origin'[tx[q][k]] = origin[tx[q][k]]
    <3>1. q \in TxQueues(program) /\ tx[q] \in Seq(Mbufs)
      BY <1>1, <2>2 DEF DeviceTyped, Bounded
    <3>2. <<"tx", q>> \in Slots /\ Held[<<"tx", q>>] = tx[q] /\ DOMAIN Held = Slots
      BY <3>1 DEF Slots, Held
    <3>3. tx[q][k] \in Mbufs /\ tx[q][k] # m
      <4>1. Once(pool, Held, m) /\ pool[m] > 0
        BY <1>1, <2>2 DEF OnceInv, Arrive
      <4>2. pool[m] # 0
        BY <4>1
      <4>3. \A s \in Slots : \A n \in 1 .. Len(Held[s]) : Held[s][n] # m
        BY <3>2, <4>1, <4>2 DEF Once
      <4> QED
        BY <3>1, <3>2, <4>3
    <3> QED
      BY <1>1, <2>2, <3>1, <3>3 DEF Arrive, DeviceTyped
  <2>3. origin' = origin \/ \E r \in RxQueues(program), m \in Mbufs : Arrive(r, m)
    BY <1>1 DEF Next, Main, Launch, CallMaster, Join, Signal, Lcore, InitCounter, SetCounter, Again, Leave,
       Poll, Increment, Copy, Send, SendNowhere, FreeOne, NextBurst, Device, Sent, Ended, vars, device
  <2> QED
    BY <2>1, <2>2, <2>3
<1>2. RInv => Kinds
  BY DEF RInv
<1> QED
  BY RInvariant, DeviceInit, DeviceTypedStep, OnceInit, OnceStep, <1>1, <1>2, PTL DEF Spec

-----------------------------------------------------------------------------
(* How far the program is from its end after the signal.                    *)

\* The steps an lcore has left at a place where it has len mbufs in its burst,
\* n of them numbered, if it takes no further turn of its loop.
StepsAt(place, len, n) ==
  CASE place = "idle"  -> 3 * Burst + 6
    [] place = "init"  -> 3 * Burst + 5
    [] place = "set"   -> 3 * Burst + 4
    [] place = "top"   -> 1
    [] place = "poll"  -> 3 * Burst + 3
    [] place = "count" -> 2 + len + 2 * (len - n)
    [] place = "copy"  -> 1 + len + 2 * (len - n)
    [] place = "free"  -> 2 + len
    [] place \in {"send", "done"} -> 0

StepsLeft == [l \in Lcores |-> StepsAt(pc[l], Len(burst[l]), i[l])]

Unlaunched == {l \in Lcores : pc[l] = "idle"}
MainLeft ==
  Cardinality(Unlaunched) + (CASE main = "launch" -> 2 [] main = "join" -> 1 [] OTHER -> 0)

\* Only a program with a handler is told to stop, and such a one does not crash.
ToldInv ==
  /\ keepRunning \in BOOLEAN
  /\ ~keepRunning => program \in Handles

LEMMA ToldStep == ToldInv /\ [Next]_vars => ToldInv'
BY DEF ToldInv, Next, Main, Launch, CallMaster, Join, Signal, Lcore, InitCounter, SetCounter, Again,
   Leave, Poll, Increment, Copy, Send, SendNowhere, FreeOne, NextBurst, Device, Arrive, Sent, Ended, vars

\* The sizes that the steps left are made of.
LEMMA Sizes ==
  ASSUME RInv, CounterInv, NEW l \in Lcores
  PROVE  /\ Burst \in Nat \ {0} /\ burst[l] \in Seq(Mbufs)
         /\ Len(burst[l]) \in 0 .. Burst /\ i[l] \in 0 .. Burst
         /\ pc[l] \in {"count", "copy"} => i[l] < Len(burst[l])
BY BurstFits DEF RInv, Kinds, CounterInv

LEMMA StepsAtNat ==
  ASSUME NEW place \in PCs, NEW len \in Nat, NEW n \in Nat,
         place \in {"count", "copy"} => n < len
  PROVE  StepsAt(place, len, n) \in Nat
<1> USE BurstFits
<1>1. CASE place \in {"idle", "init", "set", "top"}
  BY <1>1 DEF StepsAt
<1>2. CASE place = "poll"
  BY <1>2 DEF StepsAt
<1>3. CASE place = "count"
  BY <1>3 DEF StepsAt
<1>4. CASE place = "copy"
  BY <1>4 DEF StepsAt
<1>5. CASE place = "free"
  BY <1>5 DEF StepsAt
<1>6. CASE place \in {"send", "done"}
  BY <1>6 DEF StepsAt
<1> QED
  BY <1>1, <1>2, <1>3, <1>4, <1>5, <1>6 DEF PCs, Busy

\* Each way from a place to the next.
LEMMA StepsFewer ==
  ASSUME NEW len \in Nat, NEW n \in Nat
  PROVE  /\ StepsAt("init", len, n) < StepsAt("idle", len, n)
         /\ StepsAt("set", len, n) < StepsAt("init", len, n)
         /\ StepsAt("poll", len, n) < StepsAt("set", len, n)
         /\ StepsAt("top", len, n) < StepsAt("set", len, n)
         /\ StepsAt("done", len, n) < StepsAt("top", len, n)
         /\ \A k \in 0 .. Burst : /\ StepsAt("free", k, 0) < StepsAt("poll", len, n)
                                  /\ StepsAt("count", k, 0) < StepsAt("poll", len, n)
         /\ StepsAt("copy", len, n) < StepsAt("count", len, n)
         /\ StepsAt("top", len, n) < StepsAt("free", len, n)
<1> USE BurstFits
<1>1. /\ StepsAt("init", len, n) < StepsAt("idle", len, n)
      /\ StepsAt("set", len, n) < StepsAt("init", len, n)
      /\ StepsAt("poll", len, n) < StepsAt("set", len, n)
  BY DEF StepsAt
<1>2. /\ StepsAt("top", len, n) < StepsAt("set", len, n)
      /\ StepsAt("done", len, n) < StepsAt("top", len, n)
      /\ StepsAt("top", len, n) < StepsAt("free", len, n)
  BY DEF StepsAt
<1>3. ASSUME NEW k \in 0 .. Burst
      PROVE  /\ StepsAt("free", k, 0) < StepsAt("poll", len, n)
             /\ StepsAt("count", k, 0) < StepsAt("poll", len, n)
  BY DEF StepsAt
<1>4. StepsAt("copy", len, n) < StepsAt("count", len, n)
  BY DEF StepsAt
<1> QED
  BY <1>1, <1>2, <1>3, <1>4

\* The same for the ways on which a packet is numbered or freed.
LEMMA StepsCount ==
  ASSUME NEW len \in Nat, NEW n \in Nat, NEW m, m = n + 1, NEW w,
         w = (IF m < len THEN "count" ELSE "free"), n < len
  PROVE  StepsAt(w, len, m) < StepsAt("copy", len, n)
<1>1. CASE m < len
  BY <1>1 DEF StepsAt
<1>2. CASE ~(m < len)
  BY <1>2 DEF StepsAt
<1> QED
  BY <1>1, <1>2

LEMMA StepsFree ==
  ASSUME NEW len \in Nat, NEW m \in Nat, NEW n, len = m + 1
  PROVE  StepsAt("free", m, n) < StepsAt("free", len, n)
BY DEF StepsAt

LEMMA StepsNat ==
  ASSUME RInv, CounterInv
  PROVE  StepsLeft \in [Lcores -> Nat] /\ MainLeft \in Nat
<1>1. ASSUME NEW l \in Lcores PROVE StepsAt(pc[l], Len(burst[l]), i[l]) \in Nat
  <2>1. pc[l] \in PCs /\ Burst \in Nat /\ Len(burst[l]) \in Nat /\ i[l] \in Nat
    BY Sizes DEF RInv, Kinds
  <2> QED
    BY <2>1, Sizes, StepsAtNat
<1>2. IsFiniteSet(Unlaunched)
  BY FS_Subset, ReflectAssumption DEF Unlaunched
<1>3. Cardinality(Unlaunched) \in Nat
  BY <1>2, FS_CardinalityType
<1> QED
  BY <1>1, <1>3 DEF StepsLeft, MainLeft

LEMMA StepsNatNext ==
  ASSUME RInv, CounterInv, [Next]_vars
  PROVE  StepsLeft' \in [Lcores -> Nat] /\ MainLeft' \in Nat
<1>1. RInv'
  BY RInvStep
<1>2. CounterInv'
  BY CounterStep
<1>3. ASSUME NEW l \in Lcores PROVE StepsAt(pc'[l], Len(burst'[l]), i'[l]) \in Nat
  <2>1. /\ Burst \in Nat \ {0} /\ pc'[l] \in PCs
        /\ Len(burst'[l]) \in 0 .. Burst /\ i'[l] \in 0 .. Burst
        /\ pc'[l] \in {"count", "copy"} => i'[l] < Len(burst'[l])
    BY <1>1, <1>2, BurstFits DEF RInv, Kinds, CounterInv
  <2>2. Len(burst'[l]) \in Nat /\ i'[l] \in Nat
    BY <2>1
  <2> QED
    BY <2>1, <2>2, StepsAtNat
<1>4. IsFiniteSet(Unlaunched')
  BY FS_Subset, ReflectAssumption DEF Unlaunched
<1>5. Cardinality(Unlaunched') \in Nat
  BY <1>4, FS_CardinalityType
<1> QED
  BY <1>3, <1>5 DEF StepsLeft, MainLeft

\* What a step that moves one lcore to its loop or within it shows of the rest.
LEMMA OthersKept ==
  ASSUME RInv, NEW l \in Lcores, NEW w, w # "idle", pc' = [pc EXCEPT ![l] = w],
         \A k \in Lcores \ {l} : burst'[k] = burst[k] /\ i'[k] = i[k]
  PROVE  /\ \A k \in Lcores \ {l} : StepsLeft'[k] = StepsLeft[k]
         /\ StepsLeft'[l] = StepsAt(w, Len(burst'[l]), i'[l])
         /\ Unlaunched' = Unlaunched \ {l}
BY DEF RInv, Kinds, StepsLeft, Unlaunched

\* A step of an lcore leaves it fewer, and those of the others as they are.
LEMMA LcoreNearer ==
  ASSUME RInv, CounterInv, Receivers, ToldInv, ~keepRunning, NEW l \in Lcores, Lcore(l)
  PROVE  /\ \A k \in Lcores \ {l} : StepsLeft'[k] = StepsLeft[k]
         /\ StepsLeft'[l] < StepsLeft[l]
         /\ MainLeft' = MainLeft
<1>k. /\ Kinds /\ pc \in [Lcores -> PCs] /\ pc[l] # "send"
      /\ Burst \in Nat \ {0} /\ burst[l] \in Seq(Mbufs)
      /\ Len(burst[l]) \in 0 .. Burst /\ i[l] \in 0 .. Burst
      /\ pc[l] \in {"count", "copy"} => i[l] < Len(burst[l])
      /\ program \in Handles
  BY Sizes DEF Receivers, ToldInv, RInv, Kinds
<1>s. StepsLeft[l] = StepsAt(pc[l], Len(burst[l]), i[l])
  BY DEF StepsLeft
<1>m. ASSUME NEW w, w # "idle", pc[l] # "idle", pc' = [pc EXCEPT ![l] = w],
             \A k \in Lcores \ {l} : burst'[k] = burst[k] /\ i'[k] = i[k], main' = main,
             StepsAt(w, Len(burst'[l]), i'[l]) < StepsAt(pc[l], Len(burst[l]), i[l])
      PROVE  /\ \A k \in Lcores \ {l} : StepsLeft'[k] = StepsLeft[k]
             /\ StepsLeft'[l] < StepsLeft[l]
             /\ MainLeft' = MainLeft
  <2>1. Unlaunched' = Unlaunched
    BY <1>m, OthersKept DEF Unlaunched
  <2> QED
    BY <1>m, <1>s, <2>1, OthersKept DEF MainLeft
<1>1. CASE InitCounter(l) \/ SetCounter(l) \/ Leave(l)
  <2>1. /\ burst' = burst /\ i' = i /\ main' = main
        /\ \/ pc[l] = "init" /\ pc' = [pc EXCEPT ![l] = "set"]
           \/ pc[l] = "set" /\ \E w \in {"top", "poll"} : pc' = [pc EXCEPT ![l] = w]
           \/ pc[l] = "top" /\ pc' = [pc EXCEPT ![l] = "done"]
    BY <1>1 DEF InitCounter, SetCounter, Leave, Goto, At, counter
  <2> DEFINE A(w) == StepsAt(w, Len(burst[l]), i[l])
  <2>2. /\ A("set") < A("init") /\ A("top") < A("set")
        /\ A("poll") < A("set") /\ A("done") < A("top")
    BY <1>k, StepsFewer
  <2>3. PICK w \in PCs \ {"idle"} :
          pc[l] # "idle" /\ pc' = [pc EXCEPT ![l] = w] /\ A(w) < A(pc[l])
    BY <2>1, <2>2 DEF PCs
  <2> QED
    BY <2>1, <2>3, <1>m
<1>4. CASE Poll(l)
  <2>1. PICK n \in 0 .. Burst :
          /\ n <= Len(rx[Polled(l)])
          /\ burst' = [burst EXCEPT ![l] = SubSeq(rx[Polled(l)], 1, n)]
          /\ pc' = [pc EXCEPT ![l] = AfterPoll(n)]
    BY <1>4 DEF Poll, Goto
  <2>2. rx[Polled(l)] \in Seq(Mbufs)
    BY <1>k, PolledQueue DEF Kinds
  <2>3. Len(SubSeq(rx[Polled(l)], 1, n)) = n
    BY <2>1, <2>2, <1>k
  <2>4. /\ burst'[l] = SubSeq(rx[Polled(l)], 1, n) /\ i'[l] = 0
        /\ \A k \in Lcores \ {l} : burst'[k] = burst[k] /\ i'[k] = i[k]
        /\ pc[l] = "poll" /\ main' = main
    BY <2>1, <1>4, <1>k DEF Poll, At, Kinds
  <2>5. AfterPoll(n) \in {"free", "count"}
    BY <1>k DEF AfterPoll, Handles
  <2>6. StepsAt(AfterPoll(n), n, 0) < StepsAt("poll", Len(burst[l]), i[l])
    BY <2>1, <2>5, <1>k, StepsFewer
  <2> QED
    BY <2>1, <2>3, <2>4, <2>5, <2>6, <1>m
<1>5. CASE Increment(l)
  <2>1. /\ burst' = burst /\ i' = i /\ main' = main /\ pc[l] = "count"
        /\ pc' = [pc EXCEPT ![l] = "copy"]
    BY <1>5 DEF Increment, Goto, At
  <2>2. StepsAt("copy", Len(burst[l]), i[l]) < StepsAt("count", Len(burst[l]), i[l])
    BY <1>k, StepsFewer
  <2> QED
    BY <2>1, <2>2, <1>m
<1>6. CASE Copy(l)
  <2> DEFINE w == IF i[l] + 1 < Len(burst[l]) THEN "count"
                  ELSE IF program = "pair" THEN "send" ELSE "free"
  <2>1. /\ burst' = burst /\ main' = main /\ pc[l] = "copy"
        /\ pc' = [pc EXCEPT ![l] = w] /\ i' = [i EXCEPT ![l] = i[l] + 1]
    BY <1>6, <1>k DEF Copy, Goto, At, Kinds
  <2>2. i'[l] = i[l] + 1 /\ \A k \in Lcores \ {l} : i'[k] = i[k]
    BY <2>1, <1>k DEF Kinds
  <2>3. w # "idle" /\ StepsAt(w, Len(burst[l]), i[l] + 1) < StepsAt("copy", Len(burst[l]), i[l])
    BY <2>1, <1>k, StepsCount DEF Handles
  <2> HIDE DEF w
  <2> QED
    BY <2>1, <2>2, <2>3, <1>m
<1>7. CASE FreeOne(l)
  <2>1. /\ burst' = [burst EXCEPT ![l] = Tail(burst[l])] /\ i' = i /\ main' = main
        /\ pc[l] = "free" /\ pc' = [pc EXCEPT ![l] = "free"] /\ burst[l] # <<>>
    BY <1>7, <1>k DEF FreeOne, At, Kinds, counter
  <2>2. Len(burst[l]) = Len(Tail(burst[l])) + 1 /\ Len(Tail(burst[l])) \in Nat
    BY <2>1, <1>k
  <2>3. burst'[l] = Tail(burst[l]) /\ \A k \in Lcores \ {l} : burst'[k] = burst[k]
    BY <2>1, <1>k DEF Kinds
  <2>4. StepsAt("free", Len(Tail(burst[l])), i[l]) < StepsAt("free", Len(burst[l]), i[l])
    BY <2>2, <1>k, StepsFree
  <2> QED
    BY <2>1, <2>2, <2>3, <2>4, <1>m
<1>8. CASE NextBurst(l)
  <2>1. /\ burst' = burst /\ i' = i /\ main' = main
        /\ pc[l] = "free" /\ pc' = [pc EXCEPT ![l] = "top"]
    BY <1>8, <1>k DEF NextBurst, Goto, At, counter
  <2>2. StepsAt("top", Len(burst[l]), i[l]) < StepsAt("free", Len(burst[l]), i[l])
    BY <1>k, StepsFewer
  <2> QED
    BY <2>1, <2>2, <1>m
<1> QED
  BY <1>1, <1>4, <1>5, <1>6, <1>7, <1>8, <1>k DEF Lcore, Again, Send, SendNowhere, At

\* A step of main leaves main fewer.
LEMMA MainNearer ==
  ASSUME RInv, CounterInv, program \in Handles, Main
  PROVE  MainLeft' < MainLeft /\ \A l \in Lcores : StepsLeft'[l] <= StepsLeft[l]
<1>k. /\ Running = Lcores /\ Master \in Lcores /\ Kinds
      /\ IsFiniteSet(Unlaunched) /\ Cardinality(Unlaunched) \in Nat
      /\ \A l \in Lcores : StepsLeft[l] \in Nat
  BY StepsNat, FS_Subset, FS_CardinalityType, ReflectAssumption DEF Running, Unlaunched, RInv, Handles
<1>1. CASE (\E l \in Running : Launch(l)) \/ CallMaster
  <2>1. PICK l \in Lcores :
          /\ pc[l] = "idle" /\ pc' = [pc EXCEPT ![l] = First] /\ burst' = burst /\ i' = i
          /\ main = "launch" /\ main' \in {"launch", "join"}
    BY <1>1, <1>k DEF Launch, CallMaster, At, Goto, RInv, Finishing, counter
  <2>2. First \in {"init", "top"}
    BY DEF First, Handles, Counting
  <2>w. PICK w \in {"init", "top"} : pc' = [pc EXCEPT ![l] = w]
    BY <2>1, <2>2
  <2>3. Unlaunched' = Unlaunched \ {l} /\ l \in Unlaunched
    BY <2>1, <2>w, OthersKept DEF Unlaunched
  <2>4. Cardinality(Unlaunched') = Cardinality(Unlaunched) - 1
    BY <2>3, <1>k, FS_RemoveElement
  <2>5. MainLeft' < MainLeft
    BY <2>1, <2>4, <1>k DEF MainLeft
  <2>6. StepsLeft'[l] <= StepsLeft[l]
    <3> DEFINE A(v) == StepsAt(v, Len(burst[l]), i[l])
    <3>1. StepsLeft'[l] = A(w) /\ StepsLeft[l] = A("idle")
      BY <2>1, <2>w, OthersKept DEF StepsLeft
    <3>2. Len(burst[l]) \in Nat /\ i[l] \in Nat
      BY Sizes
    <3>3. /\ A("top") < A("set") /\ A("set") < A("init") /\ A("init") < A("idle")
          /\ A("top") \in Nat /\ A("set") \in Nat /\ A("init") \in Nat /\ A("idle") \in Nat
      BY <3>2, StepsFewer, StepsAtNat DEF PCs
    <3> HIDE DEF A
    <3> QED
      BY <3>1, <3>3, <2>w
  <2>7. \A k \in Lcores \ {l} : StepsLeft'[k] <= StepsLeft[k]
    <3>1. \A k \in Lcores \ {l} : StepsLeft'[k] = StepsLeft[k]
      BY <2>1, <2>w, OthersKept
    <3> QED
      BY <3>1, <1>k
  <2> QED
    BY <2>5, <2>6, <2>7
<1>2. CASE Join
  <2>1. /\ main = "join" /\ main' = "end" /\ pc' = pc /\ burst' = burst /\ i' = i
    BY <1>2 DEF Join, counter
  <2>2. Unlaunched' = Unlaunched /\ StepsLeft' = StepsLeft
    BY <2>1 DEF Unlaunched, StepsLeft
  <2> QED
    BY <2>1, <2>2, <1>k DEF MainLeft
<1> QED
  BY <1>1, <1>2 DEF Main

(***************************************************************************)
(* After the signal the reflectors are a bounded number of steps from their *)
(* end, whatever arrives: each step of an lcore leaves it fewer, each step  *)
(* of main leaves main fewer, and no step of anyone else gives one back.    *)
(* When main has none left it has ended                                     *)
(* (multi-core/reflect.c 404-548, 608-649; reflect.c 361-454).             *)
(***************************************************************************)
THEOREM QuitBounded ==
  Spec =>
    /\ [](StepsLeft \in [Lcores -> Nat] /\ MainLeft \in Nat)
    /\ [](~keepRunning /\ MainLeft = 0 => main = "end")
    /\ [][~keepRunning =>
            /\ ~keepRunning'
            /\ MainLeft' <= MainLeft /\ (Main => MainLeft' < MainLeft)
            /\ \A l \in Lcores :
                 StepsLeft'[l] <= StepsLeft[l] /\ (Lcore(l) => StepsLeft'[l] < StepsLeft[l])]_vars
<1> DEFINE Nearer == ~keepRunning =>
             /\ ~keepRunning'
             /\ MainLeft' <= MainLeft /\ (Main => MainLeft' < MainLeft)
             /\ \A l \in Lcores :
                  StepsLeft'[l] <= StepsLeft[l] /\ (Lcore(l) => StepsLeft'[l] < StepsLeft[l])
<1> DEFINE Ends == ~keepRunning /\ MainLeft = 0 => main = "end"
<1> DEFINE All == CounterInv /\ NowhereInv /\ ToldInv
<1>1. Init => All
  BY CounterInit DEF Init, NowhereInv, Receivers, ToldInv
<1>2. RInv /\ All /\ [Next]_vars => All'
  BY CounterStep, NowhereStep, ToldStep
<1>3. RInv /\ All => Ends
  <2> SUFFICES ASSUME RInv, All, ~keepRunning, MainLeft = 0 PROVE main = "end"
    OBVIOUS
  <2>1. IsFiniteSet(Unlaunched)
    BY FS_Subset, ReflectAssumption DEF Unlaunched
  <2>2. Cardinality(Unlaunched) \in Nat
    BY <2>1, FS_CardinalityType
  <2>3. main \in {"launch", "join", "end", "crash"} /\ main # "crash"
    BY DEF RInv, Kinds, NowhereInv, ToldInv, Handles
  <2> QED
    BY <2>2, <2>3 DEF MainLeft
<1>4. ASSUME RInv, All, [Next]_vars PROVE [Nearer]_vars
  <2> SUFFICES ASSUME ~keepRunning, Next
               PROVE  /\ ~keepRunning'
                      /\ MainLeft' <= MainLeft /\ (Main => MainLeft' < MainLeft)
                      /\ \A l \in Lcores :
                           StepsLeft'[l] <= StepsLeft[l] /\ (Lcore(l) => StepsLeft'[l] < StepsLeft[l])
    BY <1>4
  <2>1. program \in Handles /\ ~keepRunning'
    <3>1. program \in Handles
      BY <1>4 DEF ToldInv
    <3>2. keepRunning' = keepRunning \/ ~keepRunning'
      BY DEF Next, Main, Launch, CallMaster, Join, Signal, Lcore, InitCounter, SetCounter, Again,
         Leave, Poll, Increment, Copy, Send, SendNowhere, FreeOne, NextBurst, Device, Arrive, Sent,
         Ended, vars
    <3> QED
      BY <3>1, <3>2
  <2>2. StepsLeft \in [Lcores -> Nat] /\ MainLeft \in Nat
    BY <1>4, StepsNat
  <2>3. ASSUME NEW l \in Lcores, Lcore(l)
        PROVE  /\ \A k \in Lcores \ {l} : StepsLeft'[k] = StepsLeft[k]
               /\ StepsLeft'[l] < StepsLeft[l]
               /\ MainLeft' = MainLeft
    BY <1>4, <2>1, <2>3, LcoreNearer DEF NowhereInv
  <2>4. Main => MainLeft' < MainLeft /\ \A l \in Lcores : StepsLeft'[l] <= StepsLeft[l]
    BY <1>4, <2>1, MainNearer
  <2>5. CASE Signal \/ Device \/ Ended
    <3>1. UNCHANGED <<main, pc, burst, i>>
      BY <2>5 DEF Signal, Device, Arrive, Sent, Ended, vars, counter
    <3>2. StepsLeft' = StepsLeft /\ MainLeft' = MainLeft
      BY <3>1 DEF StepsLeft, MainLeft, Unlaunched
    <3>3. \A l \in Lcores : StepsLeft'[l] <= StepsLeft[l]
      BY <3>2, <2>2
    <3> QED
      BY <2>1, <2>2, <2>3, <2>4, <3>2, <3>3
  <2>6. CASE \E l \in Lcores : Lcore(l)
    <3>1. PICK l \in Lcores : Lcore(l)
      BY <2>6
    <3>2. MainLeft' <= MainLeft
      BY <3>1, <2>2, <2>3
    <3>3. \A k \in Lcores : StepsLeft'[k] <= StepsLeft[k]
      <4> TAKE k \in Lcores
      <4>1. CASE k = l
        <5>1. StepsLeft'[l] < StepsLeft[l]
          BY <3>1, <2>3
        <5>2. Lcore(l)
          BY <3>1
        <5>3. StepsLeft'[l] \in Nat
          BY <1>4, <2>2, StepsNatNext
        <5> QED
          BY <4>1, <5>1, <5>3, <2>2
      <4>2. CASE k # l
        BY <4>2, <3>1, <2>2, <2>3
      <4> QED
        BY <4>1, <4>2
    <3> QED
      BY <2>1, <2>3, <2>4, <3>2, <3>3
  <2>7. CASE Main
    <3>1. MainLeft' <= MainLeft
      BY <2>4, <2>7, <1>4, <2>2, StepsNatNext
    <3> QED
      BY <2>1, <2>3, <2>4, <2>7, <3>1
  <2> QED
    BY <2>5, <2>6, <2>7 DEF Next
<1>5. RInv /\ All => StepsLeft \in [Lcores -> Nat] /\ MainLeft \in Nat
  BY StepsNat
<1> QED
  BY RInvariant, <1>1, <1>2, <1>3, <1>4, <1>5, PTL DEF Spec
=============================================================================
