------------------------------- MODULE Reflect -------------------------------
(***************************************************************************)
(* The four small programs that receive bursts and do one thing with them:  *)
(*   "count"  atomic/multi-core/reflect.c: number the packets with a counter *)
(*            that all lcores share, and free them;                         *)
(*   "walk"   reflect/reflect.c: touch memory for each packet, free them;    *)
(*   "swap"   atomic/atomic.c: send them back with the addresses swapped;    *)
(*   "pair"   atomic/fwd/basicfwd.c: number them and send them out on the    *)
(*            paired port.                                                  *)
(*                                                                          *)
(* The device and rte_mempool are external.  The device takes an mbuf from  *)
(* the pool when a packet arrives and puts it back when it is sent, without *)
(* asking whether it is there already; the pool has room for PoolSize mbufs *)
(* and drops what comes on top.                                             *)
(***************************************************************************)
EXTENDS Integers, FiniteSets, Sequences

CONSTANTS
  Lcores,    \* the enabled lcores, below RTE_MAX_CORES
  Master,    \* the lcore of main
  Ports,     \* rte_eth_dev_count in basicfwd.c
  Mbufs,     \* the mbufs of the pool
  PoolSize,  \* the room in the ring of the pool
  Burst,     \* BURST_SIZE
  RxDesc,    \* RX_RING_SIZE
  TxDesc,    \* TX_RING_SIZE
  SetTo,     \* what the counter is set to, 1UL << 5
  Wrap       \* the values of the counter, 2^16

ASSUME ReflectAssumption ==
  /\ IsFiniteSet(Lcores) /\ Lcores \subseteq Nat /\ Master \in Lcores
  /\ Ports \in Nat /\ Ports >= 2 /\ Ports % 2 = 0
  /\ IsFiniteSet(Mbufs)
  /\ \A n \in {PoolSize, Burst, RxDesc, TxDesc, SetTo, Wrap} : n \in Nat \ {0}
  /\ Cardinality(Mbufs) <= PoolSize
  /\ SetTo + Cardinality(Lcores) * Burst < Wrap

VARIABLES
  program,     \* which of the programs runs
  main,        \* where main is
  pc,          \* where each lcore is in slave_bmain or lcore_main
  keepRunning, \* keepRunning
  a16,         \* a16.cnt
  port,        \* port in lcore_main
  burst,       \* the received mbufs that the lcore has yet to free
  i,           \* i, how many packets of the burst are numbered
  count,       \* the number written last into a packet of the burst
  rates,       \* the lcores that have stored their entry of map_lcore_to_mpps
  pool,        \* how often each mbuf is in the pool
  rx,          \* the packets each RX queue holds
  tx,          \* the packets each TX queue holds
  origin       \* the queue at which the packet in each mbuf arrived

device == <<pool, rx, tx, origin>>
counter == <<a16, i, count>>
vars == <<program, main, pc, keepRunning, port, burst, rates, counter, device>>

Programs == {"count", "walk", "swap", "pair"}
Counting == {"count", "pair"}

\* Only these two install a handler and look at keepRunning.
Handles == {"count", "walk"}

\* basicfwd.c uses the master lcore only.
Running == IF program = "pair" THEN {Master} ELSE Lcores

\* map_lcore_to_queue: the queues are numbered in the order of the lcores.
Queue(l) == Cardinality({k \in Lcores : k < l})
Polled(l) == IF program = "pair" THEN port ELSE Queue(l)

RxQueues(p) == IF p = "pair" THEN 0 .. Ports - 1 ELSE 0 .. Cardinality(Lcores) - 1
\* The reflectors set up TX queue 0 only; basicfwd.c one for each port.
TxQueues(p) == IF p = "pair" THEN 0 .. Ports - 1 ELSE {0}

\* port ^ 1
Paired(p) == IF p % 2 = 0 THEN p + 1 ELSE p - 1
Out(l) == IF program = "pair" THEN Paired(port) ELSE Queue(l)

First == CASE program \in Counting -> "init"
           [] program = "walk" -> "top"
           [] program = "swap" -> "poll"

Init ==
  /\ program \in Programs
  /\ main = "launch"
  /\ pc = [l \in Lcores |-> "idle"]
  /\ keepRunning = TRUE
  /\ a16 = 0
  /\ port = 0
  /\ burst = [l \in Lcores |-> <<>>]
  /\ i = [l \in Lcores |-> 0]
  /\ count = [l \in Lcores |-> 0]
  /\ rates = {}
  /\ pool = [m \in Mbufs |-> 1]
  /\ rx = [q \in RxQueues(program) |-> <<>>]
  /\ tx = [q \in TxQueues(program) |-> <<>>]
  /\ origin = [m \in Mbufs |-> 0]

Goto(l, where) == pc' = [pc EXCEPT ![l] = where]
At(l, where) == main # "crash" /\ pc[l] = where

-----------------------------------------------------------------------------
\* main and the signal handler.
Launch(l) ==
  /\ main = "launch"
  /\ l # Master
  /\ At(l, "idle")
  /\ Goto(l, First)
  /\ UNCHANGED <<program, main, keepRunning, port, burst, rates, counter, device>>

CallMaster ==
  /\ main = "launch"
  /\ \A l \in Running \ {Master} : pc[l] # "idle"
  /\ main' = "join"
  /\ Goto(Master, First)
  /\ UNCHANGED <<program, keepRunning, port, burst, rates, counter, device>>

\* Mutant of Join: the slaves are not waited for.
JoinAlone ==
  /\ main = "join"
  /\ pc[Master] = "done"
  /\ main' = "end"
  /\ UNCHANGED <<program, pc, keepRunning, port, burst, rates, counter, device>>

\* rte_eal_mp_wait_lcore, and the sum over map_lcore_to_mpps.
Join ==
  /\ main = "join"
  /\ \A l \in Running : pc[l] = "done"
  /\ main' = "end"
  /\ UNCHANGED <<program, pc, keepRunning, port, burst, rates, counter, device>>

Signal ==
  /\ program \in Handles
  /\ main \in {"launch", "join"}
  /\ keepRunning
  /\ keepRunning' = FALSE
  /\ UNCHANGED <<program, main, pc, port, burst, rates, counter, device>>

-----------------------------------------------------------------------------
\* The counter is set up by every lcore that starts.
InitCounter(l) ==
  /\ At(l, "init")
  /\ a16' = 0
  /\ Goto(l, "set")
  /\ UNCHANGED <<program, main, keepRunning, port, burst, i, count, rates, device>>

SetCounter(l) ==
  /\ At(l, "set")
  /\ a16' = SetTo
  /\ Goto(l, IF program = "count" THEN "top" ELSE "poll")
  /\ UNCHANGED <<program, main, keepRunning, port, burst, i, count, rates, device>>

\* Mutant of Again: the flag is not looked at.
AgainAlways(l) ==
  /\ At(l, "top")
  /\ Goto(l, "poll")
  /\ UNCHANGED <<program, main, keepRunning, port, burst, rates, counter, device>>

Again(l) ==
  /\ At(l, "top")
  /\ keepRunning
  /\ Goto(l, "poll")
  /\ UNCHANGED <<program, main, keepRunning, port, burst, rates, counter, device>>

Leave(l) ==
  /\ At(l, "top")
  /\ ~keepRunning
  /\ Goto(l, "done")
  /\ rates' = rates \cup {l}
  /\ UNCHANGED <<program, main, keepRunning, port, burst, counter, device>>

\* What an lcore does with a burst of n packets.
AfterPoll(n) ==
  CASE program = "walk" -> "free"
    [] program = "swap" -> IF n = 0 THEN "done" ELSE "send"
    [] program = "count" -> IF n = 0 THEN "free" ELSE "count"
    [] program = "pair" -> IF n = 0 THEN "send" ELSE "count"

\* Mutant of Poll: the counter is not cleared.
PollUncleared(l) ==
  /\ At(l, "poll")
  /\ \E n \in 0 .. Burst :
       /\ n <= Len(rx[Polled(l)])
       /\ burst' = [burst EXCEPT ![l] = SubSeq(rx[Polled(l)], 1, n)]
       /\ rx' = [rx EXCEPT ![Polled(l)] = SubSeq(@, n + 1, Len(@))]
       /\ Goto(l, AfterPoll(n))
  /\ i' = [i EXCEPT ![l] = 0]
  /\ count' = [count EXCEPT ![l] = 0]
  /\ UNCHANGED <<program, main, keepRunning, port, a16, rates, pool, tx, origin>>

\* rte_eth_rx_burst may give fewer packets than are there.
Poll(l) ==
  /\ At(l, "poll")
  /\ \E n \in 0 .. Burst :
       /\ n <= Len(rx[Polled(l)])
       /\ burst' = [burst EXCEPT ![l] = SubSeq(rx[Polled(l)], 1, n)]
       /\ rx' = [rx EXCEPT ![Polled(l)] = SubSeq(@, n + 1, Len(@))]
       /\ Goto(l, AfterPoll(n))
  /\ a16' = IF program \in Counting THEN 0 ELSE a16
  /\ i' = [i EXCEPT ![l] = 0]
  /\ count' = [count EXCEPT ![l] = 0]
  /\ UNCHANGED <<program, main, keepRunning, port, rates, pool, tx, origin>>

Increment(l) ==
  /\ At(l, "count")
  /\ a16' = (a16 + 1) % Wrap
  /\ Goto(l, "copy")
  /\ UNCHANGED <<program, main, keepRunning, port, burst, i, count, rates, device>>

\* Mutant of Copy: the number is the one before the increment.
CopyBefore(l) ==
  /\ At(l, "copy")
  /\ count' = [count EXCEPT ![l] = a16 - 1]
  /\ i' = [i EXCEPT ![l] = @ + 1]
  /\ Goto(l, IF i[l] + 1 < Len(burst[l]) THEN "count"
             ELSE IF program = "pair" THEN "send" ELSE "free")
  /\ UNCHANGED <<program, main, keepRunning, port, burst, a16, rates, device>>

\* pktbuf->count = a16 reads the counter once more.
Copy(l) ==
  /\ At(l, "copy")
  /\ count' = [count EXCEPT ![l] = a16]
  /\ i' = [i EXCEPT ![l] = @ + 1]
  /\ Goto(l, IF i[l] + 1 < Len(burst[l]) THEN "count"
             ELSE IF program = "pair" THEN "send" ELSE "free")
  /\ UNCHANGED <<program, main, keepRunning, port, burst, a16, rates, device>>

-----------------------------------------------------------------------------
\* Mutant of Unsent: all of the burst is freed in every program.
UnsentAll(l, k) == burst[l]

\* What is freed after k packets were sent: basicfwd.c frees the others,
\* atomic.c frees the whole burst.
Unsent(l, k) ==
  IF program = "swap" THEN burst[l] ELSE SubSeq(burst[l], k + 1, Len(burst[l]))

Send(l) ==
  /\ At(l, "send")
  /\ Out(l) \in TxQueues(program)
  /\ \E k \in 0 .. Len(burst[l]) :
       /\ Len(tx[Out(l)]) + k <= TxDesc
       /\ tx' = [tx EXCEPT ![Out(l)] = @ \o SubSeq(burst[l], 1, k)]
       /\ burst' = [burst EXCEPT ![l] = Unsent(l, k)]
  /\ Goto(l, "free")
  /\ UNCHANGED <<program, main, keepRunning, port, rates, counter, pool, rx, origin>>

\* atomic.c sends to the queue of its lcore, and only queue 0 was set up.
SendNowhere(l) ==
  /\ At(l, "send")
  /\ Out(l) \notin TxQueues(program)
  /\ main' = "crash"
  /\ UNCHANGED <<program, pc, keepRunning, port, burst, rates, counter, device>>

\* The entries of the ring of the pool, one for each time an mbuf is in it.
InPool == Cardinality({e \in Mbufs \X (1 .. PoolSize) : e[2] <= pool[e[1]]})
Put(m) == IF InPool < PoolSize THEN [pool EXCEPT ![m] = @ + 1] ELSE pool

FreeOne(l) ==
  /\ At(l, "free")
  /\ burst[l] # <<>>
  /\ pool' = Put(Head(burst[l]))
  /\ burst' = [burst EXCEPT ![l] = Tail(@)]
  /\ UNCHANGED <<program, main, pc, keepRunning, port, rates, counter, rx, tx, origin>>

\* Mutant of NextBurst: the last port is not followed by the first.
NextBurstOn(l) ==
  /\ At(l, "free")
  /\ burst[l] = <<>>
  /\ port' = IF program = "pair" THEN port + 1 ELSE port
  /\ Goto(l, IF program \in Handles THEN "top" ELSE "poll")
  /\ UNCHANGED <<program, main, keepRunning, burst, rates, counter, device>>

NextBurst(l) ==
  /\ At(l, "free")
  /\ burst[l] = <<>>
  /\ port' = IF program = "pair" THEN (port + 1) % Ports ELSE port
  /\ Goto(l, IF program \in Handles THEN "top" ELSE "poll")
  /\ UNCHANGED <<program, main, keepRunning, burst, rates, counter, device>>

-----------------------------------------------------------------------------
\* The device.
Arrive(q, m) ==
  /\ main \notin {"crash", "end"}
  /\ pool[m] > 0
  /\ Len(rx[q]) < RxDesc
  /\ pool' = [pool EXCEPT ![m] = @ - 1]
  /\ rx' = [rx EXCEPT ![q] = Append(@, m)]
  /\ origin' = [origin EXCEPT ![m] = q]
  /\ UNCHANGED <<program, main, pc, keepRunning, port, burst, rates, counter, tx>>

Sent(q) ==
  /\ main \notin {"crash", "end"}
  /\ tx[q] # <<>>
  /\ tx' = [tx EXCEPT ![q] = Tail(@)]
  /\ pool' = Put(Head(tx[q]))
  /\ UNCHANGED <<program, main, pc, keepRunning, port, burst, rates, counter, rx, origin>>

Main == (\E l \in Running : Launch(l)) \/ CallMaster \/ Join

Lcore(l) ==
  \/ InitCounter(l)
  \/ SetCounter(l)
  \/ Again(l)
  \/ Leave(l)
  \/ Poll(l)
  \/ Increment(l)
  \/ Copy(l)
  \/ Send(l)
  \/ SendNowhere(l)
  \/ FreeOne(l)
  \/ NextBurst(l)

Device ==
  \/ \E q \in RxQueues(program), m \in Mbufs : Arrive(q, m)
  \/ \E q \in TxQueues(program) : Sent(q)

Ended ==
  /\ main \in {"crash", "end"}
  /\ UNCHANGED vars

Next == Main \/ Signal \/ (\E l \in Lcores : Lcore(l)) \/ Device \/ Ended

Spec == Init /\ [][Next]_vars

\* main and every lcore run.
FairSpec == Spec /\ WF_vars(Main) /\ \A l \in Lcores : WF_vars(Lcore(l))

-----------------------------------------------------------------------------
Bounded(s, n) == s \in Seq(Mbufs) /\ Len(s) <= n

TypeOK ==
  /\ program \in Programs
  /\ main \in {"launch", "join", "end", "crash"}
  /\ pc \in [Lcores -> {"idle", "init", "set", "top", "poll", "count", "copy", "send", "free", "done"}]
  /\ keepRunning \in BOOLEAN
  /\ a16 \in 0 .. Wrap - 1
  /\ port \in 0 .. Ports - 1
  /\ DOMAIN burst = Lcores /\ \A l \in Lcores : Bounded(burst[l], Burst)
  /\ i \in [Lcores -> 0 .. Burst]
  /\ count \in [Lcores -> 0 .. Wrap - 1]
  /\ rates \subseteq Lcores
  /\ pool \in [Mbufs -> 0 .. PoolSize] /\ InPool <= PoolSize
  /\ DOMAIN rx = RxQueues(program) /\ \A q \in DOMAIN rx : Bounded(rx[q], RxDesc)
  /\ DOMAIN tx = TxQueues(program) /\ \A q \in DOMAIN tx : Bounded(tx[q], TxDesc)
  /\ origin \in [Mbufs -> RxQueues(program)]

\* Where an mbuf is: in the pool, in a queue of the device, in a burst.
PlacesIn(kind, f, m) ==
  UNION {{<<kind, x, k>> : k \in {n \in 1 .. Len(f[x]) : f[x][n] = m}} : x \in DOMAIN f}

Places(m) ==
  ({"pool"} \X {0} \X (1 .. pool[m]))
    \cup PlacesIn("rx", rx, m) \cup PlacesIn("tx", tx, m) \cup PlacesIn("burst", burst, m)

\* In every program but atomic.c an mbuf is in one place only: the pool, a
\* queue of the device, or the burst of one lcore; whatever part of a burst the
\* device takes, none is freed twice and none is forgotten.
Conserved == program # "swap" => \A m \in Mbufs : Cardinality(Places(m)) = 1

\* The packets of the bursts polled last for which the counter was increased.
Counted ==
  {e \in Lcores \X (1 .. Burst) :
     e[2] <= i[e[1]] \/ (pc[e[1]] = "copy" /\ e[2] = i[e[1]] + 1)}

\* Every unit of the shared counter is the value it was set to or stands for a
\* packet of the burst that some lcore polled last: though lcores that start
\* set the counter and others clear it while it is increased, it never runs
\* ahead of the bursts, and so never wraps around.
CounterExplained ==
  program \in Counting => a16 <= SetTo + Cardinality(Counted)

\* Where one lcore counts alone, the packets of each burst are numbered from 1.
NumberedFromOne ==
  program = "pair" => count[Master] = i[Master]

\* When main adds up the rates, every lcore has stored its own and holds no mbuf.
SummedLast ==
  main = "end" => /\ program \in Handles => rates = Lcores
                  /\ \A l \in Lcores : burst[l] = <<>>

\* After the signal the program comes to its end, whenever the signal comes.
QuitEnds == ~keepRunning ~> main = "end"

\* A packet that was handed to the device is not overwritten before it is sent.
Forwarded ==
  [][\A q \in DOMAIN tx : \A k \in 1 .. Len(tx[q]) : origin'[tx[q][k]] = origin[tx[q][k]]]_vars
=============================================================================
