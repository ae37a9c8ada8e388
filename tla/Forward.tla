------------------------------- MODULE Forward -------------------------------
(***************************************************************************)
(* The forwarding loop of one lcore of l3fwd: em_main_loop (l3fwd_em.c) and *)
(* lpm_main_loop (l3fwd_lpm.c), with the transmit side they share:          *)
(* send_packets_multi (l3fwd_sse.h), send_packetsx4 (l3fwd_common.h),       *)
(* send_single_packet and send_burst (l3fwd.h).                             *)
(*                                                                          *)
(* An lcore owns its lcore_conf, so the loop is sequential; what interleaves*)
(* with it is the clock, the signal handler and the devices.  A packet is   *)
(* named by its place in the order of arrival, 1, 2, ..., MaxArrivals: two  *)
(* receptions into one recycled mbuf are two packets, so a stale pointer    *)
(* that is used again shows up as a packet used after it left the lcore.    *)
(***************************************************************************)
EXTENDS Naturals, FiniteSets

CONSTANTS
  Ports,        \* the enabled ports, tx_port_id[0 .. n_tx_port - 1] of the lcore
  BadPort,      \* BAD_PORT: the packet failed the RFC 1812 checks
  NumRxQueues,  \* n_rx_queue of the lcore
  MaxPktBurst,  \* MAX_PKT_BURST
  MaxTxBurst,   \* MAX_TX_BURST: a group this long may bypass an empty buffer
  FwdStep,      \* FWDSTEP: the stride of the unrolled copy loops
  Simd,         \* TRUE: the x86 path (groups); FALSE: one packet at a time
  MaxArrivals   \* bound: packets that reach the lcore in a behaviour

ASSUME PortsAssumption ==
  /\ Ports # {} /\ IsFiniteSet(Ports)
  /\ BadPort \notin Ports
  /\ Ports \cap {"wire", "app", "pool"} = {}
  /\ BadPort \notin {"wire", "app", "pool"}

ASSUME SizesAssumption ==
  /\ NumRxQueues \in Nat \ {0}
  /\ MaxPktBurst \in Nat \ {0}
  /\ MaxTxBurst \in Nat \ {0}
  /\ FwdStep \in 1 .. MaxPktBurst
  /\ Simd \in BOOLEAN
  /\ MaxArrivals \in Nat

Packets == 1 .. MaxArrivals
NoPacket == 0                       \* a slot never written, or beyond its array
Slots == 0 .. (MaxPktBurst - 1)

VARIABLES
  pc,          \* where the lcore is in its loop
  elapsed,     \* cur_tsc - prev_tsc > drain_tsc
  forceQuit,   \* force_quit, set by the signal handler
  undrained,   \* ports the drain loop has still to visit
  rxq,         \* i of the loop over the RX queues
  burst,       \* pkts_burst, which outlives the iteration that filled it
  nbRx, next,  \* nb_rx and j: packets next .. nbRx - 1 of burst await dispatch
  len,         \* tx_mbufs[p].len
  mTable,      \* tx_mbufs[p].m_table
  arrived,     \* packets received so far
  route,       \* dst_port of every packet received, BadPort if it failed the checks
  owner        \* who holds the packet's mbuf: see Owners

bufVars == <<len, mTable>>
burstVars == <<burst, nbRx, next, arrived, route>>
vars == <<pc, elapsed, forceQuit, undrained, rxq, burstVars, bufVars, owner>>

(***************************************************************************)
(* "wire" before rte_eth_rx_burst returns it, "app" while the lcore owns it,*)
(* a port once that port's rte_eth_tx_burst has accepted it, "pool" once    *)
(* rte_pktmbuf_free has returned it.                                        *)
(***************************************************************************)
Owners == {"wire", "app", "pool"} \cup Ports

TypeOK ==
  /\ pc \in {"top", "drain", "poll", "send", "done"}
  /\ elapsed \in BOOLEAN
  /\ forceQuit \in BOOLEAN
  /\ undrained \in SUBSET Ports
  /\ rxq \in 0 .. (NumRxQueues - 1)
  /\ burst \in [Slots -> Packets \cup {NoPacket}]
  /\ nbRx \in 0 .. MaxPktBurst
  /\ next \in 0 .. MaxPktBurst
  /\ len \in [Ports -> Slots]
  /\ mTable \in [Ports -> [Slots -> Packets \cup {NoPacket}]]
  /\ arrived \in 0 .. MaxArrivals
  /\ route \in [Packets -> Ports \cup {BadPort}]
  /\ owner \in [Packets -> Owners]

(***************************************************************************)
(* lcore_conf and the lcore's locals are zero when the loop is entered; a   *)
(* route is read only after it is written, so its first value is arbitrary. *)
(* prev_tsc is 0, which makes the first drain due at once.                  *)
(***************************************************************************)
Init ==
  /\ pc = "top"
  /\ elapsed = TRUE
  /\ forceQuit = FALSE
  /\ undrained = {}
  /\ rxq = 0
  /\ burst = [i \in Slots |-> NoPacket]
  /\ nbRx = 0
  /\ next = 0
  /\ len = [p \in Ports |-> 0]
  /\ mTable = [p \in Ports |-> [i \in Slots |-> NoPacket]]
  /\ arrived = 0
  /\ route = [x \in Packets |-> BadPort]
  /\ owner = [x \in Packets |-> "wire"]

-----------------------------------------------------------------------------
(* The environment. *)

\* The cycle counter passes prev_tsc + drain_tsc.
Tick ==
  /\ ~elapsed
  /\ elapsed' = TRUE
  /\ UNCHANGED <<pc, forceQuit, undrained, rxq, burstVars, bufVars, owner>>

\* SIGINT or SIGTERM: signal_handler sets force_quit.
Signal ==
  /\ ~forceQuit
  /\ forceQuit' = TRUE
  /\ UNCHANGED <<pc, elapsed, undrained, rxq, burstVars, bufVars, owner>>

-----------------------------------------------------------------------------
(* Handing mbufs over. *)

\* Mutant of TxBurst: the rejected packets are not freed.
TxBurstLeak(p, m, n, ret) ==
  [x \in Packets |-> IF \E i \in 0 .. (n - 1) : m[i] = x /\ i < ret THEN p ELSE owner[x]]

(***************************************************************************)
(* rte_eth_tx_burst(p, ..., m, n) accepts the first ret of the n packets of *)
(* m, and the loop after it frees the others: the ownership that results.   *)
(***************************************************************************)
TxBurst(p, m, n, ret) ==
  [x \in Packets |->
     IF \E i \in 0 .. (n - 1) : m[i] = x /\ i < ret THEN p
     ELSE IF \E i \in 0 .. (n - 1) : m[i] = x THEN "pool"
     ELSE owner[x]]

\* rte_pktmbuf_free on the n packets of m.
Free(m, n) ==
  [x \in Packets |->
     IF \E i \in 0 .. (n - 1) : m[i] = x THEN "pool" ELSE owner[x]]

-----------------------------------------------------------------------------
(* The head of the loop and the drain. *)

\* Mutant of Top: the time of the drain is noted, the drain forgotten.
TopNoDrain ==
  /\ pc = "top"
  /\ elapsed' = FALSE
  /\ pc' = IF forceQuit THEN "done" ELSE "poll"
  /\ UNCHANGED <<forceQuit, undrained, rxq, burstVars, bufVars, owner>>

\* Mutant of Top: force_quit is tested only when there is nothing to drain.
TopDrainFirst ==
  /\ pc = "top"
  /\ elapsed' = FALSE
  /\ undrained' = IF elapsed THEN Ports ELSE undrained
  /\ pc' = IF elapsed THEN "drain" ELSE IF forceQuit THEN "done" ELSE "poll"
  /\ UNCHANGED <<forceQuit, rxq, burstVars, bufVars, owner>>

\* while (!force_quit): the test, and the branch on diff_tsc > drain_tsc.
Top ==
  /\ pc = "top"
  /\ \/ /\ forceQuit
        /\ pc' = "done"
        /\ UNCHANGED <<elapsed, undrained>>
     \/ /\ ~forceQuit
        /\ elapsed
        /\ pc' = "drain"
        /\ elapsed' = FALSE          \* prev_tsc = cur_tsc
        /\ undrained' = Ports
     \/ /\ ~forceQuit
        /\ ~elapsed
        /\ pc' = "poll"
        /\ UNCHANGED <<elapsed, undrained>>
  /\ UNCHANGED <<forceQuit, rxq, burstVars, bufVars, owner>>

\* One port of the drain loop: nothing, or send_burst of the whole buffer.
DrainPort(p, ret) ==
  /\ pc = "drain"
  /\ p \in undrained
  /\ ret <= len[p]
  /\ owner' = TxBurst(p, mTable[p], len[p], ret)
  /\ len' = [len EXCEPT ![p] = 0]
  /\ undrained' = undrained \ {p}
  /\ pc' = IF undrained' = {} THEN "poll" ELSE "drain"
  /\ UNCHANGED <<elapsed, forceQuit, rxq, burstVars, mTable>>

-----------------------------------------------------------------------------
(* Receiving. *)

\* Mutant of NextQueue: one queue too many.
NextQueueLate ==
  IF rxq + 1 <= NumRxQueues
  THEN rxq' = rxq + 1 /\ pc' = "poll"
  ELSE rxq' = 0 /\ pc' = "top"

\* The end of one pass of the loop over the RX queues.
NextQueue ==
  IF rxq + 1 < NumRxQueues
  THEN /\ rxq' = rxq + 1
       /\ pc' = "poll"
  ELSE /\ rxq' = 0
       /\ pc' = "top"

\* rte_eth_rx_burst returned nothing.
PollEmpty ==
  /\ pc = "poll"
  /\ NextQueue
  /\ UNCHANGED <<elapsed, forceQuit, undrained, burstVars, bufVars, owner>>

(***************************************************************************)
(* rte_eth_rx_burst returned n packets; the lookups and the header checks   *)
(* that follow give each a port, an enabled one, or BadPort.                *)
(***************************************************************************)
PollBurst(n, dst) ==
  /\ pc = "poll"
  /\ arrived + n <= MaxArrivals
  /\ burst' = [i \in Slots |-> IF i < n THEN arrived + i + 1 ELSE burst[i]]
  /\ nbRx' = n
  /\ next' = 0
  /\ arrived' = arrived + n
  /\ route' = [x \in Packets |->
                 IF x \in (arrived + 1) .. (arrived + n)
                 THEN dst[x - arrived] ELSE route[x]]
  /\ owner' = [x \in Packets |->
                 IF x \in (arrived + 1) .. (arrived + n) THEN "app" ELSE owner[x]]
  /\ pc' = "send"
  /\ UNCHANGED <<elapsed, forceQuit, undrained, rxq, bufVars>>

-----------------------------------------------------------------------------
(* Dispatching a burst. *)

\* Move past k packets of the burst; after the last, the burst is dead.
Advance(k) ==
  /\ IF next + k < nbRx
     THEN /\ next' = next + k
          /\ nbRx' = nbRx
          /\ UNCHANGED <<pc, rxq>>
     ELSE /\ next' = 0
          /\ nbRx' = 0
          /\ NextQueue
  /\ UNCHANGED <<burst, arrived, route, elapsed, forceQuit, undrained>>

\* What the lcore reads at pkts_burst + next + i, inside the array or beyond it.
Pending(i) ==
  IF next + i < MaxPktBurst THEN burst[next + i] ELSE NoPacket

\* pn of the group that starts at j.
Dst == route[burst[next]]

\* Mutant of Group: the destinations are not compared.
GroupAny(k) == IF Simd THEN k <= nbRx ELSE k = 1

(***************************************************************************)
(* pnum[j] = k: on the SIMD path the packets next .. next + k - 1 are the   *)
(* longest run with one destination; the scalar path takes one at a time.   *)
(***************************************************************************)
Group(k) ==
  IF Simd
  THEN /\ \A i \in next .. (next + k - 1) : route[burst[i]] = Dst
       /\ next + k < nbRx => route[burst[next + k]] # Dst
  ELSE k = 1

\* A group that failed the header checks is freed.
DropGroup(k) ==
  /\ pc = "send"
  /\ next + k <= nbRx
  /\ Group(k)
  /\ Dst = BadPort
  /\ owner' = Free([i \in 0 .. (k - 1) |-> Pending(i)], k)
  /\ Advance(k)
  /\ UNCHANGED bufVars

\* Mutant of SendDirect: a long group bypasses the buffer, empty or not.
SendDirectAnyway(k, ret) ==
  /\ pc = "send"
  /\ Simd
  /\ next + k <= nbRx
  /\ Group(k)
  /\ Dst # BadPort
  /\ k >= MaxTxBurst
  /\ ret <= k
  /\ owner' = TxBurst(Dst, [i \in 0 .. (k - 1) |-> Pending(i)], k, ret)
  /\ Advance(k)
  /\ UNCHANGED bufVars

\* send_packetsx4, the buffer empty and the group long: no buffering.
SendDirect(k, ret) ==
  /\ pc = "send"
  /\ Simd
  /\ next + k <= nbRx
  /\ Group(k)
  /\ Dst # BadPort
  /\ k >= MaxTxBurst
  /\ len[Dst] = 0
  /\ ret <= k
  /\ owner' = TxBurst(Dst, [i \in 0 .. (k - 1) |-> Pending(i)], k, ret)
  /\ Advance(k)
  /\ UNCHANGED bufVars

\* n of send_packetsx4: what fits of a group of k packets.
Fit(k) ==
  IF len[Dst] + k > MaxPktBurst THEN MaxPktBurst - len[Dst] ELSE k

\* The buffer of Dst once the first n packets of the group are copied in.
Filled(n) ==
  [i \in Slots |->
     IF i \in len[Dst] .. (len[Dst] + n - 1)
     THEN Pending(i - len[Dst]) ELSE mTable[Dst][i]]

\* send_packetsx4, or send_single_packet, when the buffer does not fill up.
SendBuffer(k) ==
  /\ pc = "send"
  /\ next + k <= nbRx
  /\ Group(k)
  /\ Dst # BadPort
  /\ ~(Simd /\ k >= MaxTxBurst /\ len[Dst] = 0)
  /\ len[Dst] + k < MaxPktBurst
  /\ mTable' = [mTable EXCEPT ![Dst] = Filled(k)]
  /\ len' = [len EXCEPT ![Dst] = len[Dst] + k]
  /\ Advance(k)
  /\ UNCHANGED owner

(***************************************************************************)
(* How many slots the copy of the rest writes: the unrolled loop is entered *)
(* through its switch before its condition is tested, so a rest of 0 packets*)
(* still copies FwdStep pointers from beyond the group.                     *)
(***************************************************************************)
Copied(rest) == IF Simd /\ rest = 0 THEN FwdStep ELSE rest

\* send_packetsx4, or send_single_packet, when the buffer fills up.
SendFlush(k, ret) ==
  LET n == Fit(k)
      rest == k - n
  IN /\ pc = "send"
     /\ next + k <= nbRx
     /\ Group(k)
     /\ Dst # BadPort
     /\ ~(Simd /\ k >= MaxTxBurst /\ len[Dst] = 0)
     /\ len[Dst] + n = MaxPktBurst
     /\ owner' = TxBurst(Dst, Filled(n), MaxPktBurst, ret)
     /\ mTable' = [mTable EXCEPT ![Dst] =
                     [i \in Slots |->
                        IF i < Copied(rest) THEN Pending(n + i) ELSE Filled(n)[i]]]
     /\ len' = [len EXCEPT ![Dst] = rest]
     /\ Advance(k)

-----------------------------------------------------------------------------
Counts == 1 .. MaxPktBurst       \* packets in a burst or in a group
Accepted == 0 .. MaxPktBurst     \* what rte_eth_tx_burst may return

Receive ==
  \E n \in Counts : \E dst \in [1 .. n -> Ports \cup {BadPort}] : PollBurst(n, dst)
Drain == \E p \in Ports, ret \in Accepted : DrainPort(p, ret)
Drop == \E k \in Counts : DropGroup(k)
Direct == \E k \in Counts, ret \in Accepted : SendDirect(k, ret)
Buffer == \E k \in Counts : SendBuffer(k)
Flush == \E k \in Counts, ret \in Accepted : SendFlush(k, ret)

Lcore == Top \/ Drain \/ PollEmpty \/ Receive \/ Drop \/ Direct \/ Buffer \/ Flush

\* main joins the lcore once its loop has ended.
Finished ==
  /\ pc = "done"
  /\ UNCHANGED vars

Next == Lcore \/ Tick \/ Signal \/ Finished

Spec == Init /\ [][Next]_vars

\* The lcore's thread keeps running and the cycle counter keeps counting.
FairSpec == Spec /\ WF_vars(Lcore) /\ WF_vars(Tick)

-----------------------------------------------------------------------------
(* Properties. *)

\* Packets up to this one have been dispatched; the rest of the burst has not.
Dispatched == (arrived + next) - nbRx

\* x is in a live slot of the buffer of p.
Buffered(p, x) == \E i \in Slots : i < len[p] /\ mTable[p][i] = x

(***************************************************************************)
(* Every mbuf the lcore owns is in exactly one place it will take it from:  *)
(* the undispatched part of the burst, or one slot below len of the buffer  *)
(* of its port; and nothing else is in those places.  So no mbuf is lost,   *)
(* none is given away twice, and the pointers the unrolled copy leaves at or*)
(* above len are never used.                                                *)
(***************************************************************************)
OneHolder ==
  /\ \A x \in Packets :
        owner[x] = "app" <=> \/ x \in (Dispatched + 1) .. arrived
                            \/ \E p \in Ports : Buffered(p, x)
  /\ \A i \in Slots :
        next <= i /\ i < nbRx => burst[i] \in (Dispatched + 1) .. arrived
  /\ \A p \in Ports, i \in Slots :
        i < len[p] => /\ mTable[p][i] \in 1 .. Dispatched
                      /\ owner[mTable[p][i]] = "app"
                      /\ route[mTable[p][i]] = p
                      /\ \A k \in Slots :
                           i < k /\ k < len[p] => mTable[p][k] # mTable[p][i]

(***************************************************************************)
(* Packets of one port leave in the order they arrived, although a long     *)
(* group bypasses the buffer and a full buffer is refilled in the same call:*)
(* once a packet was transmitted, no earlier one to that port is left.      *)
(***************************************************************************)
PortOrder ==
  \A x, y \in Packets :
    /\ x < y
    /\ owner[y] \in Ports
    /\ route[x] = owner[y]
    => owner[x] # "app"

(***************************************************************************)
(* A packet is transmitted on the port it was routed to and on no other; one*)
(* that failed the header checks is transmitted on none.                    *)
(***************************************************************************)
RightPort == \A x \in Packets : owner[x] \in Ports => route[x] = owner[x]

(***************************************************************************)
(* A packet in the lcore's hands leaves, by the drain at the latest, unless *)
(* the application is told to quit.                                         *)
(***************************************************************************)
EventuallyLeaves ==
  \A x \in Packets : owner[x] = "app" ~> owner[x] # "app" \/ forceQuit

(***************************************************************************)
(* force_quit ends the loop, whatever the clock and the devices do.         *)
(***************************************************************************)
QuitEndsLoop == forceQuit ~> pc = "done"

(***************************************************************************)
(* What the loop promises its ports: a queue each, in order, lossy at its   *)
(* head only.                                                               *)
(***************************************************************************)
Fifo == INSTANCE LossyFifo WITH arrived <- arrived, route <- route, owner <- owner
ImplementsFifo == Fifo!Spec
=============================================================================
