-------------------------------- MODULE Pktgen --------------------------------
(***************************************************************************)
(* The generator's lcore threads (pktgen/main.c): fill the mbufs of a pool  *)
(* with packets, get bursts from the pool, hand them to the device until it *)
(* has taken all, again and again.  Every lcore has a pool and a TX queue   *)
(* of its own on every port, so one lcore on one port shows what any does.  *)
(*                                                                          *)
(* rte_mempool, the device and libpcap are external.  The device puts an    *)
(* mbuf back into its pool once it is sent, without asking whether it is    *)
(* there already; the pool has room for PoolSize mbufs and drops what comes *)
(* on top.                                                                  *)
(***************************************************************************)
EXTENDS Naturals, FiniteSets, Sequences

CONSTANTS
  Mbufs,      \* the mbufs of mempool[port][lcore], MAX_MBUFS_PER_PORT of them
  PoolSize,   \* the room in the ring of the pool
  Burst,      \* PKTQ_HWQ_OUT_BURST_SIZE
  TxDesc,     \* DEFAULT_TX_DESC
  Ones,       \* 0xffff: the largest 16-bit word
  Headers,    \* the sums of the words of the IP and of the UDP part
  FilePackets,\* the packets of the capture file
  Repeats,    \* the values of repeat, how often the file may be opened again
  Rounds      \* the bursts of a pass of app_thread_pcap or _sendnumpkts

ASSUME PktgenAssumption ==
  /\ IsFiniteSet(Mbufs)
  /\ \A n \in {PoolSize, Burst, TxDesc, Rounds} : n \in Nat
  /\ Repeats \subseteq Nat
  /\ Burst > 0 /\ TxDesc > 0 /\ Rounds > 0
  /\ Cardinality(Mbufs) <= PoolSize
  /\ TxDesc + Burst <= Cardinality(Mbufs)
  /\ Ones \in Nat \ {0}
  /\ Headers \subseteq [ip : Nat, udp : Nat]
  /\ \A h \in Headers : h.ip < (Ones + 1) * (Ones + 1)  \* ten words of the width, in twice the width
  /\ FilePackets \subseteq [ip : Nat, ipCheck : 0 .. Ones, udp : Nat, udpCheck : 0 .. Ones]

VARIABLES
  thread,   \* the function main launches
  file,     \* pcap_file_name # NULL
  repeat,   \* repeat
  pc,       \* where the lcore is; "exit" after exit(), "done" after return
  pool,     \* how often each mbuf is in the pool
  chain,    \* the mbufs chained in mm
  table,    \* m_table or app_mtable
  pos,      \* the entries of the table that the device took
  ring,     \* the TX ring
  content,  \* what each mbuf holds
  curRepeat,\* cur_repeat
  rounds,   \* rounds
  lost      \* the mbufs that no pointer leads to any more

vars == <<thread, file, repeat, pc, pool, chain, table, pos, ring, content, curRepeat, rounds, lost>>

Threads == {"fps", "throughput", "pcap", "sendnumpkts"}
\* The entries of the ring of the pool, one for each time an mbuf is in it.
InPool == Cardinality({e \in Mbufs \X (1 .. PoolSize) : e[2] <= pool[e[1]]})

\* The memory of a new pool.
NoPacket == [ip |-> 0, ipCheck |-> 0, udp |-> 0, udpCheck |-> 0]

Init ==
  /\ thread \in Threads
  /\ file \in BOOLEAN
  /\ repeat \in Repeats
  /\ pc = "start"
  /\ pool = [m \in Mbufs |-> 1]
  /\ chain = {}
  /\ table = <<>>
  /\ pos = 0
  /\ ring = <<>>
  /\ content = [m \in Mbufs |-> NoPacket]
  /\ curRepeat = 0
  /\ rounds = 0
  /\ lost = {}

\* app_thread_pcap needs a file.
Start ==
  /\ pc = "start"
  /\ pc' = IF thread = "pcap" /\ ~file THEN "exit" ELSE "setup"
  /\ UNCHANGED <<thread, file, repeat, pool, chain, table, pos, ring, content, curRepeat, rounds, lost>>

-----------------------------------------------------------------------------
\* Checksums in words of any width: 2^16 is Ones + 1, ~x is Ones - x.
FoldOnce(sum) == (sum \div (Ones + 1)) + (sum % (Ones + 1))

\* Mutant of csum: the carry of the fold itself is dropped.
csumOneFold(sum) == Ones - (FoldOnce(sum) % (Ones + 1))

csum(sum) ==
  LET once == FoldOnce(sum)
  IN  Ones - ((once + (once \div (Ones + 1))) % (Ones + 1))

\* while (sum>>16)
Folded[sum \in Nat] == IF sum <= Ones THEN sum ELSE Folded[FoldOnce(sum)]

Compute_Checksum_UDP(sum) == Ones - Folded[sum]

\* packet_fillin_random sums over the check fields as the mbuf still has them.
FillIn(old, h) ==
  [ip |-> h.ip, ipCheck |-> csum(h.ip + old.ipCheck),
   udp |-> h.udp, udpCheck |-> Compute_Checksum_UDP(h.udp + old.udpCheck)]

PacketsFor(m) == IF file THEN FilePackets ELSE {FillIn(content[m], h) : h \in Headers}

-----------------------------------------------------------------------------
\* pktgen_setup_packets: fill all that the pool will give, then free it all.
Taken(m) == [pool EXCEPT ![m] = @ - 1]

\* Mutant of Fill: the mbuf goes back as soon as it is filled.
FillFree(m) ==
  /\ pc = "setup"
  /\ pool[m] > 0
  /\ \E p \in PacketsFor(m) : content' = [content EXCEPT ![m] = p]
  /\ UNCHANGED <<thread, file, repeat, pc, pool, chain, table, pos, ring, curRepeat, rounds, lost>>

Fill(m) ==
  /\ pc = "setup"
  /\ pool[m] > 0
  /\ pool' = Taken(m)
  /\ \E p \in PacketsFor(m) : content' = [content EXCEPT ![m] = p]
  /\ chain' = chain \cup {m}
  /\ UNCHANGED <<thread, file, repeat, pc, table, pos, ring, curRepeat, rounds, lost>>

\* Mutant of EndOfFile: the mbuf is chained with nothing in it.
EndOfFileChained(m) ==
  /\ pc = "setup"
  /\ file
  /\ pool[m] > 0
  /\ curRepeat < repeat
  /\ pool' = Taken(m)
  /\ curRepeat' = curRepeat + 1
  /\ chain' = chain \cup {m}
  /\ UNCHANGED <<thread, file, repeat, pc, table, pos, ring, content, rounds, lost>>

\* pcap_next has no packet: the mbuf just allocated is in no chain.
EndOfFile(m) ==
  /\ pc = "setup"
  /\ file
  /\ pool[m] > 0
  /\ curRepeat < repeat
  /\ pool' = Taken(m)
  /\ curRepeat' = curRepeat + 1
  /\ lost' = lost \cup {m}
  /\ UNCHANGED <<thread, file, repeat, pc, chain, table, pos, ring, content, rounds>>

FilePlayed ==
  /\ pc = "setup"
  /\ file
  /\ InPool > 0
  /\ curRepeat >= repeat
  /\ pc' = "exit"
  /\ UNCHANGED <<thread, file, repeat, pool, chain, table, pos, ring, content, curRepeat, rounds, lost>>

\* Mutants of SetupDone: the chain is not freed; rounds is not reset.
SetupDoneKept ==
  /\ pc = "setup"
  /\ InPool = 0
  /\ chain' = {}
  /\ rounds' = 0
  /\ pc' = "get"
  /\ UNCHANGED <<thread, file, repeat, pool, table, pos, ring, content, curRepeat, lost>>

SetupDoneRound ==
  /\ pc = "setup"
  /\ InPool = 0
  /\ pool' = [m \in Mbufs |-> IF m \in chain THEN 1 ELSE 0]
  /\ chain' = {}
  /\ pc' = "get"
  /\ UNCHANGED <<thread, file, repeat, table, pos, ring, content, curRepeat, rounds, lost>>

SetupDone ==
  /\ pc = "setup"
  /\ InPool = 0
  /\ pool' = [m \in Mbufs |-> IF m \in chain THEN 1 ELSE 0]
  /\ chain' = {}
  /\ rounds' = 0
  /\ pc' = "get"
  /\ UNCHANGED <<thread, file, repeat, table, pos, ring, content, curRepeat, lost>>

-----------------------------------------------------------------------------
\* How often an mbuf is in a sequence.
Copies(m, s) == Cardinality({k \in 1 .. Len(s) : s[k] = m})

\* rte_mempool_get_bulk gives all or nothing.
GetBulk ==
  /\ pc = "get"
  /\ \E s \in [1 .. Burst -> Mbufs] :
       /\ \A m \in Mbufs : Copies(m, s) <= pool[m]
       /\ table' = s
       /\ pool' = [m \in Mbufs |-> pool[m] - Copies(m, s)]
  /\ pos' = 0
  /\ pc' = IF thread = "throughput" THEN "period" ELSE "send"
  /\ UNCHANGED <<thread, file, repeat, chain, ring, content, curRepeat, rounds, lost>>

GetFails ==
  /\ pc = "get"
  /\ InPool < Burst
  /\ pc' = "exit"
  /\ UNCHANGED <<thread, file, repeat, pool, chain, table, pos, ring, content, curRepeat, rounds, lost>>

\* rte_eth_tx_burst takes what the ring has room for.
Fitting == LET left == Burst - pos
               room == TxDesc - Len(ring)
           IN IF left <= room THEN left ELSE room

\* Mutants of TxBurst: what the device did not take is forgotten; the place
\* in the table is set, not advanced.
TxBurstOnce ==
  /\ pc = "send"
  /\ pos < Burst
  /\ Fitting > 0
  /\ ring' = ring \o SubSeq(table, pos + 1, pos + Fitting)
  /\ pos' = Burst
  /\ UNCHANGED <<thread, file, repeat, pc, pool, chain, table, content, curRepeat, rounds, lost>>

TxBurstSet ==
  /\ pc = "send"
  /\ pos < Burst
  /\ Fitting > 0
  /\ ring' = ring \o SubSeq(table, pos + 1, pos + Fitting)
  /\ pos' = Fitting
  /\ UNCHANGED <<thread, file, repeat, pc, pool, chain, table, content, curRepeat, rounds, lost>>

TxBurst ==
  /\ pc = "send"
  /\ pos < Burst
  /\ Fitting > 0
  /\ ring' = ring \o SubSeq(table, pos + 1, pos + Fitting)
  /\ pos' = pos + Fitting
  /\ UNCHANGED <<thread, file, repeat, pc, pool, chain, table, content, curRepeat, rounds, lost>>

CountsRounds == thread \in {"pcap", "sendnumpkts"}

\* What a thread does after a burst.
AfterBurst ==
  CASE thread = "fps" -> "setup"
    [] thread = "throughput" -> "period"
    [] CountsRounds /\ rounds + 1 < Rounds -> "get"
    [] CountsRounds /\ rounds + 1 >= Rounds -> IF thread = "pcap" THEN "setup" ELSE "done"

\* Mutant of BurstSent: the application frees what it has sent.
BurstSentFree ==
  /\ pc = "send"
  /\ pos = Burst
  /\ pc' = AfterBurst
  /\ rounds' = IF CountsRounds THEN rounds + 1 ELSE rounds
  /\ pool' = [m \in Mbufs |-> pool[m] + Copies(m, table)]
  /\ table' = IF thread = "throughput" THEN table ELSE <<>>
  /\ pos' = 0
  /\ UNCHANGED <<thread, file, repeat, chain, ring, content, curRepeat, lost>>

BurstSent ==
  /\ pc = "send"
  /\ pos = Burst
  /\ pc' = AfterBurst
  /\ rounds' = IF CountsRounds THEN rounds + 1 ELSE rounds
  /\ table' = IF thread = "throughput" THEN table ELSE <<>>
  /\ pos' = 0
  /\ UNCHANGED <<thread, file, repeat, pool, chain, ring, content, curRepeat, lost>>

\* app_thread_throughput sends the table it got until the period is over.
PeriodGoesOn ==
  /\ pc = "period"
  /\ pc' = "send"
  /\ UNCHANGED <<thread, file, repeat, pool, chain, table, pos, ring, content, curRepeat, rounds, lost>>

PeriodEnds ==
  /\ pc = "period"
  /\ pc' = "get"
  /\ table' = <<>>
  /\ UNCHANGED <<thread, file, repeat, pool, chain, pos, ring, content, curRepeat, rounds, lost>>

\* The device has sent the packet at the head of the ring.
Device ==
  /\ ring # <<>>
  /\ ring' = Tail(ring)
  /\ pool' = IF InPool < PoolSize THEN [pool EXCEPT ![Head(ring)] = @ + 1] ELSE pool
  /\ UNCHANGED <<thread, file, repeat, pc, chain, table, pos, content, curRepeat, rounds, lost>>

SetupPackets ==
  \/ \E m \in Mbufs : Fill(m) \/ EndOfFile(m)
  \/ FilePlayed
  \/ SetupDone

Lcore ==
  \/ Start
  \/ SetupPackets
  \/ GetBulk
  \/ GetFails
  \/ TxBurst
  \/ BurstSent
  \/ PeriodGoesOn
  \/ PeriodEnds

Finished ==
  /\ pc \in {"exit", "done"}
  /\ ring = <<>>
  /\ UNCHANGED vars

Next == Lcore \/ Device \/ Finished

Spec == Init /\ [][Next]_vars

\* The lcore runs, and the device sends what it was given.
FairSpec == Spec /\ WF_vars(Lcore) /\ WF_vars(Device)

-----------------------------------------------------------------------------
TypeOK ==
  /\ thread \in Threads
  /\ repeat \in Repeats
  /\ pc \in {"start", "setup", "get", "period", "send", "exit", "done"}
  /\ pool \in [Mbufs -> 0 .. PoolSize] /\ InPool <= PoolSize
  /\ chain \subseteq Mbufs /\ lost \subseteq Mbufs
  /\ table \in Seq(Mbufs) /\ Len(table) \in {0, Burst}
  /\ pos \in 0 .. Burst
  /\ ring \in Seq(Mbufs) /\ Len(ring) <= TxDesc
  /\ content \in [Mbufs -> [ip : Nat, ipCheck : 0 .. Ones, udp : Nat, udpCheck : 0 .. Ones]]
  /\ curRepeat \in 0 .. repeat
  /\ rounds \in 0 .. Rounds

\* The part of the table that is still the application's.
Pending == SubSeq(table, pos + 1, Len(table))
One(b) == IF b THEN 1 ELSE 0

\* Where a burst is got for every send, an mbuf is in one place only: in the
\* pool, in the chain being filled, in the table before it is sent, in the
\* ring; and one is lost each time the file starts again, with the mbuf that
\* was allocated for the packet the file did not have.
Conserved ==
  thread # "throughput" =>
    /\ \A m \in Mbufs :
         pool[m] + One(m \in chain) + Copies(m, Pending) + Copies(m, ring)
           + One(m \in lost) = 1
    /\ Cardinality(lost) = curRepeat

\* Packets that go out have been filled in, in every thread: an mbuf whose
\* packet the file did not have is never sent.
SentFilled ==
  \A k \in 1 .. Len(ring) :
    LET p == content[ring[k]]
    IN  IF file THEN p \in FilePackets ELSE [ip |-> p.ip, udp |-> p.udp] \in Headers

\* The words of a packet, its check field included, add up to all ones.
Verifies(p) == Folded[p.ip + p.ipCheck] = Ones /\ Folded[p.udp + p.udpCheck] = Ones

\* The check fields are not cleared before the sums are taken, and the packet
\* has not been cleared either: in the threads that set their packets up once,
\* what goes out verifies all the same, because every mbuf of the new pool is
\* filled in just once.  (app_thread_fps fills them in again.)
ChecksumsRight ==
  ~file /\ thread \in {"throughput", "sendnumpkts"} =>
    \A k \in 1 .. Len(ring) : Verifies(content[ring[k]])

\* Without a file, a thread that gets a burst for every send always gets it:
\* whatever the device has not yet sent, the pool has a burst left.
NeverStarved == ~file /\ thread \in {"fps", "sendnumpkts"} => pc # "exit"

\* A packet is not overwritten between the time the device takes it and the
\* time it is sent, though the next set-up runs meanwhile.
Untouched == [][\A k \in 1 .. Len(ring) : content'[ring[k]] = content[ring[k]]]_vars

\* The set-up comes to an end even though the device returns mbufs while it
\* runs and the file may have no packets at all.
SetupEnds == pc = "setup" ~> pc # "setup"

\* Every burst is handed to the device in the end.
SendEnds == pc = "send" ~> pc # "send"
=============================================================================
