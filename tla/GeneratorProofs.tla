--------------------------- MODULE GeneratorProofs ---------------------------
(***************************************************************************)
(* The generator: first its report, for any set of lcores, any shares and   *)
(* any width of the total.  A flag is up only when every lcore of an        *)
(* earlier queue has stored its sum and passed on; that alone makes the     *)
(* load and the store of the sum one step, and the times complete.          *)
(*                                                                          *)
(* Then the process, in which the lcores' bursts leave the report alone, so *)
(* that what holds of the report holds of it; and its packets: what goes    *)
(* out is filled in, because every mbuf that can be got, or sent, or is     *)
(* being sent is, and is not overwritten before it is out, because its mbuf *)
(* is nowhere else.  Its checksums are right where every mbuf is filled in  *)
(* once, in a new pool, because folding a sum leaves it the same in one's   *)
(* complement.                                                              *)
(*                                                                          *)
(* Last, what is left to do: somebody always has the flag, and the report,  *)
(* the set-up, a send and the rounds each use up a natural number.          *)
(***************************************************************************)
EXTENDS Generator, TLAPS, FiniteSetTheorems, WellFoundedInduction

\* A flag that is up has been passed on by every earlier queue.
FlagsFollow ==
  \A q \in 0 .. MaxLcore : report_flag[q] # 0 =>
    \A l \in Lcores : QueueOf(l) < q => at[l] \in Passed

\* An lcore past the wait has seen its flag.
FlagSeen ==
  \A l \in Lcores : at[l] \in Holding \cup Passed => report_flag[QueueOf(l)] # 0

\* What was loaded is still the total.
LoadedIsTotal == \A l \in Lcores : at[l] = "store" => seen[l] = overall_total_pkts

Unraised == \A l \in Lcores : at[l] = "raise" => overall_total_cycle < total_cycle[l]
Raised ==
  \A l \in Lcores :
    at[l] \in {"load", "store", "pass"} \cup Passed => total_cycle[l] <= overall_total_cycle

ReportInv ==
  /\ ReportTypeOK
  /\ InSuccession(queueid_to_lcoreid)
  /\ FlagsFollow
  /\ FlagSeen
  /\ LoadedIsTotal
  /\ Unraised
  /\ Raised

USE ReportAssumption

LEMMA ModWidth == \A a, b \in Nat : (a + b) % Width \in 0 .. Width - 1
OBVIOUS

\* What the lcores add up are natural numbers.
LEMMA Numbers ==
  ASSUME ReportTypeOK, NEW l \in Lcores
  PROVE  /\ seen[l] \in Nat /\ total_pkts[l] \in Nat /\ overall_total_pkts \in Nat
         /\ total_cycle[l] \in Nat /\ overall_total_cycle \in Nat
<1>1. /\ seen[l] \in 0 .. Width - 1
      /\ total_pkts[l] \in 0 .. Width - 1
      /\ overall_total_pkts \in 0 .. Width - 1
      /\ total_cycle[l] \in Nat /\ overall_total_cycle \in Nat
  BY DEF ReportTypeOK
<1>2. Width \in Nat
  OBVIOUS
<1>3. QED
  BY <1>1, <1>2

\* The queue of an lcore is the one place of the lcore in the table.
LEMMA QueueFound ==
  ASSUME InSuccession(queueid_to_lcoreid), NEW l \in Lcores
  PROVE  /\ QueueOf(l) \in Queues
         /\ queueid_to_lcoreid[QueueOf(l)] = l
<1>1. PICK q \in Queues : queueid_to_lcoreid[q] = l
  BY DEF InSuccession
<1>2. \A r \in Queues : r < q => queueid_to_lcoreid[r] # l
  <2> SUFFICES ASSUME NEW r \in Queues, r < q PROVE queueid_to_lcoreid[r] # l
    OBVIOUS
  <2>1. queueid_to_lcoreid[q] # -1 /\ l \in Int
    BY <1>1
  <2>2. queueid_to_lcoreid[r] < queueid_to_lcoreid[q]
    BY <2>1 DEF InSuccession
  <2>3. QED
    BY <2>2, <2>1, <1>1
<1>3. QED
  BY <1>1, <1>2 DEF QueueOf

\* Queues are handed out in the order of the lcores.
LEMMA QueueOrder ==
  ASSUME InSuccession(queueid_to_lcoreid), NEW k \in Lcores, NEW l \in Lcores
  PROVE  /\ k < l => QueueOf(k) < QueueOf(l)
         /\ QueueOf(k) = QueueOf(l) => k = l
<1>1. /\ QueueOf(k) \in Queues /\ queueid_to_lcoreid[QueueOf(k)] = k
      /\ QueueOf(l) \in Queues /\ queueid_to_lcoreid[QueueOf(l)] = l
  BY QueueFound
<1>2. QueueOf(k) = QueueOf(l) => k = l
  BY <1>1
<1>3. ASSUME k < l, QueueOf(l) < QueueOf(k) PROVE FALSE
  <2>1. k # -1
    OBVIOUS
  <2>2. queueid_to_lcoreid[QueueOf(l)] < queueid_to_lcoreid[QueueOf(k)]
    BY <2>1, <1>1, <1>3 DEF InSuccession
  <2>3. QED
    BY <2>2, <1>1, <1>3
<1>4. QueueOf(k) \in Int /\ QueueOf(l) \in Int
  BY <1>1 DEF Queues
<1>5. QED
  BY <1>2, <1>3, <1>4

\* One lcore at a time is between its flag and the next.
LEMMA Exclusive ==
  ASSUME ReportInv, NEW k \in Lcores, NEW l \in Lcores,
         at[k] \in Holding, at[l] \in Holding
  PROVE  k = l
<1>1. /\ QueueOf(k) \in Queues /\ QueueOf(l) \in Queues
      /\ QueueOf(k) = QueueOf(l) => k = l
  BY QueueFound, QueueOrder DEF ReportInv
<1>2. report_flag[QueueOf(k)] # 0 /\ report_flag[QueueOf(l)] # 0
  BY DEF ReportInv, FlagSeen
<1>3. ~(QueueOf(k) < QueueOf(l)) /\ ~(QueueOf(l) < QueueOf(k))
  BY <1>1, <1>2 DEF ReportInv, FlagsFollow, Queues, Holding, Passed
<1>4. QED
  BY <1>1, <1>3 DEF Queues

LEMMA Initially == ReportInit => ReportInv
<1> SUFFICES ASSUME ReportInit PROVE ReportInv
  OBVIOUS
<1>1. ReportTypeOK
  BY DEF ReportInit, AppInit, ReportTypeOK
<1>2. InSuccession(queueid_to_lcoreid)
  BY DEF ReportInit, AppInit
<1>3. FlagsFollow
  <2> SUFFICES ASSUME NEW q \in 0 .. MaxLcore, report_flag[q] # 0,
                      NEW l \in Lcores, QueueOf(l) < q
               PROVE  FALSE
    BY DEF FlagsFollow
  <2>1. q = 0
    BY DEF ReportInit, AppInit
  <2>2. QueueOf(l) \in Nat
    BY <1>2, QueueFound DEF Queues
  <2>3. QED
    BY <2>1, <2>2
<1>4. FlagSeen /\ LoadedIsTotal /\ Unraised /\ Raised
  BY DEF ReportInit, AppInit, FlagSeen, LoadedIsTotal, Unraised, Raised, Holding, Passed
<1>5. QED
  BY <1>1, <1>2, <1>3, <1>4 DEF ReportInv

\* The table does not change, nor what is found in it.
LEMMA TableKept ==
  ASSUME ReportInv, ReportNext
  PROVE  /\ queueid_to_lcoreid' = queueid_to_lcoreid
         /\ InSuccession(queueid_to_lcoreid)'
         /\ \A l \in Lcores : QueueOf(l)' = QueueOf(l)
<1>1. queueid_to_lcoreid' = queueid_to_lcoreid
  BY DEF ReportNext, Reports, SendDone, Turn, ReadCycle, RaiseCycle, LoadPkts, StorePkts,
         Pass, ReadTime, PrintTotal, Leave
<1>2. QED
  BY <1>1 DEF QueueOf, ReportInv, InSuccession

\* Steps are of one lcore, and no other lcore moves.
StepOf(l) == Reports(l) \/ \E n \in Totals, c \in Cycles : SendDone(l, n, c)

LEMMA TypeKept ==
  ASSUME ReportInv, NEW l \in Lcores, StepOf(l)
  PROVE  ReportTypeOK'
<1>1. CASE \E n \in Totals, c \in Cycles : SendDone(l, n, c)
  BY <1>1 DEF SendDone, GoesTo, ReportInv, ReportTypeOK
<1>2. CASE Turn(l) \/ ReadCycle(l) \/ Leave(l)
  BY <1>2 DEF Turn, ReadCycle, Leave, GoesTo, ReportInv, ReportTypeOK, Holding, Passed
<1>3. CASE RaiseCycle(l)
  BY <1>3 DEF RaiseCycle, GoesTo, ReportInv, ReportTypeOK, Holding
<1>4. CASE LoadPkts(l)
  BY <1>4 DEF LoadPkts, GoesTo, ReportInv, ReportTypeOK, Holding
<1>5. CASE StorePkts(l)
  <2>1. overall_total_pkts' \in 0 .. Width - 1
    <3>1. seen[l] \in Nat /\ total_pkts[l] \in Nat
      BY Numbers DEF ReportInv
    <3>2. overall_total_pkts' = (seen[l] + total_pkts[l]) % Width
      BY <1>5 DEF StorePkts
    <3>3. QED
      BY <3>1, <3>2, ModWidth
  <2>2. QED
    BY <1>5, <2>1 DEF StorePkts, GoesTo, ReportInv, ReportTypeOK, Holding
<1>6. CASE Pass(l)
  BY <1>6 DEF Pass, GoesTo, ReportInv, ReportTypeOK, Passed
<1>7. CASE ReadTime(l)
  BY <1>7 DEF ReadTime, GoesTo, ReportInv, ReportTypeOK, Passed
<1>8. CASE PrintTotal(l)
  BY <1>8 DEF PrintTotal, GoesTo, ReportInv, ReportTypeOK, Passed
<1>9. QED
  BY <1>1, <1>2, <1>3, <1>4, <1>5, <1>6, <1>7, <1>8 DEF StepOf, Reports

\* Flags go up only as the lcore before them passes on, with all earlier flags
\* long up.
LEMMA FlagsKept ==
  ASSUME ReportInv, NEW l \in Lcores, StepOf(l), NEW q \in 0 .. MaxLcore,
         report_flag'[q] # 0, NEW k \in Lcores, QueueOf(k) < q
  PROVE  at'[k] \in Passed
<1>1. /\ QueueOf(k) \in Queues /\ QueueOf(l) \in Queues
      /\ QueueOf(k) = QueueOf(l) => k = l
  BY QueueFound, QueueOrder DEF ReportInv
<1>2. at[k] \in Passed => at'[k] \in Passed
  BY DEF StepOf, Reports, SendDone, Turn, ReadCycle, RaiseCycle, LoadPkts, StorePkts, Pass,
         ReadTime, PrintTotal, Leave, GoesTo, Passed, ReportInv, ReportTypeOK
<1>3. CASE report_flag[q] # 0
  BY <1>2, <1>3 DEF ReportInv, FlagsFollow
<1>4. CASE report_flag[q] = 0
  <2>1. Pass(l)
    BY <1>4 DEF StepOf, Reports, SendDone, Turn, ReadCycle, RaiseCycle, LoadPkts, StorePkts,
                ReadTime, PrintTotal, Leave
  <2>2. q = QueueOf(l) + 1
    BY <1>1, <1>4, <2>1 DEF Pass, ReportInv, ReportTypeOK, Queues
  <2>3. report_flag[QueueOf(l)] # 0
    BY <2>1 DEF Pass, GoesTo, ReportInv, FlagSeen, Holding
  <2>4. CASE k = l
    BY <2>1, <2>4 DEF Pass, GoesTo, Passed, ReportInv, ReportTypeOK
  <2>5. CASE k # l
    <3>1. QueueOf(k) < QueueOf(l)
      BY <1>1, <2>2, <2>5 DEF Queues
    <3>2. QED
      BY <1>1, <1>2, <2>3, <3>1 DEF ReportInv, FlagsFollow, Queues
  <2>6. QED
    BY <2>4, <2>5
<1>5. QED
  BY <1>3, <1>4

LEMMA SeenKept ==
  ASSUME ReportInv, NEW l \in Lcores, StepOf(l), NEW k \in Lcores,
         at'[k] \in Holding \cup Passed
  PROVE  report_flag'[QueueOf(k)] # 0
<1>1. QueueOf(k) \in Queues /\ QueueOf(l) \in Queues
  BY QueueFound DEF ReportInv
<1>2. report_flag[QueueOf(k)] # 0
  <2>1. CASE at[k] \in Holding \cup Passed
    BY <2>1 DEF ReportInv, FlagSeen
  <2>2. CASE at[k] \notin Holding \cup Passed
    BY <2>2 DEF StepOf, Reports, SendDone, Turn, ReadCycle, RaiseCycle, LoadPkts, StorePkts,
                Pass, ReadTime, PrintTotal, Leave, GoesTo, Holding, Passed, ReportInv, ReportTypeOK
  <2>3. QED
    BY <2>1, <2>2
<1>3. report_flag[QueueOf(k)] # 0 => report_flag'[QueueOf(k)] # 0
  <2>1. CASE Pass(l)
    <3>1. /\ report_flag \in [0 .. MaxLcore -> {0, 1}]
          /\ QueueOf(k) \in 0 .. MaxLcore
      BY <1>1 DEF ReportInv, ReportTypeOK, Queues
    <3>2. report_flag' = [report_flag EXCEPT ![QueueOf(l) + 1] = 1]
      BY <2>1 DEF Pass
    <3>3. QED
      BY <3>1, <3>2
  <2>2. CASE ~Pass(l)
    BY <2>2 DEF StepOf, Reports, SendDone, Turn, ReadCycle, RaiseCycle, LoadPkts, StorePkts,
                ReadTime, PrintTotal, Leave
  <2>3. QED
    BY <2>1, <2>2
<1>4. QED
  BY <1>2, <1>3

\* Only the lcore that holds the flag can change the total or the time.
LEMMA SumsKept ==
  ASSUME ReportInv, NEW l \in Lcores, StepOf(l)
  PROVE  LoadedIsTotal' /\ Unraised' /\ Raised'
<1> SUFFICES ASSUME NEW k \in Lcores
             PROVE  /\ at'[k] = "store" => seen'[k] = overall_total_pkts'
                    /\ at'[k] = "raise" => overall_total_cycle' < total_cycle'[k]
                    /\ at'[k] \in {"load", "store", "pass"} \cup Passed =>
                         total_cycle'[k] <= overall_total_cycle'
  BY DEF LoadedIsTotal, Unraised, Raised
<1>1. at[k] \in Holding /\ at[l] \in Holding => k = l
  BY Exclusive
<1>t. /\ total_cycle[k] \in Nat /\ total_cycle[l] \in Nat /\ overall_total_cycle \in Nat
      /\ ReportTypeOK
  BY Numbers DEF ReportInv
<1>i. /\ at[k] = "store" => seen[k] = overall_total_pkts
      /\ at[k] = "raise" => overall_total_cycle < total_cycle[k]
      /\ at[l] = "raise" => overall_total_cycle < total_cycle[l]
      /\ at[k] \in {"load", "store", "pass"} \cup Passed => total_cycle[k] <= overall_total_cycle
  BY DEF ReportInv, LoadedIsTotal, Unraised, Raised
<1>2. CASE \E n \in Totals, c \in Cycles : SendDone(l, n, c)
  BY <1>2, <1>t, <1>i DEF SendDone, GoesTo, ReportTypeOK, Passed
<1>3. CASE Turn(l) \/ Pass(l) \/ ReadTime(l) \/ PrintTotal(l) \/ Leave(l)
  BY <1>3, <1>t, <1>i DEF Turn, Pass, ReadTime, PrintTotal, Leave, GoesTo, ReportTypeOK, Passed
<1>4. CASE ReadCycle(l)
  BY <1>4, <1>t, <1>i DEF ReadCycle, GoesTo, ReportTypeOK, Passed
<1>5. CASE RaiseCycle(l)
  BY <1>5, <1>1, <1>t, <1>i DEF RaiseCycle, GoesTo, ReportTypeOK, Holding, Passed
<1>6. CASE LoadPkts(l)
  BY <1>6, <1>t, <1>i DEF LoadPkts, GoesTo, ReportTypeOK, Passed
<1>7. CASE StorePkts(l)
  BY <1>7, <1>1, <1>t, <1>i DEF StorePkts, GoesTo, ReportTypeOK, Holding, Passed
<1>8. QED
  BY <1>2, <1>3, <1>4, <1>5, <1>6, <1>7 DEF StepOf, Reports

LEMMA InvStep == ReportInv /\ [ReportNext]_reportVars => ReportInv'
<1> SUFFICES ASSUME ReportInv, [ReportNext]_reportVars PROVE ReportInv'
  OBVIOUS
<1>1. CASE UNCHANGED reportVars
  <2>1. ReportTypeOK' /\ InSuccession(queueid_to_lcoreid)'
    BY <1>1 DEF reportVars, ReportInv, ReportTypeOK, InSuccession
  <2>2. \A l \in Lcores : QueueOf(l)' = QueueOf(l)
    BY <1>1 DEF reportVars, QueueOf
  <2>3. FlagsFollow' /\ FlagSeen'
    BY <1>1, <2>2 DEF reportVars, ReportInv, FlagsFollow, FlagSeen
  <2>4. LoadedIsTotal' /\ Unraised' /\ Raised'
    BY <1>1 DEF reportVars, ReportInv, LoadedIsTotal, Unraised, Raised
  <2>5. QED
    BY <2>1, <2>3, <2>4 DEF ReportInv
<1>2. CASE ReportNext
  <2>1. PICK l \in Lcores : StepOf(l)
    BY <1>2 DEF ReportNext, StepOf
  <2>2. InSuccession(queueid_to_lcoreid)' /\ \A k \in Lcores : QueueOf(k)' = QueueOf(k)
    BY <1>2, TableKept
  <2>3. ReportTypeOK'
    BY <2>1, TypeKept
  <2>4. FlagsFollow' /\ FlagSeen'
    BY <2>1, <2>2, FlagsKept, SeenKept DEF FlagsFollow, FlagSeen
  <2>5. LoadedIsTotal' /\ Unraised' /\ Raised'
    BY <2>1, SumsKept
  <2>6. QED
    BY <2>2, <2>3, <2>4, <2>5 DEF ReportInv
<1>3. QED
  BY <1>1, <1>2

LEMMA ReportInvariance == ReportSpec => []ReportInv
BY Initially, InvStep, PTL DEF ReportSpec

\* One lcore at a time adds up.
THEOREM OneAtATime == ReportSpec => []OneReports
<1>1. ReportInv => OneReports
  BY Exclusive DEF OneReports
<1>2. QED
  BY <1>1, ReportInvariance, PTL

\* The printed time is never shorter than that of an lcore whose packets were
\* in the total when it was read.
THEOREM TimesCovered == ReportSpec => []TimeCovers
<1>1. ReportInv => TimeCovers
  BY DEF ReportInv, Raised, TimeCovers, Counted
<1>2. QED
  BY <1>1, ReportInvariance, PTL

-----------------------------------------------------------------------------
(* The report implements Tally: StorePkts is the step that counts.          *)

LEMMA StoreCounts ==
  ASSUME ReportInv, NEW l \in Lcores, StorePkts(l)
  PROVE  Shares!Count(l)
<1>1. at[l] = "store" /\ seen[l] = overall_total_pkts
  BY DEF StorePkts, GoesTo, ReportInv, LoadedIsTotal
<1>2. l \notin Counted
  BY <1>1 DEF Counted, Passed
<1>3. ASSUME NEW k \in Lcores, k < l PROVE k \in Counted
  <2>1. QueueOf(k) < QueueOf(l) /\ QueueOf(l) \in Queues
    BY <1>3, QueueFound, QueueOrder DEF ReportInv
  <2>2. report_flag[QueueOf(l)] # 0
    BY <1>1 DEF ReportInv, FlagSeen, Holding
  <2>3. at[k] \in Passed
    BY <2>1, <2>2 DEF ReportInv, FlagsFollow, Queues
  <2>4. QED
    BY <2>3 DEF Counted
<1>4. Counted' = Counted \cup {l}
  <2>1. at' = [at EXCEPT ![l] = "pass"] /\ at \in [Lcores -> {"send", "wait"} \cup Holding \cup Passed]
    BY DEF StorePkts, GoesTo, ReportInv, ReportTypeOK
  <2>2. QED
    BY <2>1 DEF Counted
<1>5. overall_total_pkts' = (overall_total_pkts + total_pkts[l]) % Width
  BY <1>1 DEF StorePkts
<1>6. UNCHANGED <<total_pkts, prints>>
  BY DEF StorePkts
<1>7. QED
  BY <1>2, <1>3, <1>4, <1>5, <1>6 DEF Shares!Count

\* Every lcore's packets come into the total once, whole and in order, and the
\* prints are totals of whole shares.
THEOREM TallyImplemented == ReportSpec => ImplementsTally
<1>1. ReportInit => Shares!Init
  BY DEF ReportInit, AppInit, Shares!Init, Counted, Passed
<1>2. ReportInv /\ ReportInv' /\ [ReportNext]_reportVars
        => [Shares!Next]_<<total_pkts, Counted, overall_total_pkts, prints>>
  <2> SUFFICES ASSUME ReportInv, ReportInv', [ReportNext]_reportVars
               PROVE  Shares!Next \/ UNCHANGED <<total_pkts, Counted, overall_total_pkts, prints>>
    OBVIOUS
  <2>1. CASE UNCHANGED reportVars
    BY <2>1 DEF reportVars, Counted
  <2>2. CASE ReportNext
    <3>1. PICK l \in Lcores : StepOf(l)
      BY <2>2 DEF ReportNext, StepOf
    <3>t. at \in [Lcores -> {"send", "wait"} \cup Holding \cup Passed]
      BY DEF ReportInv, ReportTypeOK
    <3>2. CASE StorePkts(l)
      BY <3>2, StoreCounts DEF Shares!Next
    <3>3. CASE PrintTotal(l)
      <4>1. at[l] \in Passed /\ Counted' = Counted
        BY <3>3, <3>t DEF PrintTotal, GoesTo, Counted, Passed
      <4>2. l \in Counted
        BY <4>1 DEF Counted
      <4>3. Shares!PrintTotal
        BY <3>3, <4>1, <4>2 DEF PrintTotal, Shares!PrintTotal
      <4>4. QED
        BY <4>3 DEF Shares!Next
    <3>4. CASE \E n \in Totals, c \in Cycles : SendDone(l, n, c)
      <4>1. PICK n \in Totals, c \in Cycles : SendDone(l, n, c)
        BY <3>4
      <4>2. at[l] = "send" /\ Counted' = Counted
        BY <4>1, <3>t DEF SendDone, GoesTo, Counted, Passed
      <4>3. /\ total_pkts \in [Lcores -> 0 .. Width - 1]
            /\ total_pkts' = [total_pkts EXCEPT ![l] = n]
            /\ n \in Nat
        <5>1. Totals \subseteq Nat
          OBVIOUS
        <5>2. QED
          BY <4>1, <5>1 DEF SendDone, ReportInv, ReportTypeOK
      <4>4. total_pkts'[l] = n
        BY <4>3
      <4>5. l \notin Counted
        BY <4>2 DEF Counted, Passed
      <4>6. Shares!Finish(l)
        BY <4>1, <4>2, <4>3, <4>4, <4>5 DEF SendDone, Shares!Finish
      <4>7. QED
        BY <4>6 DEF Shares!Next
    <3>5. CASE Turn(l) \/ ReadCycle(l) \/ RaiseCycle(l) \/ LoadPkts(l)
      BY <3>5, <3>t DEF Turn, ReadCycle, RaiseCycle, LoadPkts, GoesTo, Counted, Passed
    <3>6. CASE Pass(l) \/ ReadTime(l) \/ Leave(l)
      BY <3>6, <3>t DEF Pass, ReadTime, Leave, GoesTo, Counted, Passed
    <3>7. QED
      BY <3>1, <3>2, <3>3, <3>4, <3>5, <3>6 DEF StepOf, Reports
  <2>3. QED
    BY <2>1, <2>2
<1>3. QED
  BY <1>1, <1>2, ReportInvariance, PTL DEF ReportSpec, ImplementsTally, Shares!Spec

-----------------------------------------------------------------------------
(* The process. *)

HIDE ReportAssumption

\* The rounds of a pass are counted to the last.
RoundsInv ==
  /\ thread \in Threads
  /\ rounds \in Nat
  /\ pc = "period" => thread = "throughput"
  /\ pc \in {"get", "send"} /\ CountsRounds => rounds < Rounds
  /\ pc = "done" => thread = "sendnumpkts" /\ rounds = Rounds

LEMMA RoundsInitially == GeneratorInit => RoundsInv
BY DEF GeneratorInit, Init, RoundsInv, Threads

LEMMA RoundsStep == RoundsInv /\ [GeneratorNext]_<<vars, reportVars>> => RoundsInv'
<1> SUFFICES ASSUME RoundsInv, [GeneratorNext]_<<vars, reportVars>> PROVE RoundsInv'
  OBVIOUS
<1> USE PktgenAssumption DEF RoundsInv, CountsRounds, Threads
<1>1. CASE SetupPackets \/ Start
  BY <1>1 DEF SetupPackets, Start, Fill, EndOfFile, FilePlayed, SetupDone
<1>2. CASE GetBulk \/ GetFails \/ TxBurst \/ PeriodGoesOn \/ PeriodEnds \/ Device
  BY <1>2 DEF GetBulk, GetFails, TxBurst, PeriodGoesOn, PeriodEnds, Device
<1>3. CASE BurstSent
  BY <1>3 DEF BurstSent, AfterBurst
<1>4. CASE UNCHANGED vars
  BY <1>4 DEF vars
<1>5. CASE \E l \in Peers : PeerExits(l)
  BY <1>5 DEF PeerExits
<1>6. QED
  BY <1>1, <1>2, <1>3, <1>4, <1>5
     DEF GeneratorNext, Lcore, Finished, SelfDone, PeerDone, ReportStep

\* The process takes the report's steps and no others.
THEOREM GeneratorReports == GeneratorSpec => ReportSpec
<1>1. GeneratorInit => ReportInit
  BY DEF GeneratorInit
<1>2. RoundsInv /\ [GeneratorNext]_<<vars, reportVars>> => [ReportNext]_reportVars
  <2> SUFFICES ASSUME RoundsInv, GeneratorNext PROVE ReportNext \/ UNCHANGED reportVars
    OBVIOUS
  <2>1. CASE SelfDone
    <3>1. Sent \in Totals
      BY <2>1, GeneratorAssumption DEF SelfDone, Sent, RoundsInv
    <3>2. Self \in Lcores
      BY GeneratorAssumption
    <3>3. QED
      BY <2>1, <3>1, <3>2 DEF SelfDone, ReportNext
  <2>2. CASE \E l \in Peers : PeerDone(l)
    BY <2>2, GeneratorAssumption DEF PeerDone, Peers, ReportNext
  <2>3. CASE \E l \in Lcores : ReportStep(l)
    BY <2>3 DEF ReportStep, ReportNext
  <2>4. QED
    BY <2>1, <2>2, <2>3 DEF GeneratorNext, PeerExits
<1>3. QED
  BY <1>1, <1>2, RoundsInitially, RoundsStep, PTL DEF GeneratorSpec, ReportSpec

\* In the process too, one lcore at a time adds up.
THEOREM GeneratorOneAtATime == GeneratorSpec => []OneReports
BY GeneratorReports, OneAtATime, PTL

\* In the process too, the time covers every lcore the total counts.
THEOREM GeneratorTimesCovered == GeneratorSpec => []TimeCovers
BY GeneratorReports, TimesCovered, PTL

\* The generator implements the tally.
THEOREM GeneratorTallies == GeneratorSpec => ImplementsTally
BY GeneratorReports, TallyImplemented, PTL

-----------------------------------------------------------------------------
(***************************************************************************)
(* Checksums.  Folding a sum keeps it what it is in one's complement: the   *)
(* loop of Compute_Checksum_UDP ends with the only number from 1 to Ones    *)
(* that differs from the sum by a multiple of Ones, and adding what it lacks *)
(* to Ones gives Ones.  Two folds, as in csum, do the same for a sum that    *)
(* has twice the width of a word.                                           *)
(***************************************************************************)
\* Every set of naturals has a least element.
LEMMA LeastElement ==
  ASSUME NEW T \in SUBSET Nat, T # {}
  PROVE  \E x \in T : \A y \in T : x <= y
<1> DEFINE R == {p \in Nat \X Nat : p[1] < p[2]}
<1>1. IsWellFoundedOn(OpToRel(<, Nat), Nat)
  BY NatLessThanWellFounded
<1>2. OpToRel(<, Nat) = R
  BY DEF OpToRel
<1>3. IsWellFoundedOn(R, Nat)
  BY <1>1, <1>2
<1> HIDE DEF R
<1>4. PICK x \in T : \A y \in T : ~(<<y, x>> \in R)
  BY <1>3, WFMin
<1>5. \A y \in T : ~(y < x) /\ y \in Nat /\ x \in Nat
  BY <1>4 DEF R
<1> QED
  BY <1>5

LEMMA OnesPositive == Ones \in Nat /\ Ones >= 1
BY PktgenAssumption

\* Sums that differ by multiples of Ones are the same in one's complement.
LEMMA SameSum ==
  ASSUME NEW a \in 1 .. Ones, NEW b \in 1 .. Ones, NEW k \in Int, NEW n \in Int,
         a + k * Ones = b + n * Ones
  PROVE  a = b
<1>1. ASSUME NEW x \in Int, NEW y \in Int, x > y PROVE x * Ones >= y * Ones + Ones
  <2>1. (x - y) * Ones >= Ones
    BY <1>1, OnesPositive
  <2> QED
    BY <1>1, <2>1, OnesPositive
<1>2. k = n
  <2>1. CASE k > n
    BY <1>1, <2>1, OnesPositive
  <2>2. CASE n > k
    BY <1>1, <2>2, OnesPositive
  <2> QED
    BY <2>1, <2>2
<1> QED
  BY <1>2, OnesPositive

LEMMA Division ==
  ASSUME NEW n \in Nat, NEW d \in Nat, d >= 1
  PROVE  n \div d \in Nat /\ n % d \in 0 .. d - 1 /\ n = d * (n \div d) + (n % d)
<1>1. n % d \in 0 .. d - 1 /\ n \div d \in Int
  OBVIOUS
<1>2. n = d * (n \div d) + (n % d)
  BY Z3
<1>3. n \div d >= 0
  BY Z3
<1> QED
  BY <1>1, <1>2, <1>3

\* Division by the number of words of a width, 2^16.
LEMMA WordDivision ==
  ASSUME NEW n \in Nat
  PROVE  /\ n \div (Ones + 1) \in Nat
         /\ n % (Ones + 1) \in 0 .. Ones
         /\ n = (Ones + 1) * (n \div (Ones + 1)) + (n % (Ones + 1))
<1>1. PICK d \in Nat : d = Ones + 1 /\ d >= 1
  BY OnesPositive
<1>2. n \div d \in Nat /\ n % d \in 0 .. d - 1 /\ n = d * (n \div d) + (n % d)
  BY <1>1, Division
<1>3. d - 1 = Ones
  BY <1>1, OnesPositive
<1> QED
  BY <1>1, <1>2, <1>3

LEMMA Remainder ==
  ASSUME NEW d \in Nat, d >= 1, NEW n \in Nat, NEW q \in Nat, NEW r \in 0 .. d - 1,
         n = d * q + r
  PROVE  n % d = r
<1>1. PICK p \in Nat, t \in 0 .. d - 1 : n % d = t /\ n = d * p + t
  <2>1. n \div d \in Nat /\ n % d \in 0 .. d - 1 /\ n = d * (n \div d) + (n % d)
    BY Division
  <2> QED
    BY <2>1
<1>2. ASSUME NEW x \in Nat, NEW y \in Nat, x > y PROVE d * x >= d * y + d
  <2>1. d * (x - y) >= d
    BY <1>2
  <2> QED
    BY <1>2, <2>1
<1>3. p = q
  <2>1. CASE p > q
    BY <1>1, <1>2, <2>1
  <2>2. CASE q > p
    BY <1>1, <1>2, <2>2
  <2> QED
    BY <1>1, <2>1, <2>2
<1>4. t = r
  BY <1>1, <1>3
<1> QED
  BY <1>1, <1>4

LEMMA FoldOnceShort ==
  ASSUME NEW n \in Nat
  PROVE  /\ FoldOnce(n) \in Nat
         /\ n = FoldOnce(n) + (n \div (Ones + 1)) * Ones
         /\ n > Ones => FoldOnce(n) \in 1 .. n - 1
<1> DEFINE q == n \div (Ones + 1)
           r == n % (Ones + 1)
<1>1. q \in Nat /\ r \in 0 .. Ones /\ n = (Ones + 1) * q + r
  BY WordDivision
<1>2. FoldOnce(n) = q + r
  BY DEF FoldOnce
<1> HIDE DEF q, r
<1>3. (Ones + 1) * q = q * Ones + q
  BY <1>1, OnesPositive
<1>4. q * Ones \in Nat /\ (q >= 1 => q * Ones >= 1)
  BY <1>1, OnesPositive
<1>5. n > Ones => q >= 1
  BY <1>1, <1>3, OnesPositive
<1>6. n = FoldOnce(n) + q * Ones
  BY <1>1, <1>2, <1>3, <1>4
<1>7. FoldOnce(n) \in Nat /\ (n > Ones => FoldOnce(n) \in 1 .. n - 1)
  BY <1>1, <1>2, <1>4, <1>5, <1>6, OnesPositive
<1> QED
  BY <1>6, <1>7 DEF q

-----------------------------------------------------------------------------
\* What Folded computes: the one number from 1 to Ones that differs from n by a
\* multiple of Ones.
Same(n, v) == \E k \in Nat : n = v + k * Ones
Rest(n) == IF n = 0 THEN 0 ELSE CHOOSE v \in 1 .. Ones : Same(n, v)

LEMMA RestIs ==
  ASSUME NEW n \in Nat \ {0}
  PROVE  Rest(n) \in 1 .. Ones /\ Same(n, Rest(n))
<1>0. PICK p \in Nat : p = n - 1
  OBVIOUS
<1>1. PICK q \in Nat, r \in 0 .. Ones - 1 : p = Ones * q + r
  BY Division, OnesPositive
<1>2. r + 1 \in 1 .. Ones /\ n = (r + 1) + q * Ones
  BY <1>0, <1>1, OnesPositive
<1>3. \E v \in 1 .. Ones : Same(n, v)
  BY <1>1, <1>2 DEF Same
<1> QED
  BY <1>3 DEF Rest

LEMMA RestOnly ==
  ASSUME NEW n \in Nat, NEW v \in 1 .. Ones, NEW k \in Nat, n = v + k * Ones
  PROVE  Rest(n) = v
<1>1. k * Ones >= 0
  BY OnesPositive
<1>2. n \in Nat \ {0}
  BY <1>1, OnesPositive
<1>3. Rest(n) \in 1 .. Ones /\ Same(n, Rest(n))
  BY <1>2, RestIs
<1>4. PICK i \in Nat : n = Rest(n) + i * Ones
  BY <1>3 DEF Same
<1> QED
  BY <1>3, <1>4, SameSum

\* Folding once does not change it.
LEMMA RestFolded ==
  ASSUME NEW n \in Nat
  PROVE  Rest(n) = IF n <= Ones THEN n ELSE Rest(FoldOnce(n))
<1>1. CASE n = 0
  BY <1>1, OnesPositive DEF Rest
<1>2. CASE n \in 1 .. Ones
  <2>1. n = n + 0 * Ones
    BY OnesPositive
  <2> QED
    BY <1>2, <2>1, RestOnly
<1>3. CASE n > Ones
  <2> DEFINE f == FoldOnce(n)
             q == n \div (Ones + 1)
  <2>1. f \in 1 .. n - 1 /\ f \in Nat /\ n = f + q * Ones /\ q \in Nat
    BY <1>3, FoldOnceShort, WordDivision, OnesPositive
  <2> HIDE DEF f, q
  <2>2. Rest(f) \in 1 .. Ones /\ Same(f, Rest(f))
    BY <2>1, RestIs
  <2>3. PICK k \in Nat : f = Rest(f) + k * Ones
    BY <2>2 DEF Same
  <2>4. k + q \in Nat /\ n = Rest(f) + (k + q) * Ones
    BY <2>1, <2>2, <2>3, OnesPositive
  <2>5. Rest(n) = Rest(f)
    BY <2>2, <2>4, RestOnly
  <2> QED
    BY <1>3, <2>5, OnesPositive DEF f
<1> QED
  BY <1>1, <1>2, <1>3, OnesPositive

\* The while loop ends, and with that number.
LEMMA FoldedIs ==
  ASSUME NEW n \in Nat
  PROVE  Folded[n] = Rest(n)
<1> DEFINE Loop(g) == g = [m \in Nat |-> IF m <= Ones THEN m ELSE g[FoldOnce(m)]]
           R == [m \in Nat |-> Rest(m)]
<1>1. Loop(R)
  <2>1. ASSUME NEW m \in Nat PROVE Rest(m) = IF m <= Ones THEN m ELSE R[FoldOnce(m)]
    BY RestFolded, FoldOnceShort
  <2> QED
    BY <2>1
<1>2. Loop(Folded)
  BY <1>1 DEF Folded
<1>3. \A m \in Nat : Folded[m] = IF m <= Ones THEN m ELSE Folded[FoldOnce(m)]
  BY <1>2
<1> DEFINE Wrong == {m \in Nat : Folded[m] # Rest(m)}
<1>4. ASSUME Wrong # {} PROVE FALSE
  <2>1. PICK m \in Wrong : \A k \in Wrong : m <= k
    BY <1>4, LeastElement
  <2>2. CASE m <= Ones
    BY <1>3, <2>1, <2>2, RestFolded
  <2>3. CASE m > Ones
    <3>1. FoldOnce(m) \in 1 .. m - 1
      BY <2>1, <2>3, FoldOnceShort
    <3>2. FoldOnce(m) \in Nat /\ FoldOnce(m) \notin Wrong
      BY <2>1, <3>1
    <3> QED
      BY <1>3, <2>1, <2>3, <3>2, RestFolded, OnesPositive
  <2> QED
    BY <2>1, <2>2, <2>3, OnesPositive
<1> QED
  BY <1>4

-----------------------------------------------------------------------------
(* What the two checksums are good for. *)
LEMMA UdpVerifies ==
  ASSUME NEW s \in Nat
  PROVE  /\ Compute_Checksum_UDP(s) \in 0 .. Ones
         /\ Folded[s + Compute_Checksum_UDP(s)] = Ones
<1> DEFINE c == Compute_Checksum_UDP(s)
<1>1. c = Ones - Rest(s)
  BY FoldedIs DEF Compute_Checksum_UDP
<1>2. PICK k \in Nat : s = Rest(s) + k * Ones /\ Rest(s) \in 0 .. Ones
  <2>1. CASE s = 0
    <3>1. 0 = 0 + 0 * Ones
      BY OnesPositive
    <3> QED
      BY <2>1, <3>1, OnesPositive DEF Rest
  <2>2. CASE s # 0
    BY <2>2, RestIs DEF Same
  <2> QED
    BY <2>1, <2>2
<1> HIDE DEF c
<1>3. c \in 0 .. Ones /\ s + c = Ones + k * Ones
  BY <1>1, <1>2, OnesPositive
<1>4. PICK u \in Nat : u = s + c
  BY <1>3
<1>5. Rest(u) = Ones
  BY <1>3, <1>4, RestOnly, OnesPositive
<1> QED
  BY <1>3, <1>4, <1>5, FoldedIs DEF c

LEMMA CsumRange ==
  ASSUME NEW s \in Nat
  PROVE  csum(s) \in 0 .. Ones
<1>1. FoldOnce(s) \in Nat
  BY FoldOnceShort
<1>2. FoldOnce(s) \div (Ones + 1) \in Nat
  BY <1>1, WordDivision
<1>3. (FoldOnce(s) + (FoldOnce(s) \div (Ones + 1))) % (Ones + 1) \in 0 .. Ones
  <2>1. FoldOnce(s) + (FoldOnce(s) \div (Ones + 1)) \in Nat
    BY <1>1, <1>2
  <2> QED
    BY <2>1, WordDivision
<1> QED
  BY <1>3, OnesPositive DEF csum

\* Two folds are enough for a sum of two words' width.
LEMMA IpVerifies ==
  ASSUME NEW s \in Nat, s < (Ones + 1) * (Ones + 1)
  PROVE  csum(s) \in 0 .. Ones /\ Folded[s + csum(s)] = Ones
<1>1. PICK W \in Nat : W = Ones + 1
  BY OnesPositive
<1>2. PICK q \in Nat, r \in 0 .. Ones : s \div W = q /\ s % W = r /\ s = W * q + r
  BY <1>1, WordDivision
<1>3. PICK f \in Nat : f = FoldOnce(s) /\ f = q + r
  BY <1>1, <1>2 DEF FoldOnce
<1>4. s = f + q * Ones
  <2>1. W * q = q * Ones + q
    BY <1>1, OnesPositive
  <2> QED
    BY <1>2, <1>3, <2>1, OnesPositive
<1>5. q <= Ones
  <2>1. SUFFICES ASSUME q >= W PROVE FALSE
    BY <1>1, OnesPositive
  <2>2. PICK j \in Nat : q = W + j
    BY <2>1
  <2>3. W * q = W * W + W * j /\ W * j \in Nat /\ W * W \in Nat
    BY <2>2
  <2>4. s < W * W
    BY <1>1
  <2> QED
    BY <1>2, <2>3, <2>4
<1>6. PICK p \in Nat, t \in 0 .. Ones : f \div W = p /\ f % W = t /\ f = W * p + t
  BY <1>1, WordDivision
<1>7. p = 0 \/ p = 1
  <2>1. SUFFICES ASSUME p >= 2 PROVE FALSE
    OBVIOUS
  <2>2. PICK j \in Nat : p = 2 + j
    BY <2>1
  <2>3. W * p = 2 * W + W * j /\ W * j \in Nat
    BY <2>2
  <2>4. f <= 2 * Ones
    BY <1>2, <1>3, <1>5, OnesPositive
  <2> QED
    BY <1>1, <1>6, <2>3, <2>4, OnesPositive
<1>8. W * p = p * Ones + p
  BY <1>1, OnesPositive
<1>9. t + p \in 0 .. Ones
  <2>1. CASE p = 0
    BY <1>6, <2>1, OnesPositive
  <2>2. CASE p = 1
    <3>1. W * p = W
      BY <2>2
    <3> QED
      BY <1>1, <1>2, <1>3, <1>5, <1>6, <2>2, <3>1, OnesPositive
  <2> QED
    BY <1>7, <2>1, <2>2
<1>10. PICK x \in Nat : x = f + p
  OBVIOUS
<1>11. x % W = t + p
  <2>1. x = W * p + (t + p)
    BY <1>6, <1>10
  <2>2. t + p \in 0 .. W - 1 /\ W >= 1
    BY <1>1, <1>9, OnesPositive
  <2>3. PICK v \in 0 .. W - 1 : v = t + p
    BY <2>2
  <2> QED
    BY <2>1, <2>2, <2>3, Remainder
<1>12. csum(s) = Ones - (t + p)
  BY <1>1, <1>3, <1>6, <1>10, <1>11 DEF csum
<1>13. csum(s) \in 0 .. Ones
  BY <1>9, <1>12, OnesPositive
<1>14. PICK u \in Nat : u = s + csum(s)
  BY <1>13, OnesPositive
<1>15. PICK k \in Nat : k = q + p
  OBVIOUS
<1>16. u = Ones + k * Ones
  <2>1. k * Ones = q * Ones + p * Ones /\ q * Ones \in Nat /\ p * Ones \in Nat
    BY <1>15, OnesPositive
  <2> QED
    BY <1>4, <1>6, <1>8, <1>12, <1>14, <2>1, OnesPositive
<1>17. Rest(u) = Ones
  BY <1>16, RestOnly, OnesPositive
<1> QED
  BY <1>13, <1>14, <1>17, FoldedIs

-----------------------------------------------------------------------------
(* What goes out has been filled in, and where every mbuf is filled once,   *)
(* from a pool that is new, the checksums are right.                        *)

SetUpOnce == ~file /\ thread \in {"throughput", "sendnumpkts"}

FilledIn(m) ==
  /\ IF file THEN content[m] \in FilePackets
             ELSE [ip |-> content[m].ip, udp |-> content[m].udp] \in Headers
  /\ SetUpOnce => Verifies(content[m])

\* Until the set-up is over nothing has been sent, and what is still in the
\* pool is as it was made.
FreshInv ==
  SetUpOnce /\ pc \in {"start", "setup"} =>
    /\ table = <<>> /\ ring = <<>>
    /\ \A m \in Mbufs : pool[m] > 0 => pool[m] = 1 /\ content[m] = NoPacket

\* Once the set-up is over, every mbuf of the pool is filled; so is what is
\* chained, got or handed to the device, at any time.
FilledInv ==
  /\ DOMAIN content = Mbufs
  /\ pool \in [Mbufs -> Int]
  /\ chain \subseteq Mbufs
  /\ table \in Seq(Mbufs)
  /\ ring \in Seq(Mbufs)
  /\ pos \in Nat
  /\ pc \in {"period", "send"} => Len(table) = Burst
  /\ \A m \in chain : FilledIn(m)
  /\ \A k \in 1 .. Len(table) : FilledIn(table[k])
  /\ \A k \in 1 .. Len(ring) : FilledIn(ring[k])
  /\ pc \in {"get", "period", "send"} => \A m \in Mbufs : pool[m] > 0 => FilledIn(m)

LEMMA FilledInitially == GeneratorInit => FilledInv /\ FreshInv
BY DEF GeneratorInit, Init, FilledInv, FreshInv

LEMMA FreshStep ==
  RoundsInv /\ FilledInv /\ FreshInv /\ [GeneratorNext]_<<vars, reportVars>> => FreshInv'
<1> SUFFICES ASSUME RoundsInv, FilledInv, FreshInv, [GeneratorNext]_<<vars, reportVars>>
             PROVE  FreshInv'
  OBVIOUS
<1>1. CASE \E m \in Mbufs : Fill(m)
  <2>1. PICK m \in Mbufs : Fill(m)
    BY <1>1
  <2>2. /\ UNCHANGED <<thread, file, pc, table, ring>>
        /\ pool' = [pool EXCEPT ![m] = @ - 1] /\ pool \in [Mbufs -> Int]
        /\ \A k \in Mbufs : k # m => content'[k] = content[k]
    BY <2>1 DEF Fill, Taken, FilledInv
  <2>3. \A k \in Mbufs : k # m => pool'[k] = pool[k]
    BY <2>2
  <2>4. SetUpOnce /\ pc \in {"start", "setup"} => ~(pool'[m] > 0)
    BY <2>1, <2>2 DEF FreshInv, Fill
  <2> QED
    BY <2>2, <2>3, <2>4 DEF FreshInv, SetUpOnce
<1>2. CASE Start \/ UNCHANGED vars
  BY <1>2 DEF Start, vars, FreshInv, SetUpOnce
<1>3. CASE FilePlayed \/ SetupDone \/ GetBulk \/ GetFails \/ PeriodGoesOn \/ PeriodEnds
        \/ (\E m \in Mbufs : EndOfFile(m)) \/ \E l \in Peers : PeerExits(l)
  BY <1>3 DEF FilePlayed, SetupDone, GetBulk, GetFails, PeriodGoesOn, PeriodEnds, EndOfFile,
              PeerExits, FreshInv, SetUpOnce
<1>4. CASE TxBurst \/ Device
  BY <1>4 DEF TxBurst, Device, FreshInv, SetUpOnce
<1>5. CASE BurstSent
  <2>1. SetUpOnce => pc' \notin {"start", "setup"} /\ UNCHANGED <<thread, file>>
    BY <1>5, PktgenAssumption DEF BurstSent, AfterBurst, CountsRounds, RoundsInv, SetUpOnce
  <2>2. SetUpOnce' => SetUpOnce
    BY <1>5 DEF BurstSent, SetUpOnce
  <2> QED
    BY <2>1, <2>2 DEF FreshInv
<1> QED
  BY <1>1, <1>2, <1>3, <1>4, <1>5
     DEF GeneratorNext, Lcore, SetupPackets, Finished, SelfDone, PeerDone, ReportStep

\* Over a packet that is still empty the two sums are of the headers alone.
LEMMA FillVerifies ==
  ASSUME NEW h \in Headers
  PROVE  Verifies(FillIn(NoPacket, h))
<1>1. h.ip \in Nat /\ h.udp \in Nat /\ h.ip < (Ones + 1) * (Ones + 1)
  BY PktgenAssumption
<1>2. h.ip + NoPacket.ipCheck = h.ip /\ h.udp + NoPacket.udpCheck = h.udp
  BY <1>1 DEF NoPacket
<1> QED
  BY <1>1, <1>2, IpVerifies, UdpVerifies DEF FillIn, Verifies

\* An mbuf is in a sequence as often as a natural number says, and once at
\* least if it is at some place of it.
LEMMA CopiesCount ==
  ASSUME NEW s, Len(s) \in Nat, NEW m
  PROVE  /\ Copies(m, s) \in Nat
         /\ \A k \in 1 .. Len(s) : s[k] = m => Copies(m, s) > 0
<1> DEFINE P == {k \in 1 .. Len(s) : s[k] = m}
<1>1. IsFiniteSet(1 .. Len(s))
  BY FS_Interval
<1>2. IsFiniteSet(P)
  BY <1>1, FS_Subset
<1>3. Cardinality(P) \in Nat /\ (Cardinality(P) = 0 <=> P = {})
  BY <1>2, FS_CardinalityType, FS_EmptySet
<1>4. Copies(m, s) = Cardinality(P)
  BY DEF Copies
<1>5. ASSUME NEW k \in 1 .. Len(s), s[k] = m PROVE Copies(m, s) > 0
  <2>1. k \in P
    BY <1>5
  <2>2. QED
    BY <2>1, <1>3, <1>4
<1>6. QED
  BY <1>3, <1>4, <1>5

LEMMA FillFills ==
  ASSUME FilledInv, FreshInv, NEW m \in Mbufs, Fill(m)
  PROVE  FilledInv'
<1>1. PICK p \in PacketsFor(m) : content' = [content EXCEPT ![m] = p]
  BY DEF Fill
<1>2. DOMAIN content' = Mbufs /\ content'[m] = p
      /\ \A k \in Mbufs : k # m => content'[k] = content[k]
  BY <1>1 DEF FilledInv
<1>3. FilledIn(m)'
  <2>1. CASE file
    BY <2>1, <1>2 DEF FilledIn, PacketsFor, Fill, SetUpOnce
  <2>2. CASE ~file
    <3>1. PICK h \in Headers : p = FillIn(content[m], h)
      BY <2>2 DEF PacketsFor
    <3>2. p.ip = h.ip /\ p.udp = h.udp
      BY <3>1 DEF FillIn
    <3>3. h = [ip |-> h.ip, udp |-> h.udp]
      BY PktgenAssumption
    <3>4. ASSUME SetUpOnce PROVE Verifies(content'[m])
      <4>1. content[m] = NoPacket
        BY <3>4 DEF FreshInv, Fill
      <4> QED
        BY <1>2, <3>1, <4>1, FillVerifies
    <3>5. SetUpOnce' = SetUpOnce
      BY DEF Fill, SetUpOnce
    <3>6. QED
      BY <2>2, <1>2, <3>2, <3>3, <3>4, <3>5 DEF FilledIn, Fill
  <2>3. QED
    BY <2>1, <2>2
<1>4. \A k \in Mbufs : FilledIn(k) => FilledIn(k)'
  BY <1>2, <1>3 DEF FilledIn, Fill, SetUpOnce
<1>5. /\ UNCHANGED <<table, ring, pos, pc, file, thread>>
      /\ pc = "setup"
      /\ chain' = chain \cup {m}
      /\ pool' \in [Mbufs -> Int]
  BY DEF Fill, Taken, FilledInv
<1>6. /\ \A k \in 1 .. Len(table) : table[k] \in Mbufs
      /\ \A k \in 1 .. Len(ring) : ring[k] \in Mbufs
  BY DEF FilledInv
<1>7. QED
  BY <1>2, <1>3, <1>4, <1>5, <1>6 DEF FilledInv

LEMMA BulkFilled ==
  ASSUME FilledInv, GetBulk
  PROVE  FilledInv'
<1>1. PICK s \in [1 .. Burst -> Mbufs] :
        /\ \A m \in Mbufs : Copies(m, s) <= pool[m]
        /\ table' = s
        /\ pool' = [m \in Mbufs |-> pool[m] - Copies(m, s)]
  BY DEF GetBulk
<1>2. s \in Seq(Mbufs) /\ Len(s) = Burst
  BY PktgenAssumption
<1>3. \A m \in Mbufs : FilledIn(m) => FilledIn(m)'
  BY DEF GetBulk, FilledIn, SetUpOnce
<1>4. \A m \in Mbufs : pool[m] > 0 => FilledIn(m)
  BY DEF GetBulk, FilledInv
<1>5. \A m \in Mbufs : Copies(m, s) \in Nat /\ pool[m] \in Int
  BY <1>2, CopiesCount DEF FilledInv
<1>6. pool' \in [Mbufs -> Int] /\ \A m \in Mbufs : pool'[m] > 0 => FilledIn(m)'
  BY <1>1, <1>3, <1>4, <1>5
<1>7. ASSUME NEW k \in 1 .. Len(s) PROVE FilledIn(s[k])'
  <2>1. s[k] \in Mbufs
    BY <1>2
  <2>2. Copies(s[k], s) > 0
    BY <1>2, CopiesCount
  <2>3. pool[s[k]] > 0
    BY <1>1, <1>5, <2>1, <2>2
  <2>4. QED
    BY <2>1, <2>3, <1>3, <1>4
<1>8. /\ UNCHANGED <<ring, chain, content, file, thread>> /\ pos' = 0
      /\ pc' \in {"period", "send"}
  BY DEF GetBulk
<1>9. \A m \in Mbufs : FilledIn(m) <=> FilledIn(m)'
  BY <1>8 DEF FilledIn, SetUpOnce
<1>10. (\A k \in 1 .. Len(ring) : ring[k] \in Mbufs) /\ chain \subseteq Mbufs
  BY DEF FilledInv
<1>11. QED
  BY <1>1, <1>2, <1>6, <1>7, <1>8, <1>9, <1>10 DEF FilledInv

\* What is handed over next is the table from pos on.
LEMMA TablePart ==
  ASSUME table \in Seq(Mbufs), pos \in Nat, NEW f \in Nat, pos + f <= Len(table)
  PROVE  /\ SubSeq(table, pos + 1, pos + f) \in Seq(Mbufs)
         /\ Len(SubSeq(table, pos + 1, pos + f)) = f
         /\ \A k \in 1 .. f : SubSeq(table, pos + 1, pos + f)[k] = table[pos + k]
<1> DEFINE part == SubSeq(table, pos + 1, pos + f)
<1>1. Len(table) \in Nat /\ \A k \in 1 .. Len(table) : table[k] \in Mbufs
  OBVIOUS
<1>2. pos + 1 \in 1 .. Len(table) + 1 /\ pos + f \in pos .. Len(table)
  BY <1>1
<1>3. Len(part) = f /\ \A k \in 1 .. f : part[k] = table[pos + k]
  BY <1>1, <1>2
<1>4. \A k \in 1 .. f : pos + k \in 1 .. Len(table)
  BY <1>1
<1>5. \A k \in 1 .. f : part[k] \in Mbufs
  BY <1>1, <1>3, <1>4
<1>6. part \in Seq(Mbufs)
  BY <1>1, <1>2, <1>3, <1>5
<1> QED
  BY <1>3, <1>6

LEMMA TxFilled ==
  ASSUME FilledInv, TxBurst
  PROVE  FilledInv'
<1> DEFINE f == Fitting
           part == SubSeq(table, pos + 1, pos + f)
<1>1. Burst \in Nat /\ TxDesc \in Nat
  BY PktgenAssumption
<1>2. /\ pos \in Nat /\ Len(ring) \in Nat /\ table \in Seq(Mbufs) /\ ring \in Seq(Mbufs)
      /\ Len(table) = Burst /\ pos < Burst
  BY DEF FilledInv, TxBurst
<1>3. f \in Nat /\ pos + f <= Burst
  BY <1>1, <1>2 DEF TxBurst, Fitting
<1>4. /\ ring' = ring \o part /\ pos' = pos + f
      /\ UNCHANGED <<pc, pool, chain, table, content, file, thread>>
  BY DEF TxBurst
<1> HIDE DEF f
<1>5. /\ part \in Seq(Mbufs) /\ Len(part) = f
      /\ \A k \in 1 .. f : part[k] = table[pos + k]
  BY <1>1, <1>2, <1>3, TablePart
<1>6. ASSUME NEW k \in 1 .. Len(part) PROVE FilledIn(part[k])
  <2>1. pos + k \in 1 .. Len(table) /\ part[k] = table[pos + k]
    BY <1>1, <1>2, <1>3, <1>5
  <2>2. QED
    BY <2>1 DEF FilledInv
<1> HIDE DEF part
<1>7. ASSUME NEW k \in 1 .. Len(ring') PROVE FilledIn(ring'[k])
  <2>1. k \in 1 .. Len(ring) => ring'[k] = ring[k]
    BY <1>2, <1>4, <1>5
  <2>2. k \notin 1 .. Len(ring) =>
          k - Len(ring) \in 1 .. Len(part) /\ ring'[k] = part[k - Len(ring)]
    BY <1>2, <1>4, <1>5
  <2>3. QED
    BY <2>1, <2>2, <1>6 DEF FilledInv
<1>8. ring' \in Seq(Mbufs) /\ pos' \in Nat
  BY <1>2, <1>3, <1>4, <1>5
<1>9. \A m : FilledIn(m) <=> FilledIn(m)'
  BY <1>4 DEF FilledIn, SetUpOnce
<1>10. QED
  BY <1>4, <1>7, <1>8, <1>9 DEF FilledInv

LEMMA DeviceFilled ==
  ASSUME FilledInv, Device
  PROVE  FilledInv'
<1>1. /\ ring' = Tail(ring) /\ ring # <<>>
      /\ UNCHANGED <<pc, chain, table, pos, content, file, thread>>
  BY DEF Device
<1>2. \A m : FilledIn(m) <=> FilledIn(m)'
  BY <1>1 DEF FilledIn, SetUpOnce
<1>3. Head(ring) \in Mbufs /\ FilledIn(Head(ring))
  BY <1>1 DEF FilledInv
<1>4. /\ ring' \in Seq(Mbufs)
      /\ \A k \in 1 .. Len(ring') : FilledIn(ring'[k])
  BY <1>1 DEF FilledInv
<1>5. /\ pool' \in [Mbufs -> Int]
      /\ \A m \in Mbufs : m # Head(ring) => pool'[m] = pool[m]
  BY <1>3 DEF Device, FilledInv
<1>6. QED
  BY <1>1, <1>2, <1>3, <1>4, <1>5 DEF FilledInv

LEMMA AfterOthers ==
  ASSUME RoundsInv, thread # "throughput"
  PROVE  AfterBurst \in {"setup", "get", "done"}
BY PktgenAssumption DEF RoundsInv, AfterBurst, CountsRounds, Threads

LEMMA FilledStep ==
  RoundsInv /\ FilledInv /\ FreshInv /\ [GeneratorNext]_<<vars, reportVars>> => FilledInv'
<1> SUFFICES ASSUME RoundsInv, FilledInv, FreshInv, [GeneratorNext]_<<vars, reportVars>>
             PROVE  FilledInv'
  OBVIOUS
<1>1. CASE \E m \in Mbufs : Fill(m)
  BY <1>1, FillFills
<1>2. CASE \E m \in Mbufs : EndOfFile(m)
  BY <1>2 DEF EndOfFile, Taken, FilledInv, FilledIn, SetUpOnce
<1>3. CASE SetupDone
  <2>1. /\ UNCHANGED <<table, ring, pos, content, file, thread>> /\ chain' = {} /\ pc' = "get"
        /\ pool' = [m \in Mbufs |-> IF m \in chain THEN 1 ELSE 0]
    BY <1>3 DEF SetupDone
  <2>2. \A m : FilledIn(m) <=> FilledIn(m)'
    BY <2>1 DEF FilledIn, SetUpOnce
  <2>3. \A m \in Mbufs : pool'[m] > 0 => m \in chain
    BY <2>1
  <2>4. pool' \in [Mbufs -> Int]
    BY <2>1
  <2> QED
    BY <2>1, <2>2, <2>3, <2>4 DEF FilledInv
<1>4. CASE Start \/ FilePlayed \/ GetFails \/ PeriodGoesOn \/ UNCHANGED vars
        \/ \E l \in Peers : PeerExits(l)
  BY <1>4 DEF Start, FilePlayed, GetFails, PeriodGoesOn, PeerExits, vars, FilledInv, FilledIn, SetUpOnce
<1>5. CASE GetBulk
  BY <1>5, BulkFilled
<1>6. CASE TxBurst
  BY <1>6, TxFilled
<1>7. CASE BurstSent
  <2>1. UNCHANGED <<pool, chain, ring, content, file, thread>> /\ pos' = 0 /\ pc = "send"
    BY <1>7 DEF BurstSent
  <2>2. \A m : FilledIn(m) <=> FilledIn(m)'
    BY <2>1 DEF FilledIn, SetUpOnce
  <2>3. CASE thread = "throughput"
    BY <1>7, <2>1, <2>2, <2>3 DEF BurstSent, FilledInv
  <2>4. CASE thread # "throughput"
    <3>1. table' = <<>>
      BY <1>7, <2>4 DEF BurstSent
    <3>2. pc' \notin {"period", "send"}
      BY <1>7, <2>4, AfterOthers DEF BurstSent
    <3>3. QED
      BY <2>1, <2>2, <3>1, <3>2 DEF FilledInv
  <2>5. QED
    BY <2>3, <2>4
<1>8. CASE PeriodEnds
  BY <1>8 DEF PeriodEnds, FilledInv, FilledIn, SetUpOnce
<1>9. CASE Device
  BY <1>9, DeviceFilled
<1>10. QED
  BY <1>1, <1>2, <1>3, <1>4, <1>5, <1>6, <1>7, <1>8, <1>9
     DEF GeneratorNext, Lcore, SetupPackets, Finished, SelfDone, PeerDone, ReportStep

\* Nothing goes out that has not been filled in, from the file or at random.
THEOREM FilledOnly == GeneratorSpec => []SentFilled
<1>1. FilledInv => SentFilled
  BY DEF FilledInv, FilledIn, SentFilled
<1>2. QED
  BY <1>1, RoundsInitially, RoundsStep, FilledInitially, FreshStep, FilledStep, PTL
     DEF GeneratorSpec

\* In the threads that set their packets up once, the checksums are right.
THEOREM ChecksumsVerify == GeneratorSpec => []ChecksumsRight
<1>1. FilledInv => ChecksumsRight
  BY DEF FilledInv, FilledIn, SetUpOnce, ChecksumsRight
<1>2. QED
  BY <1>1, RoundsInitially, RoundsStep, FilledInitially, FreshStep, FilledStep, PTL
     DEF GeneratorSpec

-----------------------------------------------------------------------------
(***************************************************************************)
(* What goes out is not overwritten.  A thread that gets a burst for every  *)
(* send has an mbuf in one place at most: in the pool, the chain, at one    *)
(* place of the ring, or at one of the table that is not yet handed over.   *)
(* app_thread_throughput has not: but it fills nothing once it sends.       *)
(***************************************************************************)
Waiting == (pos + 1) .. Len(table)

OncePlaced ==
  /\ \A m \in Mbufs : pool[m] \in {0, 1}
  /\ \A m \in chain : pool[m] = 0
  /\ \A k \in Waiting : pool[table[k]] = 0 /\ table[k] \notin chain
  /\ \A k \in 1 .. Len(ring) : pool[ring[k]] = 0 /\ ring[k] \notin chain
  /\ \A k, n \in Waiting : table[k] = table[n] => k = n
  /\ \A k, n \in 1 .. Len(ring) : ring[k] = ring[n] => k = n
  /\ \A k \in Waiting, n \in 1 .. Len(ring) : table[k] # ring[n]

OnceInv ==
  /\ pc = "setup" /\ thread # "throughput" => table = <<>>
  /\ thread = "throughput" => pc # "setup" \/ ring = <<>>
  /\ pc = "start" => ring = <<>> /\ table = <<>>
  /\ thread # "throughput" => OncePlaced

LEMMA OnceInitially == GeneratorInit => OnceInv
BY DEF GeneratorInit, Init, OnceInv, OncePlaced, Waiting

\* What is counted at most once is at one place at most.
LEMMA CopiesOnce ==
  ASSUME NEW s, Len(s) \in Nat, NEW m, Copies(m, s) <= 1,
         NEW k \in 1 .. Len(s), NEW n \in 1 .. Len(s), s[k] = m, s[n] = m
  PROVE  k = n
<1> DEFINE P == {x \in 1 .. Len(s) : s[x] = m}
<1>1. IsFiniteSet(P)
  <2>1. IsFiniteSet(1 .. Len(s))
    BY FS_Interval
  <2> QED
    BY <2>1, FS_Subset
<1>2. SUFFICES ASSUME k # n PROVE FALSE
  OBVIOUS
<1>3. k \in P /\ n \in P
  OBVIOUS
<1> DEFINE both == {k} \cup {n}
<1>4. Cardinality(both) = 2
  <2>1. IsFiniteSet({k}) /\ Cardinality({k}) = 1
    BY FS_Singleton
  <2>2. n \notin {k}
    BY <1>2
  <2>3. Cardinality(both) = Cardinality({k}) + 1
    BY <2>1, <2>2, FS_AddElement
  <2> HIDE DEF both
  <2> QED
    BY <2>1, <2>3
<1>5. both \subseteq P
  BY <1>3
<1> HIDE DEF P, both
<1>6. Cardinality(both) <= Cardinality(P)
  BY <1>1, <1>5, FS_Subset
<1>7. Cardinality(P) <= 1
  BY DEF Copies, P
<1>8. Cardinality(P) \in Nat
  BY <1>1, FS_CardinalityType
<1> QED
  BY <1>4, <1>6, <1>7, <1>8

LEMMA FillPlaced ==
  ASSUME FilledInv, OncePlaced, NEW m \in Mbufs, table = <<>>,
         Fill(m) \/ EndOfFile(m)
  PROVE  OncePlaced'
<1>1. /\ pool' = [pool EXCEPT ![m] = @ - 1] /\ pool[m] > 0
      /\ chain' \subseteq chain \cup {m}
      /\ UNCHANGED <<table, ring, pos>>
  BY DEF Fill, EndOfFile, Taken
<1>2. pool \in [Mbufs -> Int] /\ pos \in Nat /\ chain \subseteq Mbufs
      /\ \A k \in 1 .. Len(ring) : ring[k] \in Mbufs
  BY DEF FilledInv
<1>3. pool[m] = 1 /\ pool'[m] = 0 /\ \A n \in Mbufs : n # m => pool'[n] = pool[n]
  BY <1>1, <1>2 DEF OncePlaced
<1>4. \A k \in 1 .. Len(ring) : ring[k] # m
  BY <1>3 DEF OncePlaced
<1>5. Waiting = {} /\ Waiting' = {}
  BY <1>1, <1>2 DEF Waiting
<1> QED
  BY <1>1, <1>2, <1>3, <1>4, <1>5 DEF OncePlaced

LEMMA BulkPlaced ==
  ASSUME FilledInv, OncePlaced, GetBulk
  PROVE  OncePlaced'
<1>1. PICK s \in [1 .. Burst -> Mbufs] :
        /\ \A m \in Mbufs : Copies(m, s) <= pool[m]
        /\ table' = s
        /\ pool' = [m \in Mbufs |-> pool[m] - Copies(m, s)]
  BY DEF GetBulk
<1>2. s \in Seq(Mbufs) /\ Len(s) = Burst /\ Burst \in Nat
  BY PktgenAssumption
<1>3. pos' = 0 /\ UNCHANGED <<ring, chain>>
  BY DEF GetBulk
<1>4. /\ chain \subseteq Mbufs /\ \A k \in 1 .. Len(ring) : ring[k] \in Mbufs
      /\ \A m \in Mbufs : pool[m] \in {0, 1}
      /\ \A m \in Mbufs : Copies(m, s) \in Nat
  <2>1. \A m \in Mbufs : Copies(m, s) \in Nat
    BY <1>2, CopiesCount
  <2>2. chain \subseteq Mbufs /\ \A k \in 1 .. Len(ring) : ring[k] \in Mbufs
    BY DEF FilledInv
  <2> QED
    BY <2>1, <2>2 DEF OncePlaced
<1>5. \A m \in Mbufs : pool'[m] \in {0, 1} /\ (pool[m] = 0 => pool'[m] = 0)
  BY <1>1, <1>4
<1>6. ASSUME NEW k \in 1 .. Len(s)
      PROVE  s[k] \in Mbufs /\ pool[s[k]] = 1 /\ pool'[s[k]] = 0
  <2>1. s[k] \in Mbufs /\ Copies(s[k], s) > 0
    BY <1>2, CopiesCount
  <2> QED
    BY <1>1, <1>4, <2>1
<1>7. ASSUME NEW k \in 1 .. Len(s), NEW n \in 1 .. Len(s), s[k] = s[n] PROVE k = n
  <2>1. Copies(s[k], s) <= 1
    <3>1. s[k] \in Mbufs /\ pool[s[k]] = 1
      BY <1>6
    <3> QED
      BY <1>1, <3>1
  <2> QED
    BY <1>2, <1>7, <2>1, CopiesOnce
<1>8. Waiting' = 1 .. Len(s)
  BY <1>1, <1>3 DEF Waiting
<1>9. \A k \in Waiting' : pool'[table'[k]] = 0 /\ table'[k] \notin chain'
  <2>1. \A m \in chain : pool[m] = 0
    BY DEF OncePlaced
  <2> QED
    BY <1>1, <1>3, <1>6, <1>8, <2>1
<1>10. \A k \in Waiting', n \in 1 .. Len(ring') : table'[k] # ring'[n]
  BY <1>1, <1>3, <1>6, <1>8 DEF OncePlaced
<1>11. \A m \in chain' : pool'[m] = 0
  BY <1>3, <1>4, <1>5 DEF OncePlaced
<1>12. \A k \in 1 .. Len(ring') : pool'[ring'[k]] = 0 /\ ring'[k] \notin chain'
  BY <1>3, <1>4, <1>5 DEF OncePlaced
<1>13. \A k, n \in Waiting' : table'[k] = table'[n] => k = n
  BY <1>1, <1>7, <1>8
<1>14. \A k, n \in 1 .. Len(ring') : ring'[k] = ring'[n] => k = n
  BY <1>3 DEF OncePlaced
<1> QED
  BY <1>5, <1>9, <1>10, <1>11, <1>12, <1>13, <1>14 DEF OncePlaced

\* The part of the table that is handed over moves to the end of the ring.
LEMMA TxPlaced ==
  ASSUME FilledInv, OncePlaced, TxBurst
  PROVE  OncePlaced'
<1> DEFINE f == Fitting
           part == SubSeq(table, pos + 1, pos + f)
<1>1. Burst \in Nat /\ TxDesc \in Nat
  BY PktgenAssumption
<1>2. /\ pos \in Nat /\ Len(ring) \in Nat /\ table \in Seq(Mbufs) /\ ring \in Seq(Mbufs)
      /\ Len(table) = Burst /\ pos < Burst
  BY DEF FilledInv, TxBurst
<1>3. f \in Nat /\ pos + f <= Burst
  BY <1>1, <1>2 DEF TxBurst, Fitting
<1>4. /\ ring' = ring \o part /\ pos' = pos + f
      /\ UNCHANGED <<pool, chain, table>>
  BY DEF TxBurst
<1> HIDE DEF f
<1>5. /\ part \in Seq(Mbufs) /\ Len(part) = f
      /\ \A k \in 1 .. f : part[k] = table[pos + k]
  BY <1>1, <1>2, <1>3, TablePart
<1> HIDE DEF part
<1>6. Len(ring') = Len(ring) + f
  <2>1. part \in Seq(Mbufs) /\ ring \in Seq(Mbufs) /\ Len(part) = f
    BY <1>2, <1>5
  <2>2. Len(ring \o part) = Len(ring) + Len(part)
    BY <2>1
  <2> QED
    BY <1>4, <2>1, <2>2
<1>7. ASSUME NEW k \in 1 .. Len(ring')
      PROVE  \/ k \in 1 .. Len(ring) /\ ring'[k] = ring[k]
             \/ /\ k \notin 1 .. Len(ring) /\ (k - Len(ring)) + pos \in Waiting
                /\ (k - Len(ring)) + pos \notin Waiting'
                /\ ring'[k] = table[(k - Len(ring)) + pos]
  <2>1. k \in 1 .. Len(ring) => ring'[k] = ring[k]
    BY <1>2, <1>4, <1>5
  <2>2. CASE k \notin 1 .. Len(ring)
    <3>1. k - Len(ring) \in 1 .. f
      BY <1>2, <1>3, <1>6, <2>2
    <3>2. ring'[k] = part[k - Len(ring)]
      BY <1>2, <1>4, <1>5, <2>2
    <3>3. ring'[k] = table[(k - Len(ring)) + pos]
      BY <1>2, <1>3, <1>5, <3>1, <3>2
    <3> QED
      BY <1>1, <1>2, <1>3, <1>4, <2>2, <3>1, <3>3 DEF Waiting
  <2> QED
    BY <2>1, <2>2
<1>8. Waiting' \subseteq Waiting
  BY <1>1, <1>2, <1>3, <1>4 DEF Waiting
<1>9. \A k \in Waiting' : pool'[table'[k]] = 0 /\ table'[k] \notin chain'
  BY <1>4, <1>8 DEF OncePlaced
<1>10. \A k, n \in Waiting' : table'[k] = table'[n] => k = n
  BY <1>4, <1>8 DEF OncePlaced
<1>11. \A k \in 1 .. Len(ring') : pool'[ring'[k]] = 0 /\ ring'[k] \notin chain'
  BY <1>4, <1>7 DEF OncePlaced
<1>12. ASSUME NEW k \in 1 .. Len(ring'), NEW n \in 1 .. Len(ring'), ring'[k] = ring'[n]
       PROVE  k = n
  <2>1. CASE k \in 1 .. Len(ring) /\ n \in 1 .. Len(ring)
    BY <1>7, <1>12, <2>1 DEF OncePlaced
  <2>2. CASE k \in 1 .. Len(ring) /\ n \notin 1 .. Len(ring)
    BY <1>7, <1>12, <2>2 DEF OncePlaced
  <2>3. CASE k \notin 1 .. Len(ring) /\ n \in 1 .. Len(ring)
    BY <1>7, <1>12, <2>3 DEF OncePlaced
  <2>4. CASE k \notin 1 .. Len(ring) /\ n \notin 1 .. Len(ring)
    <3>1. (k - Len(ring)) + pos = (n - Len(ring)) + pos
      BY <1>7, <1>12, <2>4 DEF OncePlaced
    <3>2. k \in Int /\ n \in Int
      BY <1>2, <1>3, <1>6
    <3> QED
      BY <1>2, <3>1, <3>2
  <2> QED
    BY <2>1, <2>2, <2>3, <2>4
<1>13. ASSUME NEW k \in Waiting', NEW n \in 1 .. Len(ring') PROVE table'[k] # ring'[n]
  <2>1. k \in Waiting
    BY <1>8
  <2>2. CASE n \in 1 .. Len(ring)
    BY <1>4, <1>7, <2>1, <2>2 DEF OncePlaced
  <2>3. CASE n \notin 1 .. Len(ring)
    BY <1>4, <1>7, <2>1, <2>3 DEF OncePlaced
  <2> QED
    BY <2>2, <2>3
<1> QED
  BY <1>4, <1>9, <1>10, <1>11, <1>12, <1>13 DEF OncePlaced

LEMMA DevicePlaced ==
  ASSUME FilledInv, OncePlaced, Device
  PROVE  OncePlaced'
<1>1. /\ ring' = Tail(ring) /\ ring # <<>> /\ UNCHANGED <<chain, table, pos>>
      /\ pool' = pool \/ pool' = [pool EXCEPT ![Head(ring)] = @ + 1]
  BY DEF Device
<1>2. /\ ring \in Seq(Mbufs) /\ pool \in [Mbufs -> Int]
      /\ pos \in Nat /\ table \in Seq(Mbufs) /\ chain \subseteq Mbufs
  BY DEF FilledInv
<1>3. /\ Head(ring) = ring[1] /\ 1 \in 1 .. Len(ring) /\ Len(ring') = Len(ring) - 1
      /\ \A k \in 1 .. Len(ring') : ring'[k] = ring[k + 1] /\ k + 1 \in 1 .. Len(ring)
  BY <1>1, <1>2
<1>4. Waiting' = Waiting /\ Waiting \subseteq 1 .. Len(table)
  BY <1>1, <1>2 DEF Waiting
<1>5. ring[1] \in Mbufs /\ pool[ring[1]] = 0
  BY <1>2, <1>3 DEF OncePlaced
<1>6. /\ \A m \in Mbufs : pool'[m] \in {0, 1}
      /\ \A m \in Mbufs : m # ring[1] => pool'[m] = pool[m]
  BY <1>1, <1>2, <1>3, <1>5 DEF OncePlaced
<1>7. \A k \in 1 .. Len(ring') : ring'[k] # ring[1] /\ ring'[k] \in Mbufs
  <2>1. ASSUME NEW k \in 1 .. Len(ring') PROVE ring'[k] # ring[1] /\ ring'[k] \in Mbufs
    <3>1. k + 1 # 1 /\ k + 1 \in 1 .. Len(ring) /\ ring'[k] = ring[k + 1]
      BY <1>3
    <3>2. ring[k + 1] # ring[1]
      BY <1>3, <3>1 DEF OncePlaced
    <3>3. ring[k + 1] \in Mbufs
      BY <1>2, <3>1
    <3> QED
      BY <3>1, <3>2, <3>3
  <2> QED
    BY <2>1
<1>8. \A m \in chain' : pool'[m] = 0
  BY <1>1, <1>2, <1>3, <1>6 DEF OncePlaced
<1>9. \A k \in Waiting' : pool'[table'[k]] = 0 /\ table'[k] \notin chain'
  BY <1>1, <1>2, <1>3, <1>4, <1>6 DEF OncePlaced
<1>10. \A k \in 1 .. Len(ring') : pool'[ring'[k]] = 0 /\ ring'[k] \notin chain'
  BY <1>1, <1>3, <1>6, <1>7 DEF OncePlaced
<1>11. ASSUME NEW k \in 1 .. Len(ring'), NEW n \in 1 .. Len(ring'), ring'[k] = ring'[n]
       PROVE  k = n
  <2>1. k + 1 = n + 1
    BY <1>3, <1>11 DEF OncePlaced
  <2> QED
    BY <1>2, <2>1
<1>12. \A k \in Waiting', n \in 1 .. Len(ring') : table'[k] # ring'[n]
  BY <1>1, <1>3, <1>4 DEF OncePlaced
<1>13. \A k, n \in Waiting' : table'[k] = table'[n] => k = n
  BY <1>1, <1>4 DEF OncePlaced
<1> QED
  BY <1>6, <1>8, <1>9, <1>10, <1>11, <1>12, <1>13 DEF OncePlaced

LEMMA OnceStep ==
  RoundsInv /\ FilledInv /\ OnceInv /\ [GeneratorNext]_<<vars, reportVars>> => OnceInv'
<1> SUFFICES ASSUME RoundsInv, FilledInv, OnceInv, [GeneratorNext]_<<vars, reportVars>>
             PROVE  OnceInv'
  OBVIOUS
<1>1. CASE \E m \in Mbufs : Fill(m) \/ EndOfFile(m)
  <2>1. PICK m \in Mbufs : Fill(m) \/ EndOfFile(m)
    BY <1>1
  <2>2. pc = "setup" /\ UNCHANGED <<pc, thread, table, ring>>
    BY <2>1 DEF Fill, EndOfFile
  <2>3. thread # "throughput" => OncePlaced'
    BY <2>1, <2>2, FillPlaced DEF OnceInv
  <2> QED
    BY <2>2, <2>3 DEF OnceInv
<1>2. CASE SetupDone
  <2>1. /\ pc = "setup" /\ pc' = "get" /\ chain' = {}
        /\ UNCHANGED <<thread, table, ring, pos>>
        /\ pool' = [m \in Mbufs |-> IF m \in chain THEN 1 ELSE 0]
    BY <1>2 DEF SetupDone
  <2>2. CASE thread # "throughput"
    <3>1. OncePlaced /\ table = <<>>
      BY <2>1, <2>2 DEF OnceInv
    <3>2. pos \in Nat /\ \A k \in 1 .. Len(ring) : ring[k] \in Mbufs
      BY DEF FilledInv
    <3>3. Waiting' = {}
      BY <2>1, <3>1, <3>2 DEF Waiting
    <3>4. \A k \in 1 .. Len(ring') : pool'[ring'[k]] = 0 /\ ring'[k] \notin chain'
      BY <2>1, <3>1, <3>2 DEF OncePlaced
    <3>5. OncePlaced'
      BY <2>1, <3>1, <3>3, <3>4 DEF OncePlaced
    <3> QED
      BY <2>1, <2>2, <3>5 DEF OnceInv
  <2>3. CASE thread = "throughput"
    BY <2>1, <2>3 DEF OnceInv
  <2> QED
    BY <2>2, <2>3
<1>3. CASE Start \/ FilePlayed \/ GetFails \/ PeriodGoesOn \/ UNCHANGED vars
        \/ \E l \in Peers : PeerExits(l)
  <2>1. UNCHANGED <<thread, pool, chain, table, ring, pos>>
    BY <1>3 DEF Start, FilePlayed, GetFails, PeriodGoesOn, PeerExits, vars
  <2>2. pc' \in {pc, "exit", "send"} \/ (pc = "start" /\ pc' = "setup")
    BY <1>3 DEF Start, FilePlayed, GetFails, PeriodGoesOn, PeerExits, vars
  <2>3. pc' = "start" => pc = "start"
    BY <2>2
  <2>4. OncePlaced' <=> OncePlaced
    BY <2>1 DEF OncePlaced, Waiting
  <2> QED
    BY <2>1, <2>2, <2>3, <2>4 DEF OnceInv
<1>4. CASE GetBulk
  <2>1. thread' = thread /\ pc' \in {"period", "send"}
    BY <1>4 DEF GetBulk
  <2>2. thread # "throughput" => OncePlaced'
    BY <1>4, BulkPlaced DEF OnceInv
  <2> QED
    BY <2>1, <2>2 DEF OnceInv
<1>5. CASE TxBurst
  <2>1. thread' = thread /\ pc' = "send"
    BY <1>5 DEF TxBurst
  <2>2. thread # "throughput" => OncePlaced'
    BY <1>5, TxPlaced DEF OnceInv
  <2> QED
    BY <2>1, <2>2 DEF OnceInv
<1>6. CASE BurstSent
  <2>1. UNCHANGED <<thread, pool, chain, ring>> /\ pos' = 0 /\ pc' = AfterBurst
        /\ table' = IF thread = "throughput" THEN table ELSE <<>>
    BY <1>6 DEF BurstSent
  <2>2. CASE thread = "throughput"
    <3>1. pc' = "period"
      BY <2>1, <2>2 DEF AfterBurst, CountsRounds
    <3> QED
      BY <2>1, <2>2, <3>1 DEF OnceInv
  <2>3. CASE thread # "throughput"
    <3>1. table' = <<>> /\ Waiting' = {} /\ OncePlaced
      BY <2>1, <2>3 DEF Waiting, OnceInv
    <3>2. OncePlaced'
      BY <2>1, <3>1 DEF OncePlaced
    <3>3. pc' # "start"
      BY <2>1, <2>3, AfterOthers
    <3> QED
      BY <2>1, <2>3, <3>1, <3>2, <3>3 DEF OnceInv
  <2> QED
    BY <2>2, <2>3
<1>7. CASE PeriodEnds
  <2>1. thread = "throughput" /\ thread' = thread /\ pc' = "get"
    BY <1>7 DEF PeriodEnds, RoundsInv
  <2> QED
    BY <2>1 DEF OnceInv
<1>8. CASE Device
  <2>1. UNCHANGED <<thread, pc, table>> /\ ring # <<>>
    BY <1>8 DEF Device
  <2>2. thread # "throughput" => OncePlaced'
    BY <1>8, DevicePlaced DEF OnceInv
  <2> QED
    BY <2>1, <2>2 DEF OnceInv
<1> QED
  BY <1>1, <1>2, <1>3, <1>4, <1>5, <1>6, <1>7, <1>8
     DEF GeneratorNext, Lcore, SetupPackets, Finished, SelfDone, PeerDone, ReportStep

\* Untouched of module Pktgen: no set-up writes into a packet that the device
\* has taken and not yet sent.
THEOREM RingUntouched == GeneratorSpec => Untouched
<1> DEFINE Kept == \A k \in 1 .. Len(ring) : content'[ring[k]] = content[ring[k]]
<1>1. ASSUME FilledInv, OnceInv, [GeneratorNext]_<<vars, reportVars>> PROVE [Kept]_vars
  <2>1. ASSUME NEW m \in Mbufs, Fill(m) PROVE Kept
    <3>1. /\ pc = "setup" /\ pool[m] > 0
          /\ \E p \in PacketsFor(m) : content' = [content EXCEPT ![m] = p]
      BY <2>1 DEF Fill
    <3>2. \A n \in Mbufs : n # m => content'[n] = content[n]
      BY <1>1, <3>1 DEF FilledInv
    <3>3. \A k \in 1 .. Len(ring) : ring[k] \in Mbufs /\ ring[k] # m
      BY <1>1, <3>1 DEF FilledInv, OnceInv, OncePlaced
    <3> QED
      BY <3>2, <3>3
  <2>2. CASE ~ \E m \in Mbufs : Fill(m)
    <3>1. content' = content
      BY <1>1, <2>2
      DEF GeneratorNext, Lcore, SetupPackets, Start, EndOfFile, FilePlayed, SetupDone,
          GetBulk, GetFails, TxBurst, BurstSent, PeriodGoesOn, PeriodEnds, Device,
          Finished, SelfDone, PeerDone, PeerExits, ReportStep, vars
    <3> QED
      BY <3>1
  <2> QED
    BY <2>1, <2>2
<1> QED
  BY <1>1, RoundsInitially, RoundsStep, FilledInitially, FreshStep, FilledStep, OnceInitially, OnceStep,
     PTL DEF GeneratorSpec, Untouched

-----------------------------------------------------------------------------
(***************************************************************************)
(* Where a burst is got for every send, an mbuf is in one place at least,   *)
(* too: the pool never has to drop one.  That leaves it a burst whenever a  *)
(* burst is got.                                                            *)
(***************************************************************************)
InTable(m) == \E k \in Waiting : table[k] = m
InRing(m) == \E k \in 1 .. Len(ring) : ring[k] = m

Somewhere ==
  /\ lost \subseteq Mbufs /\ IsFiniteSet(lost) /\ Cardinality(lost) = curRepeat
  /\ \A m \in lost : pool[m] = 0 /\ m \notin chain /\ ~InTable(m) /\ ~InRing(m)
  /\ \A m \in Mbufs : pool[m] = 1 \/ m \in chain \/ m \in lost \/ InTable(m) \/ InRing(m)

PlacedInv ==
  /\ ~file => curRepeat = 0
  /\ Len(ring) <= TxDesc
  /\ pc \in {"get", "period", "send"} => chain = {}
  /\ pc \in {"start", "setup", "get"} => table = <<>>
  /\ thread # "throughput" => Somewhere

LEMMA PlacedInitially == GeneratorInit => PlacedInv
<1> SUFFICES ASSUME GeneratorInit PROVE PlacedInv
  OBVIOUS
<1>1. IsFiniteSet({}) /\ Cardinality({}) = 0
  BY FS_EmptySet
<1>2. \A m \in Mbufs : pool[m] = 1
  BY DEF GeneratorInit, Init
<1>3. /\ lost = {} /\ curRepeat = 0 /\ ring = <<>> /\ table = <<>> /\ chain = {} /\ pc = "start"
  BY DEF GeneratorInit, Init
<1>4. Somewhere
  BY <1>1, <1>2, <1>3 DEF Somewhere
<1> QED
  BY <1>3, <1>4, PktgenAssumption DEF PlacedInv

LEMMA PoolRoom ==
  /\ Cardinality(Mbufs) \in Nat /\ PoolSize \in Nat /\ Cardinality(Mbufs) <= PoolSize
  /\ TxDesc \in Nat /\ Burst \in Nat \ {0} /\ TxDesc + Burst <= Cardinality(Mbufs)
  /\ PoolSize >= 1
<1>1. Cardinality(Mbufs) \in Nat
  BY FS_CardinalityType, PktgenAssumption
<1>2. PoolSize \in Nat /\ TxDesc \in Nat /\ Burst \in Nat /\ Burst > 0
  BY PktgenAssumption
<1> QED
  BY <1>1, <1>2, PktgenAssumption

\* Where no mbuf is twice in the pool, its entries are as many as its mbufs.
EntriesOf(q) == {e \in Mbufs \X (1 .. PoolSize) : e[2] <= q[e[1]]}

LEMMA EntriesCount ==
  ASSUME NEW q, \A m \in Mbufs : q[m] \in {0, 1}
  PROVE  Cardinality(EntriesOf(q)) = Cardinality({m \in Mbufs : q[m] = 1})
<1> DEFINE P == {m \in Mbufs : q[m] = 1}
           E == {e \in Mbufs \X (1 .. PoolSize) : e[2] <= q[e[1]]}
           f == [m \in P |-> <<m, 1>>]
<1>1. PoolSize \in Nat /\ PoolSize >= 1
  BY PoolRoom
<1>2. \A e \in E : e[1] \in P /\ e = <<e[1], 1>>
  BY <1>1
<1>3. \A m \in P : <<m, 1>> \in E
  BY <1>1
<1>4. f \in Bijection(P, E)
  <2>1. f \in [P -> E]
    BY <1>3
  <2>2. \A a, b \in P : f[a] = f[b] => a = b
    OBVIOUS
  <2>3. \A e \in E : \E a \in P : f[a] = e
    BY <1>2
  <2> QED
    BY <2>1, <2>2, <2>3 DEF Bijection, Injection, Surjection, IsInjective
<1>5. IsFiniteSet(P)
  BY FS_Subset, PktgenAssumption
<1>6. Cardinality(E) = Cardinality(P)
  BY <1>4, <1>5, FS_Bijection DEF ExistsBijection
<1> QED
  BY <1>6 DEF EntriesOf

LEMMA PoolCount ==
  ASSUME \A m \in Mbufs : pool[m] \in {0, 1}
  PROVE  InPool = Cardinality({m \in Mbufs : pool[m] = 1})
BY EntriesCount DEF InPool, EntriesOf

\* An mbuf is at one place of a sequence as often as it is counted.
LEMMA CopiesExact ==
  ASSUME NEW s, Len(s) \in Nat, NEW m,
         \A k, n \in 1 .. Len(s) : s[k] = m /\ s[n] = m => k = n
  PROVE  Copies(m, s) = IF \E k \in 1 .. Len(s) : s[k] = m THEN 1 ELSE 0
<1>1. CASE \E k \in 1 .. Len(s) : s[k] = m
  <2>1. PICK k \in 1 .. Len(s) : s[k] = m
    BY <1>1
  <2>2. {n \in 1 .. Len(s) : s[n] = m} = {k}
    BY <2>1
  <2> QED
    BY <1>1, <2>2, FS_Singleton DEF Copies
<1>2. CASE ~ \E k \in 1 .. Len(s) : s[k] = m
  <2>1. {n \in 1 .. Len(s) : s[n] = m} = {}
    BY <1>2
  <2> QED
    BY <1>2, <2>1, FS_EmptySet DEF Copies
<1> QED
  BY <1>1, <1>2

\* The pool has room for what is in the ring, and is empty when it counts 0.
LEMMA PoolHasRoom ==
  ASSUME \A m \in Mbufs : pool[m] \in {0, 1}
  PROVE  /\ \A m \in Mbufs : pool[m] = 0 => InPool < PoolSize
         /\ InPool = 0 => \A m \in Mbufs : pool[m] = 0
<1> DEFINE P == {m \in Mbufs : pool[m] = 1}
<1>1. IsFiniteSet(P) /\ Cardinality(P) \in Nat /\ Cardinality(P) <= Cardinality(Mbufs)
      /\ (Cardinality(P) = Cardinality(Mbufs) => P = Mbufs)
  <2>1. IsFiniteSet(Mbufs) /\ P \in SUBSET Mbufs
    BY PktgenAssumption
  <2>2. IsFiniteSet(P) /\ Cardinality(P) <= Cardinality(Mbufs)
        /\ (Cardinality(Mbufs) = Cardinality(P) => Mbufs = P)
    BY <2>1, FS_Subset
  <2> QED
    BY <2>2, FS_CardinalityType
<1>2. InPool = Cardinality(P)
  BY PoolCount
<1>3. ASSUME NEW m \in Mbufs, pool[m] = 0 PROVE InPool < PoolSize
  <2>1. P # Mbufs
    BY <1>3
  <2>2. Cardinality(P) < Cardinality(Mbufs)
    BY <1>1, <2>1, PoolRoom
  <2> HIDE DEF P
  <2> QED
    BY <1>1, <1>2, <2>2, PoolRoom
<1>4. ASSUME InPool = 0 PROVE P = {}
  BY <1>1, <1>2, <1>4, FS_EmptySet
<1> QED
  BY <1>3, <1>4

LEMMA FillSomewhere ==
  ASSUME FilledInv, OncePlaced, Somewhere, curRepeat \in Nat, NEW m \in Mbufs, table = <<>>,
         Fill(m) \/ EndOfFile(m)
  PROVE  Somewhere'
<1>1. /\ pool' = [pool EXCEPT ![m] = @ - 1] /\ pool[m] > 0
      /\ UNCHANGED <<table, ring, pos>>
  BY DEF Fill, EndOfFile, Taken
<1>2. pool \in [Mbufs -> Int] /\ pos \in Nat /\ chain \subseteq Mbufs
  BY DEF FilledInv
<1>3. pool[m] = 1 /\ pool'[m] = 0 /\ \A n \in Mbufs : n # m => pool'[n] = pool[n]
  BY <1>1, <1>2 DEF OncePlaced
<1>4. Waiting = {} /\ Waiting' = {}
  BY <1>1, <1>2 DEF Waiting
<1>5. \A n : ~InTable(n) /\ ~InTable(n)' /\ InRing(n)' = InRing(n)
  BY <1>1, <1>4 DEF InTable, InRing
<1>6. m \notin lost /\ ~InRing(m)
  BY <1>3 DEF Somewhere, OncePlaced, InRing
<1>7. CASE Fill(m)
  <2>1. chain' = chain \cup {m} /\ UNCHANGED <<lost, curRepeat>>
    BY <1>7 DEF Fill
  <2> QED
    BY <1>3, <1>5, <1>6, <2>1 DEF Somewhere
<1>8. CASE EndOfFile(m)
  <2>1. chain' = chain /\ lost' = lost \cup {m} /\ curRepeat' = curRepeat + 1
    BY <1>8 DEF EndOfFile
  <2>2. IsFiniteSet(lost') /\ Cardinality(lost') = curRepeat'
    BY <1>6, <2>1, FS_AddElement DEF Somewhere
  <2>3. m \notin chain
    BY <1>3 DEF OncePlaced
  <2> QED
    BY <1>3, <1>5, <1>6, <2>1, <2>2, <2>3 DEF Somewhere
<1> QED
  BY <1>7, <1>8

LEMMA SetupSomewhere ==
  ASSUME FilledInv, OncePlaced, Somewhere, SetupDone
  PROVE  Somewhere'
<1>1. /\ UNCHANGED <<table, ring, pos, lost, curRepeat>> /\ chain' = {}
      /\ pool' = [m \in Mbufs |-> IF m \in chain THEN 1 ELSE 0]
      /\ InPool = 0
  BY DEF SetupDone
<1>2. \A m \in Mbufs : pool[m] = 0
  BY <1>1, PoolHasRoom DEF OncePlaced
<1>3. \A n : InTable(n)' = InTable(n) /\ InRing(n)' = InRing(n)
  BY <1>1 DEF InTable, InRing, Waiting
<1> QED
  BY <1>1, <1>2, <1>3 DEF Somewhere

LEMMA BulkSomewhere ==
  ASSUME FilledInv, OncePlaced, Somewhere, table = <<>>, GetBulk
  PROVE  Somewhere'
<1>1. PICK s \in [1 .. Burst -> Mbufs] :
        /\ \A m \in Mbufs : Copies(m, s) <= pool[m]
        /\ table' = s
        /\ pool' = [m \in Mbufs |-> pool[m] - Copies(m, s)]
  BY DEF GetBulk
<1>2. s \in Seq(Mbufs) /\ Len(s) = Burst /\ Burst \in Nat
  BY PktgenAssumption
<1>3. pos' = 0 /\ UNCHANGED <<ring, chain, lost, curRepeat>>
  BY DEF GetBulk
<1>4. \A m \in Mbufs : Copies(m, s) \in Nat /\ pool[m] \in {0, 1}
  BY <1>2, CopiesCount DEF OncePlaced
<1>5. Waiting' = 1 .. Len(s)
  BY <1>1, <1>3 DEF Waiting
<1>6. \A m \in Mbufs : ~InTable(m)
  BY DEF InTable, Waiting, FilledInv
<1>7. ASSUME NEW m \in Mbufs
      PROVE  /\ InTable(m)' => pool[m] = 1
             /\ pool'[m] = 1 \/ InTable(m)' <=> pool[m] = 1
             /\ pool[m] = 0 => pool'[m] = 0
  <2>1. InTable(m)' <=> \E k \in 1 .. Len(s) : s[k] = m
    BY <1>1, <1>5 DEF InTable
  <2>2. InTable(m)' => Copies(m, s) > 0
    BY <1>2, <2>1, CopiesCount
  <2>3. ~InTable(m)' => Copies(m, s) = 0
    <3>1. ASSUME ~InTable(m)' PROVE {k \in 1 .. Len(s) : s[k] = m} = {}
      BY <2>1, <3>1
    <3> QED
      BY <3>1, FS_EmptySet DEF Copies
  <2>4. pool'[m] = pool[m] - Copies(m, s) /\ Copies(m, s) <= pool[m]
    BY <1>1
  <2> QED
    BY <1>4, <2>2, <2>3, <2>4
<1>8. \A m : InRing(m)' = InRing(m)
  BY <1>3 DEF InRing
<1>9. \A m \in lost : pool'[m] = 0 /\ ~InTable(m)'
  BY <1>7 DEF Somewhere
<1> QED
  BY <1>3, <1>6, <1>7, <1>8, <1>9 DEF Somewhere

LEMMA TxSomewhere ==
  ASSUME FilledInv, Somewhere, TxBurst
  PROVE  Somewhere'
<1> DEFINE f == Fitting
           part == SubSeq(table, pos + 1, pos + f)
<1>1. Burst \in Nat /\ TxDesc \in Nat
  BY PktgenAssumption
<1>2. /\ pos \in Nat /\ Len(ring) \in Nat /\ table \in Seq(Mbufs) /\ ring \in Seq(Mbufs)
      /\ Len(table) = Burst /\ pos < Burst
  BY DEF FilledInv, TxBurst
<1>3. f \in Nat /\ pos + f <= Burst
  BY <1>1, <1>2 DEF TxBurst, Fitting
<1>4. /\ ring' = ring \o part /\ pos' = pos + f
      /\ UNCHANGED <<pool, chain, table, lost, curRepeat>>
  BY DEF TxBurst
<1> HIDE DEF f
<1>5. Len(part) = f /\ part \in Seq(Mbufs) /\ \A k \in 1 .. f : part[k] = table[pos + k]
  BY <1>1, <1>2, <1>3, TablePart
<1> HIDE DEF part
<1>6. /\ Len(ring') = Len(ring) + f
      /\ \A k \in 1 .. Len(ring) : ring'[k] = ring[k]
      /\ \A k \in 1 .. f : ring'[Len(ring) + k] = table[pos + k]
  BY <1>2, <1>3, <1>4, <1>5
<1>7. \A m : InRing(m) => InRing(m)'
  BY <1>2, <1>3, <1>6 DEF InRing
<1>8. ASSUME NEW m, InTable(m) PROVE InTable(m)' \/ InRing(m)'
  <2>1. PICK k \in Waiting : table[k] = m
    BY <1>8 DEF InTable
  <2>2. k \in pos + 1 .. Len(table) /\ k \in Nat
    BY <1>2, <2>1 DEF Waiting
  <2>3. CASE k > pos + f
    <3>1. k \in Waiting'
      BY <1>2, <1>3, <1>4, <2>2, <2>3 DEF Waiting
    <3> QED
      BY <1>4, <2>1, <3>1 DEF InTable
  <2>4. CASE k <= pos + f
    <3>1. k - pos \in 1 .. f /\ pos + (k - pos) = k /\ Len(ring) + (k - pos) \in 1 .. Len(ring')
      BY <1>2, <1>3, <1>6, <2>2, <2>4
    <3>2. ring'[Len(ring) + (k - pos)] = m
      BY <1>6, <2>1, <3>1
    <3> QED
      BY <3>1, <3>2 DEF InRing
  <2> QED
    BY <1>2, <1>3, <2>2, <2>3, <2>4
<1>9. ASSUME NEW m, InTable(m)' PROVE InTable(m)
  BY <1>2, <1>3, <1>4, <1>9 DEF InTable, Waiting
<1>10. ASSUME NEW m, InRing(m)' PROVE InRing(m) \/ InTable(m)
  <2>1. PICK k \in 1 .. Len(ring') : ring'[k] = m
    BY <1>10 DEF InRing
  <2>2. CASE k <= Len(ring)
    <3>1. k \in 1 .. Len(ring)
      BY <1>2, <1>3, <1>6, <2>2
    <3> QED
      BY <1>6, <2>1, <3>1 DEF InRing
  <2>3. CASE k > Len(ring)
    <3>1. k - Len(ring) \in 1 .. f /\ Len(ring) + (k - Len(ring)) = k
          /\ pos + (k - Len(ring)) \in Waiting
      BY <1>2, <1>3, <1>6, <2>3 DEF Waiting
    <3>2. table[pos + (k - Len(ring))] = m
      BY <1>6, <2>1, <3>1
    <3> QED
      BY <3>1, <3>2 DEF InTable
  <2> QED
    BY <1>2, <1>3, <1>6, <2>2, <2>3
<1> QED
  BY <1>4, <1>7, <1>8, <1>9, <1>10 DEF Somewhere

\* The device takes no more than the ring has room for.
LEMMA TxRing ==
  ASSUME FilledInv, TxBurst, Len(ring) <= TxDesc
  PROVE  Len(ring') <= TxDesc
<1> DEFINE f == Fitting
<1>1. Burst \in Nat /\ TxDesc \in Nat
  BY PktgenAssumption
<1>2. /\ pos \in Nat /\ Len(ring) \in Nat /\ table \in Seq(Mbufs) /\ ring \in Seq(Mbufs)
      /\ Len(table) = Burst /\ pos < Burst
  BY DEF FilledInv, TxBurst
<1>3. f \in Nat /\ pos + f <= Burst /\ Len(ring) + f <= TxDesc
  BY <1>1, <1>2 DEF TxBurst, Fitting
<1>4. ring' = ring \o SubSeq(table, pos + 1, pos + f)
  BY DEF TxBurst
<1> HIDE DEF f
<1>5. /\ SubSeq(table, pos + 1, pos + f) \in Seq(Mbufs)
      /\ Len(SubSeq(table, pos + 1, pos + f)) = f
  BY <1>2, <1>3, TablePart
<1> QED
  BY <1>1, <1>2, <1>3, <1>4, <1>5

LEMMA DeviceSomewhere ==
  ASSUME FilledInv, OncePlaced, Somewhere, Device
  PROVE  Somewhere'
<1>1. /\ ring' = Tail(ring) /\ ring # <<>>
      /\ UNCHANGED <<chain, table, pos, lost, curRepeat>>
      /\ pool' = IF InPool < PoolSize THEN [pool EXCEPT ![Head(ring)] = @ + 1] ELSE pool
  BY DEF Device
<1>2. /\ ring \in Seq(Mbufs) /\ pool \in [Mbufs -> Int]
  BY DEF FilledInv
<1>3. /\ Head(ring) = ring[1] /\ 1 \in 1 .. Len(ring) /\ Len(ring') = Len(ring) - 1
      /\ \A k \in 1 .. Len(ring') : ring'[k] = ring[k + 1] /\ k + 1 \in 1 .. Len(ring)
      /\ \A k \in 1 .. Len(ring) : k # 1 => k - 1 \in 1 .. Len(ring') /\ ring'[k - 1] = ring[k]
  BY <1>1, <1>2
<1>4. ring[1] \in Mbufs /\ pool[ring[1]] = 0
  BY <1>2, <1>3 DEF OncePlaced
<1>5. InPool < PoolSize
  BY <1>4, PoolHasRoom DEF OncePlaced
<1>6. pool'[ring[1]] = 1 /\ \A m \in Mbufs : m # ring[1] => pool'[m] = pool[m]
  BY <1>1, <1>2, <1>3, <1>4, <1>5
<1>7. \A m : InTable(m)' = InTable(m)
  BY <1>1 DEF InTable, Waiting
<1>8. \A m : /\ InRing(m)' => InRing(m)
             /\ InRing(m) => m = ring[1] \/ InRing(m)'
  BY <1>3 DEF InRing
<1>9. ring[1] \notin lost
  BY <1>3 DEF Somewhere, InRing
<1> QED
  BY <1>1, <1>6, <1>7, <1>8, <1>9 DEF Somewhere

LEMMA PlacedStep ==
  RoundsInv /\ FilledInv /\ OnceInv /\ PlacedInv /\ [GeneratorNext]_<<vars, reportVars>> => PlacedInv'
<1> SUFFICES ASSUME RoundsInv, FilledInv, OnceInv, PlacedInv,
                    [GeneratorNext]_<<vars, reportVars>>
             PROVE  PlacedInv'
  OBVIOUS
<1>0. Len(ring) \in Nat /\ TxDesc \in Nat
  BY PktgenAssumption DEF FilledInv
<1>1. CASE \E m \in Mbufs : Fill(m) \/ EndOfFile(m)
  <2>1. PICK m \in Mbufs : Fill(m) \/ EndOfFile(m)
    BY <1>1
  <2>2. pc = "setup" /\ UNCHANGED <<pc, thread, file, table, ring>>
        /\ (curRepeat' = curRepeat \/ file)
    BY <2>1 DEF Fill, EndOfFile
  <2>3. ASSUME thread # "throughput" PROVE Somewhere'
    <3>1. curRepeat \in Nat
      BY <2>3, FS_CardinalityType DEF PlacedInv, Somewhere
    <3> QED
      BY <2>1, <2>2, <2>3, <3>1, FillSomewhere DEF OnceInv, PlacedInv
  <2> QED
    BY <2>2, <2>3 DEF PlacedInv
<1>2. CASE SetupDone
  <2>1. pc = "setup" /\ pc' = "get" /\ chain' = {}
        /\ UNCHANGED <<thread, file, table, ring, curRepeat>>
    BY <1>2 DEF SetupDone
  <2>2. thread # "throughput" => Somewhere'
    BY <1>2, SetupSomewhere DEF OnceInv, PlacedInv
  <2> QED
    BY <2>1, <2>2 DEF PlacedInv, OnceInv
<1>3. CASE Start \/ FilePlayed \/ GetFails \/ PeriodGoesOn \/ UNCHANGED vars
        \/ \E l \in Peers : PeerExits(l)
  <2>1. UNCHANGED <<thread, file, pool, chain, table, ring, pos, lost, curRepeat>>
    BY <1>3 DEF Start, FilePlayed, GetFails, PeriodGoesOn, PeerExits, vars
  <2>2. Somewhere' = Somewhere
    BY <2>1 DEF Somewhere, InTable, InRing, Waiting
  <2>3. \/ pc' \in {pc, "exit"} \/ (pc = "start" /\ pc' = "setup")
        \/ (pc = "period" /\ pc' = "send")
    BY <1>3 DEF Start, FilePlayed, GetFails, PeriodGoesOn, PeerExits, vars
  <2> QED
    BY <2>1, <2>2, <2>3 DEF PlacedInv
<1>4. CASE GetBulk
  <2>1. /\ pc = "get" /\ pc' \in {"period", "send"}
        /\ UNCHANGED <<thread, file, ring, chain, curRepeat>>
    BY <1>4 DEF GetBulk
  <2>2. thread # "throughput" => Somewhere'
    BY <1>4, <2>1, BulkSomewhere DEF OnceInv, PlacedInv
  <2> QED
    BY <2>1, <2>2 DEF PlacedInv
<1>5. CASE TxBurst
  <2>1. pc = "send" /\ UNCHANGED <<pc, thread, file, chain, curRepeat>>
    BY <1>5 DEF TxBurst
  <2>2. thread # "throughput" => Somewhere'
    BY <1>5, TxSomewhere DEF PlacedInv
  <2>3. Len(ring') <= TxDesc
    BY <1>5, TxRing DEF PlacedInv
  <2> QED
    BY <2>1, <2>2, <2>3 DEF PlacedInv
<1>6. CASE BurstSent
  <2>1. /\ UNCHANGED <<thread, file, pool, chain, ring, lost, curRepeat>>
        /\ pc = "send" /\ pos = Burst /\ pos' = 0 /\ pc' = AfterBurst
        /\ table' = IF thread = "throughput" THEN table ELSE <<>>
    BY <1>6 DEF BurstSent
  <2>2. CASE thread = "throughput"
    <3>1. pc' = "period"
      BY <2>1, <2>2 DEF AfterBurst, CountsRounds
    <3> QED
      BY <2>1, <2>2, <3>1 DEF PlacedInv
  <2>3. CASE thread # "throughput"
    <3>1. Waiting = {} /\ Waiting' = {}
      BY <2>1, <2>3, PktgenAssumption DEF Waiting, FilledInv
    <3>2. Somewhere'
      BY <2>1, <2>3, <3>1 DEF PlacedInv, Somewhere, InTable, InRing
    <3> QED
      BY <2>1, <2>3, <3>2, AfterOthers DEF PlacedInv
  <2> QED
    BY <2>2, <2>3
<1>7. CASE PeriodEnds
  <2>1. /\ thread = "throughput" /\ pc = "period" /\ table' = <<>>
        /\ UNCHANGED <<thread, file, chain, ring, curRepeat>>
    BY <1>7 DEF PeriodEnds, RoundsInv
  <2> QED
    BY <2>1 DEF PlacedInv
<1>8. CASE Device
  <2>1. /\ UNCHANGED <<thread, file, pc, chain, table, curRepeat>>
        /\ ring # <<>> /\ ring' = Tail(ring)
    BY <1>8 DEF Device
  <2>2. thread # "throughput" => Somewhere'
    BY <1>8, DeviceSomewhere DEF OnceInv, PlacedInv
  <2>3. Len(ring') <= Len(ring) /\ Len(ring') \in Nat
    BY <2>1 DEF FilledInv
  <2> QED
    BY <1>0, <2>1, <2>2, <2>3 DEF PlacedInv
<1> QED
  BY <1>1, <1>2, <1>3, <1>4, <1>5, <1>6, <1>7, <1>8
     DEF GeneratorNext, Lcore, SetupPackets, Finished, SelfDone, PeerDone, ReportStep

\* Conserved of module Pktgen: in the threads that get a burst for every send,
\* every mbuf is in one place, or lost with the end of a file it was taken for.
THEOREM MbufsConserved == GeneratorSpec => []Conserved
<1>1. ASSUME FilledInv, OnceInv, PlacedInv, thread # "throughput", NEW m \in Mbufs
      PROVE  pool[m] + One(m \in chain) + Copies(m, Pending) + Copies(m, ring)
               + One(m \in lost) = 1
  <2>1. /\ pos \in Nat /\ Len(table) \in Nat /\ Len(ring) \in Nat /\ table \in Seq(Mbufs)
        /\ OncePlaced /\ Somewhere
    BY <1>1 DEF FilledInv, OnceInv, PlacedInv
  <2>2. Copies(m, ring) = IF InRing(m) THEN 1 ELSE 0
    BY <2>1, CopiesExact DEF OncePlaced, InRing
  <2>3. Copies(m, Pending) = IF InTable(m) THEN 1 ELSE 0
    <3>1. /\ Len(Pending) \in Nat
          /\ \A k \in 1 .. Len(Pending) : pos + k \in Waiting /\ Pending[k] = table[pos + k]
          /\ \A k \in Waiting : k - pos \in 1 .. Len(Pending) /\ pos + (k - pos) = k
      <4>1. CASE pos > Len(table)
        BY <2>1, <4>1 DEF Pending, Waiting
      <4>2. CASE pos <= Len(table)
        <5> DEFINE n == Len(table) - pos
        <5>1. n \in Nat /\ pos + n = Len(table)
          BY <2>1, <4>2
        <5> HIDE DEF n
        <5>2. Pending = SubSeq(table, pos + 1, pos + n)
          BY <5>1 DEF Pending
        <5>3. Len(Pending) = n /\ \A k \in 1 .. n : Pending[k] = table[pos + k]
          BY <2>1, <5>1, <5>2, TablePart
        <5> QED
          BY <2>1, <5>1, <5>3 DEF Waiting
      <4> QED
        BY <2>1, <4>1, <4>2
    <3>2. \A k, n \in 1 .. Len(Pending) : Pending[k] = m /\ Pending[n] = m => k = n
      <4>1. ASSUME NEW k \in 1 .. Len(Pending), NEW n \in 1 .. Len(Pending),
                   Pending[k] = m, Pending[n] = m
            PROVE  k = n
        <5>1. pos + k = pos + n
          BY <2>1, <3>1, <4>1 DEF OncePlaced
        <5>2. k \in Int /\ n \in Int
          BY <3>1
        <5> QED
          BY <2>1, <5>1, <5>2
      <4> QED
        BY <4>1
    <3>3. InTable(m) <=> \E k \in 1 .. Len(Pending) : Pending[k] = m
      BY <3>1 DEF InTable
    <3> QED
      BY <3>1, <3>2, <3>3, CopiesExact
  <2>4. /\ pool[m] \in {0, 1}
        /\ pool[m] = 1 \/ m \in chain \/ m \in lost \/ InTable(m) \/ InRing(m)
        /\ m \in chain \/ m \in lost \/ InTable(m) \/ InRing(m) => pool[m] = 0
        /\ m \in chain => m \notin lost /\ ~InTable(m) /\ ~InRing(m)
        /\ m \in lost => ~InTable(m) /\ ~InRing(m)
        /\ InTable(m) => ~InRing(m)
    BY <2>1 DEF OncePlaced, Somewhere, InTable, InRing
  <2> QED
    BY <2>2, <2>3, <2>4 DEF One
<1>2. ASSUME FilledInv, OnceInv, PlacedInv PROVE Conserved
  BY <1>1, <1>2 DEF Conserved, PlacedInv, Somewhere
<1> QED
  BY <1>2, RoundsInitially, RoundsStep, FilledInitially, FreshStep, FilledStep, OnceInitially, OnceStep,
     PlacedInitially, PlacedStep, PTL DEF GeneratorSpec

\* When a burst is got, what is not in the pool is in the ring.
LEMMA BurstLeft ==
  ASSUME FilledInv, OnceInv, PlacedInv, pc = "get", ~file, thread # "throughput"
  PROVE  Burst <= InPool
<1> DEFINE P == {m \in Mbufs : pool[m] = 1}
           places == 1 .. Len(ring)
           R == {ring[k] : k \in places}
<1>1. /\ Len(ring) \in Nat /\ Len(ring) <= TxDesc /\ table = <<>> /\ chain = {}
      /\ curRepeat = 0 /\ Somewhere /\ OncePlaced
  BY DEF FilledInv, OnceInv, PlacedInv
<1>2. lost = {}
  BY <1>1, FS_EmptySet DEF Somewhere
<1>3. Mbufs \subseteq P \cup R
  BY <1>1, <1>2 DEF Somewhere, InTable, InRing, Waiting, FilledInv
<1>4. IsFiniteSet(P) /\ Cardinality(P) \in Nat /\ InPool = Cardinality(P)
  BY <1>1, FS_Subset, FS_CardinalityType, PoolCount, PktgenAssumption DEF OncePlaced
<1>5. IsFiniteSet(R) /\ Cardinality(R) \in Nat /\ Cardinality(R) <= TxDesc
  <2>1. IsFiniteSet(places) /\ Cardinality(places) = Len(ring)
    BY <1>1, FS_Interval
  <2> DEFINE f == [k \in places |-> ring[k]]
  <2>2. f \in Surjection(places, R)
    BY DEF Surjection
  <2>3. IsFiniteSet(R) /\ Cardinality(R) <= Cardinality(places)
    BY <2>1, <2>2, FS_Surjection
  <2> HIDE DEF R, places
  <2> QED
    BY <1>1, <2>1, <2>3, FS_CardinalityType, PoolRoom
<1> HIDE DEF P, R
<1>6. /\ IsFiniteSet(P \cup R) /\ Cardinality(P \cup R) <= Cardinality(P) + Cardinality(R)
      /\ Cardinality(P \cup R) \in Nat
  <2>1. IsFiniteSet(P \cap R)
    BY <1>4, FS_Subset
  <2>2. Cardinality(P \cap R) \in Nat
    BY <2>1, FS_CardinalityType
  <2>3. IsFiniteSet(P \cup R)
        /\ Cardinality(P \cup R) = Cardinality(P) + Cardinality(R) - Cardinality(P \cap R)
    BY <1>4, <1>5, FS_Union
  <2> QED
    BY <1>4, <1>5, <2>2, <2>3, FS_CardinalityType
<1>7. Cardinality(Mbufs) <= Cardinality(P \cup R)
  BY <1>3, <1>6, FS_Subset
<1> QED
  BY <1>4, <1>5, <1>6, <1>7, PoolRoom

\* NeverStarved of module Pktgen: without a file, the bulk get that would end the
\* process always finds a burst, however slow the device.
THEOREM AlwaysFed == GeneratorSpec => []NeverStarved
<1>1. GeneratorInit => NeverStarved
  BY DEF GeneratorInit, Init, NeverStarved
<1>2. ASSUME RoundsInv, FilledInv, OnceInv, PlacedInv, NeverStarved,
             [GeneratorNext]_<<vars, reportVars>>
      PROVE  NeverStarved'
  <2>1. SUFFICES ASSUME ~file', thread' \in {"fps", "sendnumpkts"}, pc' = "exit" PROVE FALSE
    BY DEF NeverStarved
  <2>2. UNCHANGED <<file, thread>>
    BY <1>2
    DEF GeneratorNext, Lcore, SetupPackets, Start, Fill, EndOfFile, FilePlayed, SetupDone,
        GetBulk, GetFails, TxBurst, BurstSent, PeriodGoesOn, PeriodEnds, Device,
        Finished, SelfDone, PeerDone, PeerExits, ReportStep, vars
  <2>3. pc # "exit"
    BY <1>2, <2>1, <2>2 DEF NeverStarved
  <2>4. ~GetFails
    <3>1. ASSUME GetFails PROVE FALSE
      <4>1. pc = "get" /\ InPool < Burst
        BY <3>1 DEF GetFails
      <4>2. InPool \in Nat
        <5>1. \A m \in Mbufs : pool[m] \in {0, 1}
          BY <1>2, <2>1, <2>2 DEF OnceInv, OncePlaced
        <5>2. IsFiniteSet({m \in Mbufs : pool[m] = 1})
          BY FS_Subset, PktgenAssumption
        <5> QED
          BY <5>1, <5>2, PoolCount, FS_CardinalityType
      <4>3. Burst <= InPool
        BY <1>2, <2>1, <2>2, <4>1, BurstLeft
      <4> QED
        BY <4>1, <4>2, <4>3, PoolRoom
    <3> QED
      BY <3>1
  <2>5. pc' # "exit"
    <3>1. CASE BurstSent
      <4>1. pc' = AfterBurst
        BY <3>1 DEF BurstSent
      <4> QED
        BY <1>2, <2>1, <2>2, <4>1, AfterOthers
    <3>2. CASE ~BurstSent
      BY <1>2, <2>1, <2>2, <2>3, <2>4, <3>2
      DEF GeneratorNext, Lcore, SetupPackets, Start, Fill, EndOfFile, FilePlayed, SetupDone,
          GetBulk, TxBurst, PeriodGoesOn, PeriodEnds, Device,
          Finished, SelfDone, PeerDone, PeerExits, ReportStep, vars
    <3> QED
      BY <3>1, <3>2
  <2> QED
    BY <2>1, <2>5
<1> QED
  BY <1>1, <1>2, RoundsInitially, RoundsStep, FilledInitially, FreshStep, FilledStep, OnceInitially,
     OnceStep, PlacedInitially, PlacedStep, PTL DEF GeneratorSpec

-----------------------------------------------------------------------------
(* The types, the room in the pool among them.                              *)

LEMMA EntriesFinite ==
  ASSUME NEW q
  PROVE  IsFiniteSet(EntriesOf(q)) /\ Cardinality(EntriesOf(q)) \in Nat
<1>1. IsFiniteSet(1 .. PoolSize)
  BY PoolRoom, FS_Interval
<1>2. IsFiniteSet(Mbufs \X (1 .. PoolSize))
  BY <1>1, FS_Product, PktgenAssumption
<1>3. EntriesOf(q) \in SUBSET (Mbufs \X (1 .. PoolSize))
  BY DEF EntriesOf
<1> QED
  BY <1>2, <1>3, FS_Subset, FS_CardinalityType

\* An mbuf is in the pool no more often than the pool has entries.
LEMMA EntriesOfOne ==
  ASSUME NEW q \in [Mbufs -> 0 .. PoolSize], NEW m \in Mbufs
  PROVE  q[m] <= Cardinality(EntriesOf(q))
<1> DEFINE f == [k \in 1 .. q[m] |-> <<m, k>>]
<1>1. q[m] \in 0 .. PoolSize /\ PoolSize \in Nat
  BY PoolRoom
<1>2. f \in Injection(1 .. q[m], EntriesOf(q))
  <2>1. \A k \in 1 .. q[m] : <<m, k>> \in EntriesOf(q)
    BY <1>1 DEF EntriesOf
  <2>2. f \in [1 .. q[m] -> EntriesOf(q)]
    BY <2>1
  <2>3. \A i, k \in 1 .. q[m] : f[i] = f[k] => i = k
    OBVIOUS
  <2> QED
    BY <2>2, <2>3 DEF Injection, IsInjective
<1>3. Cardinality(1 .. q[m]) = q[m]
  BY <1>1, FS_Interval
<1>4. Cardinality(1 .. q[m]) <= Cardinality(EntriesOf(q))
  BY <1>2, EntriesFinite, FS_Injection
<1> QED
  BY <1>3, <1>4

\* Taking from the pool leaves it room.
LEMMA TakenTyped ==
  ASSUME NEW q \in [Mbufs -> 0 .. PoolSize], NEW r \in [Mbufs -> Nat],
         \A m \in Mbufs : r[m] <= q[m]
  PROVE  /\ r \in [Mbufs -> 0 .. PoolSize]
         /\ Cardinality(EntriesOf(r)) <= Cardinality(EntriesOf(q))
<1>1. PoolSize \in Nat
  BY PoolRoom
<1>2. EntriesOf(r) \in SUBSET EntriesOf(q)
  BY <1>1 DEF EntriesOf
<1>3. Cardinality(EntriesOf(r)) <= Cardinality(EntriesOf(q))
  BY <1>2, EntriesFinite, FS_Subset
<1>4. \A m \in Mbufs : r[m] \in 0 .. PoolSize
  BY <1>1
<1> QED
  BY <1>3, <1>4

\* What the device puts back fits.
LEMMA ReturnedTyped ==
  ASSUME NEW q \in [Mbufs -> 0 .. PoolSize], NEW m \in Mbufs,
         Cardinality(EntriesOf(q)) < PoolSize
  PROVE  /\ [q EXCEPT ![m] = @ + 1] \in [Mbufs -> 0 .. PoolSize]
         /\ Cardinality(EntriesOf([q EXCEPT ![m] = @ + 1])) <= PoolSize
<1> DEFINE r == [q EXCEPT ![m] = @ + 1]
           x == <<m, q[m] + 1>>
<1>1. PoolSize \in Nat /\ Cardinality(EntriesOf(q)) \in Nat /\ q[m] \in Nat
  BY PoolRoom, EntriesFinite
<1>2. q[m] < PoolSize
  BY <1>1, EntriesOfOne
<1>3. EntriesOf(r) \in SUBSET (EntriesOf(q) \cup {x})
  <2>1. ASSUME NEW e \in EntriesOf(r), e \notin EntriesOf(q) PROVE e = x
    <3>1. e \in Mbufs \X (1 .. PoolSize) /\ e[2] <= r[e[1]] /\ ~(e[2] <= q[e[1]])
      BY <2>1 DEF EntriesOf
    <3>2. e[1] = m
      BY <3>1
    <3>3. e[2] \in Nat /\ e[2] <= q[m] + 1 /\ ~(e[2] <= q[m])
      BY <3>1, <3>2, <1>1
    <3>4. e[2] = q[m] + 1
      BY <3>3, <1>1
    <3> QED
      BY <3>1, <3>2, <3>4
  <2> QED
    BY <2>1
<1>4. /\ IsFiniteSet(EntriesOf(q) \cup {x})
      /\ Cardinality(EntriesOf(q) \cup {x}) <= Cardinality(EntriesOf(q)) + 1
  BY <1>1, EntriesFinite, FS_AddElement
<1>5. Cardinality(EntriesOf(r)) <= Cardinality(EntriesOf(q) \cup {x})
  BY <1>3, <1>4, FS_Subset
<1>6. Cardinality(EntriesOf(r)) \in Nat /\ Cardinality(EntriesOf(q) \cup {x}) \in Nat
  BY <1>4, EntriesFinite, FS_CardinalityType
<1>7. r \in [Mbufs -> 0 .. PoolSize]
  BY <1>1, <1>2
<1> HIDE DEF r, x
<1>8. Cardinality(EntriesOf(r)) <= PoolSize
  BY <1>1, <1>4, <1>5, <1>6
<1> QED
  BY <1>7, <1>8 DEF r

Packets == [ip : Nat, ipCheck : 0 .. Ones, udp : Nat, udpCheck : 0 .. Ones]

LEMMA PacketsTyped ==
  ASSUME TypeOK, NEW m \in Mbufs, NEW p \in PacketsFor(m)
  PROVE  p \in Packets
<1>1. CASE file
  BY <1>1, PktgenAssumption DEF PacketsFor, Packets
<1>2. CASE ~file
  <2>1. PICK h \in Headers : p = FillIn(content[m], h)
    BY <1>2 DEF PacketsFor
  <2>2. h.ip \in Nat /\ h.udp \in Nat
    BY PktgenAssumption
  <2>3. content[m].ipCheck \in Nat /\ content[m].udpCheck \in Nat
    BY PktgenAssumption DEF TypeOK
  <2>4. /\ h.ip + content[m].ipCheck \in Nat
        /\ h.udp + content[m].udpCheck \in Nat
    BY <2>2, <2>3
  <2>5. /\ csum(h.ip + content[m].ipCheck) \in 0 .. Ones
        /\ Compute_Checksum_UDP(h.udp + content[m].udpCheck) \in 0 .. Ones
    BY <2>4, CsumRange, UdpVerifies
  <2> QED
    BY <2>1, <2>2, <2>5 DEF FillIn, Packets
<1> QED
  BY <1>1, <1>2

LEMMA TypesInitially == GeneratorInit => TypeOK
<1> SUFFICES ASSUME GeneratorInit PROVE TypeOK
  OBVIOUS
<1>1. pool \in [Mbufs -> 0 .. PoolSize] /\ \A m \in Mbufs : pool[m] \in {0, 1}
  BY PoolRoom DEF GeneratorInit, Init
<1>2. InPool = Cardinality(Mbufs)
  <2>1. {m \in Mbufs : pool[m] = 1} = Mbufs
    BY DEF GeneratorInit, Init
  <2> QED
    BY <1>1, <2>1, PoolCount
<1>3. NoPacket \in Packets
  BY PktgenAssumption DEF NoPacket, Packets
<1> QED
  BY <1>1, <1>2, <1>3, PoolRoom, PktgenAssumption DEF GeneratorInit, Init, TypeOK, Packets

LEMMA TypesStep ==
  ASSUME TypeOK, RoundsInv, FilledInv, PlacedInv, [GeneratorNext]_<<vars, reportVars>>
  PROVE  TypeOK'
<1> DEFINE Kept == UNCHANGED <<thread, repeat>>
           Room(q) == q \in [Mbufs -> 0 .. PoolSize] /\ Cardinality(EntriesOf(q)) <= PoolSize
           Others == /\ pc' \in {"start", "setup", "get", "period", "send", "exit", "done"}
                     /\ chain' \subseteq Mbufs /\ lost' \subseteq Mbufs
                     /\ table' \in Seq(Mbufs) /\ Len(table') \in {0, Burst}
                     /\ pos' \in 0 .. Burst
                     /\ ring' \in Seq(Mbufs) /\ Len(ring') <= TxDesc
                     /\ content' \in [Mbufs -> Packets]
                     /\ curRepeat' \in 0 .. repeat
                     /\ rounds' \in 0 .. Rounds
<1>0. Room(pool)
  BY DEF TypeOK, InPool, EntriesOf
<1>a. ASSUME Kept, Room(pool'), Others PROVE TypeOK'
  BY <1>a DEF TypeOK, InPool, EntriesOf, Packets
<1>b. /\ Burst \in Nat /\ Burst > 0 /\ Rounds \in Nat /\ TxDesc \in Nat /\ PoolSize \in Nat
      /\ Repeats \subseteq Nat /\ repeat \in Nat
  BY PktgenAssumption DEF TypeOK
<1>c. \A m \in Mbufs : pool[m] \in Nat
  BY <1>0, <1>b
<1>1. CASE \E m \in Mbufs : Fill(m) \/ EndOfFile(m)
  <2>1. PICK m \in Mbufs : Fill(m) \/ EndOfFile(m)
    BY <1>1
  <2>2. pool' = [pool EXCEPT ![m] = @ - 1] /\ pool[m] > 0
    BY <2>1 DEF Fill, EndOfFile, Taken
  <2>3. pool' \in [Mbufs -> Nat] /\ \A k \in Mbufs : pool'[k] <= pool[k]
    BY <2>2, <1>0, <1>b, <1>c
  <2>4. Room(pool')
    BY <2>3, <1>0, <1>b, TakenTyped, EntriesFinite
  <2>5. content' \in [Mbufs -> Packets]
    <3>1. CASE Fill(m)
      <4>1. PICK p \in PacketsFor(m) : content' = [content EXCEPT ![m] = p]
        BY <3>1 DEF Fill
      <4>2. p \in Packets /\ content \in [Mbufs -> Packets]
        BY PacketsTyped DEF TypeOK, Packets
      <4> QED
        BY <4>1, <4>2
    <3>2. CASE EndOfFile(m)
      BY <3>2 DEF EndOfFile, TypeOK, Packets
    <3> QED
      BY <2>1, <3>1, <3>2
  <2>6. Kept /\ Others
    BY <2>1, <2>5, <1>b DEF Fill, EndOfFile, TypeOK
  <2> QED
    BY <2>4, <2>6, <1>a
<1>2. CASE SetupDone
  <2>1. pool' = [m \in Mbufs |-> IF m \in chain THEN 1 ELSE 0]
    BY <1>2 DEF SetupDone
  <2>2. pool' \in [Mbufs -> 0 .. PoolSize] /\ \A m \in Mbufs : pool'[m] \in {0, 1}
    BY <2>1, PoolRoom
  <2>3. Cardinality(EntriesOf(pool')) = Cardinality({m \in Mbufs : pool'[m] = 1})
    BY <2>2, EntriesCount
  <2>4. /\ Cardinality({m \in Mbufs : pool'[m] = 1}) <= Cardinality(Mbufs)
        /\ Cardinality({m \in Mbufs : pool'[m] = 1}) \in Nat
    <3>1. {m \in Mbufs : pool'[m] = 1} \in SUBSET Mbufs
      OBVIOUS
    <3> QED
      BY <3>1, FS_Subset, FS_CardinalityType, PktgenAssumption
  <2>5. Room(pool')
    BY <2>2, <2>3, <2>4, PoolRoom
  <2>6. Kept /\ Others
    BY <1>2, <1>b DEF SetupDone, TypeOK, Packets
  <2> QED
    BY <2>5, <2>6, <1>a
<1>3. CASE Start \/ FilePlayed \/ GetFails \/ PeriodGoesOn \/ PeriodEnds \/ UNCHANGED vars
        \/ \E l \in Peers : PeerExits(l)
  <2>1. /\ UNCHANGED <<thread, repeat, pool, chain, pos, ring, content, curRepeat, rounds, lost>>
        /\ table' \in {table, <<>>}
        /\ pc' \in {pc, "setup", "get", "send", "exit"}
    BY <1>3 DEF Start, FilePlayed, GetFails, PeriodGoesOn, PeriodEnds, PeerExits, vars
  <2>2. table' \in Seq(Mbufs) /\ Len(table') \in {0, Burst}
    <3>1. CASE table' = table
      BY <3>1 DEF TypeOK
    <3>2. CASE table' = <<>>
      BY <3>2
    <3> QED
      BY <2>1, <3>1, <3>2
  <2>3. pc' \in {"start", "setup", "get", "period", "send", "exit", "done"}
    BY <2>1 DEF TypeOK
  <2>4. Kept /\ Others /\ pool' = pool
    BY <2>1, <2>2, <2>3 DEF TypeOK, Packets
  <2> QED
    BY <2>4, <1>0, <1>a
<1>4. CASE GetBulk
  <2>1. PICK s \in [1 .. Burst -> Mbufs] :
          /\ \A m \in Mbufs : Copies(m, s) <= pool[m]
          /\ table' = s
          /\ pool' = [m \in Mbufs |-> pool[m] - Copies(m, s)]
    BY <1>4 DEF GetBulk
  <2>2. s \in Seq(Mbufs) /\ Len(s) = Burst
    BY <1>b
  <2>3. \A m \in Mbufs : Copies(m, s) \in Nat
    BY <2>2, <1>b, CopiesCount
  <2>4. pool' \in [Mbufs -> Nat] /\ \A k \in Mbufs : pool'[k] <= pool[k]
    BY <2>1, <2>3, <1>c
  <2>5. Room(pool')
    <3>1. /\ pool' \in [Mbufs -> 0 .. PoolSize]
          /\ Cardinality(EntriesOf(pool')) <= Cardinality(EntriesOf(pool))
      BY <2>4, <1>0, TakenTyped
    <3>2. Cardinality(EntriesOf(pool')) \in Nat /\ Cardinality(EntriesOf(pool)) \in Nat
      BY EntriesFinite
    <3> QED
      BY <3>1, <3>2, <1>0, <1>b
  <2>6. /\ UNCHANGED <<thread, repeat, chain, ring, content, curRepeat, rounds, lost>>
        /\ pos' = 0 /\ pc' \in {"period", "send"}
    BY <1>4 DEF GetBulk
  <2>7. Kept /\ Others
    <3>1. table' \in Seq(Mbufs) /\ Len(table') \in {0, Burst}
      BY <2>1, <2>2
    <3>2. pc' \in {"start", "setup", "get", "period", "send", "exit", "done"} /\ pos' \in 0 .. Burst
      BY <2>6, <1>b
    <3> QED
      BY <2>6, <3>1, <3>2 DEF TypeOK, Packets
  <2> QED
    BY <2>5, <2>7, <1>a
<1>5. CASE TxBurst
  <2>1. pos < Burst /\ pos' = pos + Fitting /\ Fitting \in Nat /\ Fitting <= Burst - pos
    BY <1>5, <1>b DEF TxBurst, Fitting, TypeOK
  <2>2. pos' \in 0 .. Burst
    BY <2>1, <1>b DEF TypeOK
  <2>3. ring' \in Seq(Mbufs)
    BY <1>5, TxFilled DEF FilledInv
  <2>4. Len(ring') <= TxDesc
    BY <1>5, TxRing DEF PlacedInv
  <2>5. Kept /\ Others /\ pool' = pool
    BY <1>5, <2>2, <2>3, <2>4, <1>b DEF TxBurst, TypeOK, Packets
  <2> QED
    BY <2>5, <1>0, <1>a
<1>6. CASE BurstSent
  <2>1. pc' \in {"setup", "period", "get", "done"}
    BY <1>6, PktgenAssumption DEF BurstSent, AfterBurst, CountsRounds, RoundsInv, Threads
  <2>2. rounds' \in 0 .. Rounds
    BY <1>6, <1>b DEF BurstSent, RoundsInv, TypeOK
  <2>3. table' \in Seq(Mbufs) /\ Len(table') \in {0, Burst}
    BY <1>6 DEF BurstSent, TypeOK
  <2>4. /\ UNCHANGED <<thread, repeat, pool, chain, ring, content, curRepeat, lost>>
        /\ pos' = 0
    BY <1>6 DEF BurstSent
  <2>5. Kept /\ Others /\ pool' = pool
    BY <2>1, <2>2, <2>3, <2>4, <1>b DEF TypeOK, Packets
  <2> QED
    BY <2>5, <1>0, <1>a
<1>7. CASE Device
  <2>1. Head(ring) \in Mbufs /\ ring' \in Seq(Mbufs) /\ Len(ring') <= TxDesc
    <3>1. ring \in Seq(Mbufs) /\ ring # <<>> /\ ring' = Tail(ring) /\ Len(ring) <= TxDesc
      BY <1>7 DEF Device, TypeOK
    <3>2. Len(ring) \in Nat /\ Len(Tail(ring)) = Len(ring) - 1
      BY <3>1
    <3> QED
      BY <3>1, <3>2, <1>b
  <2>2. InPool = Cardinality(EntriesOf(pool))
    BY DEF InPool, EntriesOf
  <2>3. Room(pool')
    <3>1. CASE InPool < PoolSize
      BY <3>1, <2>1, <2>2, <1>0, <1>7, ReturnedTyped DEF Device
    <3>2. CASE ~(InPool < PoolSize)
      BY <3>2, <1>0, <1>7 DEF Device
    <3> QED
      BY <3>1, <3>2
  <2>4. Kept /\ Others
    BY <1>7, <2>1, <1>b DEF Device, TypeOK, Packets
  <2> QED
    BY <2>3, <2>4, <1>a
<1> QED
  BY <1>1, <1>2, <1>3, <1>4, <1>5, <1>6, <1>7
     DEF GeneratorNext, Lcore, SetupPackets, Finished, SelfDone, PeerDone, ReportStep

\* TypeOK of module Pktgen: among its types, the pool never takes more than it
\* has room for, and the checksums are of a word's width.
THEOREM GeneratorTyped == GeneratorSpec => []TypeOK
<1>1. TypeOK /\ RoundsInv /\ FilledInv /\ PlacedInv /\ [GeneratorNext]_<<vars, reportVars>>
        => TypeOK'
  BY TypesStep
<1> QED
  BY <1>1, TypesInitially, RoundsInitially, RoundsStep, FilledInitially, FreshStep, FilledStep,
     OnceInitially, OnceStep, PlacedInitially, PlacedStep, PTL DEF GeneratorSpec
-----------------------------------------------------------------------------
(***************************************************************************)
(* The flag is never lost on its way: an lcore that has passed it on raised *)
(* that of the next queue, and the queues are handed out without a gap, so  *)
(* that the first lcore which has not passed has its flag up, and nobody    *)
(* else of those.                                                           *)
(***************************************************************************)
FlagsGiven ==
  /\ report_flag[0] # 0
  /\ \A l \in Lcores : at[l] \in Passed => report_flag[QueueOf(l) + 1] # 0

\* Whose turn it is.
Holder(l) == at[l] \notin Passed /\ report_flag[QueueOf(l)] # 0

\* No flag is taken back.
LEMMA FlagsStay ==
  ASSUME ReportInv, NEW l \in Lcores, StepOf(l), NEW q \in 0 .. MaxLcore, report_flag[q] # 0
  PROVE  report_flag'[q] # 0
<1>1. CASE Pass(l)
  <2>1. report_flag \in [0 .. MaxLcore -> {0, 1}]
    BY DEF ReportInv, ReportTypeOK
  <2>2. report_flag' = [report_flag EXCEPT ![QueueOf(l) + 1] = 1]
    BY <1>1 DEF Pass
  <2> QED
    BY <2>1, <2>2
<1>2. CASE ~Pass(l)
  BY <1>2 DEF StepOf, Reports, SendDone, Turn, ReadCycle, RaiseCycle, LoadPkts, StorePkts,
              ReadTime, PrintTotal, Leave
<1> QED
  BY <1>1, <1>2

LEMMA QueueAfter ==
  ASSUME ReportInv, NEW l \in Lcores
  PROVE  /\ QueueOf(l) \in 0 .. MaxLcore /\ QueueOf(l) + 1 \in 0 .. MaxLcore
         /\ 0 \in 0 .. MaxLcore
<1>1. QueueOf(l) \in Queues /\ MaxLcore \in Nat
  BY QueueFound, ReportAssumption DEF ReportInv
<1> QED
  BY <1>1 DEF Queues

LEMMA GivenStep ==
  ReportInv /\ FlagsGiven /\ [ReportNext]_reportVars => FlagsGiven'
<1> SUFFICES ASSUME ReportInv, FlagsGiven, [ReportNext]_reportVars PROVE FlagsGiven'
  OBVIOUS
<1>1. CASE UNCHANGED reportVars
  BY <1>1 DEF reportVars, FlagsGiven, QueueOf
<1>2. CASE ReportNext
  <2>1. PICK l \in Lcores : StepOf(l)
    BY <1>2 DEF ReportNext, StepOf
  <2>2. \A k \in Lcores : QueueOf(k)' = QueueOf(k)
    BY <1>2, TableKept
  <2>3. report_flag'[0] # 0
    BY <2>1, FlagsStay, QueueAfter DEF FlagsGiven
  <2>4. ASSUME NEW k \in Lcores, at'[k] \in Passed PROVE report_flag'[QueueOf(k) + 1] # 0
    <3>1. CASE at[k] \in Passed
      BY <2>1, <3>1, FlagsStay, QueueAfter DEF FlagsGiven
    <3>2. CASE at[k] \notin Passed
      <4>1. k = l /\ Pass(l)
        BY <2>1, <2>4, <3>2 DEF StepOf, Reports, SendDone, Turn, ReadCycle, RaiseCycle, LoadPkts,
           StorePkts, Pass, ReadTime, PrintTotal, Leave, GoesTo, Passed, ReportInv, ReportTypeOK
      <4>2. /\ report_flag \in [0 .. MaxLcore -> {0, 1}]
            /\ report_flag' = [report_flag EXCEPT ![QueueOf(l) + 1] = 1]
        BY <4>1 DEF Pass, ReportInv, ReportTypeOK
      <4> QED
        BY <4>1, <4>2, QueueAfter
    <3> QED
      BY <3>1, <3>2
  <2> QED
    BY <2>2, <2>3, <2>4 DEF FlagsGiven
<1> QED
  BY <1>1, <1>2

\* The lcore before one that has a queue has the queue before.
LEMMA QueueBefore ==
  ASSUME ReportInv, NEW l \in Lcores, NEW q \in Nat, QueueOf(l) = q + 1
  PROVE  \E k \in Lcores : QueueOf(k) = q
<1>1. /\ QueueOf(l) \in Queues /\ queueid_to_lcoreid[QueueOf(l)] = l
      /\ InSuccession(queueid_to_lcoreid)
      /\ queueid_to_lcoreid \in [Queues -> Lcores \cup {-1}]
  BY QueueFound DEF ReportInv, ReportTypeOK
<1>2. q \in Queues /\ q < QueueOf(l) /\ l # -1
  BY <1>1, ReportAssumption DEF Queues
<1>3. queueid_to_lcoreid[q] # -1
  BY <1>1, <1>2 DEF InSuccession
<1>4. PICK k \in Lcores : queueid_to_lcoreid[q] = k
  BY <1>1, <1>2, <1>3
<1>5. QueueOf(k) \in Queues /\ queueid_to_lcoreid[QueueOf(k)] = k /\ k # -1
  BY <1>1, QueueFound, ReportAssumption
<1>6. ~(QueueOf(k) < q) /\ ~(q < QueueOf(k))
  <2>1. \A i, j \in Queues : i < j /\ queueid_to_lcoreid[j] # -1
                               => queueid_to_lcoreid[i] < queueid_to_lcoreid[j]
    BY <1>1 DEF InSuccession
  <2>2. ~(k < k)
    BY ReportAssumption
  <2> QED
    BY <1>2, <1>4, <1>5, <2>1, <2>2
<1>7. QueueOf(k) = q
  BY <1>2, <1>5, <1>6 DEF Queues
<1> QED
  BY <1>7

LEMMA HolderFound ==
  ASSUME ReportInv, FlagsGiven, NEW m \in Lcores, at[m] \notin Passed
  PROVE  \E l \in Lcores : Holder(l) /\ \A k \in Lcores : Holder(k) => k = l
<1> DEFINE T == {QueueOf(l) : l \in {k \in Lcores : at[k] \notin Passed}}
<1>1. \A k \in Lcores : QueueOf(k) \in Nat
  BY QueueAfter
<1>2. T \in SUBSET Nat /\ T # {}
  BY <1>1
<1>3. PICK q \in T : \A r \in T : q <= r
  <2> HIDE DEF T
  <2> QED
    BY <1>2, LeastElement
<1>4. PICK l \in Lcores : at[l] \notin Passed /\ QueueOf(l) = q
  BY <1>3
<1>5. report_flag[q] # 0
  <2>1. CASE q = 0
    BY <2>1 DEF FlagsGiven
  <2>2. CASE q # 0
    <3>1. q - 1 \in Nat /\ QueueOf(l) = (q - 1) + 1
      BY <1>1, <1>4, <2>2
    <3>2. PICK k \in Lcores : QueueOf(k) = q - 1
      BY <3>1, QueueBefore
    <3>3. QueueOf(k) \notin T
      BY <1>1, <1>3, <1>4, <3>1, <3>2
    <3>4. at[k] \in Passed
      BY <3>3
    <3>5. report_flag[QueueOf(k) + 1] # 0
      BY <3>4 DEF FlagsGiven
    <3> QED
      BY <1>4, <3>1, <3>2, <3>5
  <2> QED
    BY <2>1, <2>2
<1>6. ASSUME NEW k \in Lcores, Holder(k) PROVE k = l
  <2>1. QueueOf(k) \in T
    BY <1>6 DEF Holder
  <2>2. ~(QueueOf(l) < QueueOf(k))
    BY <1>4, <1>6, QueueAfter DEF Holder, ReportInv, FlagsFollow
  <2>3. QueueOf(k) = QueueOf(l)
    BY <1>1, <1>3, <1>4, <2>1, <2>2
  <2> QED
    BY <2>3, QueueOrder, ReportAssumption DEF ReportInv
<1> QED
  BY <1>4, <1>5, <1>6 DEF Holder

(***************************************************************************)
(* As long as an lcore has not passed the flag on, just one of them has it: *)
(* the report cannot come to a stand, and no two lcores can be let in,      *)
(* whichever lcores are enabled and however long any of them sends (main.c  *)
(* 907-921, and app_init 423-434).                                          *)
(***************************************************************************)
THEOREM FlagHeld ==
  ReportSpec =>
    []((\E m \in Lcores : at[m] \notin Passed)
         => \E l \in Lcores : Holder(l) /\ \A k \in Lcores : Holder(k) => k = l)
<1>1. ReportInit => FlagsGiven
  BY ReportAssumption DEF ReportInit, AppInit, FlagsGiven, Passed
<1>2. ReportInv /\ FlagsGiven =>
        ((\E m \in Lcores : at[m] \notin Passed)
           => \E l \in Lcores : Holder(l) /\ \A k \in Lcores : Holder(k) => k = l)
  BY HolderFound
<1> QED
  BY <1>1, <1>2, Initially, InvStep, GivenStep, PTL DEF ReportSpec

\* The steps an lcore still has to take, its sending counted as one.
ReportLeft(l) ==
  CASE at[l] = "send"  -> 10
    [] at[l] = "wait"  -> 9
    [] at[l] = "cycle" -> 8
    [] at[l] = "raise" -> 7
    [] at[l] = "load"  -> 6
    [] at[l] = "store" -> 5
    [] at[l] = "pass"  -> 4
    [] at[l] = "sleep" -> 3
    [] at[l] = "total" -> 2
    [] at[l] = "rate"  -> 1
    [] at[l] = "done"  -> 0

(***************************************************************************)
(* The report is a bounded number of steps, and the one who holds the flag  *)
(* is never at a step it cannot take: each step of an lcore is one fewer    *)
(* for it and as many for the others.  Of AllCounted only the fairness is   *)
(* left, and that the rounds end (RoundsBounded).                           *)
(***************************************************************************)
THEOREM ReportBounded ==
  ReportSpec => [][\E l \in Lcores :
                     /\ ReportLeft(l) \in 1 .. 10 /\ ReportLeft(l)' \in 0 .. 9
                     /\ ReportLeft(l)' < ReportLeft(l)
                     /\ \A k \in Lcores \ {l} : ReportLeft(k)' = ReportLeft(k)]_reportVars
<1> DEFINE Fewer(l) == /\ ReportLeft(l) \in 1 .. 10 /\ ReportLeft(l)' \in 0 .. 9
                       /\ ReportLeft(l)' < ReportLeft(l)
                       /\ \A k \in Lcores \ {l} : ReportLeft(k)' = ReportLeft(k)
<1>1. ASSUME ReportInv, ReportNext PROVE \E l \in Lcores : Fewer(l)
  <2>1. PICK l \in Lcores : StepOf(l)
    BY <1>1 DEF ReportNext, StepOf
  <2>2. /\ at \in [Lcores -> {"send", "wait"} \cup Holding \cup Passed]
    BY <1>1 DEF ReportInv, ReportTypeOK
  <2>3. \E to \in {"wait", "cycle", "raise", "load", "store", "pass", "sleep", "total", "rate", "done"} :
          /\ at' = [at EXCEPT ![l] = to]
          /\ \/ at[l] = "send" /\ to = "wait"
             \/ at[l] = "wait" /\ to = "cycle"
             \/ at[l] = "cycle" /\ to \in {"raise", "load"}
             \/ at[l] = "raise" /\ to = "load"
             \/ at[l] = "load" /\ to = "store"
             \/ at[l] = "store" /\ to = "pass"
             \/ at[l] = "pass" /\ to = "sleep"
             \/ at[l] = "sleep" /\ to \in {"total", "done"}
             \/ at[l] = "total" /\ to = "rate"
             \/ at[l] = "rate" /\ to = "done"
    BY <2>1 DEF StepOf, Reports, SendDone, Turn, ReadCycle, RaiseCycle, LoadPkts, StorePkts,
       Pass, ReadTime, PrintTotal, Leave, GoesTo
  <2>4. \A k \in Lcores \ {l} : at'[k] = at[k]
    BY <2>2, <2>3
  <2>5. \A k \in Lcores \ {l} : ReportLeft(k)' = ReportLeft(k)
    BY <2>2, <2>4 DEF ReportLeft, Holding, Passed
  <2>6. /\ ReportLeft(l) \in 1 .. 10 /\ ReportLeft(l)' \in 0 .. 9
        /\ ReportLeft(l)' < ReportLeft(l)
    BY <2>2, <2>3 DEF ReportLeft, Holding, Passed
  <2> QED
    BY <2>5, <2>6
<1> QED
  BY <1>1, ReportInvariance, PTL DEF ReportSpec

-----------------------------------------------------------------------------
(***************************************************************************)
(* The generator comes on: what is left of the set-up, of a burst, and of   *)
(* the rounds of app_thread_sendnumpkts.                                    *)
(***************************************************************************)
\* Every mbuf in the TX ring may come back once and then be taken out once more.
SetupLeft == InPool + 2 * Len(ring)

SendLeft == 2 * (Burst - pos) + Len(ring)

RoundsLeft ==
  CASE pc = "start" -> 2 * Rounds + 3
    [] pc = "setup" -> 2 * Rounds + 2
    [] pc = "get"   -> 2 * (Rounds - rounds) + 1
    [] pc = "send"  -> 2 * (Rounds - rounds)
    [] pc = "done"  -> 1
    [] pc \in {"period", "exit"} -> 0

\* One entry fewer in the pool, when an mbuf is taken out.
LEMMA EntriesTaken ==
  ASSUME NEW q \in [Mbufs -> 0 .. PoolSize], NEW m \in Mbufs, q[m] > 0
  PROVE  Cardinality(EntriesOf([q EXCEPT ![m] = @ - 1])) = Cardinality(EntriesOf(q)) - 1
<1> DEFINE r == [q EXCEPT ![m] = @ - 1]
           x == <<m, q[m]>>
<1>1. PoolSize \in Nat /\ q[m] \in 1 .. PoolSize
  BY PoolRoom
<1>2. x \in EntriesOf(q)
  BY <1>1 DEF EntriesOf
<1>3. EntriesOf(r) = EntriesOf(q) \ {x}
  <2>1. ASSUME NEW e \in Mbufs \X (1 .. PoolSize)
        PROVE  e[2] <= r[e[1]] <=> e[2] <= q[e[1]] /\ e # x
    <3>1. e[1] \in Mbufs /\ e[2] \in 1 .. PoolSize /\ e = <<e[1], e[2]>>
      OBVIOUS
    <3>2. CASE e[1] = m
      <4>1. r[e[1]] = q[m] - 1 /\ e[2] \in Nat /\ q[m] \in Nat
        BY <1>1, <3>1, <3>2
      <4>2. e # x <=> e[2] # q[m]
        BY <3>1, <3>2
      <4> QED
        BY <3>2, <4>1, <4>2
    <3>3. CASE e[1] # m
      BY <3>1, <3>3
    <3> QED
      BY <3>2, <3>3
  <2> QED
    BY <2>1 DEF EntriesOf
<1>4. IsFiniteSet(EntriesOf(q)) /\ Cardinality(EntriesOf(q)) \in Nat
  BY EntriesFinite
<1> HIDE DEF r, x
<1>5. Cardinality(EntriesOf(q) \ {x}) = Cardinality(EntriesOf(q)) - 1
  BY <1>2, <1>4, FS_RemoveElement
<1> QED
  BY <1>3, <1>5 DEF r

\* At most one entry more, when the device puts one back.
LEMMA EntriesReturned ==
  ASSUME NEW q \in [Mbufs -> 0 .. PoolSize], NEW m \in Mbufs
  PROVE  Cardinality(EntriesOf([q EXCEPT ![m] = @ + 1])) <= Cardinality(EntriesOf(q)) + 1
<1> DEFINE r == [q EXCEPT ![m] = @ + 1]
           x == <<m, q[m] + 1>>
<1>1. PoolSize \in Nat /\ q[m] \in Nat
  BY PoolRoom
<1>2. EntriesOf(r) \in SUBSET (EntriesOf(q) \cup {x})
  <2>1. ASSUME NEW e \in EntriesOf(r), e \notin EntriesOf(q) PROVE e = x
    <3>1. e \in Mbufs \X (1 .. PoolSize) /\ e[2] <= r[e[1]] /\ ~(e[2] <= q[e[1]])
      BY <2>1 DEF EntriesOf
    <3>2. e[1] = m
      BY <3>1
    <3>3. e[2] \in Nat /\ e[2] <= q[m] + 1 /\ ~(e[2] <= q[m])
      BY <3>1, <3>2, <1>1
    <3>4. e[2] = q[m] + 1
      BY <3>3, <1>1
    <3> QED
      BY <3>1, <3>2, <3>4
  <2> QED
    BY <2>1
<1>3. IsFiniteSet(EntriesOf(q)) /\ Cardinality(EntriesOf(q)) \in Nat
  BY EntriesFinite
<1>4. Cardinality(EntriesOf(r)) \in Nat
  BY EntriesFinite
<1> HIDE DEF r, x
<1>5. /\ IsFiniteSet(EntriesOf(q) \cup {x})
      /\ Cardinality(EntriesOf(q) \cup {x}) <= Cardinality(EntriesOf(q)) + 1
      /\ Cardinality(EntriesOf(q) \cup {x}) \in Nat
  <2>1. /\ IsFiniteSet(EntriesOf(q) \cup {x})
        /\ Cardinality(EntriesOf(q) \cup {x}) <= Cardinality(EntriesOf(q)) + 1
    BY <1>3, FS_AddElement
  <2> QED
    BY <2>1, FS_CardinalityType
<1>6. Cardinality(EntriesOf(r)) <= Cardinality(EntriesOf(q) \cup {x})
  BY <1>2, <1>5, FS_Subset
<1> QED
  BY <1>3, <1>4, <1>5, <1>6 DEF r

\* What the device does to either.
LEMMA DeviceShortens ==
  ASSUME TypeOK, Device
  PROVE  /\ Len(ring) \in Nat /\ Len(ring') = Len(ring) - 1 /\ Len(ring') \in Nat
         /\ InPool \in Nat /\ InPool' \in Nat /\ InPool' <= InPool + 1
<1>1. ring \in Seq(Mbufs) /\ ring # <<>> /\ ring' = Tail(ring)
  BY DEF Device, TypeOK
<1>2. Len(ring) \in Nat /\ Len(ring') = Len(ring) - 1 /\ Len(ring') \in Nat
  BY <1>1
<1>3. Head(ring) \in Mbufs
  BY <1>1
<1>4. InPool = Cardinality(EntriesOf(pool)) /\ InPool' = Cardinality(EntriesOf(pool'))
  BY DEF InPool, EntriesOf
<1>5. InPool \in Nat /\ InPool' \in Nat
  BY <1>4, EntriesFinite
<1>6. pool' = pool \/ pool' = [pool EXCEPT ![Head(ring)] = @ + 1]
  BY DEF Device
<1>7. pool \in [Mbufs -> 0 .. PoolSize]
  BY DEF TypeOK
<1>8. InPool' <= InPool + 1
  <2>1. CASE pool' = pool
    BY <1>4, <1>5, <2>1
  <2>2. CASE pool' = [pool EXCEPT ![Head(ring)] = @ + 1]
    BY <1>3, <1>4, <1>7, <2>2, EntriesReturned
  <2> QED
    BY <1>6, <2>1, <2>2
<1> QED
  BY <1>2, <1>5, <1>8

(***************************************************************************)
(* pktgen_setup_packets takes mbufs until the pool is empty while the device*)
(* puts mbufs back: every step of either uses up a natural number all the   *)
(* same, so the loop ends (pktgen/main.c 629-733).                          *)
(***************************************************************************)
THEOREM SetupBounded ==
  GeneratorSpec =>
    /\ [](SetupLeft \in Nat)
    /\ [][pc = "setup" /\ pc' = "setup" => SetupLeft' < SetupLeft]_vars
<1>1. TypeOK => SetupLeft \in Nat
  <2> SUFFICES ASSUME TypeOK PROVE SetupLeft \in Nat
    OBVIOUS
  <2>1. InPool \in Nat
    BY EntriesFinite DEF InPool, EntriesOf
  <2>2. Len(ring) \in Nat
    BY DEF TypeOK
  <2> QED
    BY <2>1, <2>2 DEF SetupLeft
<1>2. ASSUME TypeOK, [GeneratorNext]_<<vars, reportVars>>
      PROVE  [pc = "setup" /\ pc' = "setup" => SetupLeft' < SetupLeft]_vars
  <2>0. SUFFICES ASSUME GeneratorNext, pc = "setup", pc' = "setup", vars' # vars
                 PROVE  SetupLeft' < SetupLeft
    BY <1>2
  <2>1. Device \/ \E m \in Mbufs : Fill(m) \/ EndOfFile(m)
    BY <2>0 DEF GeneratorNext, Lcore, SetupPackets, Start, FilePlayed, SetupDone, GetBulk,
       GetFails, TxBurst, BurstSent, PeriodGoesOn, PeriodEnds, Finished, SelfDone, PeerDone,
       PeerExits, ReportStep
  <2>2. CASE Device
    BY <1>2, <2>2, DeviceShortens DEF SetupLeft
  <2>3. ASSUME NEW m \in Mbufs, Fill(m) \/ EndOfFile(m) PROVE SetupLeft' < SetupLeft
    <3>1. pool[m] > 0 /\ pool' = [pool EXCEPT ![m] = @ - 1] /\ ring' = ring
      BY <2>3 DEF Fill, EndOfFile, Taken
    <3>2. pool \in [Mbufs -> 0 .. PoolSize] /\ Len(ring) \in Nat
      BY <1>2 DEF TypeOK
    <3>3. InPool = Cardinality(EntriesOf(pool)) /\ InPool' = Cardinality(EntriesOf(pool'))
      BY DEF InPool, EntriesOf
    <3>4. InPool \in Nat /\ InPool' = InPool - 1
      BY <3>1, <3>2, <3>3, EntriesTaken, EntriesFinite
    <3> QED
      BY <3>1, <3>2, <3>4 DEF SetupLeft
  <2> QED
    BY <2>1, <2>2, <2>3
<1> QED
  BY <1>1, <1>2, GeneratorTyped, PTL DEF GeneratorSpec

(***************************************************************************)
(* The loop around rte_eth_tx_burst ends: every burst the device accepts and*)
(* every packet it sends brings it nearer, and where it accepts nothing it  *)
(* has something to send (pktgen/main.c 737-756, 799-815).                  *)
(***************************************************************************)
THEOREM SendBounded ==
  GeneratorSpec =>
    /\ [](/\ SendLeft \in Nat
          /\ pc = "send" /\ pos < Burst /\ ~(Fitting > 0) => ring # <<>>)
    /\ [][pc = "send" /\ pc' = "send" => SendLeft' < SendLeft]_vars
<1>0. Burst \in Nat /\ TxDesc \in Nat /\ TxDesc > 0
  BY PktgenAssumption
<1>1. TypeOK => /\ SendLeft \in Nat
                /\ pc = "send" /\ pos < Burst /\ ~(Fitting > 0) => ring # <<>>
  <2> SUFFICES ASSUME TypeOK
               PROVE  /\ SendLeft \in Nat
                      /\ pc = "send" /\ pos < Burst /\ ~(Fitting > 0) => ring # <<>>
    OBVIOUS
  <2>1. Len(ring) \in Nat /\ pos \in Nat /\ pos <= Burst
    BY <1>0 DEF TypeOK
  <2>2. ring = <<>> => Len(ring) = 0
    OBVIOUS
  <2> QED
    BY <1>0, <2>1, <2>2 DEF SendLeft, Fitting
<1>2. ASSUME TypeOK, FilledInv, [GeneratorNext]_<<vars, reportVars>>
      PROVE  [pc = "send" /\ pc' = "send" => SendLeft' < SendLeft]_vars
  <2>0. SUFFICES ASSUME GeneratorNext, pc = "send", pc' = "send", vars' # vars
                 PROVE  SendLeft' < SendLeft
    BY <1>2
  <2>1. Device \/ TxBurst \/ BurstSent
    BY <2>0 DEF GeneratorNext, Lcore, SetupPackets, Start, Fill, EndOfFile, FilePlayed, SetupDone,
       GetBulk, GetFails, PeriodGoesOn, PeriodEnds, Finished, SelfDone, PeerDone, PeerExits,
       ReportStep
  <2>2. pos \in Nat /\ Len(ring) \in Nat /\ pos <= Burst
    BY <1>0, <1>2 DEF TypeOK
  <2>3. CASE Device
    <3>1. pos' = pos
      BY <2>3 DEF Device
    <3> QED
      BY <1>0, <1>2, <2>2, <2>3, <3>1, DeviceShortens DEF SendLeft
  <2>4. CASE TxBurst
    <3> DEFINE f == Fitting
    <3>1. f \in Nat /\ f > 0 /\ pos + f <= Burst
      BY <1>0, <2>2, <2>4 DEF TxBurst, Fitting
    <3>2. /\ pos' = pos + f /\ ring' = ring \o SubSeq(table, pos + 1, pos + f)
          /\ ring \in Seq(Mbufs) /\ table \in Seq(Mbufs) /\ Len(table) = Burst
      BY <1>2, <2>0, <2>4 DEF TxBurst, FilledInv
    <3> HIDE DEF f
    <3>3. /\ SubSeq(table, pos + 1, pos + f) \in Seq(Mbufs)
          /\ Len(SubSeq(table, pos + 1, pos + f)) = f
      <4>1. pos + 1 \in Nat /\ pos + f \in Nat /\ pos + f <= Len(table) /\ pos + 1 >= 1
        BY <1>0, <2>2, <3>1, <3>2
      <4> QED
        BY <2>2, <3>1, <3>2, <4>1
    <3>4. Len(ring') = Len(ring) + f
      BY <3>2, <3>3
    <3>5. SendLeft' = 2 * (Burst - (pos + f)) + (Len(ring) + f)
      BY <3>2, <3>4 DEF SendLeft
    <3> QED
      BY <1>0, <2>2, <3>1, <3>5 DEF SendLeft
  <2>5. CASE BurstSent
    <3>1. pc' = AfterBurst /\ thread \in {"fps", "throughput", "pcap", "sendnumpkts"}
      BY <1>2, <2>5 DEF BurstSent, TypeOK, Threads
    <3>2. pc' \in {"setup", "period", "get", "done"}
      BY <1>2, <3>1, PktgenAssumption DEF AfterBurst, CountsRounds, TypeOK
    <3> QED
      BY <2>0, <3>2
  <2> QED
    BY <2>1, <2>3, <2>4, <2>5
<1> QED
  BY <1>1, <1>2, GeneratorTyped, RoundsInitially, RoundsStep, FilledInitially, FreshStep,
     FilledStep, PTL DEF GeneratorSpec

(***************************************************************************)
(* app_thread_sendnumpkts sends its rounds and no more: it goes from one    *)
(* burst to the next, and each time it moves on there is less left, until   *)
(* it has returned (pktgen/main.c 874-935).                                 *)
(***************************************************************************)
THEOREM RoundsBounded ==
  GeneratorSpec =>
    /\ [](RoundsLeft \in Nat)
    /\ [][thread = "sendnumpkts" =>
            IF pc' = pc THEN RoundsLeft' = RoundsLeft ELSE RoundsLeft' < RoundsLeft]_vars
<1>0. Rounds \in Nat
  BY PktgenAssumption
<1>1. ASSUME TypeOK PROVE RoundsLeft \in Nat
  <2>1. /\ pc \in {"start", "setup", "get", "period", "send", "exit", "done"}
        /\ rounds \in 0 .. Rounds
    BY <1>1 DEF TypeOK
  <2> QED
    BY <1>0, <2>1 DEF RoundsLeft
<1>2. ASSUME TypeOK, RoundsInv, [GeneratorNext]_<<vars, reportVars>>
      PROVE  [thread = "sendnumpkts" =>
                IF pc' = pc THEN RoundsLeft' = RoundsLeft ELSE RoundsLeft' < RoundsLeft]_vars
  <2>0. SUFFICES ASSUME GeneratorNext, thread = "sendnumpkts", vars' # vars
                 PROVE  IF pc' = pc THEN RoundsLeft' = RoundsLeft ELSE RoundsLeft' < RoundsLeft
    BY <1>2
  <2>1. /\ pc \in {"start", "setup", "get", "send", "exit", "done"}
        /\ rounds \in 0 .. Rounds /\ (pc \in {"get", "send"} => rounds < Rounds)
    BY <1>2, <2>0 DEF TypeOK, RoundsInv, CountsRounds
  <2>a. BurstSent => pc = "send" /\ pc' \in {"get", "done"} /\ rounds' = rounds + 1
    BY <1>0, <2>0, <2>1 DEF BurstSent, AfterBurst, CountsRounds
  <2>2. CASE pc' = pc
    <3>1. rounds' = rounds
      BY <2>0, <2>1, <2>a, <2>2 DEF GeneratorNext, Lcore, SetupPackets, Start, Fill, EndOfFile, FilePlayed,
         SetupDone, GetBulk, GetFails, TxBurst, PeriodGoesOn, PeriodEnds, Device, Finished,
         SelfDone, PeerDone, PeerExits, ReportStep, vars
    <3>2. RoundsLeft' = RoundsLeft
      BY <2>1, <2>2, <3>1 DEF RoundsLeft
    <3> QED
      BY <2>2, <3>2
  <2>3. CASE pc' # pc
    <3>1. \/ pc = "start" /\ pc' = "setup"
          \/ pc = "setup" /\ pc' = "get" /\ rounds' = 0
          \/ pc = "get" /\ pc' = "send" /\ rounds' = rounds
          \/ pc = "send" /\ pc' = "get" /\ rounds' = rounds + 1
          \/ pc = "send" /\ pc' = "done"
          \/ pc # "exit" /\ pc' = "exit"
      BY <2>0, <2>1, <2>a, <2>3 DEF GeneratorNext, Lcore, SetupPackets, Start, Fill, EndOfFile, FilePlayed,
         SetupDone, GetBulk, GetFails, TxBurst, PeriodGoesOn, PeriodEnds, Device, Finished,
         SelfDone, PeerDone, PeerExits, ReportStep, vars
    <3>2. RoundsLeft' < RoundsLeft
      BY <1>0, <2>1, <3>1 DEF RoundsLeft
    <3> QED
      BY <2>3, <3>2
  <2> QED
    BY <2>2, <2>3
<1> QED
  BY <1>1, <1>2, GeneratorTyped, RoundsInitially, RoundsStep, PTL DEF GeneratorSpec

=============================================================================
