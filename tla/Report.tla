-------------------------------- MODULE Report --------------------------------
(***************************************************************************)
(* The report of app_thread_sendnumpkts (pktgen/main.c): the lcores add the *)
(* packets they sent to one total, one after the other, by passing a flag   *)
(* from queue to queue; after a sleep the lcore of queue 0 prints.  Each    *)
(* read and each write of a volatile variable is a step of its own.  The    *)
(* sleeps order nothing: a thread may sleep on while others run, or not.    *)
(***************************************************************************)
EXTENDS Integers, Sequences

CONSTANTS
  Lcores,    \* the enabled lcores, by number
  MaxLcore,  \* RTE_MAX_LCORE
  Width,     \* 2^32, the values of a uint32_t
  Totals,    \* what an lcore may have sent
  Cycles     \* how long it may have taken

ASSUME ReportAssumption ==
  /\ MaxLcore \in Nat
  /\ Lcores \subseteq 0 .. MaxLcore - 1
  /\ Width \in Nat \ {0}
  /\ Totals \subseteq 0 .. Width - 1
  /\ Cycles \subseteq Nat

VARIABLES
  queueid_to_lcoreid,
  report_flag,
  at,                  \* where each lcore is in the report
  seen,                \* the total each has read
  total_pkts,
  total_cycle,
  overall_total_cycle,
  overall_total_pkts,
  time,                \* the time queue 0 prints
  prints               \* the totals queue 0 printed

reportVars ==
  <<queueid_to_lcoreid, report_flag, at, seen, total_pkts, total_cycle,
    overall_total_cycle, overall_total_pkts, time, prints>>

Queues == 0 .. MaxLcore - 1

\* The loop of app_init gives the queues to the enabled lcores as they come.
InSuccession(t) ==
  /\ \A l \in Lcores : \E q \in Queues : t[q] = l
  /\ \A q, r \in Queues : q < r /\ t[r] # -1 => t[q] # -1 /\ t[q] < t[r]

\* Mutant of AppInit: all flags are set.
AppInitOpen ==
  /\ queueid_to_lcoreid \in {t \in [Queues -> Lcores \cup {-1}] : InSuccession(t)}
  /\ report_flag = [q \in 0 .. MaxLcore |-> 1]
  /\ overall_total_cycle = 0
  /\ overall_total_pkts = 0

AppInit ==
  /\ queueid_to_lcoreid \in {t \in [Queues -> Lcores \cup {-1}] : InSuccession(t)}
  /\ report_flag = [q \in 0 .. MaxLcore |-> IF q = 0 THEN 1 ELSE 0]
  /\ overall_total_cycle = 0
  /\ overall_total_pkts = 0

ReportInit ==
  /\ AppInit
  /\ at = [l \in Lcores |-> "send"]
  /\ seen = [l \in Lcores |-> 0]
  /\ total_pkts = [l \in Lcores |-> 0]
  /\ total_cycle = [l \in Lcores |-> 0]
  /\ time = 0
  /\ prints = <<>>

\* The first queue that is l's.
QueueOf(l) ==
  CHOOSE q \in Queues :
    /\ queueid_to_lcoreid[q] = l
    /\ \A r \in Queues : r < q => queueid_to_lcoreid[r] # l

GoesTo(l, from, to) ==
  /\ at[l] = from
  /\ at' = [at EXCEPT ![l] = to]

\* The rounds are over; the thread sleeps and looks up its queue.
SendDone(l, n, c) ==
  /\ GoesTo(l, "send", "wait")
  /\ total_pkts' = [total_pkts EXCEPT ![l] = n]
  /\ total_cycle' = [total_cycle EXCEPT ![l] = c]
  /\ UNCHANGED <<queueid_to_lcoreid, report_flag, seen, overall_total_cycle,
                 overall_total_pkts, time, prints>>

\* Mutant of Turn: any flag will do.
TurnAny(l) ==
  /\ GoesTo(l, "wait", "cycle")
  /\ \E q \in Queues : report_flag[q] # 0
  /\ UNCHANGED <<queueid_to_lcoreid, report_flag, seen, total_pkts, total_cycle,
                 overall_total_cycle, overall_total_pkts, time, prints>>

Turn(l) ==
  /\ GoesTo(l, "wait", "cycle")
  /\ report_flag[QueueOf(l)] # 0
  /\ UNCHANGED <<queueid_to_lcoreid, report_flag, seen, total_pkts, total_cycle,
                 overall_total_cycle, overall_total_pkts, time, prints>>

\* Mutant of ReadCycle: the comparison is turned around.
ReadCycleLess(l) ==
  /\ GoesTo(l, "cycle", IF overall_total_cycle > total_cycle[l] THEN "raise" ELSE "load")
  /\ UNCHANGED <<queueid_to_lcoreid, report_flag, seen, total_pkts, total_cycle,
                 overall_total_cycle, overall_total_pkts, time, prints>>

ReadCycle(l) ==
  /\ GoesTo(l, "cycle", IF overall_total_cycle < total_cycle[l] THEN "raise" ELSE "load")
  /\ UNCHANGED <<queueid_to_lcoreid, report_flag, seen, total_pkts, total_cycle,
                 overall_total_cycle, overall_total_pkts, time, prints>>

RaiseCycle(l) ==
  /\ GoesTo(l, "raise", "load")
  /\ overall_total_cycle' = total_cycle[l]
  /\ UNCHANGED <<queueid_to_lcoreid, report_flag, seen, total_pkts, total_cycle,
                 overall_total_pkts, time, prints>>

LoadPkts(l) ==
  /\ GoesTo(l, "load", "store")
  /\ seen' = [seen EXCEPT ![l] = overall_total_pkts]
  /\ UNCHANGED <<queueid_to_lcoreid, report_flag, total_pkts, total_cycle,
                 overall_total_cycle, overall_total_pkts, time, prints>>

StorePkts(l) ==
  /\ GoesTo(l, "store", "pass")
  /\ overall_total_pkts' = (seen[l] + total_pkts[l]) % Width
  /\ UNCHANGED <<queueid_to_lcoreid, report_flag, seen, total_pkts, total_cycle,
                 overall_total_cycle, time, prints>>

\* Mutant of Pass: the flag goes to the queue two places on.
PassTwo(l) ==
  /\ GoesTo(l, "pass", "sleep")
  /\ report_flag' = [report_flag EXCEPT ![QueueOf(l) + 2] = 1]
  /\ UNCHANGED <<queueid_to_lcoreid, seen, total_pkts, total_cycle,
                 overall_total_cycle, overall_total_pkts, time, prints>>

Pass(l) ==
  /\ GoesTo(l, "pass", "sleep")
  /\ report_flag' = [report_flag EXCEPT ![QueueOf(l) + 1] = 1]
  /\ UNCHANGED <<queueid_to_lcoreid, seen, total_pkts, total_cycle,
                 overall_total_cycle, overall_total_pkts, time, prints>>

\* Queue 0 reads the time, then the total, then the total again for the rate.
ReadTime(l) ==
  /\ QueueOf(l) = 0
  /\ GoesTo(l, "sleep", "total")
  /\ time' = overall_total_cycle
  /\ UNCHANGED <<queueid_to_lcoreid, report_flag, seen, total_pkts, total_cycle,
                 overall_total_cycle, overall_total_pkts, prints>>

PrintTotal(l) ==
  /\ GoesTo(l, "total", "rate") \/ GoesTo(l, "rate", "done")
  /\ prints' = Append(prints, overall_total_pkts)
  /\ UNCHANGED <<queueid_to_lcoreid, report_flag, seen, total_pkts, total_cycle,
                 overall_total_cycle, overall_total_pkts, time>>

Leave(l) ==
  /\ QueueOf(l) # 0
  /\ GoesTo(l, "sleep", "done")
  /\ UNCHANGED <<queueid_to_lcoreid, report_flag, seen, total_pkts, total_cycle,
                 overall_total_cycle, overall_total_pkts, time, prints>>

Reports(l) ==
  \/ Turn(l) \/ ReadCycle(l) \/ RaiseCycle(l) \/ LoadPkts(l) \/ StorePkts(l)
  \/ Pass(l) \/ ReadTime(l) \/ PrintTotal(l) \/ Leave(l)

ReportNext ==
  \E l \in Lcores : Reports(l) \/ \E n \in Totals, c \in Cycles : SendDone(l, n, c)

ReportSpec == ReportInit /\ [][ReportNext]_reportVars

-----------------------------------------------------------------------------
Holding == {"cycle", "raise", "load", "store", "pass"}
Passed == {"sleep", "total", "rate", "done"}
Counted == {l \in Lcores : at[l] \in Passed \cup {"pass"}}

ReportTypeOK ==
  /\ queueid_to_lcoreid \in [Queues -> Lcores \cup {-1}]
  /\ report_flag \in [0 .. MaxLcore -> {0, 1}]
  /\ at \in [Lcores -> {"send", "wait"} \cup Holding \cup Passed]
  /\ seen \in [Lcores -> 0 .. Width - 1]
  /\ total_pkts \in [Lcores -> 0 .. Width - 1]
  /\ total_cycle \in [Lcores -> Nat]
  /\ overall_total_cycle \in Nat
  /\ overall_total_pkts \in 0 .. Width - 1
  /\ time \in Nat
  /\ prints \in Seq(0 .. Width - 1)

\* The flag is passed on, never copied: between the loop that waits for it and
\* the store to the next queue's flag there is one lcore at a time.
OneReports == \A k, l \in Lcores : at[k] \in Holding /\ at[l] \in Holding => k = l

\* The longest time is stored before the packets it belongs to: whenever the
\* total counts an lcore, the time covers it.
TimeCovers == \A l \in Counted : total_cycle[l] <= overall_total_cycle

\* Though a sum is loaded and stored apart, every lcore's packets are added
\* once and whole, in the order of the lcores, and what queue 0 prints are
\* totals of whole shares.
Shares == INSTANCE Tally WITH
         share <- total_pkts,
         counted <- Counted,
         total <- overall_total_pkts,
         prints <- prints
ImplementsTally == Shares!Spec
=============================================================================
