------------------------------- MODULE Generator -------------------------------
(***************************************************************************)
(* The generator as a process: main launches one function on every lcore.   *)
(* One of them, Self, is followed through its bursts (Pktgen); the others   *)
(* have pools and TX queues of their own and meet it in two places only:    *)
(* the report of app_thread_sendnumpkts (Report), and exit(), which ends    *)
(* the process whoever calls it.                                            *)
(***************************************************************************)
EXTENDS Pktgen, Report

CONSTANT Self

ASSUME GeneratorAssumption ==
  /\ Self \in Lcores
  /\ (Rounds * Burst) % Width \in Totals

GeneratorInit == Init /\ ReportInit

Sent == (rounds * Burst) % Width

\* Self has sent its rounds.
SelfDone ==
  /\ pc = "done"
  /\ \E c \in Cycles : SendDone(Self, Sent, c)
  /\ UNCHANGED vars

\* Another lcore has sent its rounds.
PeerDone(l) ==
  /\ thread = "sendnumpkts"
  /\ pc # "exit"
  /\ \E c \in Cycles : SendDone(l, (Rounds * Burst) % Width, c)
  /\ UNCHANGED vars

\* Another lcore finds its file played to the end, or its pool empty.
PeerExits(l) ==
  /\ file \/ thread = "throughput"
  /\ pc # "exit"
  /\ at[l] = "send"
  /\ pc' = "exit"
  /\ UNCHANGED <<thread, file, repeat, pool, chain, table, pos, ring, content, curRepeat, rounds, lost>>
  /\ UNCHANGED reportVars

Peers == Lcores \ {Self}

ReportStep(l) ==
  /\ pc # "exit"
  /\ Reports(l)
  /\ UNCHANGED vars

GeneratorNext ==
  \/ (Lcore \/ Device \/ Finished) /\ UNCHANGED reportVars
  \/ SelfDone
  \/ \E l \in Peers : PeerDone(l) \/ PeerExits(l)
  \/ \E l \in Lcores : ReportStep(l)

GeneratorSpec == GeneratorInit /\ [][GeneratorNext]_<<vars, reportVars>>

\* Every lcore runs, and the device sends what it was given.
FairGenerator ==
  /\ GeneratorSpec
  /\ WF_<<vars, reportVars>>(Lcore /\ UNCHANGED reportVars)
  /\ WF_<<vars, reportVars>>(Device /\ UNCHANGED reportVars)
  /\ WF_<<vars, reportVars>>(SelfDone)
  /\ \A l \in Peers : WF_<<vars, reportVars>>(PeerDone(l))
  /\ \A l \in Lcores : WF_<<vars, reportVars>>(ReportStep(l))

-----------------------------------------------------------------------------
\* Without a file to end, the rounds end and every lcore's packets come into
\* the total: the flag reaches every queue, whichever lcore is first or last
\* to have sent its rounds.
AllCounted == thread = "sendnumpkts" /\ ~file ~> Counted = Lcores
=============================================================================
