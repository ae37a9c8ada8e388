--------------------------- MODULE LifecycleProofs ---------------------------
(***************************************************************************)
(* Lifecycle's safety, for any number of lcores, ports and rounds, and how  *)
(* the array comes too late; then the steps that main and every lcore have  *)
(* left, which bound how long the process can go on after force_quit.       *)
(***************************************************************************)
EXTENDS Lifecycle, TLAPS

(***************************************************************************)
(* The inductive invariant: where main's counter is, what the link check    *)
(* has reported by then, which lcores main has joined, and that it takes    *)
(* nothing away before it has joined them all.                              *)
(***************************************************************************)
Closing == {"stop", "close", "free"}

Counters ==
  /\ mpc = "port" => k <= NumPorts
  /\ mpc \in {"launch", "wait"} => k \in 1 .. (NumSlaves + 1)
  /\ mpc = "stop" => k <= NumPorts
  /\ mpc = "close" => k < NumPorts
  /\ count <= MaxCheckTime
  /\ ~printFlag => count < MaxCheckTime

Reports ==
  /\ mpc = "port" /\ printFlag => \A p \in Ports : p < k => p \in reported
  /\ mpc = "roundEnd" /\ printFlag => reported = Ports
  /\ mpc \notin LinkPcs => forceQuit \/ reported = Ports

Joined ==
  /\ \A s \in Slaves : loop[s] # "out" => state[s] = "running"
  /\ Alive /\ loop[Master] # "out" => mpc = "master"
  /\ mpc \in LinkPcs => \A s \in Slaves : loop[s] = "out"
  /\ mpc = "wait" => \A s \in Slaves : s < k => state[s] = "wait"
  /\ mpc \in Closing => \A s \in Slaves : state[s] = "wait"

Resources ==
  mpc \notin Closing \cup EndPcs =>
    /\ \A p \in Ports : portState[p] = "started"
    /\ memArray # "freed"

LInv == TypeOK /\ Counters /\ Reports /\ Joined /\ Resources

\* Either range of the counter is within its type.
LEMMA CounterRange ==
  ASSUME NEW x \in Nat, x <= NumPorts \/ x <= NumSlaves + 1
  PROVE  x \in 0 .. (NumPorts + NumSlaves + 1)
BY LifecycleAssumption

LEMMA LInit == Init => LInv
<1> SUFFICES ASSUME Init PROVE LInv
  OBVIOUS
<1> USE LifecycleAssumption DEF Init
<1>1. k \in 0 .. (NumPorts + NumSlaves + 1)
  BY CounterRange
<1>2. TypeOK
  <2>1. /\ mpc \in LinkPcs /\ allUp \in BOOLEAN /\ printFlag \in BOOLEAN
        /\ forceQuit \in BOOLEAN
    BY DEF LinkPcs
  <2> count \in 0 .. MaxCheckTime
    OBVIOUS
  <2>2. /\ reported \in SUBSET Ports /\ up \in [Ports -> BOOLEAN]
        /\ memArray \in {"null", "live", "freed"}
    OBVIOUS
  <2>3. /\ state \in [Slaves -> {"wait", "running", "finished"}]
        /\ loop \in [Lcores -> {"out", "start", "top", "drain", "poll", "access", "send"}]
        /\ queue \in [Lcores -> Nat]
        /\ portState \in [Ports -> {"started", "stopped", "closed"}]
    OBVIOUS
  <2>4. QED BY <1>1, <2>1, <2>2, <2>3 DEF TypeOK
<1>3. ~printFlag /\ count < MaxCheckTime /\ count <= MaxCheckTime
  OBVIOUS
<1>4. Counters
  BY <1>3 DEF Counters
<1>5. Reports
  BY <1>3 DEF Reports, LinkPcs
<1>6. Joined /\ Resources
  BY DEF Joined, Resources, Closing, Slaves, Lcores, Master, EndPcs
<1>7. QED BY <1>2, <1>4, <1>5, <1>6 DEF LInv

-----------------------------------------------------------------------------
(* main *)

LEMMA CheckLinksStep ==
  ASSUME LInv, CheckLinks PROVE LInv'
<1> USE LifecycleAssumption DEF LInv, LinkPcs, EndPcs, Closing, Alive
<1>1. CASE Round
  <2>1. UNCHANGED <<count, printFlag, reported, up, forceQuit, lcoreVars, portState, memArray>>
    BY <1>1 DEF Round
  <2>2. mpc = "round" /\ count <= MaxCheckTime
    BY <1>1 DEF Round, Counters
  <2>3. \/ forceQuit /\ mpc' = "launch" /\ k' = 1 /\ allUp' = allUp
        \/ mpc' = "port" /\ k' = 0 /\ allUp' = TRUE
    BY <1>1, <2>2 DEF Round, LinkDone, Counters, TypeOK
  <2>4. TypeOK'
    <3>1. k' \in 0 .. (NumPorts + NumSlaves + 1)
      BY <2>3, CounterRange
    <3>2. allUp' \in BOOLEAN
      BY <2>3 DEF TypeOK
    <3>3. QED BY <2>1, <2>3, <3>1, <3>2 DEF TypeOK, lcoreVars
  <2>5. Counters' /\ Reports'
    BY <2>1, <2>3 DEF Counters, Reports, Ports, TypeOK
  <2>6. Joined' /\ Resources'
    BY <2>1, <2>2, <2>3 DEF Joined, Resources, lcoreVars
  <2>7. QED BY <2>4, <2>5, <2>6
<1>2. CASE CheckPort
  <2>1. /\ UNCHANGED <<count, printFlag, up, forceQuit, lcoreVars, portState, memArray>>
        /\ mpc = "port" /\ k < NumPorts /\ k \in Ports
    BY <1>2 DEF CheckPort, TypeOK, Ports
  <2>2. \/ /\ forceQuit /\ mpc' = "launch" /\ k' = 1
           /\ UNCHANGED <<allUp, reported>>
        \/ /\ printFlag /\ reported' = reported \cup {k} /\ k' = k + 1
           /\ UNCHANGED <<mpc, allUp>>
        \/ /\ ~printFlag /\ k' = k + 1 /\ UNCHANGED <<mpc, allUp, reported>>
        \/ /\ ~printFlag /\ allUp' = FALSE /\ mpc' = "roundEnd" /\ UNCHANGED <<k, reported>>
    BY <1>2 DEF CheckPort, LinkDone
  <2>3. TypeOK'
    <3>1. k' \in 0 .. (NumPorts + NumSlaves + 1)
      BY <2>1, <2>2, CounterRange DEF TypeOK, Ports
    <3>2. allUp' \in BOOLEAN
      BY <2>2 DEF TypeOK
    <3>3. reported' \in SUBSET Ports
      BY <2>1, <2>2 DEF TypeOK
    <3>4. mpc' \in {"launch", "port", "roundEnd"}
      BY <2>1, <2>2
    <3>5. QED BY <2>1, <3>1, <3>2, <3>3, <3>4 DEF TypeOK, lcoreVars
  <2>4. Counters'
    BY <2>1, <2>2 DEF Counters, TypeOK, Ports
  <2>5. Reports'
    BY <2>1, <2>2 DEF Reports, TypeOK, Ports
  <2>6. Joined' /\ Resources'
    BY <2>1, <2>2 DEF Joined, Resources, lcoreVars
  <2>7. QED BY <2>3, <2>4, <2>5, <2>6
<1>3. CASE PortsChecked
  <2>1. /\ UNCHANGED <<k, linkVars, up, forceQuit, lcoreVars, portState, memArray>>
        /\ mpc = "port" /\ k = NumPorts /\ mpc' = "roundEnd"
    BY <1>3 DEF PortsChecked
  <2>2. TypeOK' /\ Counters'
    BY <2>1 DEF TypeOK, Counters, linkVars, lcoreVars
  <2>3. Reports'
    <3>1. printFlag => \A p \in Ports : p \in reported
      BY <2>1 DEF Reports, Ports
    <3>2. printFlag => reported = Ports
      BY <3>1 DEF TypeOK
    <3>3. QED BY <2>1, <3>2 DEF Reports, linkVars
  <2>4. Joined' /\ Resources'
    BY <2>1 DEF Joined, Resources, lcoreVars
  <2>5. QED BY <2>2, <2>3, <2>4
<1>4. CASE RoundEnd
  <2>1. /\ UNCHANGED <<allUp, reported, up, forceQuit, lcoreVars, portState, memArray>>
        /\ mpc = "roundEnd"
        /\ \/ /\ printFlag /\ mpc' = "launch" /\ k' = 1 /\ UNCHANGED <<count, printFlag>>
           \/ /\ ~printFlag /\ printFlag' = (allUp \/ count = MaxCheckTime - 1)
              /\ count' = count + 1 /\ mpc' = "round" /\ UNCHANGED k
    BY <1>4 DEF RoundEnd, LinkDone
  <2>2. Counters'
    <3>1. CASE printFlag
      BY <2>1, <3>1 DEF Counters, TypeOK
    <3>2. CASE ~printFlag
      <4>1. count < MaxCheckTime /\ count \in Nat /\ count' = count + 1
        BY <2>1, <3>2 DEF Counters, TypeOK
      <4>2. count' <= MaxCheckTime
        BY <4>1
      <4>3. ~printFlag' => count' < MaxCheckTime
        <5>1. ~printFlag' => count # MaxCheckTime - 1
          BY <2>1, <3>2
        <5>2. QED BY <4>1, <5>1
      <4>4. QED BY <2>1, <3>2, <4>2, <4>3 DEF Counters
    <3>3. QED BY <3>1, <3>2
  <2>3. TypeOK'
    <3>1. printFlag' \in BOOLEAN
      BY <2>1 DEF TypeOK
    <3>2. QED BY <2>1, <3>1 DEF TypeOK, Counters, lcoreVars
  <2>4. Reports'
    BY <2>1 DEF Reports
  <2>5. Joined' /\ Resources'
    BY <2>1 DEF Joined, Resources, lcoreVars
  <2>6. QED BY <2>2, <2>3, <2>4, <2>5
<1>5. QED BY <1>1, <1>2, <1>3, <1>4 DEF CheckLinks

LEMMA LaunchStep ==
  ASSUME LInv, Launch PROVE LInv'
<1> USE LifecycleAssumption DEF LInv, LinkPcs, EndPcs, Closing, Alive
<1>1. CASE LaunchSlave
  <2>1. /\ k \in Slaves /\ k \in Lcores /\ k # Master
        /\ state' = [state EXCEPT ![k] = "running"]
        /\ loop' = [loop EXCEPT ![k] = "start"]
        /\ k' = k + 1 /\ mpc = "launch"
        /\ UNCHANGED <<mpc, linkVars, up, forceQuit, queue, portState, memArray>>
    BY <1>1 DEF LaunchSlave, Counters, Slaves, Lcores, Master
  <2>2. TypeOK'
    BY <2>1 DEF TypeOK, linkVars, Slaves
  <2>3. Counters' /\ Reports' /\ Resources'
    BY <2>1 DEF Counters, Reports, Resources, linkVars, Slaves
  <2>4. Joined'
    BY <2>1 DEF Joined, TypeOK, Slaves, Lcores, Master
  <2>5. QED BY <2>2, <2>3, <2>4
<1>2. CASE CallMaster
  <2>1. /\ mpc = "launch" /\ mpc' = "master"
        /\ loop' = [loop EXCEPT ![Master] = "start"]
        /\ UNCHANGED <<k, linkVars, up, forceQuit, state, queue, portState, memArray>>
    BY <1>2 DEF CallMaster
  <2>2. TypeOK' /\ Counters' /\ Reports' /\ Resources'
    BY <2>1 DEF TypeOK, Counters, Reports, Resources, linkVars
  <2>3. Joined'
    BY <2>1 DEF Joined, TypeOK, Slaves, Lcores, Master
  <2>4. QED BY <2>2, <2>3
<1>3. QED BY <1>1, <1>2 DEF Launch

LEMMA TeardownStep ==
  ASSUME LInv, Alloc \/ StatsFail \/ StatsEnd \/ Teardown PROVE LInv'
<1> USE LifecycleAssumption DEF LInv, LinkPcs, EndPcs, Closing, Alive, linkVars, lcoreVars
<1>1. CASE Alloc \/ StatsFail \/ StatsEnd
  <2>1. TypeOK' /\ Counters' /\ Reports' /\ Resources'
    BY <1>1 DEF Alloc, StatsFail, StatsEnd, TypeOK, Counters, Reports, Resources
  <2>2. Joined'
    BY <1>1 DEF Alloc, StatsFail, StatsEnd, Joined, Slaves
  <2>3. QED BY <2>1, <2>2
<1>2. CASE WaitLcore
  <2>1. /\ k \in Slaves /\ mpc = "wait" /\ state[k] \in {"wait", "finished"}
        /\ state' = [state EXCEPT ![k] = "wait"] /\ k' = k + 1
        /\ UNCHANGED <<mpc, linkVars, up, forceQuit, loop, queue, portState, memArray>>
    BY <1>2 DEF WaitLcore, Counters, Slaves
  <2>2. TypeOK' /\ Counters' /\ Reports' /\ Resources'
    BY <2>1 DEF TypeOK, Counters, Reports, Resources, Slaves
  <2>3. loop[k] = "out"
    BY <2>1 DEF Joined
  <2>4. \A s \in Slaves : s < k + 1 => s = k \/ s < k
    BY <2>1 DEF Slaves
  <2>5. \A s \in Slaves : state'[s] = IF s = k THEN "wait" ELSE state[s]
    BY <2>1 DEF TypeOK
  <2>6. Joined'
    BY <2>1, <2>3, <2>4, <2>5 DEF Joined
  <2>7. QED BY <2>2, <2>6
<1>3. CASE AllWaited
  <2>1. TypeOK' /\ Counters' /\ Reports' /\ Resources'
    BY <1>3 DEF AllWaited, TypeOK, Counters, Reports, Resources
  <2>2. \A s \in Slaves : s < k
    BY <1>3 DEF AllWaited, TypeOK, Slaves
  <2>3. Joined'
    BY <1>3, <2>2 DEF AllWaited, Joined
  <2>4. QED BY <2>1, <2>3
<1>4. CASE StopPort \/ ClosePort \/ PortsClosed \/ FreeArray
  <2>1. TypeOK'
    <3>1. CASE StopPort
      BY <1>4, <3>1 DEF StopPort, TypeOK
    <3>2. CASE ClosePort
      <4>1. k' = k + 1 /\ k < NumPorts /\ k \in Nat
        BY <3>2 DEF ClosePort, Counters, TypeOK
      <4>2. k' \in 0 .. (NumPorts + NumSlaves + 1)
        BY <4>1, CounterRange
      <4>3. QED BY <3>2, <4>2 DEF ClosePort, TypeOK
    <3>3. CASE PortsClosed \/ FreeArray
      BY <3>3 DEF PortsClosed, FreeArray, TypeOK
    <3>4. QED BY <1>4, <3>1, <3>2, <3>3
  <2>2. Counters'
    BY <1>4 DEF StopPort, ClosePort, PortsClosed, FreeArray, Counters, TypeOK
  <2>3. Reports' /\ Joined' /\ Resources'
    BY <1>4 DEF StopPort, ClosePort, PortsClosed, FreeArray, Reports, Joined, Resources
  <2>4. QED BY <2>1, <2>2, <2>3
<1>5. QED BY <1>1, <1>2, <1>3, <1>4 DEF Teardown

-----------------------------------------------------------------------------
(* The lcores *)

LoopPcs == {"out", "start", "top", "drain", "poll", "access", "send"}

\* A step of the main loop on l: it stays in the loop, leaves it, or ends the process.
LEMMA LoopEffect ==
  ASSUME LInv, NEW l \in Lcores, Loop(l)
  PROVE  /\ Alive /\ loop[l] # "out"
         /\ UNCHANGED <<k, linkVars, up, forceQuit, portState, memArray>>
         /\ queue' \in [Lcores -> Nat]
         /\ \/ /\ loop' = loop /\ state' = state /\ mpc' = "crashed"
            \/ /\ \E where \in LoopPcs \ {"out"} : loop' = [loop EXCEPT ![l] = where]
               /\ state' = state /\ mpc' = mpc
            \/ /\ l = Master /\ loop' = [loop EXCEPT ![l] = "out"]
               /\ state' = state /\ mpc' = "alloc"
            \/ /\ l # Master /\ loop' = [loop EXCEPT ![l] = "out"]
               /\ state' = [state EXCEPT ![l] = "finished"] /\ mpc' = mpc
<1> USE LifecycleAssumption DEF LInv
<1>1. /\ Alive /\ loop[l] # "out"
      /\ UNCHANGED <<k, linkVars, up, forceQuit, portState, memArray>>
  BY DEF Loop, Start, Top, Drain, Poll, Access, Send
<1>2. queue' \in [Lcores -> Nat]
  BY DEF Loop, Start, Top, Drain, Poll, Access, Send, NextQueue, Leave, TypeOK
<1>3. \/ /\ loop' = loop /\ state' = state /\ mpc' = "crashed"
      \/ \E where \in LoopPcs \ {"out"} : Goto(l, where)
      \/ Leave(l)
  BY DEF Loop, Start, Top, Drain, Poll, Access, Send, NextQueue, LoopPcs
<1>4. QED BY <1>1, <1>2, <1>3 DEF Goto, Leave

LEMMA LoopStep ==
  ASSUME LInv, NEW l \in Lcores, Loop(l) PROVE LInv'
<1> USE LifecycleAssumption DEF LInv
<1>1. /\ Alive /\ loop[l] # "out"
      /\ UNCHANGED <<k, linkVars, up, forceQuit, portState, memArray>>
      /\ queue' \in [Lcores -> Nat]
  BY LoopEffect
<1>2. l # Master => l \in Slaves /\ state[l] = "running"
  BY <1>1 DEF Joined, Lcores, Slaves, Master
<1>3. l = Master => mpc = "master"
  BY <1>1 DEF Joined
<1>4. CASE loop' = loop /\ state' = state /\ mpc' = "crashed"
  <2>1. /\ mpc' = "crashed" /\ mpc \notin LinkPcs => mpc' \notin LinkPcs
        /\ UNCHANGED <<k, count, allUp, printFlag, reported, up, forceQuit, portState, memArray>>
    BY <1>1, <1>4 DEF LinkPcs, linkVars
  <2>2. TypeOK' /\ Counters' /\ Resources'
    BY <1>1, <1>4, <2>1 DEF TypeOK, Counters, Resources, EndPcs
  <2>3. mpc \notin LinkPcs
    BY <1>1, <1>2, <1>3 DEF Joined, LinkPcs
  <2>4. Reports'
    BY <1>4, <2>1, <2>3 DEF Reports
  <2>5. Joined'
    BY <1>4, <2>1 DEF Joined, Alive, EndPcs, Closing, LinkPcs
  <2>6. QED BY <2>2, <2>4, <2>5
<1>5. ASSUME NEW where \in LoopPcs \ {"out"}, loop' = [loop EXCEPT ![l] = where],
             state' = state, mpc' = mpc
      PROVE  LInv'
  <2>1. TypeOK' /\ Counters' /\ Reports' /\ Resources'
    BY <1>1, <1>5 DEF TypeOK, Counters, Reports, Resources, Closing, LinkPcs, EndPcs,
       LoopPcs, linkVars
  <2>2. Joined'
    BY <1>1, <1>2, <1>3, <1>5 DEF Joined, TypeOK, Closing, Alive, EndPcs, LinkPcs, Lcores, Slaves,
       Master
  <2>3. QED BY <2>1, <2>2
<1>6. CASE /\ l = Master /\ loop' = [loop EXCEPT ![l] = "out"]
           /\ state' = state /\ mpc' = "alloc"
  <2>1. TypeOK' /\ Counters' /\ Reports' /\ Resources'
    BY <1>1, <1>3, <1>6 DEF TypeOK, Counters, Reports, Resources, Closing, LinkPcs, EndPcs,
       linkVars
  <2>2. Joined'
    BY <1>1, <1>3, <1>6 DEF Joined, TypeOK, Closing, Alive, EndPcs, LinkPcs, Lcores, Slaves,
       Master
  <2>3. QED BY <2>1, <2>2
<1>7. CASE /\ l # Master /\ loop' = [loop EXCEPT ![l] = "out"]
           /\ state' = [state EXCEPT ![l] = "finished"] /\ mpc' = mpc
  <2>1. TypeOK' /\ Counters' /\ Reports' /\ Resources'
    BY <1>1, <1>2, <1>7 DEF TypeOK, Counters, Reports, Resources, Closing, LinkPcs, EndPcs,
       linkVars
  <2>2. \A s \in Slaves : state[s] = "wait" => state'[s] = "wait"
    BY <1>2, <1>7 DEF TypeOK
  <2>3. \A s \in Slaves : loop'[s] # "out" => s # l /\ loop[s] # "out" /\ state'[s] = state[s]
    BY <1>2, <1>7 DEF TypeOK, Lcores, Slaves
  <2>4. loop'[Master] = loop[Master]
    BY <1>7 DEF TypeOK, Lcores, Master
  <2>5. Joined'
    BY <1>1, <1>7, <2>2, <2>3, <2>4 DEF Joined, Alive, Closing, EndPcs, LinkPcs
  <2>6. QED BY <2>1, <2>5
<1>8. QED BY <1>4, <1>5, <1>6, <1>7, LoopEffect

-----------------------------------------------------------------------------
LEMMA LNext == LInv /\ [Next]_vars => LInv'
<1> SUFFICES ASSUME LInv, [Next]_vars PROVE LInv'
  OBVIOUS
<1>1. CASE Main
  BY <1>1, CheckLinksStep, LaunchStep, TeardownStep DEF Main
<1>2. CASE \E l \in Lcores : Loop(l)
  BY <1>2, LoopStep
<1>3. CASE Signal \/ \E p \in Ports : LinkChange(p)
  <2>1. /\ UNCHANGED <<mpc, k, count, allUp, printFlag, reported, state, loop, queue,
                       portState, memArray>>
        /\ forceQuit => forceQuit'
        /\ mpc \notin LinkPcs => forceQuit' \/ forceQuit' = forceQuit
        /\ up' \in [Ports -> BOOLEAN] /\ forceQuit' \in BOOLEAN
    BY <1>3 DEF Signal, LinkChange, LInv, TypeOK, linkVars, lcoreVars
  <2>2. TypeOK'
    BY <2>1 DEF LInv, TypeOK
  <2>3. Counters' /\ Joined' /\ Resources'
    BY <2>1 DEF LInv, Counters, Joined, Resources, Alive
  <2>4. Reports'
    BY <2>1 DEF LInv, Reports
  <2>5. QED BY <2>2, <2>3, <2>4 DEF LInv
<1>4. CASE Finished \/ UNCHANGED vars
  BY <1>4 DEF Finished, vars, LInv, TypeOK, Counters, Reports, Joined, Resources, Alive,
     linkVars, lcoreVars
<1>5. QED BY <1>1, <1>2, <1>3, <1>4 DEF Next

LEMMA LInvariance == Spec => []LInv
BY LInit, LNext, PTL DEF Spec

\* Every variable keeps its type: no counter of main leaves its range.
THEOREM LifecycleTyped == Spec => []TypeOK
<1>1. LInv => TypeOK
  BY DEF LInv
<1>2. QED BY <1>1, LInvariance, PTL

\* No port is stopped and the array is not freed under an lcore in its loop.
THEOREM LoopsOutlived == Spec => []OutliveLoops
<1>1. LInv => OutliveLoops
  <2> SUFFICES ASSUME LInv, Alive, NEW l \in Lcores, loop[l] # "out"
               PROVE  /\ \A p \in Ports : portState[p] = "started"
                      /\ memArray # "freed"
    BY DEF OutliveLoops
  <2>1. mpc \notin Closing
    BY LifecycleAssumption DEF LInv, Joined, Closing, Lcores, Slaves, Master
  <2>2. QED BY <2>1 DEF LInv, Resources, Alive
<1>2. QED BY <1>1, LInvariance, PTL

\* The link check is left only after the report, or because of a signal.
THEOREM LinksReported == Spec => []FinallyReported
<1>1. LInv => FinallyReported
  BY DEF LInv, Reports, FinallyReported
<1>2. QED BY <1>1, LInvariance, PTL
-----------------------------------------------------------------------------
(***************************************************************************)
(* The loops and their threads: where an lcore is in a turn of its loop,    *)
(* and that a thread main waits for is in its loop.                         *)
(***************************************************************************)
QueueInv ==
  \A l \in Lcores :
    /\ loop[l] \in {"top", "drain"} => NumRxQueues[l] > 0
    /\ loop[l] = "drain" => queue[l] = 0
    /\ loop[l] \in {"poll", "access", "send"} => queue[l] < NumRxQueues[l]

ThreadInv ==
  /\ \A s \in Slaves : state[s] = "running" => loop[s] # "out"
  /\ mpc = "master" => loop[Master] # "out"

\* The array exists only once the master lcore has returned from the main loop.
ArrayInv ==
  /\ memArray # "null" => mpc \notin LinkPcs \cup {"launch", "master", "alloc"}
  /\ mpc \in {"alloc", "stats"} => forceQuit \/ NumRxQueues[Master] = 0
  /\ memArray # "null" => forceQuit \/ NumRxQueues[Master] = 0
  /\ mpc = "crashed" => MemAccess /\ memArray = "null"
  /\ \A l \in Lcores : loop[l] = "access" => MemAccess

TInv == QueueInv /\ ThreadInv /\ ArrayInv

\* What a step of the loop does to the lcore's place in it, and to nobody else's.
LEMMA LoopTurn ==
  ASSUME LInv, QueueInv, NEW l \in Lcores, Loop(l)
  PROVE  QueueInv'
<1> DEFINE Busy(m) == /\ loop[m] \in {"top", "drain"} => NumRxQueues[m] > 0
                      /\ loop[m] = "drain" => queue[m] = 0
                      /\ loop[m] \in {"poll", "access", "send"} => queue[m] < NumRxQueues[m]
<1>1. /\ \A m \in Lcores \ {l} : loop'[m] = loop[m] /\ queue'[m] = queue[m]
  BY DEF Loop, Start, Top, Drain, Poll, Access, Send, NextQueue, Leave, Goto, LInv, TypeOK
<1>2. NumRxQueues[l] \in Nat /\ queue[l] \in Nat
  BY LifecycleAssumption DEF LInv, TypeOK
<1>3. /\ loop'[l] \in {"top", "drain"} => NumRxQueues[l] > 0
      /\ loop'[l] = "drain" => queue'[l] = 0
      /\ loop'[l] \in {"poll", "access", "send"} => queue'[l] < NumRxQueues[l]
  <2> USE <1>2 DEF LInv, TypeOK, QueueInv
  <2>1. CASE Start(l)
    BY <2>1 DEF Start, Leave, Goto
  <2>2. CASE Top(l)
    BY <2>2 DEF Top, Leave, Goto
  <2>3. CASE Drain(l) \/ Access(l)
    BY <2>3 DEF Drain, Access, Goto
  <2>4. CASE Poll(l)
    BY <2>4 DEF Poll, NextQueue, Goto
  <2>5. CASE Send(l)
    BY <2>5 DEF Send, NextQueue, Goto
  <2> QED
    BY <2>1, <2>2, <2>3, <2>4, <2>5 DEF Loop
<1> QED
  BY <1>1, <1>3 DEF QueueInv

LEMMA QueueStep == LInv /\ QueueInv /\ [Next]_vars => QueueInv'
<1> SUFFICES ASSUME LInv, QueueInv, [Next]_vars PROVE QueueInv'
  OBVIOUS
<1>1. CASE \E l \in Lcores : Loop(l)
  BY <1>1, LoopTurn
<1>2. ASSUME NEW l \in Lcores, loop' = [loop EXCEPT ![l] = "start"], queue' = queue
      PROVE  QueueInv'
  BY <1>2 DEF QueueInv, LInv, TypeOK
<1>3. CASE Launch
  <2>1. LaunchSlave => k \in Lcores
    BY DEF LaunchSlave, LInv, Counters, Lcores
  <2>2. Master \in Lcores
    BY LifecycleAssumption DEF Master, Lcores
  <2> QED
    BY <1>2, <1>3, <2>1, <2>2 DEF Launch, LaunchSlave, CallMaster
<1>4. ASSUME loop' = loop, queue' = queue PROVE QueueInv'
  BY <1>4 DEF QueueInv
<1>5. CASE CheckLinks \/ Alloc \/ StatsFail \/ StatsEnd \/ Teardown
  BY <1>4, <1>5 DEF CheckLinks, Round, CheckPort, PortsChecked, RoundEnd, Alloc, StatsFail,
     StatsEnd, Teardown, WaitLcore, AllWaited, StopPort, ClosePort, PortsClosed, FreeArray,
     lcoreVars
<1>6. CASE Signal \/ (\E p \in Ports : LinkChange(p)) \/ Finished \/ UNCHANGED vars
  BY <1>4, <1>6 DEF Signal, LinkChange, Finished, vars, lcoreVars
<1> QED
  BY <1>1, <1>3, <1>5, <1>6 DEF Next, Main

LEMMA ThreadStep == LInv /\ ThreadInv /\ [Next]_vars => ThreadInv'
<1> SUFFICES ASSUME LInv, ThreadInv, [Next]_vars PROVE ThreadInv'
  OBVIOUS
<1>0. Master \in Lcores /\ Master \notin Slaves /\ Slaves \subseteq Lcores
  BY LifecycleAssumption DEF Master, Lcores, Slaves
<1>1. ASSUME NEW l \in Lcores, Loop(l) PROVE ThreadInv'
  <2>1. CASE loop' = loop /\ state' = state /\ mpc' = "crashed"
    BY <2>1 DEF ThreadInv
  <2>2. ASSUME NEW where \in LoopPcs \ {"out"}, loop' = [loop EXCEPT ![l] = where],
               state' = state, mpc' = mpc
        PROVE  ThreadInv'
    BY <1>0, <2>2 DEF ThreadInv, LInv, TypeOK
  <2>3. CASE /\ l = Master /\ loop' = [loop EXCEPT ![l] = "out"]
             /\ state' = state /\ mpc' = "alloc"
    BY <1>0, <2>3 DEF ThreadInv, LInv, TypeOK
  <2>4. CASE /\ l # Master /\ loop' = [loop EXCEPT ![l] = "out"]
             /\ state' = [state EXCEPT ![l] = "finished"] /\ mpc' = mpc
    BY <1>0, <2>4 DEF ThreadInv, LInv, TypeOK
  <2> QED
    BY <1>1, <2>1, <2>2, <2>3, <2>4, LoopEffect
<1>2. CASE LaunchSlave
  <2>1. k \in Slaves
    BY <1>2 DEF LaunchSlave, LInv, Counters, Slaves
  <2> QED
    BY <1>0, <1>2, <2>1 DEF LaunchSlave, ThreadInv, LInv, TypeOK
<1>3. CASE CallMaster
  BY <1>0, <1>3 DEF CallMaster, ThreadInv, LInv, TypeOK
<1>4. CASE WaitLcore
  BY <1>4 DEF WaitLcore, ThreadInv, LInv, TypeOK
<1>5. ASSUME loop' = loop, state' = state, mpc' = "master" => mpc = "master"
      PROVE  ThreadInv'
  BY <1>5 DEF ThreadInv
<1>6. CASE CheckLinks \/ Alloc \/ StatsFail \/ StatsEnd
  BY <1>5, <1>6 DEF CheckLinks, Round, CheckPort, PortsChecked, RoundEnd, LinkDone, Alloc,
     StatsFail, StatsEnd, lcoreVars
<1>7. CASE AllWaited \/ StopPort \/ ClosePort \/ PortsClosed \/ FreeArray
  BY <1>5, <1>7 DEF AllWaited, StopPort, ClosePort, PortsClosed, FreeArray, lcoreVars
<1>8. CASE Signal \/ (\E p \in Ports : LinkChange(p)) \/ Finished \/ UNCHANGED vars
  BY <1>5, <1>8 DEF Signal, LinkChange, Finished, vars, lcoreVars
<1> QED
  BY <1>1, <1>2, <1>3, <1>4, <1>6, <1>7, <1>8 DEF Next, Main, Launch, Teardown

LEMMA ArrayStep == LInv /\ QueueInv /\ ArrayInv /\ [Next]_vars => ArrayInv'
<1> SUFFICES ASSUME LInv, QueueInv, ArrayInv, [Next]_vars PROVE ArrayInv'
  OBVIOUS
<1> USE DEF LinkPcs
<1>0. Master \in Lcores /\ NumRxQueues[Master] \in Nat
  BY LifecycleAssumption DEF Master, Lcores
<1>1. ASSUME NEW l \in Lcores, Loop(l) PROVE ArrayInv'
  <2>1. UNCHANGED <<forceQuit, memArray>> /\ Alive
    BY <1>1, LoopEffect
  <2>2. \A m \in Lcores : loop'[m] = "access" => MemAccess
    BY <1>1 DEF Loop, Start, Top, Drain, Poll, Access, Send, NextQueue, Leave, Goto, ArrayInv,
       LInv, TypeOK
  <2>3. CASE mpc' = mpc
    BY <2>1, <2>2, <2>3 DEF ArrayInv
  <2>4. CASE mpc' = "crashed" /\ mpc # "crashed"
    <3>1. Access(l) /\ loop[l] = "access" /\ memArray = "null"
      BY <1>1, <2>4 DEF Loop, Start, Top, Drain, Poll, Access, Send, NextQueue, Leave, Goto
    <3> QED
      BY <2>1, <2>2, <2>4, <3>1 DEF ArrayInv
  <2>5. CASE l = Master /\ mpc' = "alloc" /\ mpc # "alloc"
    <3>1. mpc = "master"
      BY <1>1, <2>5, LoopEffect DEF LInv, Joined
    <3>2. forceQuit \/ NumRxQueues[Master] = 0
      BY <1>1, <2>5 DEF Loop, Start, Top, Drain, Poll, Access, Send, NextQueue, Leave, Goto
    <3> QED
      BY <2>1, <2>2, <2>5, <3>1, <3>2 DEF ArrayInv
  <2> QED
    BY <1>1, <2>1, <2>3, <2>4, <2>5, LoopEffect
<1>2. ASSUME loop' = loop, memArray' = memArray, forceQuit => forceQuit', mpc' # "crashed",
             mpc' \in LinkPcs \cup {"launch", "master", "alloc"} =>
               mpc \in LinkPcs \cup {"launch", "master", "alloc"},
             mpc' \in {"alloc", "stats"} => mpc \in {"alloc", "stats"}
      PROVE  ArrayInv'
  BY <1>2 DEF ArrayInv
<1>3. CASE CheckLinks
  BY <1>2, <1>3 DEF CheckLinks, Round, CheckPort, PortsChecked, RoundEnd, LinkDone, lcoreVars
<1>4. CASE LaunchSlave
  BY <1>4 DEF LaunchSlave, ArrayInv, LInv, TypeOK
<1>5. CASE CallMaster
  BY <1>5 DEF CallMaster, ArrayInv, LInv, TypeOK
<1>6. CASE Alloc
  BY <1>6 DEF Alloc, ArrayInv, lcoreVars
<1>7. CASE StatsFail \/ StatsEnd \/ AllWaited \/ StopPort \/ ClosePort \/ PortsClosed \/ WaitLcore
  BY <1>2, <1>7 DEF StatsFail, StatsEnd, AllWaited, StopPort, ClosePort, PortsClosed, WaitLcore,
     lcoreVars
<1>8. CASE FreeArray
  BY <1>8 DEF FreeArray, ArrayInv, lcoreVars
<1>9. CASE Signal \/ (\E p \in Ports : LinkChange(p)) \/ Finished \/ UNCHANGED vars
  BY <1>9 DEF Signal, LinkChange, Finished, vars, lcoreVars, ArrayInv, Alive, EndPcs
<1> QED
  BY <1>1, <1>3, <1>4, <1>5, <1>6, <1>7, <1>8, <1>9 DEF Next, Main, Launch, Teardown

LEMMA TInvariance == Spec => [](LInv /\ TInv)
<1>1. Init => TInv
  BY LifecycleAssumption DEF Init, TInv, QueueInv, ThreadInv, ArrayInv, LinkPcs, Lcores, Slaves,
     Master
<1>2. LInv /\ TInv /\ [Next]_vars => TInv'
  BY QueueStep, ThreadStep, ArrayStep DEF TInv
<1> QED
  BY <1>1, <1>2, LInit, LNext, PTL DEF Spec

(***************************************************************************)
(* How ArrayAllocated fails: the master lcore never finds the array, as main*)
(* allocates it after its own loop has returned (main.c 1128-1132); when the*)
(* master polls a queue no lcore finds it before force_quit; and that is the*)
(* only crash there is, and none without EXP_MEM_ACCESS_IN_THREAD.          *)
(***************************************************************************)
THEOREM ArrayTooLate ==
  Spec =>
    [](/\ Alive /\ loop[Master] = "access" => memArray = "null"
       /\ memArray # "null" => forceQuit \/ NumRxQueues[Master] = 0
       /\ mpc = "crashed" => MemAccess /\ memArray = "null")
<1>1. LInv /\ TInv => /\ Alive /\ loop[Master] = "access" => memArray = "null"
                      /\ memArray # "null" => forceQuit \/ NumRxQueues[Master] = 0
                      /\ mpc = "crashed" => MemAccess /\ memArray = "null"
  BY DEF LInv, TInv, Joined, ArrayInv
<1> QED
  BY <1>1, TInvariance, PTL

(***************************************************************************)
(* main never waits for a thread that has left: rte_eal_wait_lcore(k) waits *)
(* only while lcore k is in its main loop, and rte_eal_mp_remote_launch only*)
(* while the master is (main.c 1128, 1210-1215).                            *)
(***************************************************************************)
THEOREM WaitsForLoops ==
  Spec =>
    [](/\ mpc = "master" => loop[Master] # "out"
       /\ \A s \in Slaves : state[s] \notin {"wait", "finished"} => loop[s] # "out")
<1>1. LInv /\ TInv => /\ mpc = "master" => loop[Master] # "out"
                      /\ \A s \in Slaves : state[s] \notin {"wait", "finished"} => loop[s] # "out"
  BY DEF LInv, TypeOK, TInv, ThreadInv
<1> QED
  BY <1>1, TInvariance, PTL

-----------------------------------------------------------------------------
(***************************************************************************)
(* How much main and a loop have left to do.                                *)
(***************************************************************************)
\* The steps the rounds of the link check can take from round n on.
Rounds(n) == (MaxCheckTime + 1 - n) * (NumPorts + 3)

\* The steps main takes from the end of the launch, from the join and from the teardown on.
TeardownLeft == 2 * NumPorts + 2
JoinLeft == TeardownLeft + NumSlaves + 1
LaunchLeft == JoinLeft + NumSlaves + 5

MainLeft ==
  CASE mpc = "round"    -> LaunchLeft + Rounds(count)
    [] mpc = "port"     -> LaunchLeft + Rounds(count) - (1 + k)
    [] mpc = "roundEnd" -> LaunchLeft + Rounds(count) - (NumPorts + 2)
    [] mpc = "launch"   -> JoinLeft + NumSlaves + 5 - k
    [] mpc = "master"   -> JoinLeft + 3
    [] mpc = "alloc"    -> JoinLeft + 2
    [] mpc = "stats"    -> JoinLeft + 1
    [] mpc = "wait"     -> JoinLeft + 1 - k
    [] mpc = "stop"     -> TeardownLeft - 2 * k
    [] mpc = "close"    -> TeardownLeft - 2 * k - 1
    [] mpc = "free"     -> 1
    [] mpc \in EndPcs   -> 0

\* The steps lcore l's loop can take before it tests force_quit, and the test.
LoopLeft(l) ==
  CASE loop[l] = "out"    -> 0
    [] loop[l] = "top"    -> 1
    [] loop[l] = "start"  -> 2
    [] loop[l] = "drain"  -> 3 * NumRxQueues[l] + 2
    [] loop[l] = "poll"   -> 3 * (NumRxQueues[l] - queue[l]) + 1
    [] loop[l] = "access" -> 3 * (NumRxQueues[l] - queue[l])
    [] loop[l] = "send"   -> 3 * (NumRxQueues[l] - queue[l]) - 1

LEMMA RoundsStep ==
  ASSUME NEW n \in Nat, NEW m \in Nat, m = n + 1, n <= MaxCheckTime
  PROVE  /\ Rounds(n) \in Nat /\ Rounds(m) \in Nat
         /\ Rounds(n) = Rounds(m) + NumPorts + 3
<1> DEFINE a == MaxCheckTime + 1 - m
           w == NumPorts + 3
<1>1. a \in Nat /\ w \in Nat /\ MaxCheckTime + 1 - n = a + 1
  BY LifecycleAssumption
<1>2. Rounds(n) = (a + 1) * w /\ Rounds(m) = a * w
  BY <1>1 DEF Rounds
<1>3. NumPorts \in Nat /\ w = NumPorts + 3
  BY LifecycleAssumption
<1> HIDE DEF a, w
<1>4. \A b \in Nat : a * b \in Nat /\ (a + 1) * b = a * b + b
  BY <1>1
<1>5. a * w \in Nat /\ (a + 1) * w = a * w + w
  BY <1>1, <1>4
<1> QED
  BY <1>2, <1>3, <1>5

LEMMA MainLeftNat ==
  ASSUME LInv
  PROVE  /\ MainLeft \in Nat /\ (MainLeft = 0 <=> ~Alive)
         /\ mpc \in LinkPcs => MainLeft > LaunchLeft
<1>1. /\ NumPorts \in Nat /\ NumSlaves \in Nat /\ k \in Nat /\ count \in Nat
      /\ count <= MaxCheckTime /\ count + 1 \in Nat
  BY LifecycleAssumption DEF LInv, TypeOK, Counters
<1>2. PICK c \in Nat : c = Rounds(count) /\ c >= NumPorts + 3
  BY <1>1, RoundsStep
<1>3. /\ mpc \in {"port", "stop"} => k <= NumPorts
      /\ mpc \in {"launch", "wait"} => k <= NumSlaves + 1
      /\ mpc = "close" => k < NumPorts
  BY <1>1 DEF LInv, Counters
<1> USE <1>1, <1>2, <1>3 DEF LaunchLeft, JoinLeft, TeardownLeft
<1>4. CASE mpc = "round"
  BY <1>4 DEF MainLeft, LinkPcs, EndPcs, Alive
<1>5. CASE mpc = "port"
  BY <1>5 DEF MainLeft, LinkPcs, EndPcs, Alive
<1>6. CASE mpc = "roundEnd"
  BY <1>6 DEF MainLeft, LinkPcs, EndPcs, Alive
<1>7. CASE mpc = "launch"
  BY <1>7 DEF MainLeft, LinkPcs, EndPcs, Alive
<1>8. CASE mpc \in {"master", "alloc", "stats"}
  BY <1>8 DEF MainLeft, LinkPcs, EndPcs, Alive
<1>9. CASE mpc = "wait"
  BY <1>9 DEF MainLeft, LinkPcs, EndPcs, Alive
<1>10. CASE mpc \in {"stop", "close", "free"}
  BY <1>10 DEF MainLeft, LinkPcs, EndPcs, Alive
<1>11. CASE mpc \in EndPcs
  BY <1>11 DEF MainLeft, LinkPcs, EndPcs, Alive
<1> QED
  BY <1>4, <1>5, <1>6, <1>7, <1>8, <1>9, <1>10, <1>11 DEF LInv, TypeOK, LinkPcs

\* Each step of main leaves it less to do.
LEMMA MainDecreases ==
  ASSUME LInv, LInv', Main
  PROVE  MainLeft' < MainLeft
<1>1. /\ NumPorts \in Nat /\ NumSlaves \in Nat /\ k \in Nat /\ count \in Nat
      /\ count <= MaxCheckTime /\ count + 1 \in Nat /\ k' \in Nat
  BY LifecycleAssumption DEF LInv, TypeOK, Counters
<1>2. PICK c \in Nat, d \in Nat : c = Rounds(count) /\ d = Rounds(count + 1) /\ c = d + NumPorts + 3
  BY <1>1, RoundsStep
<1>3. LaunchLeft \in Nat /\ LaunchLeft = JoinLeft + NumSlaves + 5 /\ JoinLeft \in Nat
      /\ JoinLeft = TeardownLeft + NumSlaves + 1 /\ TeardownLeft = 2 * NumPorts + 2
  BY <1>1 DEF LaunchLeft, JoinLeft, TeardownLeft
<1> USE <1>1 DEF EndPcs
<1>4. CASE mpc \in LinkPcs /\ LinkDone
  <2>1. MainLeft > LaunchLeft /\ MainLeft \in Nat
    BY <1>4, MainLeftNat
  <2>2. MainLeft' = JoinLeft + NumSlaves + 5 - 1
    BY <1>4 DEF LinkDone, MainLeft
  <2> QED
    BY <1>3, <2>1, <2>2
<1>5. CASE Round
  <2>1. CASE LinkDone
    BY <1>4, <1>5, <2>1 DEF Round, LinkPcs
  <2>2. CASE mpc' = "port" /\ k' = 0
    <3>1. MainLeft = LaunchLeft + c /\ MainLeft' = LaunchLeft + c - (1 + 0)
      BY <1>2, <1>5, <2>2 DEF Round, MainLeft
    <3> QED
      BY <1>3, <3>1
  <2> QED
    BY <1>5, <2>1, <2>2 DEF Round
<1>6. CASE CheckPort
  <2>1. mpc = "port" /\ k < NumPorts /\ count' = count
    BY <1>6 DEF CheckPort
  <2>2. MainLeft = LaunchLeft + c - (1 + k)
    BY <1>2, <2>1 DEF MainLeft
  <2>3. CASE LinkDone
    BY <1>4, <2>1, <2>3 DEF LinkPcs
  <2>4. CASE mpc' = "port" /\ k' = k + 1
    <3>1. MainLeft' = LaunchLeft + c - (1 + (k + 1))
      BY <1>2, <2>1, <2>4 DEF MainLeft
    <3> QED
      BY <1>3, <2>2, <3>1
  <2>5. CASE mpc' = "roundEnd"
    <3>1. MainLeft' = LaunchLeft + c - (NumPorts + 2)
      BY <1>2, <2>1, <2>5 DEF MainLeft
    <3> QED
      BY <1>3, <2>1, <2>2, <3>1
  <2> QED
    BY <1>6, <2>1, <2>3, <2>4, <2>5 DEF CheckPort
<1>7. CASE PortsChecked
  <2>1. mpc = "port" /\ k = NumPorts /\ count' = count /\ mpc' = "roundEnd"
    BY <1>7 DEF PortsChecked, linkVars
  <2>2. MainLeft = LaunchLeft + c - (1 + k) /\ MainLeft' = LaunchLeft + c - (NumPorts + 2)
    BY <1>2, <2>1 DEF MainLeft
  <2> QED
    BY <1>3, <2>1, <2>2
<1>8. CASE RoundEnd
  <2>1. CASE LinkDone
    BY <1>4, <1>8, <2>1 DEF RoundEnd, LinkPcs
  <2>2. CASE count' = count + 1 /\ mpc' = "round"
    <3>1. /\ MainLeft = LaunchLeft + c - (NumPorts + 2) /\ MainLeft' = LaunchLeft + d
      BY <1>2, <1>8, <2>2 DEF RoundEnd, MainLeft
    <3> QED
      BY <1>2, <1>3, <3>1
  <2> QED
    BY <1>8, <2>1, <2>2 DEF RoundEnd
<1>9. CASE Launch
  <2>1. MainLeft = JoinLeft + NumSlaves + 5 - k
    BY <1>9 DEF Launch, LaunchSlave, CallMaster, MainLeft
  <2>2. k <= NumSlaves + 1
    BY <1>9 DEF Launch, LaunchSlave, CallMaster, LInv, Counters
  <2>3. \/ MainLeft' = JoinLeft + NumSlaves + 5 - (k + 1)
        \/ MainLeft' = JoinLeft + 3
    BY <1>9 DEF Launch, LaunchSlave, CallMaster, MainLeft
  <2> QED
    BY <1>3, <2>1, <2>2, <2>3
<1>10. CASE Alloc \/ StatsFail \/ StatsEnd
  <2>1. \/ /\ MainLeft = JoinLeft + 2
           /\ MainLeft' \in {JoinLeft + 1, 0}
        \/ /\ MainLeft = JoinLeft + 1
           /\ MainLeft' \in {JoinLeft + 1 - 1, 0}
    BY <1>10 DEF Alloc, StatsFail, StatsEnd, MainLeft, EndPcs
  <2> QED
    BY <1>3, <2>1
<1>11. CASE WaitLcore \/ AllWaited
  <2>1. MainLeft = JoinLeft + 1 - k /\ k <= NumSlaves + 1
    BY <1>11 DEF WaitLcore, AllWaited, MainLeft, LInv, Counters
  <2>2. \/ MainLeft' = JoinLeft + 1 - (k + 1)
        \/ MainLeft' = TeardownLeft - 2 * 0
    BY <1>11 DEF WaitLcore, AllWaited, MainLeft
  <2> QED
    BY <1>3, <2>1, <2>2
<1>12. CASE StopPort \/ ClosePort \/ PortsClosed
  <2>1. \/ /\ MainLeft = TeardownLeft - 2 * k /\ k < NumPorts
           /\ MainLeft' = TeardownLeft - 2 * k - 1
        \/ /\ MainLeft = TeardownLeft - 2 * k - 1
           /\ MainLeft' = TeardownLeft - 2 * (k + 1)
        \/ /\ MainLeft = TeardownLeft - 2 * k /\ k = NumPorts
           /\ MainLeft' = 1
    BY <1>12 DEF StopPort, ClosePort, PortsClosed, MainLeft
  <2> QED
    BY <1>3, <2>1
<1>13. CASE FreeArray
  BY <1>13 DEF FreeArray, MainLeft, EndPcs
<1> QED
  BY <1>5, <1>6, <1>7, <1>8, <1>9, <1>10, <1>11, <1>12, <1>13 DEF Main, CheckLinks, Teardown

\* A loop's step leaves main no more to do: the master's return, or a crash, leave it less.
LEMMA OthersKeepMain ==
  ASSUME LInv, Next, ~Main
  PROVE  MainLeft' <= MainLeft
<1> USE DEF EndPcs
<1>1. MainLeft \in Nat
  BY MainLeftNat
<1>2. ASSUME NEW l \in Lcores, Loop(l) PROVE MainLeft' <= MainLeft
  <2>1. UNCHANGED <<k, count>>
    BY <1>2, LoopEffect DEF linkVars
  <2>2. CASE mpc' = mpc
    <3>1. MainLeft' = MainLeft
      BY <2>1, <2>2 DEF MainLeft, LInv, TypeOK, LinkPcs
    <3> QED
      BY <1>1, <3>1
  <2>3. CASE mpc' = "crashed"
    <3>1. MainLeft' = 0
      BY <2>3 DEF MainLeft
    <3> QED
      BY <1>1, <3>1
  <2>4. CASE l = Master /\ mpc' = "alloc"
    <3>1. mpc = "master"
      BY <1>2, <2>4, LoopEffect DEF LInv, Joined
    <3>2. MainLeft = JoinLeft + 3 /\ MainLeft' = JoinLeft + 2 /\ JoinLeft \in Nat
      BY <2>4, <3>1, LifecycleAssumption DEF MainLeft, JoinLeft, TeardownLeft
    <3> QED
      BY <3>2
  <2> QED
    BY <1>2, <2>2, <2>3, <2>4, LoopEffect
<1>3. CASE Signal \/ (\E p \in Ports : LinkChange(p)) \/ Finished
  <2>1. UNCHANGED <<mpc, k, count>>
    BY <1>3 DEF Signal, LinkChange, Finished, vars, linkVars
  <2>2. MainLeft' = MainLeft
    BY <2>1 DEF MainLeft, LInv, TypeOK, LinkPcs
  <2> QED
    BY <1>1, <2>2
<1> QED
  BY <1>2, <1>3 DEF Next

(***************************************************************************)
(* Every step of main leaves it fewer steps to take, and nobody gives it    *)
(* more: the link check has at most MAX_CHECK_TIME + 1 rounds whatever the  *)
(* links do, and after it main comes to its end unless it waits for a loop  *)
(* or for force_quit (main.c 826-877, 1124-1235).                           *)
(***************************************************************************)
THEOREM MainBounded ==
  Spec =>
    /\ [](MainLeft \in Nat /\ (MainLeft = 0 <=> ~Alive))
    /\ [][(Main => MainLeft' < MainLeft) /\ (~Main => MainLeft' <= MainLeft)]_vars
<1>1. ASSUME LInv, LInv', Next
      PROVE  (Main => MainLeft' < MainLeft) /\ (~Main => MainLeft' <= MainLeft)
  BY <1>1, MainDecreases, OthersKeepMain
<1> QED
  BY <1>1, LInvariance, LNext, MainLeftNat, PTL DEF Spec

\* Each step of a loop leaves it less to do, until it tests force_quit or the process ends.
LEMMA LoopDecreases ==
  ASSUME LInv, TInv, NEW l \in Lcores, Loop(l), forceQuit \/ loop[l] # "top", Alive'
  PROVE  LoopLeft(l)' < LoopLeft(l)
<1>1. /\ NumRxQueues[l] \in Nat /\ queue[l] \in Nat /\ queue[l] + 1 \in Nat
      /\ loop[l] \in {"top", "drain"} => NumRxQueues[l] > 0
      /\ loop[l] = "drain" => queue[l] = 0
      /\ loop[l] \in {"poll", "access", "send"} => queue[l] < NumRxQueues[l]
  BY LifecycleAssumption DEF LInv, TypeOK, TInv, QueueInv
<1> DEFINE R == NumRxQueues[l]
<1>2. CASE Start(l)
  <2>1. LoopLeft(l) = 2 /\ LoopLeft(l)' \in {0, 1}
    BY <1>2 DEF Start, Leave, Goto, LoopLeft, LInv, TypeOK
  <2> QED
    BY <2>1
<1>3. CASE Top(l)
  <2>1. LoopLeft(l) = 1 /\ LoopLeft(l)' = 0
    BY <1>3 DEF Top, Leave, Goto, LoopLeft, LInv, TypeOK
  <2> QED
    BY <2>1
<1>4. CASE Drain(l)
  <2>1. LoopLeft(l) = 3 * R + 2 /\ LoopLeft(l)' = 3 * (R - 0) + 1
    BY <1>1, <1>4 DEF Drain, Goto, LoopLeft, LInv, TypeOK
  <2> QED
    BY <1>1, <2>1
<1>5. CASE loop[l] \in {"poll", "send"} /\ NextQueue(l)
  <2>1. LoopLeft(l) >= 3 * (R - queue[l]) - 1 /\ LoopLeft(l) \in Nat
    BY <1>1, <1>5 DEF LoopLeft
  <2>2. LoopLeft(l)' \in {1, 3 * (R - (queue[l] + 1)) + 1}
    BY <1>5 DEF NextQueue, Goto, LoopLeft, LInv, TypeOK
  <2> QED
    BY <1>1, <1>5, <2>1, <2>2
<1>6. CASE loop[l] = "poll" /\ queue' = queue /\ \E w \in {"access", "send"} : Goto(l, w)
  <2>1. LoopLeft(l) = 3 * (R - queue[l]) + 1
    BY <1>6 DEF LoopLeft
  <2>2. LoopLeft(l)' \in {3 * (R - queue[l]), 3 * (R - queue[l]) - 1}
    BY <1>6 DEF Goto, LoopLeft, LInv, TypeOK
  <2> QED
    BY <1>1, <2>1, <2>2
<1>7. CASE Access(l)
  <2>1. LoopLeft(l) = 3 * (R - queue[l]) /\ LoopLeft(l)' = 3 * (R - queue[l]) - 1
    BY <1>7 DEF Access, Goto, LoopLeft, LInv, TypeOK, Alive, EndPcs
  <2> QED
    BY <1>1, <2>1
<1> QED
  BY <1>2, <1>3, <1>4, <1>5, <1>6, <1>7 DEF Loop, Poll, Send

\* Only the launch gives a loop that is not at its test more to do.
LEMMA LoopKept ==
  ASSUME LInv, NEW l \in Lcores, Next, ~Loop(l), ~Launch
  PROVE  LoopLeft(l)' = LoopLeft(l)
<1>1. loop'[l] = loop[l] /\ queue'[l] = queue[l]
  <2>1. ASSUME NEW m \in Lcores, Loop(m), m # l PROVE loop'[l] = loop[l] /\ queue'[l] = queue[l]
    BY <2>1 DEF Loop, Start, Top, Drain, Poll, Access, Send, NextQueue, Leave, Goto, LInv, TypeOK
  <2>2. CASE CheckLinks \/ Alloc \/ StatsFail \/ StatsEnd \/ Teardown
    BY <2>2 DEF CheckLinks, Round, CheckPort, PortsChecked, RoundEnd, Alloc, StatsFail,
       StatsEnd, Teardown, WaitLcore, AllWaited, StopPort, ClosePort, PortsClosed, FreeArray,
       lcoreVars
  <2>3. CASE Signal \/ (\E p \in Ports : LinkChange(p)) \/ Finished
    BY <2>3 DEF Signal, LinkChange, Finished, vars, lcoreVars
  <2> QED
    BY <2>1, <2>2, <2>3 DEF Next, Main
<1>2. loop[l] \in LoopPcs
  BY DEF LInv, TypeOK, LoopPcs
<1> QED
  BY <1>1, <1>2 DEF LoopLeft, LoopPcs

LEMMA LoopLeftNat ==
  ASSUME LInv, TInv, NEW l \in Lcores
  PROVE  LoopLeft(l) \in Nat /\ (LoopLeft(l) = 0 <=> loop[l] = "out")
<1>1. /\ NumRxQueues[l] \in Nat /\ queue[l] \in Nat
      /\ loop[l] \in {"poll", "access", "send"} => queue[l] < NumRxQueues[l]
      /\ loop[l] \in LoopPcs
  BY LifecycleAssumption DEF LInv, TypeOK, TInv, QueueInv, LoopPcs
<1>2. CASE loop[l] \in {"out", "top", "start", "drain"}
  BY <1>1, <1>2 DEF LoopLeft
<1>3. CASE loop[l] \in {"poll", "access", "send"}
  BY <1>1, <1>3 DEF LoopLeft
<1> QED
  BY <1>1, <1>2, <1>3 DEF LoopPcs

(***************************************************************************)
(* An lcore tests force_quit again after at most LoopLeft of its own steps, *)
(* whatever the others do, and leaves if it is set.  With MainBounded and   *)
(* WaitsForLoops this is the whole of ShutsDown but the fairness: after     *)
(* force_quit every step of a thread uses up a natural number, and only the *)
(* launches that main has still to do start one (main.c 1128, l3fwd_em.c    *)
(* 696-750, l3fwd_lpm.c 232-276).                                           *)
(***************************************************************************)
THEOREM LoopsBounded ==
  Spec =>
    \A l \in Lcores :
      /\ [](LoopLeft(l) \in Nat /\ (LoopLeft(l) = 0 <=> loop[l] = "out"))
      /\ [][/\ Loop(l) /\ (forceQuit \/ loop[l] # "top") /\ Alive' => LoopLeft(l)' < LoopLeft(l)
            /\ ~Loop(l) /\ ~Launch => LoopLeft(l)' = LoopLeft(l)]_vars
<1> SUFFICES ASSUME NEW l \in Lcores
             PROVE  Spec => /\ [](LoopLeft(l) \in Nat /\ (LoopLeft(l) = 0 <=> loop[l] = "out"))
                            /\ [][/\ Loop(l) /\ (forceQuit \/ loop[l] # "top") /\ Alive'
                                     => LoopLeft(l)' < LoopLeft(l)
                                  /\ ~Loop(l) /\ ~Launch => LoopLeft(l)' = LoopLeft(l)]_vars
  OBVIOUS
<1>1. ASSUME LInv, TInv, Next
      PROVE  /\ Loop(l) /\ (forceQuit \/ loop[l] # "top") /\ Alive' => LoopLeft(l)' < LoopLeft(l)
             /\ ~Loop(l) /\ ~Launch => LoopLeft(l)' = LoopLeft(l)
  BY <1>1, LoopDecreases, LoopKept
<1>2. LInv /\ TInv => LoopLeft(l) \in Nat /\ (LoopLeft(l) = 0 <=> loop[l] = "out")
  BY LoopLeftNat
<1> QED
  BY <1>1, <1>2, TInvariance, PTL DEF Spec

=============================================================================
