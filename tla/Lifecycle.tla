------------------------------ MODULE Lifecycle ------------------------------
(***************************************************************************)
(* The threads of l3fwd from the moment the ports are started: main         *)
(* (main.c) waits for the links, launches the main loop on every lcore, and *)
(* runs it itself on the master lcore; allocates the array the loops access *)
(* (EXP_MEM_ACCESS_IN_THREAD); writes statistics until force_quit; joins    *)
(* the slaves, closes the ports and frees the array.                        *)
(*                                                                          *)
(* The master lcore is 0 and the slaves are 1, 2, ..., in the order of their*)
(* ids, as RTE_LCORE_FOREACH_SLAVE visits them.  Of the main loop, module   *)
(* Forward has the detail; here only what it shares with main matters.      *)
(***************************************************************************)
EXTENDS Naturals

CONSTANTS
  NumSlaves,     \* enabled slave lcores
  NumPorts,      \* enabled ports
  NumRxQueues,   \* n_rx_queue of every lcore
  MaxCheckTime,  \* MAX_CHECK_TIME
  MemAccess,     \* EXP_MEM_ACCESS_IN_THREAD is defined, and -E selected
  WriteStats     \* EXP_WRITE_PORT_STATS is defined, and nb_ports == 2

Master == 0
Slaves == 1 .. NumSlaves
Lcores == 0 .. NumSlaves
Ports == 0 .. (NumPorts - 1)

ASSUME LifecycleAssumption ==
  /\ NumSlaves \in Nat
  /\ NumPorts \in Nat \ {0}
  /\ NumRxQueues \in [Lcores -> Nat]
  /\ MaxCheckTime \in Nat \ {0}
  /\ MemAccess \in BOOLEAN
  /\ WriteStats \in BOOLEAN

VARIABLES
  mpc,        \* where main is
  k,          \* the port or lcore that main's current loop is at
  count, allUp, printFlag,  \* the locals of check_all_ports_link_status
  reported,   \* the ports whose link status was printed
  up,         \* the link status of every port
  forceQuit,  \* force_quit
  state,      \* lcore_config[l].state of every slave
  loop,       \* where every lcore is in the main loop, "out" if it is not in it
  queue,      \* the RX queue it polls
  portState,  \* what main did to every port
  memArray    \* random_mem_array: "null", "live" or "freed"

linkVars == <<count, allUp, printFlag, reported>>
lcoreVars == <<state, loop, queue>>
vars == <<mpc, k, linkVars, up, forceQuit, lcoreVars, portState, memArray>>

LinkPcs == {"round", "port", "roundEnd"}
EndPcs == {"done", "failed", "crashed"}

TypeOK ==
  /\ mpc \in LinkPcs \cup EndPcs
             \cup {"launch", "master", "alloc", "stats", "wait", "stop", "close", "free"}
  /\ k \in 0 .. (NumPorts + NumSlaves + 1)
  /\ count \in 0 .. MaxCheckTime
  /\ allUp \in BOOLEAN
  /\ printFlag \in BOOLEAN
  /\ reported \in SUBSET Ports
  /\ up \in [Ports -> BOOLEAN]
  /\ forceQuit \in BOOLEAN
  /\ state \in [Slaves -> {"wait", "running", "finished"}]
  /\ loop \in [Lcores -> {"out", "start", "top", "drain", "poll", "access", "send"}]
  /\ queue \in [Lcores -> Nat]
  /\ portState \in [Ports -> {"started", "stopped", "closed"}]
  /\ memArray \in {"null", "live", "freed"}

Init ==
  /\ mpc = "round"
  /\ k = 0
  /\ count = 0
  /\ allUp = FALSE
  /\ printFlag = FALSE
  /\ reported = {}
  /\ up \in [Ports -> BOOLEAN]
  /\ forceQuit \in BOOLEAN          \* the handler is installed before the ports are
  /\ state = [s \in Slaves |-> "wait"]
  /\ loop = [l \in Lcores |-> "out"]
  /\ queue = [l \in Lcores |-> 0]
  /\ portState = [p \in Ports |-> "started"]
  /\ memArray = "null"

Alive == mpc \notin EndPcs

-----------------------------------------------------------------------------
(* The environment. *)

Signal ==
  /\ Alive
  /\ ~forceQuit
  /\ forceQuit' = TRUE
  /\ UNCHANGED <<mpc, k, linkVars, up, lcoreVars, portState, memArray>>

\* A link comes up or goes down; after check_all_ports_link_status nobody looks.
LinkChange(p) ==
  /\ mpc \in LinkPcs
  /\ up' = [up EXCEPT ![p] = ~up[p]]
  /\ UNCHANGED <<mpc, k, linkVars, forceQuit, lcoreVars, portState, memArray>>

-----------------------------------------------------------------------------
(* check_all_ports_link_status *)

LinkDone ==
  /\ mpc' = "launch"
  /\ k' = 1

\* The head of the loop over count.
Round ==
  /\ mpc = "round"
  /\ \/ /\ count > MaxCheckTime \/ forceQuit
        /\ LinkDone
        /\ UNCHANGED allUp
     \/ /\ count <= MaxCheckTime
        /\ ~forceQuit
        /\ allUp' = TRUE
        /\ k' = 0
        /\ mpc' = "port"
  /\ UNCHANGED <<count, printFlag, reported, up, forceQuit, lcoreVars, portState, memArray>>

\* One port: print its link, or note that it is down and stop looking.
CheckPort ==
  /\ mpc = "port"
  /\ k < NumPorts
  /\ \/ /\ forceQuit
        /\ LinkDone
        /\ UNCHANGED <<allUp, reported>>
     \/ /\ ~forceQuit
        /\ printFlag
        /\ reported' = reported \cup {k}
        /\ k' = k + 1
        /\ UNCHANGED <<mpc, allUp>>
     \/ /\ ~forceQuit
        /\ ~printFlag
        /\ up[k]
        /\ k' = k + 1
        /\ UNCHANGED <<mpc, allUp, reported>>
     \/ /\ ~forceQuit
        /\ ~printFlag
        /\ ~up[k]
        /\ allUp' = FALSE
        /\ mpc' = "roundEnd"
        /\ UNCHANGED <<k, reported>>
  /\ UNCHANGED <<count, printFlag, up, forceQuit, lcoreVars, portState, memArray>>

PortsChecked ==
  /\ mpc = "port"
  /\ k = NumPorts
  /\ mpc' = "roundEnd"
  /\ UNCHANGED <<k, linkVars, up, forceQuit, lcoreVars, portState, memArray>>

\* Mutants of RoundEnd: the last round is one too late, ...
RoundEndLate ==
  /\ mpc = "roundEnd"
  /\ \/ /\ printFlag
        /\ LinkDone
        /\ UNCHANGED <<count, printFlag>>
     \/ /\ ~printFlag
        /\ printFlag' = (allUp \/ count = MaxCheckTime)
        /\ count' = count + 1
        /\ mpc' = "round"
        /\ UNCHANGED k
  /\ UNCHANGED <<allUp, reported, up, forceQuit, lcoreVars, portState, memArray>>

\* ... links that are all up end the loop at once, ...
RoundEndSilent ==
  /\ mpc = "roundEnd"
  /\ \/ /\ printFlag \/ allUp
        /\ LinkDone
        /\ UNCHANGED <<count, printFlag>>
     \/ /\ ~printFlag /\ ~allUp
        /\ printFlag' = (count = MaxCheckTime - 1)
        /\ count' = count + 1
        /\ mpc' = "round"
        /\ UNCHANGED k
  /\ UNCHANGED <<allUp, reported, up, forceQuit, lcoreVars, portState, memArray>>

\* ... and the rounds are not counted.
RoundEndUncounted ==
  /\ mpc = "roundEnd"
  /\ \/ /\ printFlag
        /\ LinkDone
        /\ UNCHANGED printFlag
     \/ /\ ~printFlag
        /\ printFlag' = (allUp \/ count = MaxCheckTime - 1)
        /\ mpc' = "round"
        /\ UNCHANGED k
  /\ UNCHANGED <<count, allUp, reported, up, forceQuit, lcoreVars, portState, memArray>>

\* print_flag ends the loop; it is set for the next round when this is to be the last.
RoundEnd ==
  /\ mpc = "roundEnd"
  /\ \/ /\ printFlag
        /\ LinkDone
        /\ UNCHANGED <<count, printFlag>>
     \/ /\ ~printFlag
        /\ printFlag' = (allUp \/ count = MaxCheckTime - 1)
        /\ count' = count + 1
        /\ mpc' = "round"
        /\ UNCHANGED k
  /\ UNCHANGED <<allUp, reported, up, forceQuit, lcoreVars, portState, memArray>>

-----------------------------------------------------------------------------
(* rte_eal_mp_remote_launch(main_loop, NULL, CALL_MASTER) *)

LaunchSlave ==
  /\ mpc = "launch"
  /\ k <= NumSlaves
  /\ state' = [state EXCEPT ![k] = "running"]
  /\ loop' = [loop EXCEPT ![k] = "start"]
  /\ k' = k + 1
  /\ UNCHANGED <<mpc, linkVars, up, forceQuit, queue, portState, memArray>>

CallMaster ==
  /\ mpc = "launch"
  /\ k > NumSlaves
  /\ loop' = [loop EXCEPT ![Master] = "start"]
  /\ mpc' = "master"
  /\ UNCHANGED <<k, linkVars, up, forceQuit, state, queue, portState, memArray>>

-----------------------------------------------------------------------------
(* The main loop on lcore l. *)

\* The loop function returns: a slave's thread notes it, the master goes on in main.
Leave(l) ==
  /\ loop' = [loop EXCEPT ![l] = "out"]
  /\ IF l = Master
     THEN mpc' = "alloc" /\ UNCHANGED state
     ELSE state' = [state EXCEPT ![l] = "finished"] /\ UNCHANGED mpc
  /\ UNCHANGED queue

Goto(l, where) ==
  /\ loop' = [loop EXCEPT ![l] = where]
  /\ UNCHANGED <<mpc, state>>

\* Nothing to do without a queue to poll.
Start(l) ==
  /\ Alive
  /\ loop[l] = "start"
  /\ IF NumRxQueues[l] = 0
     THEN Leave(l)
     ELSE Goto(l, "top") /\ UNCHANGED queue
  /\ UNCHANGED <<k, linkVars, up, forceQuit, portState, memArray>>

\* Mutant of Top: an lcore that drains does not look at force_quit.
TopDeaf(l) ==
  /\ Alive
  /\ loop[l] = "top"
  /\ \/ forceQuit /\ Leave(l)
     \/ /\ \E where \in {"drain", "poll"} : Goto(l, where)
        /\ queue' = [queue EXCEPT ![l] = 0]
  /\ UNCHANGED <<k, linkVars, up, forceQuit, portState, memArray>>

\* while (!force_quit), and the drain if the clock says so.
Top(l) ==
  /\ Alive
  /\ loop[l] = "top"
  /\ \/ forceQuit /\ Leave(l)
     \/ /\ ~forceQuit
        /\ \E where \in {"drain", "poll"} : Goto(l, where)
        /\ queue' = [queue EXCEPT ![l] = 0]
  /\ UNCHANGED <<k, linkVars, up, forceQuit, portState, memArray>>

Drain(l) ==
  /\ Alive
  /\ loop[l] = "drain"
  /\ Goto(l, "poll")
  /\ UNCHANGED <<k, linkVars, up, forceQuit, queue, portState, memArray>>

NextQueue(l) ==
  IF queue[l] + 1 < NumRxQueues[l]
  THEN /\ queue' = [queue EXCEPT ![l] = queue[l] + 1]
       /\ Goto(l, "poll")
  ELSE /\ UNCHANGED queue
       /\ Goto(l, "top")

\* rte_eth_rx_burst: packets, or nothing.
Poll(l) ==
  /\ Alive
  /\ loop[l] = "poll"
  /\ \/ NextQueue(l)
     \/ Goto(l, IF MemAccess THEN "access" ELSE "send") /\ UNCHANGED queue
  /\ UNCHANGED <<k, linkVars, up, forceQuit, portState, memArray>>

\* The writes to random_mem_array: a null pointer ends the process.
Access(l) ==
  /\ Alive
  /\ loop[l] = "access"
  /\ IF memArray = "null"
     THEN mpc' = "crashed" /\ UNCHANGED <<loop, state>>
     ELSE Goto(l, "send")
  /\ UNCHANGED <<k, linkVars, up, forceQuit, queue, portState, memArray>>

\* l3fwd_em_send_packets, l3fwd_lpm_send_packets.
Send(l) ==
  /\ Alive
  /\ loop[l] = "send"
  /\ NextQueue(l)
  /\ UNCHANGED <<k, linkVars, up, forceQuit, portState, memArray>>

-----------------------------------------------------------------------------
(* main once the launch returned. *)

\* rte_zmalloc, or rte_exit if it fails.
Alloc ==
  /\ mpc = "alloc"
  /\ \/ MemAccess /\ memArray' = "live" /\ mpc' = "stats"
     \/ MemAccess /\ UNCHANGED memArray /\ mpc' = "failed"
     \/ ~MemAccess /\ UNCHANGED memArray /\ mpc' = "stats"
  /\ UNCHANGED <<k, linkVars, up, forceQuit, lcoreVars, portState>>

\* The statistics file cannot be opened.
StatsFail ==
  /\ mpc = "stats"
  /\ WriteStats
  /\ mpc' = "failed"
  /\ UNCHANGED <<k, linkVars, up, forceQuit, lcoreVars, portState, memArray>>

\* while (!force_quit) around the statistics.
StatsEnd ==
  /\ mpc = "stats"
  /\ WriteStats => forceQuit
  /\ mpc' = "wait"
  /\ k' = 1
  /\ UNCHANGED <<linkVars, up, forceQuit, lcoreVars, portState, memArray>>

\* Mutant of WaitLcore: a running lcore is not waited for.
WaitLcoreNot ==
  /\ mpc = "wait"
  /\ k <= NumSlaves
  /\ k' = k + 1
  /\ UNCHANGED <<mpc, linkVars, up, forceQuit, lcoreVars, portState, memArray>>

\* rte_eal_wait_lcore(k) returns 0, as the main loop does, so the loop goes on.
WaitLcore ==
  /\ mpc = "wait"
  /\ k <= NumSlaves
  /\ state[k] \in {"wait", "finished"}
  /\ state' = [state EXCEPT ![k] = "wait"]
  /\ k' = k + 1
  /\ UNCHANGED <<mpc, linkVars, up, forceQuit, loop, queue, portState, memArray>>

AllWaited ==
  /\ mpc = "wait"
  /\ k > NumSlaves
  /\ mpc' = "stop"
  /\ k' = 0
  /\ UNCHANGED <<linkVars, up, forceQuit, lcoreVars, portState, memArray>>

StopPort ==
  /\ mpc = "stop"
  /\ k < NumPorts
  /\ portState' = [portState EXCEPT ![k] = "stopped"]
  /\ mpc' = "close"
  /\ UNCHANGED <<k, linkVars, up, forceQuit, lcoreVars, memArray>>

ClosePort ==
  /\ mpc = "close"
  /\ portState' = [portState EXCEPT ![k] = "closed"]
  /\ mpc' = "stop"
  /\ k' = k + 1
  /\ UNCHANGED <<linkVars, up, forceQuit, lcoreVars, memArray>>

PortsClosed ==
  /\ mpc = "stop"
  /\ k = NumPorts
  /\ mpc' = "free"
  /\ UNCHANGED <<k, linkVars, up, forceQuit, lcoreVars, portState, memArray>>

FreeArray ==
  /\ mpc = "free"
  /\ memArray' = IF memArray = "null" THEN "null" ELSE "freed"
  /\ mpc' = "done"
  /\ UNCHANGED <<k, linkVars, up, forceQuit, lcoreVars, portState>>

-----------------------------------------------------------------------------
CheckLinks == Round \/ CheckPort \/ PortsChecked \/ RoundEnd
Launch == LaunchSlave \/ CallMaster
Teardown == WaitLcore \/ AllWaited \/ StopPort \/ ClosePort \/ PortsClosed \/ FreeArray
Main == CheckLinks \/ Launch \/ Alloc \/ StatsFail \/ StatsEnd \/ Teardown

Loop(l) == Start(l) \/ Top(l) \/ Drain(l) \/ Poll(l) \/ Access(l) \/ Send(l)

Finished == ~Alive /\ UNCHANGED vars

Next ==
  \/ Main
  \/ \E l \in Lcores : Loop(l)
  \/ Signal
  \/ \E p \in Ports : LinkChange(p)
  \/ Finished

Spec == Init /\ [][Next]_vars

\* Every lcore is a thread pinned to a core of its own: each of them keeps running.
FairSpec ==
  Spec /\ WF_vars(Main) /\ \A l \in Lcores : WF_vars(Loop(l))

-----------------------------------------------------------------------------
(* Properties. *)

(***************************************************************************)
(* While an lcore is in its main loop, every port is started and the array  *)
(* is not freed: main joins all of them before it takes either away.        *)
(***************************************************************************)
OutliveLoops ==
  Alive => \A l \in Lcores :
             loop[l] # "out" => /\ \A p \in Ports : portState[p] = "started"
                                /\ memArray # "freed"

(***************************************************************************)
(* The link check ends with the status of every enabled port printed, also  *)
(* when the links never come up, unless the application is told to quit.    *)
(***************************************************************************)
FinallyReported == mpc \in LinkPcs \/ forceQuit \/ reported = Ports

(***************************************************************************)
(* "Check the link status of all ports in up to 9s": the lcores are launched*)
(* whether or not the links come up.                                        *)
(***************************************************************************)
Launches == <>(mpc \notin LinkPcs)

(***************************************************************************)
(* After SIGINT or SIGTERM the process ends, whatever main and the lcores   *)
(* were doing.  (ArrayAllocated says how it may end sooner than it should.) *)
(***************************************************************************)
ShutsDown == forceQuit ~> ~Alive

(***************************************************************************)
(* "that gets a 4MB array with 4096 lookups per batch of packets"           *)
(* (README.md): an lcore that looks up finds the array.  The lcores are     *)
(* launched before the array is allocated, so they may not.                 *)
(***************************************************************************)
ArrayAllocated ==
  \A l \in Lcores : Alive /\ loop[l] = "access" => memArray = "live"
=============================================================================
