------------------------------- MODULE Startup -------------------------------
(***************************************************************************)
(* How main (l3fwd/main.c) turns --config and -p into queues: which lcore   *)
(* polls which RX queue, which TX queue every lcore owns on every port, the *)
(* mbuf pools, and the many ways to refuse.  What it leaves behind is what  *)
(* modules Forward and Lifecycle start from: every lcore_conf.              *)
(*                                                                          *)
(* EAL and the devices are external: a call that may fail ends in rte_exit. *)
(***************************************************************************)
EXTENDS Integers, Sequences, FiniteSets

CONSTANTS
  Configs,             \* the lcore_params an operator may give: sequences of
                       \* [port, queue, lcore]
  Masks,               \* the sets of ports he may enable
  NbPorts,             \* rte_eth_dev_count()
  Lcores,              \* the enabled lcores
  SocketOf,            \* rte_lcore_to_socket_id, 0 everywhere with --no-numa
  NbSockets,           \* NB_SOCKETS
  HasPtypes,           \* ports whose device reports the packet types needed
  MaxRxQueuePerPort,   \* MAX_RX_QUEUE_PER_PORT
  MaxRxQueuePerLcore,  \* MAX_RX_QUEUE_PER_LCORE
  MaxTxQueuePerPort,   \* MAX_TX_QUEUE_PER_PORT
  NbRxd, NbTxd,        \* nb_rxd, nb_txd
  MaxPktBurst,         \* MAX_PKT_BURST
  CacheSize,           \* MEMPOOL_CACHE_SIZE
  MinMbufs             \* the least size of a pool, 8192

ASSUME StartupAssumption ==
  /\ Configs \subseteq Seq([port : Nat, queue : Nat, lcore : Nat])
  /\ Masks \subseteq SUBSET Nat
  /\ NbPorts \in Nat
  /\ Lcores \subseteq Nat /\ IsFiniteSet(Lcores) /\ Lcores # {}
  /\ SocketOf \in [Lcores -> Nat]
  /\ HasPtypes \subseteq Nat
  /\ \A n \in {NbSockets, MaxRxQueuePerPort, MaxRxQueuePerLcore, MaxTxQueuePerPort, NbRxd,
               NbTxd, MaxPktBurst, CacheSize, MinMbufs} : n \in Nat

VARIABLES
  pc,        \* the stage main is in, "exit" after rte_exit
  params,    \* lcore_params
  mask,      \* enabled_port_mask
  ptype,     \* parse_ptype
  i,         \* the loop variable: a param, or a port
  rxQueues,  \* rx_queue_list[0 .. n_rx_queue - 1] of every lcore
  txPorts,   \* tx_port_id[0 .. n_tx_port - 1] of every lcore
  txQueue,   \* tx_queue_id of every lcore, 0 where it was never written
  nbRxq,     \* RX queues a port was configured with, -1 if it was not
  nbTxq,     \* TX queues a port was configured with
  pool,      \* mbufs in pktmbuf_pool[socket], 0 for NULL
  rxSetup,   \* the RX queues that were set up, with the socket of their pool
  parsed     \* the RX queues whose packets carry a type

input == <<params, mask, ptype>>
conf == <<rxQueues, txPorts, txQueue>>
device == <<nbRxq, nbTxq, pool, rxSetup, parsed>>
vars == <<pc, input, i, conf, device>>

Ports == 0 .. (NbPorts - 1)
Sockets == 0 .. (NbSockets - 1)

TypeOK ==
  /\ pc \in {"check", "queues", "checkPorts", "ports", "rxqs", "ptypes", "ready", "exit"}
  /\ params \in Configs
  /\ mask \in Masks
  /\ ptype \in BOOLEAN
  /\ i \in 0 .. (Len(params) + NbPorts)
  /\ rxQueues \in [Lcores -> Seq([port : Nat, queue : Nat])]
  /\ \A l \in Lcores : Len(rxQueues[l]) <= MaxRxQueuePerLcore
  /\ txPorts \in [Lcores -> Seq(Ports)]
  /\ txQueue \in [Lcores -> [Ports -> Nat]]
  /\ nbRxq \in [Ports -> Nat \cup {-1}]
  /\ nbTxq \in [Ports -> 0 .. MaxTxQueuePerPort]
  /\ pool \in [Sockets -> Nat]
  /\ rxSetup \subseteq Ports \X Nat \X Sockets
  /\ parsed \subseteq Ports \X Nat

Init ==
  /\ pc = "check"
  /\ params \in Configs
  /\ mask \in Masks
  /\ ptype \in BOOLEAN
  /\ i = 0
  /\ rxQueues = [l \in Lcores |-> <<>>]
  /\ txPorts = [l \in Lcores |-> <<>>]
  /\ txQueue = [l \in Lcores |-> [p \in Ports |-> 0]]
  /\ nbRxq = [p \in Ports |-> -1]
  /\ nbTxq = [p \in Ports |-> 0]
  /\ pool = [s \in Sockets |-> 0]
  /\ rxSetup = {}
  /\ parsed = {}

Exit ==
  /\ pc' = "exit"
  /\ UNCHANGED <<input, i, conf, device>>

-----------------------------------------------------------------------------
ParamOK(c) == c.queue < MaxRxQueuePerPort /\ c.lcore \in Lcores

\* check_lcore_params
CheckLcores ==
  /\ pc = "check"
  /\ \A n \in 1 .. Len(params) : ParamOK(params[n])
  /\ pc' = "queues"
  /\ UNCHANGED <<input, i, conf, device>>

LcoresRefused ==
  /\ pc = "check"
  /\ \E n \in 1 .. Len(params) : ~ParamOK(params[n])
  /\ Exit

\* Mutant of AddQueue: one queue more than the list has room for.
AddQueuePast ==
  /\ pc = "queues"
  /\ i < Len(params)
  /\ LET c == params[i + 1]
     IN /\ Len(rxQueues[c.lcore]) <= MaxRxQueuePerLcore
        /\ rxQueues' = [rxQueues EXCEPT ![c.lcore] =
                          Append(@, [port |-> c.port, queue |-> c.queue])]
  /\ i' = i + 1
  /\ UNCHANGED <<pc, input, txPorts, txQueue, device>>

\* init_lcore_rx_queues: one param, appended to the list of its lcore.
AddQueue ==
  /\ pc = "queues"
  /\ i < Len(params)
  /\ LET c == params[i + 1]
     IN /\ Len(rxQueues[c.lcore]) < MaxRxQueuePerLcore
        /\ rxQueues' = [rxQueues EXCEPT ![c.lcore] =
                          Append(@, [port |-> c.port, queue |-> c.queue])]
  /\ i' = i + 1
  /\ UNCHANGED <<pc, input, txPorts, txQueue, device>>

TooManyQueues ==
  /\ pc = "queues"
  /\ i < Len(params)
  /\ Len(rxQueues[params[i + 1].lcore]) >= MaxRxQueuePerLcore
  /\ Exit

QueuesAdded ==
  /\ pc = "queues"
  /\ i = Len(params)
  /\ pc' = "checkPorts"
  /\ UNCHANGED <<input, i, conf, device>>

\* check_port_config
PortOK(c) == c.port \in mask /\ c.port < NbPorts

CheckPorts ==
  /\ pc = "checkPorts"
  /\ \A n \in 1 .. Len(params) : PortOK(params[n])
  /\ pc' = "ports"
  /\ i' = 0
  /\ UNCHANGED <<input, conf, device>>

PortsRefused ==
  /\ pc = "checkPorts"
  /\ \E n \in 1 .. Len(params) : ~PortOK(params[n])
  /\ Exit

-----------------------------------------------------------------------------
(* The loop over the ports. *)

\* The params of port p.
ParamsOf(p) == {n \in 1 .. Len(params) : params[n].port = p}

\* Mutant of InSequence: ids in range are enough.
InRange(p) == \A n \in ParamsOf(p) : params[n].queue < Cardinality(ParamsOf(p))

\* get_port_n_rx_queues: the ids of a port's queues must come as 0, 1, 2, ...
InSequence(p) ==
  \A n \in ParamsOf(p) : params[n].queue = Cardinality({m \in ParamsOf(p) : m < n})
PortNRxQueues(p) == Cardinality(ParamsOf(p))

NbLcores == Cardinality(Lcores)
NTxQueue == IF NbLcores > MaxTxQueuePerPort THEN MaxTxQueuePerPort ELSE NbLcores

\* NB_MBUF, with nb_rx_queue that of the port at hand.
NbMbuf(nbRx) ==
  LET n == NbPorts * nbRx * NbRxd + NbPorts * NbLcores * MaxPktBurst
             + NbPorts * NTxQueue * NbTxd + NbLcores * CacheSize
  IN IF n > MinMbufs THEN n ELSE MinMbufs

\* init_mem: a pool on every socket that has an enabled lcore and no pool yet.
SocketsUsed == {SocketOf[l] : l \in Lcores}
InitMem(nbMbuf) ==
  [s \in Sockets |-> IF s \in SocketsUsed /\ pool[s] = 0 THEN nbMbuf ELSE pool[s]]

\* Mutant of QueueIdOf: ids are handed out per socket.
QueueIdOnSocket(l) == Cardinality({m \in Lcores : m < l /\ SocketOf[m] = SocketOf[l]})

\* The id of the TX queue of l: they are handed out in the order of the lcores.
QueueIdOf(l) == Cardinality({m \in Lcores : m < l})

SkipPort ==
  /\ pc = "ports"
  /\ i < NbPorts
  /\ i \notin mask
  /\ i' = i + 1
  /\ UNCHANGED <<pc, input, conf, device>>

InitPort ==
  /\ pc = "ports"
  /\ i < NbPorts
  /\ i \in mask
  /\ InSequence(i)
  /\ SocketsUsed \subseteq Sockets
  /\ NbLcores <= NTxQueue        \* rte_eth_tx_queue_setup refuses any other queue
  /\ nbRxq' = [nbRxq EXCEPT ![i] = PortNRxQueues(i)]
  /\ nbTxq' = [nbTxq EXCEPT ![i] = NTxQueue]
  /\ pool' = InitMem(NbMbuf(PortNRxQueues(i)))
  /\ txQueue' = [l \in Lcores |-> [txQueue[l] EXCEPT ![i] = QueueIdOf(l)]]
  /\ txPorts' = [l \in Lcores |-> Append(txPorts[l], i)]
  /\ i' = i + 1
  /\ UNCHANGED <<pc, input, rxQueues, rxSetup, parsed>>

\* Queue ids out of sequence, a socket or a queue out of range, or a failing call.
PortRefused ==
  /\ pc = "ports"
  /\ i < NbPorts
  /\ i \in mask
  /\ Exit

PortsDone ==
  /\ pc = "ports"
  /\ i = NbPorts
  /\ pc' = "rxqs"
  /\ UNCHANGED <<input, i, conf, device>>

-----------------------------------------------------------------------------
\* The RX queues in the lists of the lcores.
Polled ==
  UNION {{<<rxQueues[l][n].port, rxQueues[l][n].queue, SocketOf[l]>> :
            n \in 1 .. Len(rxQueues[l])} : l \in Lcores}

\* rte_eth_rx_queue_setup takes the queues the port was configured with, and a pool.
RxSetupOK(x) == x[2] < nbRxq[x[1]] /\ pool[x[3]] # 0

\* Set up the RX queues and start the ports.
SetupRxQueues ==
  /\ pc = "rxqs"
  /\ \A x \in Polled : RxSetupOK(x)
  /\ rxSetup' = Polled
  /\ pc' = "ptypes"
  /\ UNCHANGED <<input, i, conf, nbRxq, nbTxq, pool, parsed>>

\* prepare_ptype_parser: a callback on the queue, or a device that parses.
PreparePtypes ==
  /\ pc = "ptypes"
  /\ \A x \in Polled : ptype \/ x[1] \in HasPtypes
  /\ parsed' = {<<x[1], x[2]>> : x \in Polled}
  /\ pc' = "ready"
  /\ UNCHANGED <<input, i, conf, nbRxq, nbTxq, pool, rxSetup>>

\* A call of either loop fails, or no parser for some port.
SetupRefused ==
  /\ pc \in {"rxqs", "ptypes"}
  /\ Exit

Finished ==
  /\ pc \in {"ready", "exit"}
  /\ UNCHANGED vars

Next ==
  \/ CheckLcores \/ LcoresRefused
  \/ AddQueue \/ TooManyQueues \/ QueuesAdded
  \/ CheckPorts \/ PortsRefused
  \/ SkipPort \/ InitPort \/ PortRefused \/ PortsDone
  \/ SetupRxQueues \/ PreparePtypes \/ SetupRefused
  \/ Finished

Spec == Init /\ [][Next]_vars

-----------------------------------------------------------------------------
(* Properties of what the main loops start from. *)

EnabledPorts == Ports \cap mask

(***************************************************************************)
(* Every RX queue a port was configured with is polled by one lcore, from   *)
(* one place of its list, and no lcore polls any other queue: two lcores    *)
(* never race on a queue, and no queue fills up unattended.                 *)
(***************************************************************************)
RxQueuesOwned ==
  pc = "ready" =>
    /\ \A p \in EnabledPorts : \A q \in 0 .. (nbRxq[p] - 1) :
         Cardinality({x \in Lcores \X (1 .. MaxRxQueuePerLcore) :
                        /\ x[2] <= Len(rxQueues[x[1]])
                        /\ rxQueues[x[1]][x[2]] = [port |-> p, queue |-> q]}) = 1
    /\ \A x \in Polled : /\ x[1] \in EnabledPorts
                         /\ x[2] < nbRxq[x[1]]
                         /\ pool[x[3]] # 0

(***************************************************************************)
(* On every enabled port every lcore has a TX queue of its own, one that    *)
(* was set up: the queues are used without locks.  The list the drain loop  *)
(* walks holds every enabled port once, so no buffer is left out of it.     *)
(***************************************************************************)
TxQueuesPrivate ==
  pc = "ready" =>
    /\ \A p \in EnabledPorts, l \in Lcores :
         /\ txQueue[l][p] < nbTxq[p]
         /\ \A m \in Lcores \ {l} : txQueue[m][p] # txQueue[l][p]
    /\ \A l \in Lcores : /\ Len(txPorts[l]) = Cardinality(EnabledPorts)
                         /\ {txPorts[l][n] : n \in 1 .. Len(txPorts[l])} = EnabledPorts

(***************************************************************************)
(* "the number of mbufs needed ..., taking into account memory for rx and   *)
(* tx hardware rings, cache per lcore and mtable per port per lcore"        *)
(* (main.c): a pool holds what its rings, caches and tables can hold at     *)
(* once.  It is sized by the RX queues of the first enabled port alone.     *)
(***************************************************************************)
Demand ==
  Cardinality({<<x[1], x[2]>> : x \in rxSetup}) * NbRxd
    + Cardinality(EnabledPorts) * NbLcores * (MaxPktBurst + NbTxd)
    + NbLcores * CacheSize

MbufsSuffice == pc = "ready" => \A s \in SocketsUsed : EnabledPorts = {} \/ pool[s] >= Demand
=============================================================================
