------------------------------ MODULE MCStartup ------------------------------
(* Startup on small instances, and on one of the size of a real machine. *)
EXTENDS Startup, TLC, SequencesExt

\* Every --config of up to three triples over three ports, of which port 2 is not
\* present, and two queues and lcores; and every one of one triple with a queue id
\* that is too high or an lcore that is not enabled.
AnyConfigs ==
  BoundedSeq([port : 0 .. 2, queue : 0 .. 1, lcore : 1 .. 2], 3)
    \cup {<<c>> : c \in [port : 0 .. 2, queue : 0 .. 2, lcore : 1 .. 3]}
AnyMasks == {{0, 1}, {1, 2}, 0 .. 31}
TwoLcores == {1, 2}
TwoSockets == (1 :> 0) @@ (2 :> 1)
FirstPort == {0}

\* One queue on port 0 and 65 on port 1, shared by five lcores: as README.md's
\* (0,0,5),(0,1,7),(1,0,9),(1,1,11), with more queues.
WideConfig ==
  {[n \in 1 .. 66 |-> IF n = 1 THEN [port |-> 0, queue |-> 0, lcore |-> 1]
                      ELSE [port |-> 1, queue |-> n - 2, lcore |-> 1 + (n % 5)]]}
BothPorts == {{0, 1}}
FiveLcores == 1 .. 5
OneSocket == [l \in FiveLcores |-> 0]
=============================================================================
