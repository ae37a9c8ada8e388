------------------------------ MODULE PortGroup ------------------------------
(***************************************************************************)
(* How send_packets_multi (l3fwd_sse.h) splits a burst into groups of        *)
(* consecutive packets with one destination: port_groupx4 and the table      *)
(* gptbl compare four neighbours at once, GROUP_PORT_STEP finishes the last  *)
(* one to three packets.  The header checks, which may still change a        *)
(* destination to BadPort, run interleaved with the grouping.                *)
(***************************************************************************)
EXTENDS Naturals

CONSTANTS
  Ports,        \* destinations the lookup may give
  BadPort,      \* BAD_PORT
  NoPort,       \* BAD_PORT - 1, no packet's destination
  MaxPktBurst,  \* MAX_PKT_BURST
  Garbage       \* what an element of pnum holds before it is written

ASSUME GroupAssumption ==
  /\ BadPort \notin Ports
  /\ NoPort \notin Ports \cup {BadPort}
  /\ MaxPktBurst \in Nat \ {0}
  /\ Garbage \in Nat

FwdStep == 4
GrpMsk == 15

VARIABLES
  pc,    \* "start", "quad", "tail", "send" or "done"
  nbRx,  \* packets in the burst
  dst,   \* dst_port[0 .. nbRx - 1]
  j,     \* the loop variable
  dp1,   \* the low lanes of dp1: destinations j - 4 .. j - 1
  pnum,  \* pnum[0 .. MaxPktBurst]
  lp,    \* index of the element of pnum that lp points at
  dlp    \* destination of the group lp counts

vars == <<pc, nbRx, dst, j, dp1, pnum, lp, dlp>>

Dsts == Ports \cup {BadPort, NoPort}
Lanes == 0 .. 3

TypeOK ==
  /\ pc \in {"start", "quad", "tail", "send", "done"}
  /\ nbRx \in 1 .. MaxPktBurst
  /\ dst \in [0 .. (nbRx - 1) -> Ports \cup {BadPort}]
  /\ j \in 0 .. nbRx
  /\ dp1 \in [Lanes -> Dsts]
  /\ pnum \in [0 .. MaxPktBurst -> Nat]
  /\ lp \in 0 .. MaxPktBurst
  /\ dlp \in Dsts

Init ==
  /\ pc = "start"
  /\ nbRx \in 1 .. MaxPktBurst
  /\ dst \in [0 .. (nbRx - 1) -> Ports]
  /\ j = 0
  /\ dp1 = [i \in Lanes |-> NoPort]
  /\ pnum = [i \in 0 .. MaxPktBurst |-> Garbage]
  /\ lp = 0
  /\ dlp = NoPort

\* RTE_ALIGN_FLOOR(nb_rx, FWDSTEP)
AlignedDown == nbRx - (nbRx % FwdStep)

\* processx4_step3 or process_packet on the packets of S: those of B fail the checks.
Checked(S, B) == [i \in 0 .. (nbRx - 1) |-> IF i \in S \cap B THEN BadPort ELSE dst[i]]

\* The four destinations of d from i on.
Load(d, i) == [l \in Lanes |-> d[i + l]]

-----------------------------------------------------------------------------
(* gptbl: by the mask of equal neighbours among a, b, c, d, e. *)

Row(p0, p1, p2, p3, idx, lpv) ==
  [pnum |-> [i \in Lanes |-> IF i = 0 THEN p0 ELSE IF i = 1 THEN p1 ELSE IF i = 2 THEN p2 ELSE p3],
   idx |-> idx, lpv |-> lpv]

gptbl(v) ==
  CASE v = 0 -> Row(1, 1, 1, 1, 4, 0)
    [] v = 1 -> Row(2, 1, 1, 1, 4, 1)
    [] v = 2 -> Row(1, 2, 1, 1, 4, 0)
    [] v = 3 -> Row(3, 2, 1, 1, 4, 2)
    [] v = 4 -> Row(1, 1, 2, 1, 4, 0)
    [] v = 5 -> Row(2, 1, 2, 1, 4, 1)
    [] v = 6 -> Row(1, 3, 2, 1, 4, 0)
    [] v = 7 -> Row(4, 3, 2, 1, 4, 3)
    [] v = 8 -> Row(1, 1, 1, 2, 3, 0)
    [] v = 9 -> Row(2, 1, 1, 2, 3, 1)
    [] v = 10 -> Row(1, 2, 1, 2, 3, 0)
    [] v = 11 -> Row(3, 2, 1, 2, 3, 2)
    [] v = 12 -> Row(1, 1, 3, 2, 2, 0)
    [] v = 13 -> Row(2, 1, 3, 2, 2, 1)
    [] v = 14 -> Row(1, 4, 3, 2, 1, 0)
    [] v = 15 -> Row(5, 4, 3, 2, 0, 4)

\* Mutant of EqualMask: two lanes swapped.
EqualMaskSwapped(a, b) ==
  (IF a[0] = b[0] THEN 1 ELSE 0) + (IF a[1] = b[1] THEN 2 ELSE 0)
    + (IF a[2] = b[2] THEN 8 ELSE 0) + (IF a[3] = b[3] THEN 4 ELSE 0)

\* The mask: bit l says that lane l of a equals lane l of b.
EqualMask(a, b) ==
  (IF a[0] = b[0] THEN 1 ELSE 0) + (IF a[1] = b[1] THEN 2 ELSE 0)
    + (IF a[2] = b[2] THEN 4 ELSE 0) + (IF a[3] = b[3] THEN 8 ELSE 0)

\* port_groupx4(&pn[n], &pn[l], a, b): pn after the call, and the index it returns.
Grouped(pn, l, n, a, b) ==
  LET g == gptbl(EqualMask(a, b))
      added == [pn EXCEPT ![l] = pn[l] + g.lpv]
  IN IF EqualMask(a, b) = GrpMsk THEN added
     ELSE [i \in 0 .. MaxPktBurst |->
             IF n <= i /\ i < n + FwdStep THEN g.pnum[i - n]
             ELSE IF i = n + FwdStep THEN 1
             ELSE added[i]]

GroupedLp(l, n, a, b) ==
  IF EqualMask(a, b) = GrpMsk THEN l ELSE n + gptbl(EqualMask(a, b)).idx

-----------------------------------------------------------------------------
\* k # 0: the first four packets.
StartQuads(B) ==
  /\ pc = "start"
  /\ AlignedDown # 0
  /\ dst' = Checked(0 .. 3, B)
  /\ dp1' = Load(dst', 0)
  /\ pnum' = [pnum EXCEPT ![0] = 1]
  /\ lp' = 0
  /\ j' = FwdStep
  /\ pc' = "quad"
  /\ UNCHANGED <<nbRx, dlp>>

\* Mutant of StartShort: the unused element is one past the end of pnum.
StartShortPast ==
  /\ pc = "start"
  /\ AlignedDown = 0
  /\ lp' = MaxPktBurst + 1
  /\ dlp' = NoPort
  /\ pc' = "tail"
  /\ UNCHANGED <<nbRx, dst, j, dp1, pnum>>

\* k = 0: lp and dlp get the never used values.
StartShort ==
  /\ pc = "start"
  /\ AlignedDown = 0
  /\ lp' = MaxPktBurst
  /\ dlp' = NoPort
  /\ pc' = "tail"
  /\ UNCHANGED <<nbRx, dst, j, dp1, pnum>>

\* The body of the loop over the next four packets.
Quad(B) ==
  /\ pc = "quad"
  /\ j # AlignedDown
  /\ dst' = Checked(j .. (j + 3), B)
  /\ LET dp2 == Load(dst', (j + 1) - FwdStep)
     IN /\ pnum' = Grouped(pnum, lp, j - FwdStep, dp1, dp2)
        /\ lp' = GroupedLp(lp, j - FwdStep, dp1, dp2)
  /\ dp1' = Load(dst', j)
  /\ j' = j + FwdStep
  /\ UNCHANGED <<pc, nbRx, dlp>>

\* After the loop: the last destination is compared with itself, and uncounted.
LastQuad ==
  /\ pc = "quad"
  /\ j = AlignedDown
  /\ LET dp2 == [l \in Lanes |-> IF l = 3 THEN dp1[3] ELSE dp1[l + 1]]
         n == j - FwdStep
     IN /\ lp' = GroupedLp(lp, n, dp1, dp2)
        /\ pnum' = [Grouped(pnum, lp, n, dp1, dp2) EXCEPT ![lp'] = @ - 1]
  /\ dlp' = dst[j - 1]
  /\ pc' = "tail"
  /\ UNCHANGED <<nbRx, dst, j, dp1>>

\* One of the last nb_rx % FWDSTEP packets: process_packet and GROUP_PORT_STEP.
Tail(B) ==
  /\ pc = "tail"
  /\ j < nbRx
  /\ dst' = Checked({j}, B)
  /\ \/ /\ dlp = dst'[j]
        /\ pnum' = [pnum EXCEPT ![lp] = pnum[lp] + 1]
        /\ UNCHANGED <<lp, dlp>>
     \/ /\ dlp # dst'[j]
        /\ dlp' = dst'[j]
        /\ lp' = j
        /\ pnum' = [pnum EXCEPT ![j] = 1]
  /\ j' = j + 1
  /\ UNCHANGED <<pc, nbRx, dp1>>

StartSend ==
  /\ pc = "tail"
  /\ j = nbRx
  /\ j' = 0
  /\ pc' = "send"
  /\ UNCHANGED <<nbRx, dst, dp1, pnum, lp, dlp>>

\* The next group goes to send_packetsx4 or, for BadPort, is freed.
SendGroup ==
  /\ pc = "send"
  /\ j < nbRx
  /\ j' = j + pnum[j]
  /\ UNCHANGED <<pc, nbRx, dst, dp1, pnum, lp, dlp>>

Return ==
  /\ pc = "send"
  /\ j >= nbRx
  /\ pc' = "done"
  /\ UNCHANGED <<nbRx, dst, j, dp1, pnum, lp, dlp>>

Finished ==
  /\ pc = "done"
  /\ UNCHANGED vars

Next ==
  \/ \E B \in SUBSET (0 .. 3) : StartQuads(B)
  \/ StartShort
  \/ \E B \in SUBSET (j .. (j + 3)) : Quad(B)
  \/ LastQuad
  \/ \E B \in SUBSET {j} : Tail(B)
  \/ StartSend \/ SendGroup \/ Return \/ Finished

Spec == Init /\ [][Next]_vars

-----------------------------------------------------------------------------
\* k packets from i on are a longest run with one destination.
IsRun(i, k) ==
  /\ k >= 1
  /\ i + k <= nbRx
  /\ \A x \in i .. (i + k - 1) : dst[x] = dst[i]
  /\ i + k < nbRx => dst[i + k] # dst[i]

IsStart(i) == i = 0 \/ dst[i - 1] # dst[i]

(***************************************************************************)
(* The send loop visits the starts of the runs of the final destinations,    *)
(* and the count it reads there is the length of the run: the burst is       *)
(* partitioned, and no packet joins a group of another destination, whatever *)
(* the table said of it and whichever element of pnum was never written.     *)
(***************************************************************************)
GroupsAreRuns ==
  pc = "send" => /\ j <= nbRx
                 /\ j < nbRx => IsStart(j) /\ IsRun(j, pnum[j])
=============================================================================
