--------------------------- MODULE PortGroupProofs ---------------------------
(***************************************************************************)
(* Theorems about PortGroup, for every burst size and every burst: the      *)
(* counts are those of the runs, the sending loop takes run after run, and  *)
(* the pass ends.                                                           *)
(***************************************************************************)
EXTENDS PortGroup, TLAPS

(***************************************************************************)
(* What pn and l say of the first m elements of d: l is the start of the    *)
(* last run and pn[l] its length so far; before l, every start of a run has *)
(* the length of its run.                                                   *)
(***************************************************************************)
StartIn(d, s) == s = 0 \/ d[s - 1] # d[s]

Counted(d, m, pn, l) ==
  /\ l \in 0 .. (m - 1)
  /\ StartIn(d, l)
  /\ \A x \in l .. (m - 1) : d[x] = d[l]
  /\ pn[l] = m - l
  /\ \A s \in 0 .. (l - 1) :
        StartIn(d, s) => /\ pn[s] \in Nat \ {0}
                         /\ s + pn[s] <= l
                         /\ \A x \in s .. (s + pn[s] - 1) : d[x] = d[s]
                         /\ d[s + pn[s]] # d[s]

\* The rows of gptbl, one fact each.
LEMMA Table ==
  /\ gptbl(0) = Row(1, 1, 1, 1, 4, 0)
  /\ gptbl(1) = Row(2, 1, 1, 1, 4, 1)
  /\ gptbl(2) = Row(1, 2, 1, 1, 4, 0)
  /\ gptbl(3) = Row(3, 2, 1, 1, 4, 2)
  /\ gptbl(4) = Row(1, 1, 2, 1, 4, 0)
  /\ gptbl(5) = Row(2, 1, 2, 1, 4, 1)
  /\ gptbl(6) = Row(1, 3, 2, 1, 4, 0)
  /\ gptbl(7) = Row(4, 3, 2, 1, 4, 3)
  /\ gptbl(8) = Row(1, 1, 1, 2, 3, 0)
  /\ gptbl(9) = Row(2, 1, 1, 2, 3, 1)
  /\ gptbl(10) = Row(1, 2, 1, 2, 3, 0)
  /\ gptbl(11) = Row(3, 2, 1, 2, 3, 2)
  /\ gptbl(12) = Row(1, 1, 3, 2, 2, 0)
  /\ gptbl(13) = Row(2, 1, 3, 2, 2, 1)
  /\ gptbl(14) = Row(1, 4, 3, 2, 1, 0)
  /\ gptbl(15) = Row(5, 4, 3, 2, 0, 4)
BY DEF gptbl

LEMMA RowFields ==
  ASSUME NEW p0, NEW p1, NEW p2, NEW p3, NEW idx, NEW lpv
  PROVE  /\ Row(p0, p1, p2, p3, idx, lpv).pnum[0] = p0
         /\ Row(p0, p1, p2, p3, idx, lpv).pnum[1] = p1
         /\ Row(p0, p1, p2, p3, idx, lpv).pnum[2] = p2
         /\ Row(p0, p1, p2, p3, idx, lpv).pnum[3] = p3
         /\ Row(p0, p1, p2, p3, idx, lpv).idx = idx
         /\ Row(p0, p1, p2, p3, idx, lpv).lpv = lpv
BY DEF Row, Lanes

(***************************************************************************)
(* Window(a, b)[i]: how many of five neighbours, from the i-th on, are      *)
(* equal, when lane l of a and of b are the l-th and the next of them.      *)
(***************************************************************************)
W3(a, b) == IF a[3] = b[3] THEN 2 ELSE 1
W2(a, b) == IF a[2] = b[2] THEN W3(a, b) + 1 ELSE 1
W1(a, b) == IF a[1] = b[1] THEN W2(a, b) + 1 ELSE 1
W0(a, b) == IF a[0] = b[0] THEN W1(a, b) + 1 ELSE 1

Window(a, b) ==
  [i \in 0 .. 4 |-> IF i = 0 THEN W0(a, b) ELSE IF i = 1 THEN W1(a, b)
                    ELSE IF i = 2 THEN W2(a, b) ELSE IF i = 3 THEN W3(a, b) ELSE 1]

RowRight(v, g, w, a, b) ==
  /\ g.pnum[0] = w[0] /\ g.pnum[1] = w[1] /\ g.pnum[2] = w[2] /\ g.pnum[3] = w[3]
  /\ g.lpv = w[0] - 1
  /\ g.idx \in 0 .. 4
  /\ g.idx + w[g.idx] = 5
  /\ g.idx > 0 => a[g.idx - 1] # b[g.idx - 1]
  /\ v = GrpMsk <=> g.idx = 0

\* The table is right: the row of a mask holds the counts of the window.
LEMMA TableCounts ==
  ASSUME NEW a, NEW b
  PROVE  RowRight(EqualMask(a, b), gptbl(EqualMask(a, b)), Window(a, b), a, b)
<1> DEFINE v == EqualMask(a, b)
           w == Window(a, b)
<1>1. /\ w[0] = W0(a, b) /\ w[1] = W1(a, b) /\ w[2] = W2(a, b)
      /\ w[3] = W3(a, b) /\ w[4] = 1
  BY DEF Window
<1>2. SUFFICES RowRight(v, gptbl(v), w, a, b)
  OBVIOUS
<1> HIDE DEF v, w
<1> USE DEF W0, W1, W2, W3, RowRight, GrpMsk
<1>3. CASE a[0] # b[0] /\ a[1] # b[1] /\ a[2] # b[2] /\ a[3] # b[3]
  <2>1. v = 0 /\ gptbl(v) = Row(1, 1, 1, 1, 4, 0)
    BY <1>3, Table DEF EqualMask, v
  <2>2. QED BY <1>1, <1>3, <2>1, RowFields
<1>4. CASE a[0] = b[0] /\ a[1] # b[1] /\ a[2] # b[2] /\ a[3] # b[3]
  <2>1. v = 1 /\ gptbl(v) = Row(2, 1, 1, 1, 4, 1)
    BY <1>4, Table DEF EqualMask, v
  <2>2. QED BY <1>1, <1>4, <2>1, RowFields
<1>5. CASE a[0] # b[0] /\ a[1] = b[1] /\ a[2] # b[2] /\ a[3] # b[3]
  <2>1. v = 2 /\ gptbl(v) = Row(1, 2, 1, 1, 4, 0)
    BY <1>5, Table DEF EqualMask, v
  <2>2. QED BY <1>1, <1>5, <2>1, RowFields
<1>6. CASE a[0] = b[0] /\ a[1] = b[1] /\ a[2] # b[2] /\ a[3] # b[3]
  <2>1. v = 3 /\ gptbl(v) = Row(3, 2, 1, 1, 4, 2)
    BY <1>6, Table DEF EqualMask, v
  <2>2. QED BY <1>1, <1>6, <2>1, RowFields
<1>7. CASE a[0] # b[0] /\ a[1] # b[1] /\ a[2] = b[2] /\ a[3] # b[3]
  <2>1. v = 4 /\ gptbl(v) = Row(1, 1, 2, 1, 4, 0)
    BY <1>7, Table DEF EqualMask, v
  <2>2. QED BY <1>1, <1>7, <2>1, RowFields
<1>8. CASE a[0] = b[0] /\ a[1] # b[1] /\ a[2] = b[2] /\ a[3] # b[3]
  <2>1. v = 5 /\ gptbl(v) = Row(2, 1, 2, 1, 4, 1)
    BY <1>8, Table DEF EqualMask, v
  <2>2. QED BY <1>1, <1>8, <2>1, RowFields
<1>9. CASE a[0] # b[0] /\ a[1] = b[1] /\ a[2] = b[2] /\ a[3] # b[3]
  <2>1. v = 6 /\ gptbl(v) = Row(1, 3, 2, 1, 4, 0)
    BY <1>9, Table DEF EqualMask, v
  <2>2. QED BY <1>1, <1>9, <2>1, RowFields
<1>10. CASE a[0] = b[0] /\ a[1] = b[1] /\ a[2] = b[2] /\ a[3] # b[3]
  <2>1. v = 7 /\ gptbl(v) = Row(4, 3, 2, 1, 4, 3)
    BY <1>10, Table DEF EqualMask, v
  <2>2. QED BY <1>1, <1>10, <2>1, RowFields
<1>11. CASE a[0] # b[0] /\ a[1] # b[1] /\ a[2] # b[2] /\ a[3] = b[3]
  <2>1. v = 8 /\ gptbl(v) = Row(1, 1, 1, 2, 3, 0)
    BY <1>11, Table DEF EqualMask, v
  <2>2. QED BY <1>1, <1>11, <2>1, RowFields
<1>12. CASE a[0] = b[0] /\ a[1] # b[1] /\ a[2] # b[2] /\ a[3] = b[3]
  <2>1. v = 9 /\ gptbl(v) = Row(2, 1, 1, 2, 3, 1)
    BY <1>12, Table DEF EqualMask, v
  <2>2. QED BY <1>1, <1>12, <2>1, RowFields
<1>13. CASE a[0] # b[0] /\ a[1] = b[1] /\ a[2] # b[2] /\ a[3] = b[3]
  <2>1. v = 10 /\ gptbl(v) = Row(1, 2, 1, 2, 3, 0)
    BY <1>13, Table DEF EqualMask, v
  <2>2. QED BY <1>1, <1>13, <2>1, RowFields
<1>14. CASE a[0] = b[0] /\ a[1] = b[1] /\ a[2] # b[2] /\ a[3] = b[3]
  <2>1. v = 11 /\ gptbl(v) = Row(3, 2, 1, 2, 3, 2)
    BY <1>14, Table DEF EqualMask, v
  <2>2. QED BY <1>1, <1>14, <2>1, RowFields
<1>15. CASE a[0] # b[0] /\ a[1] # b[1] /\ a[2] = b[2] /\ a[3] = b[3]
  <2>1. v = 12 /\ gptbl(v) = Row(1, 1, 3, 2, 2, 0)
    BY <1>15, Table DEF EqualMask, v
  <2>2. QED BY <1>1, <1>15, <2>1, RowFields
<1>16. CASE a[0] = b[0] /\ a[1] # b[1] /\ a[2] = b[2] /\ a[3] = b[3]
  <2>1. v = 13 /\ gptbl(v) = Row(2, 1, 3, 2, 2, 1)
    BY <1>16, Table DEF EqualMask, v
  <2>2. QED BY <1>1, <1>16, <2>1, RowFields
<1>17. CASE a[0] # b[0] /\ a[1] = b[1] /\ a[2] = b[2] /\ a[3] = b[3]
  <2>1. v = 14 /\ gptbl(v) = Row(1, 4, 3, 2, 1, 0)
    BY <1>17, Table DEF EqualMask, v
  <2>2. QED BY <1>1, <1>17, <2>1, RowFields
<1>18. CASE a[0] = b[0] /\ a[1] = b[1] /\ a[2] = b[2] /\ a[3] = b[3]
  <2>1. v = 15 /\ gptbl(v) = Row(5, 4, 3, 2, 0, 4)
    BY <1>18, Table DEF EqualMask, v
  <2>2. QED BY <1>1, <1>18, <2>1, RowFields
<1>19. QED
  BY <1>3, <1>4, <1>5, <1>6, <1>7, <1>8, <1>9, <1>10, <1>11, <1>12, <1>13, <1>14, <1>15, <1>16, <1>17, <1>18

-----------------------------------------------------------------------------
\* w[i] neighbours of d from n + i on are equal, and no more among d[n .. n + 4].
Runs(d, n, w) ==
  /\ w[4] = 1
  /\ \A i \in 0 .. 4 :
       /\ w[i] \in 1 .. 5
       /\ i + w[i] <= 5
       /\ \A x \in (n + i) .. (n + i + w[i] - 1) : d[x] = d[n + i]
       /\ i + w[i] < 5 => d[n + i + w[i]] # d[n + i]

LEMMA WindowRuns ==
  ASSUME NEW n \in Nat, NEW d, NEW a, NEW b,
         \A l \in Lanes : a[l] = d[n + l] /\ b[l] = d[n + l + 1]
  PROVE  Runs(d, n, Window(a, b))
<1> DEFINE w == Window(a, b)
           Run(i) == /\ w[i] \in 1 .. 5
                     /\ i + w[i] <= 5
                     /\ \A x \in (n + i) .. (n + i + w[i] - 1) : d[x] = d[n + i]
                     /\ i + w[i] < 5 => d[n + i + w[i]] # d[n + i]
<1>0. /\ a[0] = d[n] /\ a[1] = d[n + 1] /\ a[2] = d[n + 2] /\ a[3] = d[n + 3]
      /\ b[0] = d[n + 1] /\ b[1] = d[n + 2] /\ b[2] = d[n + 3] /\ b[3] = d[n + 4]
  BY DEF Lanes
<1>1. /\ w[4] = 1
      /\ w[3] = IF d[n + 3] = d[n + 4] THEN 2 ELSE 1
      /\ w[2] = IF d[n + 2] = d[n + 3] THEN w[3] + 1 ELSE 1
      /\ w[1] = IF d[n + 1] = d[n + 2] THEN w[2] + 1 ELSE 1
      /\ w[0] = IF d[n] = d[n + 1] THEN w[1] + 1 ELSE 1
  BY <1>0 DEF Window, W0, W1, W2, W3
<1> HIDE DEF w
<1>2. Run(4)
  BY <1>1
<1>3. Run(3)
  BY <1>1
<1>4. Run(2)
  BY <1>1, <1>3
<1>5. Run(1)
  BY <1>1, <1>4
<1>6. Run(0)
  BY <1>1, <1>5
<1>7. \A i \in 0 .. 4 : Run(i)
  BY <1>2, <1>3, <1>4, <1>5, <1>6
<1>8. QED BY <1>1, <1>7 DEF w, Runs

(***************************************************************************)
(* Four elements more, all equal to the last one counted.                   *)
(***************************************************************************)
LEMMA SameStep ==
  ASSUME NEW n \in Nat, NEW d, NEW pn, NEW l, Counted(d, n + 1, pn, l),
         NEW w, Runs(d, n, w), w[0] = 5,
         NEW P, P[l] = pn[l] + 4, \A s \in 0 .. (l - 1) : P[s] = pn[s]
  PROVE  Counted(d, n + 5, P, l)
<1>1. l \in 0 .. n /\ pn[l] = n + 1 - l
  BY DEF Counted
<1>2. \A x \in l .. n : d[x] = d[l]
  BY DEF Counted
<1>3. \A x \in n .. (n + 4) : d[x] = d[n]
  BY DEF Runs
<1>4. \A x \in l .. (n + 4) : d[x] = d[l]
  BY <1>1, <1>2, <1>3
<1>5. P[l] = n + 5 - l /\ l \in 0 .. (n + 4)
  BY <1>1
<1>6. QED BY <1>1, <1>4, <1>5 DEF Counted

(***************************************************************************)
(* Four elements more, a new run starting at n + idx, the last start.       *)
(***************************************************************************)
\* P is pn with the window written at n and the run at l extended into it.
Written(P, pn, l, n, w) ==
  /\ \A i \in 0 .. 4 : P[n + i] = w[i]
  /\ \A s \in 0 .. (n - 1) : P[s] = IF s = l THEN pn[s] + (w[0] - 1) ELSE pn[s]

LEMMA SplitStep ==
  ASSUME NEW n \in Nat, NEW d, NEW pn, NEW l, Counted(d, n + 1, pn, l),
         NEW w, Runs(d, n, w),
         NEW idx \in 1 .. 4, idx + w[idx] = 5, d[n + idx - 1] # d[n + idx],
         NEW P, Written(P, pn, l, n, w)
  PROVE  Counted(d, n + 5, P, n + idx)
<1> USE DEF Written
<1>1. l \in 0 .. n /\ pn[l] = n + 1 - l
  BY DEF Counted
<1>2. \A x \in l .. n : d[x] = d[l]
  BY DEF Counted
<1>3. \A i \in 0 .. 4 : w[i] \in 1 .. 5
  BY DEF Runs
<1>4. StartIn(d, n + idx) /\ P[n + idx] = (n + 5) - (n + idx)
  BY <1>3 DEF StartIn
<1>5. \A x \in (n + idx) .. (n + 4) : d[x] = d[n + idx]
  BY <1>3 DEF Runs
<1>6. ASSUME NEW i \in 0 .. (idx - 1)
      PROVE  i + w[i] <= idx /\ d[n + i + w[i]] # d[n + i]
  <2>1. i \in 0 .. 4 /\ w[i] \in 1 .. 5
    BY <1>3
  <2>2. i + w[i] <= idx
    <3> SUFFICES ASSUME i + w[i] > idx PROVE FALSE
      BY <2>1
    <3>1. /\ n + idx - 1 \in (n + i) .. (n + i + w[i] - 1)
          /\ n + idx \in (n + i) .. (n + i + w[i] - 1)
      BY <2>1
    <3>2. QED BY <3>1, <2>1 DEF Runs
  <2>3. QED BY <2>1, <2>2 DEF Runs
<1>7. ASSUME NEW s \in 0 .. (n + idx - 1), StartIn(d, s)
      PROVE  /\ P[s] \in Nat \ {0}
             /\ s + P[s] <= n + idx
             /\ \A x \in s .. (s + P[s] - 1) : d[x] = d[s]
             /\ d[s + P[s]] # d[s]
  <2>1. CASE s < l
    <3>1. P[s] = pn[s] /\ s \in 0 .. (l - 1)
      BY <2>1, <1>1
    <3>2. QED BY <3>1, <1>1, <1>7 DEF Counted
  <2>2. CASE s = l /\ l < n
    <3>1. P[s] = (n - l) + w[0] /\ w[0] \in 1 .. 5
      BY <2>2, <1>1, <1>3
    <3>2. w[0] <= idx /\ d[n + w[0]] # d[n]
      BY <1>6, <3>1
    <3>3. s + P[s] = n + w[0]
      BY <2>2, <3>1, <1>1
    <3>4. \A x \in n .. (n + w[0] - 1) : d[x] = d[n]
      BY <3>1 DEF Runs
    <3>5. \A x \in l .. (n + w[0] - 1) : d[x] = d[l]
      BY <3>4, <1>1, <1>2
    <3>6. d[n] = d[l]
      BY <1>1, <1>2
    <3>7. QED BY <2>2, <3>1, <3>2, <3>3, <3>5, <3>6, <1>1
  <2>3. CASE s > l /\ s <= n
    <3>1. s - 1 \in l .. n /\ s \in l .. n /\ s # 0
      BY <2>3, <1>1
    <3>2. QED BY <3>1, <1>2, <1>7 DEF StartIn
  <2>4. CASE s >= n /\ (s > n \/ s = l)
    <3>1. PICK i \in 0 .. (idx - 1) : s = n + i
      <4>1. s - n \in 0 .. (idx - 1) /\ s = n + (s - n)
        BY <2>4
      <4>2. QED BY <4>1
    <3>2. P[s] = w[i] /\ w[i] \in 1 .. 5
      BY <3>1, <1>3
    <3>3. \A x \in s .. (s + P[s] - 1) : d[x] = d[s]
      BY <3>1, <3>2 DEF Runs
    <3>4. QED BY <3>1, <3>2, <3>3, <1>6
  <2>5. QED BY <2>1, <2>2, <2>3, <2>4, <1>1
<1>8. n + idx \in 0 .. (n + 4)
  OBVIOUS
<1>9. QED BY <1>4, <1>5, <1>7, <1>8 DEF Counted

(***************************************************************************)
(* What the two stores of port_groupx4 leave in pnum.                       *)
(***************************************************************************)
Stored(pn, l, n, w, q) ==
  [i \in 0 .. MaxPktBurst |->
     IF n <= i /\ i < n + 4 THEN q[i - n]
     ELSE IF i = n + 4 THEN 1
     ELSE [pn EXCEPT ![l] = pn[l] + (w[0] - 1)][i]]

LEMMA RowWritten ==
  ASSUME NEW n \in Nat, n + 4 <= MaxPktBurst, NEW pn \in [0 .. MaxPktBurst -> Nat],
         NEW l \in 0 .. n,
         NEW w, \A i \in 0 .. 4 : w[i] \in 1 .. 5, w[4] = 1,
         NEW q, \A i \in Lanes : q[i] = w[i]
  PROVE  /\ Stored(pn, l, n, w, q) \in [0 .. MaxPktBurst -> Nat]
         /\ Written(Stored(pn, l, n, w, q), pn, l, n, w)
<1> DEFINE P == Stored(pn, l, n, w, q)
<1>0. P = [i \in 0 .. MaxPktBurst |->
             IF n <= i /\ i < n + 4 THEN q[i - n]
             ELSE IF i = n + 4 THEN 1
             ELSE [pn EXCEPT ![l] = pn[l] + (w[0] - 1)][i]]
  BY DEF Stored
<1> HIDE DEF P
<1>1. w[0] - 1 \in Nat /\ l \in Nat /\ MaxPktBurst \in Nat
  BY GroupAssumption
<1>2. pn[l] + (w[0] - 1) \in Nat
  <2>1. pn[l] \in Nat
    BY <1>1
  <2>2. QED BY <1>1, <2>1
<1>3. \A i \in Lanes : n + i \in n .. (n + 3) /\ (n + i) - n = i /\ n + i \in 0 .. MaxPktBurst
  BY <1>1 DEF Lanes
<1>4. \A i \in Lanes : P[n + i] = w[i]
  <2> SUFFICES ASSUME NEW i \in Lanes PROVE P[n + i] = w[i]
    OBVIOUS
  <2>1. /\ n + i \in 0 .. MaxPktBurst /\ n <= n + i /\ n + i < n + 4 /\ (n + i) - n = i
    BY <1>3
  <2>2. P[n + i] = q[(n + i) - n]
    BY <1>0, <2>1
  <2>3. QED BY <2>1, <2>2
<1>5. P[n + 4] = 1
  BY <1>0, <1>1
<1>6. \A i \in 0 .. 4 : P[n + i] = w[i]
  <2>1. \A i \in 0 .. 4 : i \in Lanes \/ i = 4
    BY DEF Lanes
  <2>2. QED BY <2>1, <1>4, <1>5
<1>7. ASSUME NEW s \in 0 .. MaxPktBurst, ~(n <= s /\ s < n + 4), s # n + 4
      PROVE  P[s] = IF s = l THEN pn[s] + (w[0] - 1) ELSE pn[s]
  BY <1>0, <1>7
<1>8. \A s \in 0 .. (n - 1) : P[s] = IF s = l THEN pn[s] + (w[0] - 1) ELSE pn[s]
  <2>1. \A s \in 0 .. (n - 1) : /\ s \in 0 .. MaxPktBurst /\ s # n + 4
                               /\ ~(n <= s /\ s < n + 4)
    BY <1>1
  <2>2. QED BY <2>1, <1>7
<1>9. ASSUME NEW s \in 0 .. MaxPktBurst PROVE P[s] \in Nat
  <2>1. CASE n <= s /\ s < n + 4
    <3>1. PICK i \in Lanes : s = n + i
      <4>1. s - n \in Lanes /\ s = n + (s - n)
        BY <2>1 DEF Lanes
      <4>2. QED BY <4>1
    <3>2. i \in 0 .. 4
      BY DEF Lanes
    <3>3. w[i] \in Nat
      BY <3>2
    <3>4. QED BY <3>1, <3>3, <1>4
  <2>2. CASE s = n + 4
    BY <2>2, <1>5
  <2>3. CASE ~(n <= s /\ s < n + 4) /\ s # n + 4
    BY <2>3, <1>2, <1>7
  <2>4. QED BY <2>1, <2>2, <2>3
<1>10. P \in [0 .. MaxPktBurst -> Nat]
  BY <1>0, <1>9
<1>11. QED BY <1>6, <1>8, <1>10 DEF Written, P

(***************************************************************************)
(* What a right row says: all five are equal, or the row splits them.       *)
(***************************************************************************)
LEMMA RowSplits ==
  ASSUME NEW v, NEW g, NEW w, NEW a, NEW b, RowRight(v, g, w, a, b), v # GrpMsk
  PROVE  /\ g.idx \in 1 .. 4 /\ g.idx + w[g.idx] = 5 /\ g.lpv = w[0] - 1
         /\ a[g.idx - 1] # b[g.idx - 1]
         /\ \A i \in Lanes : g.pnum[i] = w[i]
<1>1. g.idx \in 0 .. 4 /\ g.idx # 0
  BY DEF RowRight
<1>2. g.idx \in 1 .. 4 /\ g.idx > 0
  BY <1>1
<1>3. \A i \in Lanes : i = 0 \/ i = 1 \/ i = 2 \/ i = 3
  BY DEF Lanes
<1>4. \A i \in Lanes : g.pnum[i] = w[i]
  BY <1>3 DEF RowRight
<1>5. QED BY <1>2, <1>4 DEF RowRight

LEMMA RowFull ==
  ASSUME NEW g, NEW w, NEW a, NEW b, RowRight(GrpMsk, g, w, a, b), w[0] \in 1 .. 5
  PROVE  w[0] = 5 /\ g.lpv = 4
<1>1. g.idx = 0 /\ g.idx + w[g.idx] = 5 /\ g.lpv = w[0] - 1
  BY DEF RowRight
<1>2. QED BY <1>1

\* The two vectors are five elements of d from n on, one lane apart.
Neighbours(d, n, a, b) == \A i \in Lanes : a[i] = d[n + i] /\ b[i] = d[n + i + 1]
LaneDiffers(a, b, idx) == a[idx - 1] # b[idx - 1]
Splits(d, n, idx) == d[n + idx - 1] # d[n + idx]

LEMMA SplitNeighbours ==
  ASSUME NEW n \in Nat, NEW d, NEW a, NEW b, Neighbours(d, n, a, b),
         NEW idx \in 1 .. 4, LaneDiffers(a, b, idx)
  PROVE  Splits(d, n, idx)
<1> USE DEF LaneDiffers, Splits
<1>1. /\ a[0] = d[n] /\ b[0] = d[n + 1] /\ a[1] = d[n + 1] /\ b[1] = d[n + 2]
      /\ a[2] = d[n + 2] /\ b[2] = d[n + 3] /\ a[3] = d[n + 3] /\ b[3] = d[n + 4]
  BY DEF Neighbours, Lanes
<1>2. CASE idx = 1
  BY <1>1, <1>2
<1>3. CASE idx = 2
  BY <1>1, <1>3
<1>4. CASE idx = 3
  BY <1>1, <1>4
<1>5. CASE idx = 4
  BY <1>1, <1>5
<1>6. QED BY <1>2, <1>3, <1>4, <1>5

(***************************************************************************)
(* port_groupx4 counts four elements more.                                  *)
(***************************************************************************)
LEMMA GroupStep ==
  ASSUME NEW n \in Nat, n + 4 <= MaxPktBurst, NEW d,
         NEW pn \in [0 .. MaxPktBurst -> Nat], NEW l, Counted(d, n + 1, pn, l),
         NEW a, NEW b,
         \A i \in Lanes : a[i] = d[n + i] /\ b[i] = d[n + i + 1]
  PROVE  /\ Grouped(pn, l, n, a, b) \in [0 .. MaxPktBurst -> Nat]
         /\ Counted(d, n + 5, Grouped(pn, l, n, a, b), GroupedLp(l, n, a, b))
<1> USE GroupAssumption DEF FwdStep
<1> DEFINE w == Window(a, b)
           v == EqualMask(a, b)
           g == gptbl(v)
           P == Grouped(pn, l, n, a, b)
<1>1. l \in 0 .. n /\ pn[l] = n + 1 - l
  BY DEF Counted
<1>2. Runs(d, n, w)
  BY WindowRuns
<1>3. /\ \A i \in 0 .. 4 : w[i] \in 1 .. 5 /\ i + w[i] <= 5
      /\ w[4] = 1
  BY <1>2 DEF Runs
<1>4. RowRight(v, g, w, a, b)
  BY TableCounts
<1> HIDE DEF w, g
<1>5. CASE v = GrpMsk
  <2>1. w[0] = 5 /\ g.lpv = 4
    BY <1>3, <1>4, <1>5, RowFull
  <2>2. P = [pn EXCEPT ![l] = pn[l] + 4]
    BY <2>1, <1>5 DEF Grouped, g
  <2> HIDE DEF P
  <2>3. P \in [0 .. MaxPktBurst -> Nat] /\ P[l] = pn[l] + 4 /\ \A s \in 0 .. (l - 1) : P[s] = pn[s]
    <3>1. l \in 0 .. MaxPktBurst /\ pn[l] + 4 \in Nat
      BY <1>1
    <3>2. \A s \in 0 .. (l - 1) : s \in 0 .. MaxPktBurst /\ s # l
      BY <1>1
    <3>3. QED BY <2>2, <3>1, <3>2
  <2>4. Counted(d, n + 5, P, l)
    BY <2>1, <2>3, <1>2, SameStep
  <2>5. GroupedLp(l, n, a, b) = l
    BY <1>5 DEF GroupedLp
  <2>6. QED BY <2>3, <2>4, <2>5 DEF P
<1>6. CASE v # GrpMsk
  <2>1. /\ g.idx \in 1 .. 4 /\ g.idx + w[g.idx] = 5 /\ g.lpv = w[0] - 1
        /\ a[g.idx - 1] # b[g.idx - 1]
        /\ \A i \in Lanes : g.pnum[i] = w[i]
    BY <1>4, <1>6, RowSplits
  <2>2. PICK idx \in 1 .. 4 : idx = g.idx
    BY <2>1
  <2>3. P = Stored(pn, l, n, w, g.pnum)
    BY <1>6, <2>1 DEF Grouped, Stored, g
  <2> HIDE DEF P
  <2>4. P \in [0 .. MaxPktBurst -> Nat] /\ Written(P, pn, l, n, w)
    <3>1. \A i \in 0 .. 4 : w[i] \in 1 .. 5
      BY <1>3
    <3>2. w[4] = 1 /\ l \in 0 .. n /\ \A i \in Lanes : g.pnum[i] = w[i]
      BY <1>1, <1>3, <2>1
    <3>3. QED BY <3>1, <3>2, <2>3, RowWritten
  <2>5. d[n + idx - 1] # d[n + idx]
    <3>1. LaneDiffers(a, b, idx)
      BY <2>1, <2>2 DEF LaneDiffers
    <3>2. Neighbours(d, n, a, b)
      BY DEF Neighbours
    <3>3. Splits(d, n, idx)
      BY <2>2, <3>1, <3>2, SplitNeighbours
    <3>4. QED BY <3>3 DEF Splits
  <2>6. Counted(d, n + 5, P, n + idx)
    <3>1. idx + w[idx] = 5
      BY <2>1, <2>2
    <3>2. QED BY <1>2, <2>2, <2>4, <2>5, <3>1, SplitStep
  <2>7. GroupedLp(l, n, a, b) = n + idx
    BY <1>6, <2>2 DEF GroupedLp, g
  <2>8. QED BY <2>4, <2>6, <2>7 DEF P
<1>7. QED BY <1>5, <1>6

-----------------------------------------------------------------------------
(***************************************************************************)
(* The inductive invariant: what has been counted at each stage.            *)
(***************************************************************************)
AllCounted == \A s \in 0 .. (nbRx - 1) : IsStart(s) => IsRun(s, pnum[s])

GInv ==
  /\ TypeOK
  /\ pc = "start" => j = 0
  /\ pc = "quad" => /\ j \in 4 .. AlignedDown
                    /\ j % 4 = 0
                    /\ dp1 = Load(dst, j - 4)
                    /\ Counted(dst, j - 3, pnum, lp)
  /\ pc = "tail" => /\ j = 0 => dlp = NoPort
                    /\ j > 0 => dlp = dst[j - 1] /\ Counted(dst, j, pnum, lp)
  /\ pc = "send" => /\ AllCounted
                    /\ j < nbRx => IsStart(j)

\* Counted looks at the first m elements only.
LEMMA CountedAgree ==
  ASSUME NEW m \in Nat, NEW d, NEW e, NEW pn, NEW l, Counted(d, m, pn, l),
         \A x \in 0 .. (m - 1) : e[x] = d[x]
  PROVE  Counted(e, m, pn, l)
<1>1. l \in 0 .. (m - 1)
  BY DEF Counted
<1>2. \A s \in 0 .. l : StartIn(e, s) <=> StartIn(d, s)
  BY <1>1 DEF StartIn
<1>3. \A x \in l .. (m - 1) : e[x] = e[l]
  BY <1>1 DEF Counted
<1>4. ASSUME NEW s \in 0 .. (l - 1), StartIn(e, s)
      PROVE  /\ pn[s] \in Nat \ {0}
             /\ s + pn[s] <= l
             /\ \A x \in s .. (s + pn[s] - 1) : e[x] = e[s]
             /\ e[s + pn[s]] # e[s]
  <2>1. StartIn(d, s)
    BY <1>1, <1>2, <1>4
  <2>2. /\ pn[s] \in Nat \ {0}
        /\ s + pn[s] <= l
        /\ \A x \in s .. (s + pn[s] - 1) : d[x] = d[s]
        /\ d[s + pn[s]] # d[s]
    BY <2>1 DEF Counted
  <2>3. s \in 0 .. (m - 1) /\ s + pn[s] \in 0 .. (m - 1)
    BY <2>2, <1>1
  <2>4. \A x \in s .. (s + pn[s] - 1) : x \in 0 .. (m - 1)
    BY <2>2, <2>3
  <2>5. QED BY <2>2, <2>3, <2>4
<1>5. QED BY <1>1, <1>2, <1>3, <1>4 DEF Counted

LEMMA Aligned ==
  ASSUME TypeOK
  PROVE  /\ AlignedDown \in 0 .. nbRx /\ AlignedDown % 4 = 0
         /\ AlignedDown # 0 => 4 <= AlignedDown
<1>1. nbRx \in Nat \ {0}
  BY GroupAssumption DEF TypeOK
<1>2. nbRx % 4 \in 0 .. 3 /\ nbRx % 4 <= nbRx
  BY <1>1
<1>3. (nbRx - (nbRx % 4)) % 4 = 0
  BY <1>1
<1>4. QED BY <1>1, <1>2, <1>3 DEF AlignedDown, FwdStep

LEMMA CheckedType ==
  ASSUME TypeOK, NEW S, NEW B
  PROVE  /\ Checked(S, B) \in [0 .. (nbRx - 1) -> Ports \cup {BadPort}]
         /\ \A x \in 0 .. (nbRx - 1) : x \notin S => Checked(S, B)[x] = dst[x]
BY DEF TypeOK, Checked

LEMMA GInit == Init => GInv
BY GroupAssumption DEF Init, GInv, TypeOK, Lanes, Dsts

LEMMA StartStep ==
  ASSUME GInv, (\E B \in SUBSET (0 .. 3) : StartQuads(B)) \/ StartShort
  PROVE  GInv'
<1> USE GroupAssumption DEF GInv
<1>1. ASSUME NEW B \in SUBSET (0 .. 3), StartQuads(B) PROVE GInv'
  <2>1. /\ AlignedDown \in 0 .. nbRx /\ AlignedDown % 4 = 0 /\ 4 <= AlignedDown
        /\ nbRx \in 1 .. MaxPktBurst
    BY <1>1, Aligned DEF StartQuads, TypeOK
  <2>2. dst' \in [0 .. (nbRx - 1) -> Ports \cup {BadPort}]
    BY <1>1, CheckedType DEF StartQuads
  <2>3. dp1' \in [Lanes -> Dsts]
    <3>1. \A l \in Lanes : 0 + l \in 0 .. (nbRx - 1)
      BY <2>1 DEF Lanes
    <3>2. QED BY <1>1, <2>2, <3>1 DEF StartQuads, Load, Dsts
  <2>4. pnum' \in [0 .. MaxPktBurst -> Nat] /\ pnum'[0] = 1
    BY <1>1 DEF StartQuads, TypeOK
  <2>5. TypeOK'
    BY <1>1, <2>1, <2>2, <2>3, <2>4 DEF StartQuads, TypeOK, FwdStep
  <2>6. Counted(dst', 1, pnum', 0)
    BY <2>4 DEF Counted, StartIn
  <2>7. /\ j' = 4 /\ j' - 3 = 1 /\ j' - 4 = 0 /\ lp' = 0 /\ pc' = "quad"
        /\ dp1' = Load(dst', j' - 4) /\ AlignedDown' = AlignedDown
    BY <1>1 DEF StartQuads, FwdStep, AlignedDown
  <2>8. j' \in 4 .. AlignedDown' /\ j' % 4 = 0 /\ Counted(dst', j' - 3, pnum', lp')
    BY <2>1, <2>6, <2>7
  <2>9. QED BY <2>5, <2>7, <2>8
<1>2. CASE StartShort
  BY <1>2 DEF StartShort, TypeOK, Dsts
<1>3. QED BY <1>1, <1>2

LEMMA QuadStep ==
  ASSUME GInv, NEW B \in SUBSET (j .. (j + 3)), Quad(B)
  PROVE  GInv'
<1> USE GroupAssumption DEF GInv
<1> DEFINE n == j - 4
           P == Grouped(pnum, lp, n, dp1, Load(dst', j - 3))
           L == GroupedLp(lp, n, dp1, Load(dst', j - 3))
<1>1. /\ nbRx \in 1 .. MaxPktBurst /\ j \in 4 .. AlignedDown /\ j % 4 = 0
      /\ AlignedDown \in 0 .. nbRx /\ j # AlignedDown /\ AlignedDown % 4 = 0
      /\ AlignedDown' = AlignedDown /\ nbRx' = nbRx
  BY Aligned DEF Quad, TypeOK, AlignedDown
<1>2. j + 4 <= AlignedDown
  BY <1>1
<1>3. /\ dst' \in [0 .. (nbRx - 1) -> Ports \cup {BadPort}]
      /\ \A x \in 0 .. (j - 1) : dst'[x] = dst[x]
  <2>1. \A x \in 0 .. (j - 1) : x \in 0 .. (nbRx - 1) /\ x \notin j .. (j + 3)
    BY <1>1, <1>2
  <2>2. QED BY <2>1, CheckedType DEF Quad
<1>4. /\ pnum' = P /\ lp' = L /\ dp1' = Load(dst', j) /\ j' = j + 4 /\ pc' = "quad"
      /\ dlp' = dlp
  <2>1. (j + 1) - FwdStep = j - 3 /\ j - FwdStep = n
    BY <1>1 DEF FwdStep
  <2>2. QED BY <2>1 DEF Quad, FwdStep
<1>5. n \in Nat /\ n + 4 <= MaxPktBurst /\ n + 1 = j - 3 /\ n + 5 = j' - 3
  BY <1>1, <1>2, <1>4
<1>6. Counted(dst', n + 1, pnum, lp)
  <2>1. Counted(dst, n + 1, pnum, lp) /\ n + 1 \in Nat
    BY <1>5 DEF Quad
  <2>2. \A x \in 0 .. ((n + 1) - 1) : dst'[x] = dst[x]
    <3>1. \A x \in 0 .. ((n + 1) - 1) : x \in 0 .. (j - 1)
      BY <1>1
    <3>2. QED BY <1>3, <3>1
  <2> HIDE DEF n
  <2>3. QED BY <2>1, <2>2, CountedAgree
<1>7. \A i \in Lanes : dp1[i] = dst'[n + i] /\ Load(dst', j - 3)[i] = dst'[n + i + 1]
  <2>1. dp1 = Load(dst, n)
    BY DEF Quad
  <2>2. \A i \in Lanes : n + i \in 0 .. (j - 1) /\ (j - 3) + i = n + i + 1
    BY <1>1, <1>5 DEF Lanes
  <2>3. QED BY <2>1, <2>2, <1>3 DEF Load
<1>8. P \in [0 .. MaxPktBurst -> Nat] /\ Counted(dst', n + 5, P, L)
  <2>1. pnum \in [0 .. MaxPktBurst -> Nat]
    BY DEF TypeOK
  <2> HIDE DEF n
  <2>2. QED BY <2>1, <1>5, <1>6, <1>7, GroupStep
<1>9. TypeOK'
  <2>1. L \in 0 .. MaxPktBurst
    BY <1>1, <1>5, <1>8 DEF Counted
  <2>2. dp1' \in [Lanes -> Dsts]
    <3>0. j \in Nat /\ j + 4 <= nbRx /\ nbRx \in Nat
      BY <1>1, <1>2
    <3>1. \A i \in Lanes : j + i \in 0 .. (nbRx - 1)
      BY <3>0 DEF Lanes
    <3>2. QED BY <3>1, <1>3, <1>4 DEF Load, Dsts
  <2>3. j' \in 0 .. nbRx
    BY <1>1, <1>2, <1>4
  <2> HIDE DEF P, L
  <2>4. QED BY <2>1, <2>2, <2>3, <1>1, <1>3, <1>4, <1>8 DEF TypeOK
<1>10. j' \in 4 .. AlignedDown' /\ j' % 4 = 0 /\ dp1' = Load(dst', j' - 4)
  BY <1>1, <1>2, <1>4
<1> HIDE DEF P, L
<1>11. Counted(dst', j' - 3, pnum', lp')
  BY <1>4, <1>5, <1>8
<1>12. QED BY <1>4, <1>9, <1>10, <1>11

LEMMA LastStep ==
  ASSUME GInv, LastQuad
  PROVE  GInv'
<1> USE GroupAssumption DEF GInv
<1> DEFINE n == j - 4
           dp2 == [l \in Lanes |-> IF l = 3 THEN dp1[3] ELSE dp1[l + 1]]
           P == Grouped(pnum, lp, n, dp1, dp2)
           L == GroupedLp(lp, n, dp1, dp2)
           D == [x \in 0 .. j |-> IF x < j THEN dst[x] ELSE dst[j - 1]]
<1>1. /\ nbRx \in 1 .. MaxPktBurst /\ j \in 4 .. nbRx
      /\ nbRx' = nbRx /\ dst' = dst /\ dp1' = dp1 /\ j' = j
      /\ dlp' = dst[j - 1] /\ pc' = "tail"
  BY Aligned DEF LastQuad, TypeOK
<1>2. lp' = L /\ pnum' = [P EXCEPT ![L] = P[L] - 1]
  BY DEF LastQuad, FwdStep
<1>3. n \in Nat /\ n + 4 <= MaxPktBurst /\ n + 1 = j - 3 /\ n + 5 = j + 1 /\ n + 4 = j
  BY <1>1
<1>4. Counted(D, n + 1, pnum, lp)
  <2>1. Counted(dst, n + 1, pnum, lp) /\ n + 1 \in Nat
    BY <1>3 DEF LastQuad
  <2>2. \A x \in 0 .. ((n + 1) - 1) : D[x] = dst[x]
    BY <1>1, <1>3
  <2> HIDE DEF n, D
  <2>3. QED BY <2>1, <2>2, CountedAgree
<1>5. \A i \in Lanes : dp1[i] = D[n + i] /\ dp2[i] = D[n + i + 1]
  <2>1. dp1 = Load(dst, n)
    BY DEF LastQuad
  <2>2. \A i \in Lanes : dp1[i] = dst[n + i] /\ n + i \in 0 .. (j - 1)
    BY <2>1, <1>1, <1>3 DEF Load, Lanes
  <2>3. \A i \in Lanes : dp1[i] = D[n + i]
    BY <2>2, <1>1
  <2>4. \A i \in 0 .. 2 : dp2[i] = D[n + i + 1]
    <3>1. \A i \in 0 .. 2 : i + 1 \in Lanes /\ i \in Lanes /\ n + (i + 1) = n + i + 1
      BY <1>3 DEF Lanes
    <3>2. ASSUME NEW i \in 0 .. 2 PROVE dp2[i] = D[n + i + 1]
      <4>1. i + 1 \in Lanes /\ i \in Lanes /\ n + (i + 1) = n + i + 1 /\ i # 3
        BY <3>1
      <4>2. dp2[i] = dp1[i + 1]
        BY <4>1
      <4> HIDE DEF dp2, n, D
      <4>3. dp1[i + 1] = D[n + (i + 1)]
        BY <4>1, <2>3
      <4>4. QED BY <4>1, <4>2, <4>3
    <3>3. QED BY <3>2
  <2>5. dp2[3] = D[n + 3 + 1]
    BY <2>2, <1>1, <1>3 DEF Lanes
  <2>6. QED BY <2>3, <2>4, <2>5 DEF Lanes
<1>6. P \in [0 .. MaxPktBurst -> Nat] /\ Counted(D, n + 5, P, L)
  <2>1. pnum \in [0 .. MaxPktBurst -> Nat]
    BY DEF TypeOK
  <2> HIDE DEF n, D, dp2
  <2>2. QED BY <2>1, <1>3, <1>4, <1>5, GroupStep
<1> HIDE DEF P, L, n
<1>7. L \in 0 .. (j - 1) /\ P[L] = j + 1 - L
  <2>1. L \in 0 .. j /\ StartIn(D, L) /\ P[L] = j + 1 - L
    BY <1>1, <1>3, <1>6 DEF Counted
  <2>2. D[j - 1] = D[j]
    BY <1>1
  <2>3. QED BY <2>1, <2>2, <1>1 DEF StartIn
<1>8. pnum' \in [0 .. MaxPktBurst -> Nat] /\ pnum'[L] = j - L
      /\ \A s \in 0 .. (L - 1) : pnum'[s] = P[s]
  BY <1>1, <1>2, <1>6, <1>7
<1>9. Counted(dst, j, pnum', L)
  <2>1. Counted(D, j, pnum', L)
    <3>1. \A x \in L .. (j - 1) : D[x] = D[L]
      <4>1. \A x \in L .. ((n + 5) - 1) : D[x] = D[L]
        BY <1>6 DEF Counted
      <4>2. \A x \in L .. (j - 1) : x \in L .. ((n + 5) - 1)
        BY <1>1, <1>3, <1>7
      <4> HIDE DEF D
      <4>3. QED BY <4>1, <4>2
    <3>2. \A s \in 0 .. (L - 1) :
            StartIn(D, s) => /\ P[s] \in Nat \ {0}
                             /\ s + P[s] <= L
                             /\ \A x \in s .. (s + P[s] - 1) : D[x] = D[s]
                             /\ D[s + P[s]] # D[s]
      BY <1>6 DEF Counted
    <3>3. StartIn(D, L)
      BY <1>6 DEF Counted
    <3> HIDE DEF D
    <3>4. QED BY <1>7, <1>8, <3>1, <3>2, <3>3 DEF Counted
  <2>2. \A x \in 0 .. (j - 1) : dst[x] = D[x]
    BY <1>1
  <2> HIDE DEF D
  <2>3. QED BY <1>1, <2>1, <2>2, CountedAgree
<1>10. TypeOK'
  <2>1. dst[j - 1] \in Dsts
    BY <1>1 DEF TypeOK, Dsts
  <2>2. QED BY <2>1, <1>1, <1>2, <1>7, <1>8 DEF TypeOK
<1>11. QED BY <1>1, <1>2, <1>9, <1>10

(***************************************************************************)
(* GROUP_PORT_STEP starts a group: all earlier counts are final.            *)
(***************************************************************************)
LEMMA NewGroup ==
  ASSUME NEW m \in Nat, NEW d, NEW pn, NEW l, Counted(d, m, pn, l), m > 0, d[m] # d[m - 1],
         NEW P, P[m] = 1, \A s \in 0 .. (m - 1) : P[s] = pn[s]
  PROVE  Counted(d, m + 1, P, m)
<1>1. /\ l \in 0 .. (m - 1) /\ pn[l] = m - l
      /\ \A x \in l .. (m - 1) : d[x] = d[l]
  BY DEF Counted
<1>2. d[m] # d[l]
  <2>1. m - 1 \in l .. (m - 1)
    BY <1>1
  <2>2. QED BY <1>1, <2>1
<1>3. ASSUME NEW s \in 0 .. (m - 1), StartIn(d, s)
      PROVE  /\ pn[s] \in Nat \ {0}
             /\ s + pn[s] <= m
             /\ \A x \in s .. (s + pn[s] - 1) : d[x] = d[s]
             /\ d[s + pn[s]] # d[s]
  <2>1. CASE s < l
    <3>1. s \in 0 .. (l - 1)
      BY <1>1, <2>1
    <3>2. /\ pn[s] \in Nat \ {0}
          /\ s + pn[s] <= l
          /\ \A x \in s .. (s + pn[s] - 1) : d[x] = d[s]
          /\ d[s + pn[s]] # d[s]
      BY <3>1, <1>3 DEF Counted
    <3>3. s + pn[s] <= m
      BY <3>1, <3>2, <1>1
    <3>4. QED BY <3>2, <3>3
  <2>2. CASE s = l
    <3>1. pn[s] \in Nat \ {0} /\ s + pn[s] = m
      BY <1>1, <2>2
    <3>2. QED BY <1>1, <1>2, <2>2, <3>1
  <2>3. CASE s > l
    <3>1. s - 1 \in l .. (m - 1) /\ s \in l .. (m - 1) /\ s # 0
      BY <1>1, <2>3
    <3>2. d[s - 1] = d[s]
      BY <1>1, <3>1
    <3>3. QED BY <3>1, <3>2, <1>3 DEF StartIn
  <2>4. QED BY <1>1, <2>1, <2>2, <2>3
<1>4. StartIn(d, m)
  BY DEF StartIn
<1>5. m \in 0 .. m /\ (m + 1) - 1 = m /\ (m + 1) - m = 1
  OBVIOUS
<1>6. \A s \in 0 .. (m - 1) :
         StartIn(d, s) => /\ P[s] \in Nat \ {0}
                          /\ s + P[s] <= m
                          /\ \A x \in s .. (s + P[s] - 1) : d[x] = d[s]
                          /\ d[s + P[s]] # d[s]
  BY <1>3
<1>7. \A x \in m .. m : d[x] = d[m]
  OBVIOUS
<1>8. QED BY <1>4, <1>5, <1>6, <1>7 DEF Counted

LEMMA TailStep ==
  ASSUME GInv, NEW B \in SUBSET {j}, Tail(B)
  PROVE  GInv'
<1> USE GroupAssumption DEF GInv
<1>1. /\ nbRx \in 1 .. MaxPktBurst /\ j \in 0 .. (nbRx - 1) /\ pnum \in [0 .. MaxPktBurst -> Nat]
      /\ nbRx' = nbRx /\ j' = j + 1 /\ pc' = "tail" /\ dp1' = dp1
  BY DEF Tail, TypeOK
<1>2. /\ dst' \in [0 .. (nbRx - 1) -> Ports \cup {BadPort}]
      /\ \A x \in 0 .. (j - 1) : dst'[x] = dst[x]
  <2>1. \A x \in 0 .. (j - 1) : x \in 0 .. (nbRx - 1) /\ x \notin {j}
    BY <1>1
  <2>2. QED BY <2>1, CheckedType DEF Tail
<1>3. j > 0 => dlp = dst'[j - 1] /\ Counted(dst', j, pnum, lp)
  <2> SUFFICES ASSUME j > 0 PROVE dlp = dst'[j - 1] /\ Counted(dst', j, pnum, lp)
    OBVIOUS
  <2>1. dlp = dst[j - 1] /\ Counted(dst, j, pnum, lp) /\ j - 1 \in 0 .. (j - 1) /\ j \in Nat
    BY <1>1 DEF Tail
  <2>2. QED BY <1>2, <2>1, CountedAgree
<1>4. CASE dlp = dst'[j]
  <2>1. /\ pnum' = [pnum EXCEPT ![lp] = pnum[lp] + 1] /\ lp' = lp /\ dlp' = dlp
    BY <1>4 DEF Tail
  <2>2. j > 0
    <3>1. dst'[j] # NoPort
      BY <1>1, <1>2
    <3>2. QED BY <3>1, <1>1, <1>4 DEF Tail
  <2>3. lp \in 0 .. (j - 1) /\ pnum[lp] = j - lp
    BY <1>3, <2>2 DEF Counted
  <2>4. /\ pnum' \in [0 .. MaxPktBurst -> Nat] /\ pnum'[lp] = (j + 1) - lp
        /\ \A s \in 0 .. (lp - 1) : pnum'[s] = pnum[s]
    BY <1>1, <2>1, <2>3
  <2>5. \A x \in lp .. j : dst'[x] = dst'[lp]
    <3>1. \A x \in lp .. (j - 1) : dst'[x] = dst'[lp]
      BY <1>3, <2>2 DEF Counted
    <3>2. j - 1 \in lp .. (j - 1)
      <4>1. j \in Nat
        BY <1>1
      <4>2. lp \in Nat /\ lp <= j - 1
        BY <4>1, <2>3
      <4>3. QED BY <4>1, <4>2
    <3>3. dst'[j] = dst'[lp]
      BY <3>1, <3>2, <1>3, <1>4, <2>2
    <3>4. \A x \in lp .. j : x = j \/ x \in lp .. (j - 1)
      BY <1>1, <2>3
    <3>5. QED BY <3>1, <3>3, <3>4
  <2>6. Counted(dst', j + 1, pnum', lp)
    <3>1. /\ lp \in 0 .. ((j + 1) - 1)
          /\ (j + 1) - 1 = j
      BY <1>1, <2>3
    <3>2. ASSUME NEW s \in 0 .. (lp - 1), StartIn(dst', s)
          PROVE  /\ pnum'[s] \in Nat \ {0}
                 /\ s + pnum'[s] <= lp
                 /\ \A x \in s .. (s + pnum'[s] - 1) : dst'[x] = dst'[s]
                 /\ dst'[s + pnum'[s]] # dst'[s]
      <4>1. pnum'[s] = pnum[s]
        BY <2>4
      <4>2. /\ pnum[s] \in Nat \ {0}
            /\ s + pnum[s] <= lp
            /\ \A x \in s .. (s + pnum[s] - 1) : dst'[x] = dst'[s]
            /\ dst'[s + pnum[s]] # dst'[s]
        BY <1>3, <2>2, <3>2 DEF Counted
      <4>3. QED BY <4>1, <4>2
    <3>3. StartIn(dst', lp)
      BY <1>3, <2>2 DEF Counted
    <3>4. QED BY <3>1, <3>2, <3>3, <2>4, <2>5 DEF Counted
  <2>7. dlp = dst'[(j + 1) - 1]
    BY <1>1, <1>4
  <2>8. TypeOK'
    BY <1>1, <1>2, <2>1, <2>4 DEF TypeOK
  <2>9. QED BY <1>1, <2>1, <2>6, <2>7, <2>8
<1>5. CASE dlp # dst'[j]
  <2>1. pnum' = [pnum EXCEPT ![j] = 1] /\ lp' = j /\ dlp' = dst'[j]
    BY <1>5 DEF Tail
  <2>2. /\ pnum' \in [0 .. MaxPktBurst -> Nat] /\ pnum'[j] = 1
        /\ \A s \in 0 .. (j - 1) : pnum'[s] = pnum[s]
    BY <1>1, <2>1
  <2>5. Counted(dst', j + 1, pnum', j)
    <3>1. CASE j = 0
      <4>1. /\ 0 \in 0 .. ((0 + 1) - 1) /\ (0 + 1) - 0 = 1
            /\ \A x \in 0 .. ((0 + 1) - 1) : x = 0
            /\ \A x \in 0 .. (0 - 1) : FALSE
        OBVIOUS
      <4>2. StartIn(dst', 0)
        BY DEF StartIn
      <4>3. QED BY <3>1, <4>1, <4>2, <2>2 DEF Counted
    <3>2. CASE j > 0
      <4>1. Counted(dst', j, pnum, lp) /\ dst'[j] # dst'[j - 1] /\ j \in Nat
        BY <3>2, <1>1, <1>3, <1>5
      <4>2. QED BY <3>2, <4>1, <2>2, NewGroup
    <3>3. QED BY <3>1, <3>2, <1>1
  <2>6. dst'[j] \in Dsts /\ dst'[j] = dst'[(j + 1) - 1]
    BY <1>1, <1>2 DEF Dsts
  <2>7. TypeOK'
    BY <1>1, <1>2, <2>1, <2>2, <2>6 DEF TypeOK
  <2>8. QED BY <1>1, <2>1, <2>5, <2>6, <2>7
<1>6. QED BY <1>4, <1>5

LEMMA SendStep ==
  ASSUME GInv, StartSend \/ SendGroup \/ Return
  PROVE  GInv'
<1> USE GroupAssumption DEF GInv
<1>0. nbRx \in 1 .. MaxPktBurst /\ j \in 0 .. nbRx
  BY DEF TypeOK
<1>1. CASE StartSend
  <2>1. /\ j = nbRx /\ Counted(dst, nbRx, pnum, lp)
        /\ pc' = "send" /\ j' = 0 /\ UNCHANGED <<nbRx, dst, dp1, pnum, lp, dlp>>
    BY <1>0, <1>1 DEF StartSend
  <2>2. lp \in 0 .. (nbRx - 1) /\ pnum[lp] = nbRx - lp
        /\ \A x \in lp .. (nbRx - 1) : dst[x] = dst[lp]
    BY <2>1 DEF Counted
  <2>3. ASSUME NEW s \in 0 .. (nbRx - 1), IsStart(s) PROVE IsRun(s, pnum[s])
    <3>1. CASE s < lp
      <4>1. s \in 0 .. (lp - 1) /\ StartIn(dst, s)
        BY <2>2, <2>3, <3>1 DEF IsStart, StartIn
      <4>2. /\ pnum[s] \in Nat \ {0} /\ s + pnum[s] <= lp
            /\ \A x \in s .. (s + pnum[s] - 1) : dst[x] = dst[s]
            /\ dst[s + pnum[s]] # dst[s]
        BY <2>1, <4>1 DEF Counted
      <4>3. QED BY <4>2, <2>2, <1>0 DEF IsRun
    <3>2. CASE s = lp
      BY <3>2, <2>2, <1>0 DEF IsRun
    <3>3. CASE s > lp
      <4>0. lp \in Nat /\ s \in Nat /\ s <= nbRx - 1 /\ nbRx \in Nat
        BY <2>2, <1>0
      <4>1. s - 1 \in lp .. (nbRx - 1) /\ s \in lp .. (nbRx - 1) /\ s # 0
        BY <4>0, <3>3
      <4>2. QED BY <4>1, <2>2, <2>3 DEF IsStart
    <3>4. QED BY <2>2, <3>1, <3>2, <3>3
  <2>4. AllCounted'
    BY <2>1, <2>3 DEF AllCounted, IsStart, IsRun
  <2>5. TypeOK'
    BY <2>1, <1>0 DEF TypeOK
  <2>6. QED BY <2>1, <2>4, <2>5 DEF IsStart
<1>2. CASE SendGroup
  <2>1. /\ pc = "send" /\ j < nbRx /\ j' = j + pnum[j]
        /\ UNCHANGED <<pc, nbRx, dst, dp1, pnum, lp, dlp>>
    BY <1>2 DEF SendGroup
  <2>2. IsRun(j, pnum[j]) /\ pnum[j] \in Nat
    BY <2>1, <1>0 DEF AllCounted, TypeOK
  <2>3. j' \in 0 .. nbRx
    BY <2>1, <2>2, <1>0 DEF IsRun
  <2>4. j' < nbRx => dst[j' - 1] # dst[j']
    <3>1. j' - 1 \in j .. (j + pnum[j] - 1)
      BY <2>1, <2>2, <1>0 DEF IsRun
    <3>2. QED BY <3>1, <2>1, <2>2 DEF IsRun
  <2>5. TypeOK'
    BY <2>1, <2>3 DEF TypeOK
  <2>6. AllCounted' /\ (j' < nbRx => IsStart(j)')
    BY <2>1, <2>4 DEF AllCounted, IsStart, IsRun
  <2>7. QED BY <2>1, <2>5, <2>6
<1>3. CASE Return
  BY <1>3 DEF Return, TypeOK
<1>4. QED BY <1>1, <1>2, <1>3

LEMMA GNext == GInv /\ [Next]_vars => GInv'
<1> SUFFICES ASSUME GInv, [Next]_vars PROVE GInv'
  OBVIOUS
<1>1. CASE (\E B \in SUBSET (0 .. 3) : StartQuads(B)) \/ StartShort
  BY <1>1, StartStep
<1>2. CASE \E B \in SUBSET (j .. (j + 3)) : Quad(B)
  BY <1>2, QuadStep
<1>3. CASE LastQuad
  BY <1>3, LastStep
<1>4. CASE \E B \in SUBSET {j} : Tail(B)
  BY <1>4, TailStep
<1>5. CASE StartSend \/ SendGroup \/ Return
  BY <1>5, SendStep
<1>6. CASE Finished \/ UNCHANGED vars
  BY <1>6 DEF Finished, vars, GInv, TypeOK, AlignedDown, AllCounted, IsStart, IsRun
<1>7. QED
  BY <1>1, <1>2, <1>3, <1>4, <1>5, <1>6 DEF Next

\* The groups sent are exactly the runs of equal destinations, for every burst.
THEOREM GroupsCorrect == Spec => []GroupsAreRuns
<1>1. GInv => GroupsAreRuns
  BY DEF GInv, GroupsAreRuns, AllCounted, TypeOK
<1>2. QED
  BY <1>1, GInit, GNext, PTL DEF Spec

\* The grouping keeps its types, for every burst: pointers stay within the table.
THEOREM GroupsTyped == Spec => []TypeOK
<1>1. GInv => TypeOK
  BY DEF GInv
<1>2. QED
  BY <1>1, GInit, GNext, PTL DEF Spec

-----------------------------------------------------------------------------
(***************************************************************************)
(* The run that starts at a packet has one length, so the count of a group  *)
(* is determined by the final destinations alone: the table, the lane       *)
(* arithmetic and the tail of the burst leave no choice.                    *)
(***************************************************************************)
LEMMA RunUnique ==
  ASSUME NEW i \in Nat, NEW k \in Nat, NEW m \in Nat, nbRx \in Nat,
         IsRun(i, k), IsRun(i, m)
  PROVE  k = m
<1>1. ASSUME NEW a \in Nat, NEW b \in Nat, IsRun(i, a), IsRun(i, b), a < b PROVE FALSE
  <2>1. i + a \in i .. (i + b - 1) /\ i + a < nbRx
    BY <1>1 DEF IsRun
  <2>2. dst[i + a] = dst[i]
    BY <2>1, <1>1 DEF IsRun
  <2>3. QED BY <2>1, <2>2, <1>1 DEF IsRun
<1>2. QED BY <1>1

(***************************************************************************)
(* One turn of the loop that sends (l3fwd_sse.h 240-256): it takes exactly   *)
(* the longest run of one destination that starts at j, and the loop ends at *)
(* the last packet, never before or behind it.                               *)
(***************************************************************************)
TakesRun ==
  pc = "send" =>
    \/ /\ pc' = "send"
       /\ j' > j /\ j' <= nbRx
       /\ \A k \in Nat : IsRun(j, k) <=> k = j' - j
    \/ pc' = "done" /\ j = nbRx

\* No packet of a burst is skipped, sent twice or sent to another's destination.
THEOREM BurstPartitioned == Spec => [][TakesRun]_vars
<1>1. GInv /\ [Next]_vars => [TakesRun]_vars
  <2> SUFFICES ASSUME GInv, Next, pc = "send" PROVE TakesRun
    BY DEF TakesRun
  <2>1. /\ nbRx \in Nat /\ j \in Nat /\ j <= nbRx /\ pnum \in [0 .. MaxPktBurst -> Nat]
        /\ nbRx <= MaxPktBurst /\ MaxPktBurst \in Nat
    BY GroupAssumption DEF GInv, TypeOK
  <2>2. CASE SendGroup
    <3>1. IsRun(j, pnum[j]) /\ j' = j + pnum[j] /\ pc' = "send" /\ pnum[j] \in Nat
      BY <2>1, <2>2 DEF SendGroup, GInv, AllCounted
    <3>2. pnum[j] >= 1 /\ j + pnum[j] <= nbRx
      BY <3>1 DEF IsRun
    <3>3. \A k \in Nat : IsRun(j, k) <=> k = pnum[j]
      BY <3>1, <2>1, RunUnique
    <3>4. j' > j /\ j' <= nbRx /\ pnum[j] = j' - j
      BY <3>1, <3>2, <2>1
    <3>5. QED BY <3>1, <3>3, <3>4 DEF TakesRun
  <2>3. CASE Return
    BY <2>1, <2>3 DEF Return, TakesRun
  <2>4. QED
    BY <2>2, <2>3 DEF Next, StartQuads, StartShort, Quad, LastQuad, Tail, StartSend, Finished
<1>2. QED BY <1>1, GInit, GNext, PTL DEF Spec

(***************************************************************************)
(* What is left to do of a burst.                                           *)
(***************************************************************************)
GroupLeft ==
  CASE pc = "start" -> 2 * nbRx + 6
    [] pc = "quad" -> 2 * nbRx + 5 - j
    [] pc = "tail" -> 2 * nbRx + 4 - j
    [] pc = "send" -> nbRx + 1 - j
    [] pc = "done" -> 0

\* Every step of send_packets_multi leaves less to do: the pass over a burst ends.
THEOREM GroupingBounded ==
  Spec => [](GroupLeft \in Nat) /\ [][GroupLeft' < GroupLeft]_vars
<1>1. GInv => GroupLeft \in Nat
  BY DEF GInv, TypeOK, GroupLeft
<1>2. GInv /\ [Next]_vars => [GroupLeft' < GroupLeft]_vars
  <2> SUFFICES ASSUME GInv, Next, ~UNCHANGED vars PROVE GroupLeft' < GroupLeft
    OBVIOUS
  <2>1. nbRx \in Nat /\ j \in Nat /\ j <= nbRx /\ pc \in {"start", "quad", "tail", "send", "done"}
    BY GroupAssumption DEF GInv, TypeOK
  <2>2. CASE \E B \in SUBSET (0 .. 3) : StartQuads(B)
    BY <2>1, <2>2 DEF StartQuads, GroupLeft, FwdStep
  <2>3. CASE StartShort
    BY <2>1, <2>3 DEF StartShort, GroupLeft
  <2>4. CASE \E B \in SUBSET (j .. (j + 3)) : Quad(B)
    <3>1. /\ AlignedDown \in 0 .. nbRx /\ AlignedDown % 4 = 0
          /\ j \in 4 .. AlignedDown /\ j % 4 = 0 /\ j # AlignedDown
      BY <2>4, Aligned DEF Quad, GInv, TypeOK
    <3>2. j + 4 <= nbRx
      BY <3>1, <2>1
    <3>3. QED BY <2>1, <2>4, <3>2 DEF Quad, GroupLeft, FwdStep
  <2>5. CASE LastQuad
    BY <2>1, <2>5 DEF LastQuad, GroupLeft
  <2>6. CASE \E B \in SUBSET {j} : Tail(B)
    BY <2>1, <2>6 DEF Tail, GroupLeft
  <2>7. CASE StartSend
    BY <2>1, <2>7 DEF StartSend, GroupLeft
  <2>8. CASE SendGroup
    <3>1. j < nbRx /\ IsRun(j, pnum[j]) /\ j' = j + pnum[j] /\ pnum[j] \in Nat
      BY <2>1, <2>8, GroupAssumption DEF SendGroup, GInv, AllCounted, TypeOK
    <3>2. pnum[j] >= 1 /\ j + pnum[j] <= nbRx
      BY <3>1 DEF IsRun
    <3>3. QED BY <3>1, <3>2, <2>1, <2>8 DEF SendGroup, GroupLeft
  <2>9. CASE Return
    BY <2>1, <2>9 DEF Return, GroupLeft
  <2>10. QED
    BY <2>2, <2>3, <2>4, <2>5, <2>6, <2>7, <2>8, <2>9 DEF Next, Finished
<1>3. QED BY <1>1, <1>2, GInit, GNext, PTL DEF Spec
=============================================================================
