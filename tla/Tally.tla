-------------------------------- MODULE Tally --------------------------------
(***************************************************************************)
(* What the report at the end of app_thread_sendnumpkts promises: every     *)
(* lcore adds what it has sent once, as a whole, the lcores one after the   *)
(* other in the order of their numbers; and what is printed is a total that *)
(* stood at that time, whole shares of the lcores that had added theirs.    *)
(***************************************************************************)
EXTENDS Naturals, Sequences

CONSTANTS Lcores, Width

VARIABLES
  share,    \* what each lcore has sent
  counted,  \* the lcores that have added their share
  total,
  prints    \* the totals printed

Init ==
  /\ share = [l \in Lcores |-> 0]
  /\ counted = {}
  /\ total = 0
  /\ prints = <<>>

Finish(l) ==
  /\ l \notin counted
  /\ share'[l] \in Nat
  /\ share' = [share EXCEPT ![l] = share'[l]]
  /\ UNCHANGED <<counted, total, prints>>

Count(l) ==
  /\ l \notin counted
  /\ \A k \in Lcores : k < l => k \in counted
  /\ counted' = counted \cup {l}
  /\ total' = (total + share[l]) % Width
  /\ UNCHANGED <<share, prints>>

PrintTotal ==
  /\ counted # {}
  /\ prints' = Append(prints, total)
  /\ UNCHANGED <<share, counted, total>>

Next ==
  \/ \E l \in Lcores : Finish(l) \/ Count(l)
  \/ PrintTotal

Spec == Init /\ [][Next]_<<share, counted, total, prints>>
=============================================================================
