----------------------------- MODULE Agreement -----------------------------
(***************************************************************************)
(* What a choice in common promises: each party chooses at most once, and  *)
(* no two parties choose differently.  A party need not choose at all.     *)
(***************************************************************************)
CONSTANT Party
VARIABLE chosen     \* what each party has chosen: nothing, {}, or one candidate

Init == chosen = [p \in Party |-> {}]

\* The party p chooses chosen'[p], and nobody has chosen anything else.
Choose(p) ==
  /\ chosen[p] = {}
  /\ chosen' = [chosen EXCEPT ![p] = chosen'[p]]
  /\ \A q \in Party : chosen[q] \in {{}, chosen'[p]}

Next == \E p \in Party : Choose(p)

Spec == Init /\ [][Next]_chosen
=============================================================================
