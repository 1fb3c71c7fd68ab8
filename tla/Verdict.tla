------------------------------ MODULE Verdict ------------------------------
(***************************************************************************)
(* What the trusted third party of the Sigma protocol promises about one   *)
(* contract, whatever the requests it receives and in whatever order: it   *)
(* announces at most one verdict, and never another one afterwards.  The   *)
(* detailed module TrentSolver implements this specification.              *)
(***************************************************************************)
VARIABLE announced   \* the verdicts that have been broadcast to the parties

Verdicts == {"cancelled", "resolved"}

Init == announced = {}

Announce(v) ==
  /\ announced \subseteq {v}
  /\ announced' = {v}

Next == \E v \in Verdicts : Announce(v)

Spec == Init /\ [][Next]_announced
=============================================================================
