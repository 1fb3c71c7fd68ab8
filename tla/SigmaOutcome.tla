---------------------------- MODULE SigmaOutcome ----------------------------
(***************************************************************************)
(* What the signing protocol promises to the parties of a contract: each   *)
(* of them ends with the contract signed or cancelled, at most once, and   *)
(* never one party with the contract signed and another with the contract  *)
(* cancelled ("either everyone, or no one, gets the contract signed",      *)
(* docs/wiki/SecureContractSigningProtocol.md:38-39).                      *)
(***************************************************************************)
CONSTANT Party
VARIABLE outcome

Init == outcome = [p \in Party |-> "open"]

Sign(p) ==
  /\ outcome[p] = "open"
  /\ \A q \in Party : outcome[q] # "cancelled"
  /\ outcome' = [outcome EXCEPT ![p] = "signed"]

Cancel(p) ==
  /\ outcome[p] = "open"
  /\ \A q \in Party : outcome[q] # "signed"
  /\ outcome' = [outcome EXCEPT ![p] = "cancelled"]

Next == \E p \in Party : Sign(p) \/ Cancel(p)

Spec == Init /\ [][Next]_outcome
=============================================================================
