--------------------------- MODULE SigmaExchange ---------------------------
(***************************************************************************)
(* The parties of a contract (SigmaSign) together with the Trent they      *)
(* chose (TrentSolver).  The parties publish their requests as             *)
(* advertisements under the title of Trent, who may find each of them      *)
(* several times; Trent publishes his answers under the title of the       *)
(* contract, where every party finds them.                                 *)
(***************************************************************************)
EXTENDS Integers, Sequences, FiniteSets

CONSTANTS N, Persistent, MaxClaims

VARIABLES
  status, wish, round, received, sigs, listening, ignoring, net, requests,
  claims, dishonest, optimistic, trentAnswers, unanswered

partyVars == <<status, wish, round, received, sigs, listening, ignoring, net, requests>>
trentVars == <<claims, dishonest, optimistic, trentAnswers, unanswered>>
vars == <<partyVars, trentVars>>

\* The claim in a request: text 0 stands for ABORT, text r for the vector of the
\* promises of round r, which is complete (RequestsAreHonest of SigmaSign).
ClaimOf(c) == [sender |-> c.sender, round |-> c.round, text |-> c.round]

HonestClaims == {ClaimOf(c) : c \in [sender : 1..N, round : 0..(N + 1)]}

T == INSTANCE TrentSolver WITH
       Party <- 1..N,
       Texts <- 0..(N + 1),
       Opens <- 1..(N + 1),
       Arrivals <- HonestClaims,
       answers <- trentAnswers

\* What a party reads in the broadcasts of Trent: "dishonest" is only logged,
\* and a cancellation carries no round.
Heard ==
  {[verdict |-> T!VerdictOf(a.kind),
    round |-> IF a.kind = "resolved" THEN a.claim.round ELSE 0] :
     a \in {b \in trentAnswers : b.kind # "dishonest"}}

S == INSTANCE SigmaSign WITH answers <- Heard

Party == S!Party

ASSUME ConstantsAssumption ==
  /\ N \in Nat /\ N >= 2
  /\ Persistent \in BOOLEAN
  /\ MaxClaims \in Nat

Init == T!Init /\ S!Init

Parties == UNCHANGED trentVars /\ S!PartyStep

\* Trent finds the request of c, once more perhaps.
Trent(c) == c \in requests /\ T!resolve(ClaimOf(c)) /\ UNCHANGED partyVars

Next == Parties \/ \E c \in requests : Trent(c)

Spec == Init /\ [][Next]_vars

(***************************************************************************)
(* Deliveries are fair, and so are the listeners: every advertisement is   *)
(* found in the end.  Users need not change their minds.                   *)
(***************************************************************************)
Fairness ==
  \A p \in Party :
    /\ WF_vars(UNCHANGED trentVars /\ S!Starts(p))
    /\ WF_vars(UNCHANGED trentVars /\ S!Receive(p))
    /\ WF_vars(UNCHANGED trentVars /\ S!Hear(p))
    /\ WF_vars(\E c \in requests : c.sender = p /\ Trent(c))

FairSpec == Spec /\ Fairness

-----------------------------------------------------------------------------
\* The detailed Trent does nothing that the environment of SigmaSign may not.
ImplementsSign == S!Spec

\* Nobody who runs this code is accused before Trent has told that the contract is
\* cancelled, and then for an ABORT only: the claim that the evidence holds against
\* the accused is never one of promises.
AccusedOfAbortOnly ==
  \A p \in Party : dishonest[p] # T!NoEvidence =>
    /\ dishonest[p][1].round = 0
    /\ [verdict |-> "cancelled", round |-> 0] \in Heard

\* A party that asks Trent in round 1 or 2 gets an answer: among the requests
\* that honest parties send, resolveT fails on the claims of later rounds only.
OnlyLateClaimsFail == \A c \in unanswered : c.round >= 2

\* And the answer settles the contract for it: a party that asked Trent with
\* ABORT or with the promises of round 1 is not left RESOLVING.
EarlyRefusalIsSettled ==
  \A p \in Party :
    (\E c \in requests : c.sender = p /\ c.round <= 1)
      ~> status[p] \in {"CANCELLED", "FINALIZED"}

\* Timeliness, as docs/wiki/SecureContractSigningProtocol.md:21-23 has it: at
\* every point any party can decide to leave, and then the exchange is either
\* aborted or completed.
Timeliness ==
  \A p \in Party :
    wish[p] = "REFUSE" ~> status[p] \in {"CANCELLED", "FINALIZED"}
=============================================================================
