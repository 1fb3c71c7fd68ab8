---------------------------- MODULE TrentSolver ----------------------------
(***************************************************************************)
(* The trusted third party (Trent) of the Sigma contract-signing protocol, *)
(* for one contract: Trent.resolve checks a request and hands it to the    *)
(* TrentSolver of the contract, whose resolveT answers "aborted",          *)
(* "honestyToken" or "resolved", or null (Trent then broadcasts            *)
(* "dishonest"), or ends with an exception, and then nobody is answered.   *)
(*                                                                         *)
(* A claim stands for a request that passed the checks of Trent.resolve.   *)
(* Those who run this code send the text ABORT with round 0, or the vector *)
(* of the promises of round r, one of every party, with round r > 0.  The  *)
(* checks ask for less: of a round r > 0 that each promise of the vector   *)
(* is of this round, not how many there are, and of any other round        *)
(* nothing.  So a claim is any round with any text, and what matters of a  *)
(* text is whether resolveToken finds in it a promise of every party.      *)
(* Nothing is assumed on who sends which claim, how often, and in which    *)
(* order (the advertisement that carries a request may be found again).    *)
(***************************************************************************)
EXTENDS Integers, Sequences, FiniteSets

CONSTANTS
  Party,      \* the parties of the contract
  Texts,      \* what a request may hold, once decrypted
  Opens,      \* the texts in which resolveToken finds a promise of each party
  Arrivals,   \* the claims that pass the checks of Trent.resolve
  MaxClaims   \* bound: no further claim is added to a list of this length

PartyCount == Cardinality(Party)
Claim == [sender : Party, round : Int, text : Texts]

ASSUME ConstantsAssumption ==
  /\ IsFiniteSet(Party)
  /\ Opens \subseteq Texts
  /\ Arrivals \subseteq Claim
  /\ MaxClaims \in Nat

VARIABLES
  claims,       \* possiblyHonestClaims: a list of maps from senders to claims
  dishonest,    \* dishonestClaims: accused party -> <<its claim, the other>>
  optimistic,
  answers,      \* what Trent has broadcast to the parties
  unanswered    \* the claims on which resolveT ended with an exception

vars == <<claims, dishonest, optimistic, answers, unanswered>>

Kinds == {"aborted", "honestyToken", "resolved", "dishonest"}
Answer == [kind : Kinds, claim : Arrivals]

NoEvidence == << >>
Evidence == {NoEvidence} \cup (Arrivals \X Arrivals)

\* The claims on which resolveT has run.
Found == {a.claim : a \in answers} \cup unanswered

(***************************************************************************)
(* The Java list, with its indices from 0; a map is the set of its claims. *)
(***************************************************************************)
Size == Len(claims)
Held(k) == claims[k + 1]

\* HashMap.remove of a sender.
Remove(k, s) == [claims EXCEPT ![k + 1] = {d \in @ : d.sender # s}]

\* What is in the map: the texts by their senders, without the rounds.
Content(k) == {<<d.sender, d.text>> : d \in Held(k)}

\* possiblyHonestClaims.indexOf compares maps by their content, and finds the
\* first index that holds an equal one.
IsIndexOf(i, k) ==
  /\ i \in 0..k
  /\ Content(i) = Content(k)
  /\ \A j \in 0..(i - 1) : Content(j) # Content(k)

\* Mutated forms of InsertAt, for the mutation runs: put into the map that is
\* already at the index, and ArrayList.set in place of add.
InsertAtMerging(k, c) ==
  IF k < Size THEN [claims EXCEPT ![k + 1] = @ \cup {c}] ELSE Append(claims, {c})
InsertAtOverwriting(k, c) ==
  IF k < Size THEN [claims EXCEPT ![k + 1] = {c}] ELSE Append(claims, {c})

\* ArrayList.add(index, element), which shifts what is at or after the index.
InsertAt(k, c) ==
  SubSeq(claims, 1, k) \o <<{c}>> \o SubSeq(claims, k + 1, Size)

Broadcast(kind, c) == answers' = answers \cup {[kind |-> kind, claim |-> c]}

Accuse(s, its, other) == dishonest' = [dishonest EXCEPT ![s] = <<its, other>>]

-----------------------------------------------------------------------------
(***************************************************************************)
(* The three loops of resolveT.  In the first and the third the comparison *)
(* of s with senderId is one of references, and never finds them equal:    *)
(* the loops stop at any claim they meet, the sender's own included.       *)
(***************************************************************************)

\* Mutated forms of StopsBelow: one index too many, and an index out of bounds
\* skipped as it is in the third loop.
StopsBelowInclusive(c) ==
  {k \in 0..(c.round - 1) : k >= Size \/ Held(k) # {}}
StopsBelowInBounds(c) ==
  {k \in 0..(c.round - 2) : k < Size /\ Held(k) # {}}

\* First loop: the indices at which it does not just go on, because there is
\* a claim or because get(k) is out of bounds.
StopsBelow(c) ==
  {k \in 0..(c.round - 2) : k >= Size \/ Held(k) # {}}

FirstStop(c, k) ==
  /\ k \in StopsBelow(c)
  /\ \A j \in StopsBelow(c) : k <= j

\* Second loop: the indices of another claim of the same sender.
OwnElsewhere(c) ==
  {k \in 0..(Size - 1) : /\ \E d \in Held(k) : d.sender = c.sender
                         /\ ~IsIndexOf(c.round, k)}

\* Third loop: the indices of the claims that are found to be later ones; an
\* index out of bounds is skipped.
StopsAbove(c) ==
  {k \in (c.round + 1)..(PartyCount - 1) : k \in 0..(Size - 1) /\ Held(k) # {}}

\* None of the loops returns or throws.
PossiblyHonest(c) ==
  StopsBelow(c) = {} /\ OwnElsewhere(c) = {} /\ StopsAbove(c) = {}

\* Mutated forms of Resolvable: the optimistic flag forgotten, and the test that
\* nothing has been piled up forgotten.
ResolvableWhenEmpty(c) == claims = << >> /\ c.round > 0
ResolvableWithPromises(c) == c.round > 0 \/ ~optimistic

Resolvable(c) == (claims = << >> /\ c.round > 0) \/ ~optimistic

-----------------------------------------------------------------------------
\* "j was dishonest and i shows it"
ShowOtherDishonest(c) ==
  \E k \in StopsBelow(c) :
    /\ FirstStop(c, k)
    /\ k < Size
    /\ \E d \in Held(k) :
         /\ Accuse(d.sender, d, c)
         /\ claims' = Remove(k, d.sender)
    /\ Broadcast("honestyToken", c)
    /\ UNCHANGED <<optimistic, unanswered>>

\* "i was dishonest and i shows it"
ShowSelfDishonest(c) ==
  /\ StopsBelow(c) = {}
  /\ \E k \in OwnElsewhere(c) :
       /\ \A j \in OwnElsewhere(c) : k <= j
       /\ \E d \in Held(k) :
            /\ d.sender = c.sender
            /\ Accuse(c.sender, c, d)
            /\ \E i \in 0..k : IsIndexOf(i, k) /\ claims' = Remove(i, c.sender)
  /\ Broadcast("dishonest", c)
  /\ UNCHANGED <<optimistic, unanswered>>

\* "i was dishonest and j shows it"; the claim that is found may be the sender's
\* own, when an equal one at an earlier index hid it from the second loop.
ShownDishonest(c) ==
  /\ StopsBelow(c) = {}
  /\ OwnElsewhere(c) = {}
  /\ \E k \in StopsAbove(c) :
       /\ \A j \in StopsAbove(c) : k <= j
       /\ \E d \in Held(k) : Accuse(c.sender, c, d)
       /\ claims' = Remove(k, c.sender)
  /\ Broadcast("dishonest", c)
  /\ UNCHANGED <<optimistic, unanswered>>

\* Mutated form of Resolve: the claim is piled up all the same.
ResolveAndPile(c) ==
  /\ PossiblyHonest(c)
  /\ Resolvable(c)
  /\ c.text \in Opens
  /\ optimistic' = FALSE
  /\ claims' = Append(claims, {c})
  /\ Broadcast("resolved", c)
  /\ UNCHANGED <<dishonest, unanswered>>

\* "Claim with promises, wins": resolveToken opens the promises of the claim,
\* of whatever round they are.
Resolve(c) ==
  /\ PossiblyHonest(c)
  /\ Resolvable(c)
  /\ c.text \in Opens
  /\ optimistic' = FALSE
  /\ Broadcast("resolved", c)
  /\ UNCHANGED <<claims, dishonest, unanswered>>

\* Mutated form of Abort: it is reached whatever the loops and the test found.
AbortUnchecked(c) ==
  /\ Size < MaxClaims
  /\ claims' = Append(claims, {c})
  /\ Broadcast("aborted", c)
  /\ UNCHANGED <<dishonest, optimistic, unanswered>>

Abort(c) ==
  /\ PossiblyHonest(c)
  /\ ~Resolvable(c)
  /\ c.round \in 0..Size
  /\ Size < MaxClaims
  /\ claims' = InsertAt(c.round, c)
  /\ Broadcast("aborted", c)
  /\ UNCHANGED <<dishonest, optimistic, unanswered>>

\* resolveToken throws on ABORT, which is no vector, and on a vector that is too
\* short; the contract is no longer optimistic then.
FailToOpen(c) ==
  /\ PossiblyHonest(c)
  /\ Resolvable(c)
  /\ c.text \notin Opens
  /\ optimistic' = FALSE
  /\ unanswered' = unanswered \cup {c}
  /\ UNCHANGED <<claims, dishonest, answers>>

\* The other exceptions: get(k) and add(round, h) out of bounds.
OutOfBounds(c) ==
  \/ \E k \in StopsBelow(c) : FirstStop(c, k) /\ k >= Size
  \/ PossiblyHonest(c) /\ ~Resolvable(c) /\ c.round \notin 0..Size

Fail(c) ==
  /\ OutOfBounds(c)
  /\ unanswered' = unanswered \cup {c}
  /\ UNCHANGED <<claims, dishonest, optimistic, answers>>

-----------------------------------------------------------------------------
Init ==
  /\ claims = << >>
  /\ dishonest = [p \in Party |-> NoEvidence]
  /\ optimistic = TRUE
  /\ answers = {}
  /\ unanswered = {}

resolve(c) ==
  \/ ShowOtherDishonest(c)
  \/ ShowSelfDishonest(c)
  \/ ShownDishonest(c)
  \/ Resolve(c)
  \/ Abort(c)
  \/ FailToOpen(c)
  \/ Fail(c)

Next == \E c \in Arrivals : resolve(c)

Spec == Init /\ [][Next]_vars

-----------------------------------------------------------------------------
(***************************************************************************)
(* Types: each map of the list holds at most one claim, since a claim is   *)
(* always added in a map of its own (TrentSolver.java:102-104).            *)
(***************************************************************************)
TypeOK ==
  /\ claims \in Seq({{}} \cup {{c} : c \in Arrivals})
  /\ Size <= MaxClaims
  /\ dishonest \in [Party -> Evidence]
  /\ optimistic \in BOOLEAN
  /\ answers \subseteq Answer
  /\ unanswered \subseteq Arrivals

(***************************************************************************)
(* Implementation of Verdict: a party reads "aborted" and "honestyToken"   *)
(* as the cancellation of the contract (ProtocolResolve.java:186-187),     *)
(* and "dishonest" as nothing.                                             *)
(***************************************************************************)
VerdictOf(kind) == IF kind = "resolved" THEN "resolved" ELSE "cancelled"

Announced == {VerdictOf(a.kind) : a \in {b \in answers : b.kind # "dishonest"}}

V == INSTANCE Verdict WITH announced <- Announced

\* Trent never cancels for one party a contract that it resolves for another,
\* whatever the requests, their order and their repetitions.
ImplementsVerdict == V!Spec

\* Once Trent has opened a claim the contract cannot be piled up against: the
\* list stays empty and nobody is accused.
ResolvedForGood ==
  ~optimistic => claims = << >> /\ \A p \in Party : dishonest[p] = NoEvidence

\* A claim to which Trent answered "aborted" is accounted for in the honesty
\* tokens: it is still in the list, or its sender is among the accused.
AbortedIsAccountedFor ==
  \A a \in answers : a.kind = "aborted" =>
    \/ \E k \in 0..(Size - 1) : a.claim \in Held(k)
    \/ dishonest[a.claim.sender] # NoEvidence

\* Nobody is refused, accused or cancelled unless a claim of round 0 was accepted,
\* by which a party aborts: claims of other rounds alone never cancel.
CancelNeedsAbort ==
  "cancelled" \in Announced =>
    \E a \in answers : a.kind = "aborted" /\ a.claim.round = 0

\* A claim of round 0 or 1 is left without an answer only if it has no promise of
\* every party to open, and the contract is resolved, perhaps by that very claim.
FirstClaimsAreAnswered ==
  \A c \in unanswered : c.round \in {0, 1} => c.text \notin Opens /\ ~optimistic

\* It takes a claim of round 1 to have the contract resolved, and nothing sent
\* with a later round is ever opened: it fails on the bounds of the list, or meets
\* what is in it.
RoundOneOpens ==
  \A a \in answers : a.kind = "resolved" =>
    a.claim.round <= 1 /\ \E c \in Found : c.round = 1

\* What docs/wiki/SecureContractSigningProtocol.md:66 says of a DishonestClaim:
\* it shows a claim of the accused together with a claim of a later round, or
\* two claims that the accused made for different rounds.
EvidenceIsGenuine ==
  \A p \in Party : dishonest[p] # NoEvidence =>
    LET its == dishonest[p][1]
        other == dishonest[p][2] IN
    \/ its.round < other.round
    \/ its.sender = other.sender /\ its.round # other.round
=============================================================================
