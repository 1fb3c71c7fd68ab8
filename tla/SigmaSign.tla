----------------------------- MODULE SigmaSign -----------------------------
(***************************************************************************)
(* The signing step of the Sigma protocol at the parties of one contract,  *)
(* from the moment where they agree on Trent: SigmaEstablisher (its method *)
(* setListenerOnTrent and what follows), the steps ProtocolSign and        *)
(* ProtocolResolve, and the part of SigmaContract that decides whether the *)
(* contract is finalized.                                                  *)
(*                                                                         *)
(* In rounds 1..N+1 each party sends a promise (a private contract         *)
(* signature) to every party; in round N+2 it sends its clear signature.   *)
(* A party leaves a round when it holds the promises of all.  What it does *)
(* next depends on the wish of its user: go on, or turn to Trent with what *)
(* it holds.                                                               *)
(*                                                                         *)
(* Trent is an environment here, free to cancel or to open any claim that  *)
(* it received as long as it does not do both; SigmaExchange replaces it   *)
(* by the TrentSolver of the code.                                         *)
(***************************************************************************)
EXTENDS Integers

CONSTANTS
  N,           \* number of parties, numbered in the order of their public keys
  Persistent   \* TRUE: advertisements (uris is null); FALSE: pipe messages

ASSUME ConstantsAssumption ==
  /\ N \in Nat
  /\ N >= 2
  /\ Persistent \in BOOLEAN

Party == 1..N
Rounds == 1..(N + 1)     \* the rounds of promises
Last == N + 2            \* the round of the clear signatures

Messages == [from : Party, to : Party, round : Rounds \cup {Last}]
Requests == [sender : Party, round : 0..(N + 1)]
Answers == [verdict : {"cancelled", "resolved"}, round : 0..(N + 1)]
Status == {"NOWHERE", "SIGNING", "RESOLVING", "CANCELLED", "FINALIZED"}
Signature == {"none", "clear", "opened"}   \* "opened": made by Trent of a promise

VARIABLES
  status,     \* of the contract at each party
  wish,       \* of the user of each party
  round,      \* ProtocolSign.round; 0 before the step exists
  received,   \* roundReceived: for each round the parties whose promise is held
  sigs,       \* SigmaContract.signatures
  listening,  \* is the listener on SIGNING registered
  ignoring,   \* ProtocolResolve.signer no longer expects the key of Trent
  net,        \* messages on their way, or advertisements that can be found
  requests,   \* what was sent to Trent
  answers     \* what Trent has broadcast

partyVars == <<status, wish, round, received, sigs, listening, ignoring>>
vars == <<partyVars, net, requests, answers>>

-----------------------------------------------------------------------------
\* SigmaContract.isFinalized on the signatures s, in the order of the keys: a
\* missing one ends the loop, and so does the first clear one.
isFinalized(s) ==
  \/ \E k \in Party : s[k] = "clear" /\ \A j \in 1..(k - 1) : s[j] = "opened"
  \/ \A k \in Party : s[k] = "opened"

Copies(p, rs) ==
  {[from |-> p, to |-> q, round |-> r] : q \in Party \ {p}, r \in rs}

\* A message is gone once it is delivered; an advertisement can be found again.
Delivered(m) == IF Persistent THEN net ELSE net \ {m}

\* Mutated forms of AskTrent: the round after the one that was completed, and
\* the text ABORT whatever the round.
AskTrentNext(p, r) ==
  /\ requests' = requests \cup {[sender |-> p, round |-> r + 1]}
  /\ ignoring' = [ignoring EXCEPT ![p] = FALSE]
AskTrentAbort(p, r) ==
  /\ requests' = requests \cup {[sender |-> p, round |-> 0]}
  /\ ignoring' = [ignoring EXCEPT ![p] = FALSE]

\* ProtocolResolve.sendMessage once p holds the promises of round r, but for
\* the status and the listener, which its callers set.
AskTrent(p, r) ==
  /\ requests' = requests \cup {[sender |-> p, round |-> r]}
  /\ ignoring' = [ignoring EXCEPT ![p] = FALSE]

-----------------------------------------------------------------------------
(***************************************************************************)
(* setListenerOnTrent and sign: the step of the resolution, and then the   *)
(* step of the signature with its first message.  The listener on Trent is *)
(* told at once of the answers that can already be found: the contract may *)
(* be CANCELLED when the promises of round 1 are sent, and they are sent.  *)
(***************************************************************************)
Start(p) ==
  /\ status[p] = "NOWHERE"
  /\ wish[p] = "ACCEPT"
  /\ \/ status' = [status EXCEPT ![p] = "SIGNING"]
     \/ /\ \E a \in answers : a.verdict = "cancelled"
        /\ status' = [status EXCEPT ![p] = "CANCELLED"]
  /\ round' = [round EXCEPT ![p] = 1]
  /\ received' = [received EXCEPT ![p][1] = {p}]
  /\ listening' = [listening EXCEPT ![p] = TRUE]
  /\ net' = net \cup Copies(p, {1})
  /\ UNCHANGED <<wish, sigs, ignoring, requests, answers>>

\* The same when the wish is already to refuse: the request goes out with the
\* text ABORT in place of a claim.
StartRefusing(p) ==
  /\ status[p] = "NOWHERE"
  /\ wish[p] = "REFUSE"
  /\ status' = [status EXCEPT ![p] = "RESOLVING"]
  /\ round' = [round EXCEPT ![p] = 1]
  /\ AskTrent(p, 0)
  /\ UNCHANGED <<wish, received, sigs, listening, net, answers>>

\* The user changes his mind.
Refuse(p) ==
  /\ wish[p] = "ACCEPT"
  /\ status[p] \in {"NOWHERE", "SIGNING"}
  /\ wish' = [wish EXCEPT ![p] = "REFUSE"]
  /\ UNCHANGED <<status, round, received, sigs, listening, ignoring, net,
                 requests, answers>>

-----------------------------------------------------------------------------
(***************************************************************************)
(* The listener of ProtocolSign on a promise: store it, then go through as *)
(* many rounds as the promises held allow (those of the next round may     *)
(* have come first).  rc is what p holds with the new promise.             *)
(***************************************************************************)
Holding(p, m) == [received[p] EXCEPT ![m.round] = @ \cup {m.from}]

\* Mutated form of RoundComplete: the loop ends one round early.
RoundCompleteBeforeLast(p, rc) ==
  /\ status[p] = "SIGNING"
  /\ round[p] \in 1..N
  /\ rc[round[p]] = Party

RoundComplete(p, rc) ==
  /\ status[p] = "SIGNING"
  /\ round[p] \in Rounds
  /\ rc[round[p]] = Party

\* Mutated form of StopsAt: an if in place of the while.
StopsAtNext(p, rc, t) == t = round[p] + 1

\* The round at which the loop stops: p has its own promise in each round it
\* enters, and waits for the others in the last one.
StopsAt(p, rc, t) ==
  /\ t \in (round[p] + 1)..Last
  /\ \A r \in (round[p] + 1)..(t - 1) : rc[r] \cup {p} = Party
  /\ t \in Rounds => rc[t] \cup {p} # Party

Wait(p, rc) ==
  /\ ~RoundComplete(p, rc)
  /\ received' = [received EXCEPT ![p] = rc]
  /\ UNCHANGED <<status, round, sigs, listening, ignoring, requests>>

\* round++ comes before the wish is looked at: the claim is that of the round
\* that was just completed.
Withdraw(p, rc) ==
  /\ RoundComplete(p, rc)
  /\ wish[p] = "REFUSE"
  /\ received' = [received EXCEPT ![p] = rc]
  /\ round' = [round EXCEPT ![p] = @ + 1]
  /\ status' = [status EXCEPT ![p] = "RESOLVING"]
  /\ listening' = [listening EXCEPT ![p] = FALSE]
  /\ AskTrent(p, round[p])
  /\ UNCHANGED sigs

\* Mutated form of GoOn: it does not wait for the others in the next round.
GoOnTwice(p, rc, t) ==
  /\ RoundComplete(p, rc)
  /\ wish[p] = "ACCEPT"
  /\ t \in (round[p] + 1)..Last
  /\ t <= round[p] + 2
  /\ round' = [round EXCEPT ![p] = t]
  /\ received' = [received EXCEPT ![p] =
       [r \in Rounds |-> rc[r] \cup (IF r \in (round[p] + 1)..t THEN {p} ELSE {})]]
  /\ sigs' = IF t = Last THEN [sigs EXCEPT ![p][p] = "clear"] ELSE sigs
  /\ status' = IF t = Last /\ isFinalized(sigs'[p])
                 THEN [status EXCEPT ![p] = "FINALIZED"] ELSE status
  /\ UNCHANGED <<listening, ignoring, requests>>

GoOn(p, rc, t) ==
  /\ RoundComplete(p, rc)
  /\ wish[p] = "ACCEPT"
  /\ StopsAt(p, rc, t)
  /\ round' = [round EXCEPT ![p] = t]
  /\ received' = [received EXCEPT ![p] =
       [r \in Rounds |-> rc[r] \cup (IF r \in (round[p] + 1)..t THEN {p} ELSE {})]]
  /\ sigs' = IF t = Last THEN [sigs EXCEPT ![p][p] = "clear"] ELSE sigs
  /\ status' = IF t = Last /\ isFinalized(sigs'[p])
                 THEN [status EXCEPT ![p] = "FINALIZED"] ELSE status
  /\ UNCHANGED <<listening, ignoring, requests>>

ReceivePromise(p, m) ==
  LET rc == Holding(p, m) IN
  /\ m.to = p
  /\ m.round \in Rounds
  /\ listening[p]
  /\ \/ (Wait(p, rc) \/ Withdraw(p, rc)) /\ net' = Delivered(m)
     \/ \E t \in Rounds \cup {Last} :
          /\ GoOn(p, rc, t)
          /\ net' = Delivered(m) \cup Copies(p, (round[p] + 1)..t)
  /\ UNCHANGED <<wish, answers>>

\* The listener on a clear signature.  No round is left afterwards: a complete
\* one was left when its last promise came (NoRoundIsLeftComplete).
ReceiveClear(p, m) ==
  /\ m.to = p
  /\ m.round = Last
  /\ listening[p]
  /\ sigs' = [sigs EXCEPT ![p][m.from] = "clear"]
  /\ IF isFinalized(sigs'[p])
       THEN /\ status' = [status EXCEPT ![p] = "FINALIZED"]
            /\ listening' = [listening EXCEPT ![p] = FALSE]
       ELSE UNCHANGED <<status, listening>>
  /\ net' = Delivered(m)
  /\ UNCHANGED <<wish, round, received, ignoring, requests, answers>>

\* A pipe message for which there is no listener is dropped.
Drop(m) ==
  /\ ~Persistent
  /\ ~listening[m.to]
  /\ net' = net \ {m}
  /\ UNCHANGED <<partyVars, requests, answers>>

-----------------------------------------------------------------------------
(***************************************************************************)
(* The listener of ProtocolResolve on the answers of Trent.  It looks at   *)
(* neither the status nor the wish, and is never removed.                  *)
(***************************************************************************)
HearCancelled(p) ==
  /\ round[p] > 0
  /\ ~ignoring[p]
  /\ \E a \in answers : a.verdict = "cancelled"
  /\ status' = [status EXCEPT ![p] = "CANCELLED"]
  /\ listening' = [listening EXCEPT ![p] = FALSE]
  /\ UNCHANGED <<wish, round, received, sigs, ignoring, net, requests, answers>>

\* Mutated form of InWindow: only the current round.
InWindowNow(p, r) == r = round[p]

\* The rounds whose promises p accepts opened.
InWindow(p, r) == r \in (round[p] - 2)..round[p]

\* To check the signatures the code points the signer at each party in turn;
\* later answers, signed by Trent, are then no longer recognised.
HearResolved(p, r) ==
  /\ round[p] > 0
  /\ ~ignoring[p]
  /\ [verdict |-> "resolved", round |-> r] \in answers
  /\ ignoring' = [ignoring EXCEPT ![p] = TRUE]
  /\ sigs' = IF InWindow(p, r)
               THEN [sigs EXCEPT ![p] = [q \in Party |-> "opened"]] ELSE sigs
  /\ IF isFinalized(sigs'[p])
       THEN /\ status' = [status EXCEPT ![p] = "FINALIZED"]
            /\ listening' = [listening EXCEPT ![p] = FALSE]
       ELSE UNCHANGED <<status, listening>>
  /\ UNCHANGED <<wish, round, received, net, requests, answers>>

-----------------------------------------------------------------------------
\* Trent as an environment.
TrentCancels ==
  /\ \E c \in requests : c.round = 0
  /\ \A a \in answers : a.verdict = "cancelled"
  /\ answers' = answers \cup {[verdict |-> "cancelled", round |-> 0]}
  /\ UNCHANGED <<partyVars, net, requests>>

TrentResolves(c) ==
  /\ c.round > 0
  /\ \A a \in answers : a.verdict = "resolved"
  /\ answers' = answers \cup {[verdict |-> "resolved", round |-> c.round]}
  /\ UNCHANGED <<partyVars, net, requests>>

-----------------------------------------------------------------------------
Init ==
  /\ status = [p \in Party |-> "NOWHERE"]
  /\ wish = [p \in Party |-> "ACCEPT"]
  /\ round = [p \in Party |-> 0]
  /\ received = [p \in Party |-> [r \in Rounds |-> {}]]
  /\ sigs = [p \in Party |-> [q \in Party |-> "none"]]
  /\ listening = [p \in Party |-> FALSE]
  /\ ignoring = [p \in Party |-> FALSE]
  /\ net = {}
  /\ requests = {}
  /\ answers = {}

Starts(p) == Start(p) \/ StartRefusing(p)
Receive(p) == \E m \in net : ReceivePromise(p, m) \/ ReceiveClear(p, m)
Hear(p) == HearCancelled(p) \/ \E a \in answers : HearResolved(p, a.round)

PartyStep ==
  \/ \E p \in Party : Starts(p) \/ Refuse(p) \/ Receive(p) \/ Hear(p)
  \/ \E m \in net : Drop(m)

Next ==
  \/ PartyStep
  \/ TrentCancels
  \/ \E c \in requests : TrentResolves(c)

Spec == Init /\ [][Next]_vars

(***************************************************************************)
(* An advertisement stays in the caches of the network, where the periodic *)
(* discovery finds it, and the establishers start once Trent is chosen.    *)
(* Users need not refuse and Trent need not answer.                        *)
(***************************************************************************)
Fairness == \A p \in Party : WF_vars(Starts(p)) /\ WF_vars(Receive(p)) /\ WF_vars(Hear(p))

FairSpec == Spec /\ Fairness

-----------------------------------------------------------------------------
\* Types.
TypeOK ==
  /\ status \in [Party -> Status]
  /\ wish \in [Party -> {"ACCEPT", "REFUSE"}]
  /\ round \in [Party -> 0..Last]
  /\ received \in [Party -> [Rounds -> SUBSET Party]]
  /\ sigs \in [Party -> [Party -> Signature]]
  /\ listening \in [Party -> BOOLEAN]
  /\ ignoring \in [Party -> BOOLEAN]
  /\ net \subseteq Messages
  /\ requests \subseteq Requests
  /\ answers \subseteq Answers

\* No party gets two rounds ahead of another one, whatever the order in which
\* promises arrive: what lets ProtocolResolve look for the opened promises of
\* Trent in the last rounds only.
RoundsInStep == \A p, q \in Party : round[p] <= round[q] + 1

\* A claim sent to Trent is complete, and its sender has promised nothing for
\* any later round: the claim cannot be turned against an honest party.
RequestsAreHonest ==
  \A c \in requests :
    /\ c.round > 0 => received[c.sender][c.round] = Party
    /\ \A m \in net : m.from = c.sender => m.round <= c.round
    /\ c.round + 1 = round[c.sender]

\* When a clear signature is out, every party holds all promises of round N, and so a
\* claim of this round: nobody is asked for his signature who has nothing to show.
\* (That the TrentSolver of the code answers such a claim is not said here.)
ClearSignatureIsCovered ==
  (\E p, q \in Party : sigs[p][q] = "clear") =>
    \A p \in Party : received[p][N] = Party

\* A party is told FINALIZED only when nobody can have the contract cancelled any
\* more: Trent has resolved it, or whoever turns to him, before or after, shows the
\* promises of the last round.  It does not say that the missing signatures come.
NoWayBackOnceFinalized ==
  \A p \in Party : status[p] = "FINALIZED" =>
    \/ \E a \in answers : a.verdict = "resolved"
    \/ \A c \in requests : c.round = N + 1

\* Whoever hears that Trent resolved the contract holds all the signatures: the
\* claim that was opened is within the window of rounds that it tries.
ResolvedIsUsable ==
  \A p \in Party : ignoring[p] => \A q \in Party : sigs[p][q] # "none"

\* A party that still signs never rests on a complete round: the listener is
\* only told of one more promise at a time, and the last one moves it on.
NoRoundIsLeftComplete ==
  \A p \in Party : status[p] = "SIGNING" /\ round[p] \in Rounds =>
    received[p][round[p]] # Party

\* The outcome of the contract for each party; RESOLVING is not an outcome.
Outcome ==
  [p \in Party |-> CASE status[p] = "FINALIZED" -> "signed"
                     [] status[p] = "CANCELLED" -> "cancelled"
                     [] OTHER -> "open"]

O == INSTANCE SigmaOutcome WITH outcome <- Outcome

\* The parties that run this code never end one with the contract signed and
\* another with the contract cancelled, and none goes from one to the other.
ImplementsOutcome == O!Spec

\* With advertisements, and as long as nobody refuses, everyone ends with the
\* contract FINALIZED, in whatever order the promises are found.
AllFinalized ==
  [](\A p \in Party : wish[p] = "ACCEPT") =>
    <>[](\A p \in Party : status[p] = "FINALIZED")

\* What the comment on isFinalized says (EstablisherContract.java:61-64): it is
\* true if all parties signed the contract.
FinalizedHasAllSignatures ==
  \A p \in Party : status[p] = "FINALIZED" => \A q \in Party : sigs[p][q] # "none"
=============================================================================
