-------------------------- MODULE SigmaSignProofs --------------------------
(***************************************************************************)
(* Proofs about SigmaSign, for any number of parties.                      *)
(*                                                                         *)
(* Two inductive invariants carry them.  RoundInv ties the rounds of the   *)
(* parties together: what a party holds or is on its way was sent, and a   *)
(* round that was left is complete.  IInv adds what ties the outcome to    *)
(* the requests, the answers of Trent and the signatures.                  *)
(***************************************************************************)
EXTENDS SigmaSign, TLAPS

\* Nothing is on its way that its sender has not sent in a round it entered.
SentInRound == \A m \in net : m.round <= round[m.from]

\* A promise that is held was sent.
HeldWasSent ==
  \A p, q \in Party : \A r \in Rounds : q \in received[p][r] => r <= round[q]

\* A round that was left is complete.
PastIsComplete ==
  \A p \in Party : \A r \in Rounds : r < round[p] => received[p][r] = Party

RoundInv == TypeOK /\ SentInRound /\ HeldWasSent /\ PastIsComplete

-----------------------------------------------------------------------------
(***************************************************************************)
(* Types.                                                                  *)
(***************************************************************************)
LEMMA Numbers ==
  /\ N \in Nat /\ N >= 2
  /\ Last = N + 2
  /\ Last \notin Rounds
  /\ \A r : r \in Rounds <=> r \in Nat /\ 1 <= r /\ r <= N + 1
  /\ \A r \in Rounds : r \in 0..Last /\ r \in 0..(N + 1)
  BY ConstantsAssumption DEF Last, Rounds

LEMMA CopiesType ==
  ASSUME NEW p \in Party, NEW rs \in SUBSET (Rounds \cup {Last})
  PROVE  Copies(p, rs) \subseteq Messages
  BY DEF Copies, Messages

\* What HashMaps of promises become when one more is stored.
LEMMA HoldingType ==
  ASSUME TypeOK, NEW p \in Party, NEW m \in Messages, m.round \in Rounds
  PROVE  /\ Holding(p, m) \in [Rounds -> SUBSET Party]
         /\ \A r \in Rounds :
              Holding(p, m)[r] = received[p][r] \cup (IF r = m.round THEN {m.from} ELSE {})
  BY DEF Holding, TypeOK, Messages

LEMMA TypeOKInit == Init => TypeOK
  BY ConstantsAssumption DEF Init, TypeOK, Status, Signature, Last

LEMMA TypeOKStart ==
  ASSUME TypeOK, NEW p \in Party, Starts(p)
  PROVE  TypeOK'
<1>1. CASE Start(p)
  <2>1. {1} \in SUBSET (Rounds \cup {Last}) /\ 1 \in 0..Last /\ 1 \in Rounds
    BY Numbers
  <2>2. net' \subseteq Messages
    BY <1>1, <2>1, CopiesType DEF Start, TypeOK
  <2>3. received' \in [Party -> [Rounds -> SUBSET Party]]
    BY <1>1, <2>1 DEF Start, TypeOK
  <2> QED
    BY <1>1, <2>1, <2>2, <2>3 DEF Start, TypeOK, Status
<1>2. CASE StartRefusing(p)
  <2>1. [sender |-> p, round |-> 0] \in Requests /\ 1 \in 0..Last
    BY Numbers DEF Requests
  <2> QED
    BY <1>2, <2>1 DEF StartRefusing, AskTrent, TypeOK, Status
<1> QED
  BY <1>1, <1>2 DEF Starts

LEMMA TypeOKReceivePromise ==
  ASSUME TypeOK, NEW p \in Party, NEW m \in net, ReceivePromise(p, m)
  PROVE  TypeOK'
<1> DEFINE rc == Holding(p, m)
<1>1. m \in Messages /\ m.round \in Rounds
  BY DEF TypeOK, ReceivePromise
<1>2. rc \in [Rounds -> SUBSET Party]
  BY <1>1, HoldingType
<1>3. Delivered(m) \subseteq Messages
  BY DEF Delivered, TypeOK
<1>4. UNCHANGED <<wish, answers>>
  BY DEF ReceivePromise
<1> HIDE DEF rc
<1>5. ASSUME Wait(p, rc) \/ Withdraw(p, rc), net' = Delivered(m)
      PROVE  TypeOK'
  <2>1. CASE Wait(p, rc)
    BY <1>2, <1>3, <1>4, <1>5, <2>1 DEF Wait, TypeOK
  <2>2. CASE Withdraw(p, rc)
    <3>1. round[p] \in Rounds
      BY <2>2 DEF Withdraw, RoundComplete
    <3>2. round[p] + 1 \in 0..Last /\ round[p] \in 0..(N + 1)
      BY <3>1, Numbers
    <3>3. requests' \subseteq Requests
      BY <2>2, <3>2 DEF Withdraw, AskTrent, TypeOK, Requests
    <3>4. status' \in [Party -> Status]
      BY <2>2 DEF Withdraw, TypeOK, Status
    <3> QED
      BY <1>2, <1>3, <1>4, <1>5, <2>2, <3>2, <3>3, <3>4
      DEF Withdraw, AskTrent, TypeOK
  <2> QED
    BY <1>5, <2>1, <2>2
<1>6. ASSUME NEW t \in Rounds \cup {Last}, GoOn(p, rc, t),
             net' = Delivered(m) \cup Copies(p, (round[p] + 1)..t)
      PROVE  TypeOK'
  <2>1. round[p] \in Rounds /\ t \in (round[p] + 1)..Last
    BY <1>6 DEF GoOn, RoundComplete, StopsAt
  <2>2. t \in 0..Last /\ (round[p] + 1)..t \subseteq Rounds \cup {Last}
    BY <2>1, Numbers
  <2>3. net' \subseteq Messages
    BY <1>3, <1>6, <2>2, CopiesType
  <2>4. received' \in [Party -> [Rounds -> SUBSET Party]]
    BY <1>2, <1>6 DEF GoOn, TypeOK
  <2>5. sigs' \in [Party -> [Party -> Signature]] /\ status' \in [Party -> Status]
    BY <1>6 DEF GoOn, TypeOK, Signature, Status
  <2> QED
    BY <1>4, <1>6, <2>2, <2>3, <2>4, <2>5 DEF GoOn, TypeOK
<1> QED
  BY <1>5, <1>6 DEF ReceivePromise, rc

LEMMA TypeOKStep == TypeOK /\ [Next]_vars => TypeOK'
<1> SUFFICES ASSUME TypeOK, [Next]_vars PROVE TypeOK'
  OBVIOUS
<1>1. ASSUME NEW p \in Party, Starts(p) PROVE TypeOK'
  BY <1>1, TypeOKStart
<1>2. ASSUME NEW p \in Party, Refuse(p) PROVE TypeOK'
  BY <1>2 DEF Refuse, TypeOK
<1>3. ASSUME NEW p \in Party, NEW m \in net, ReceivePromise(p, m) PROVE TypeOK'
  BY <1>3, TypeOKReceivePromise
<1>4. ASSUME NEW p \in Party, NEW m \in net, ReceiveClear(p, m) PROVE TypeOK'
  <2>1. m.from \in Party
    BY DEF TypeOK, Messages
  <2>2. sigs' \in [Party -> [Party -> Signature]]
    BY <1>4, <2>1 DEF ReceiveClear, TypeOK, Signature
  <2>3. status' \in [Party -> Status] /\ listening' \in [Party -> BOOLEAN]
    BY <1>4 DEF ReceiveClear, TypeOK, Status
  <2>4. net' \subseteq Messages
    BY <1>4 DEF ReceiveClear, Delivered, TypeOK
  <2> QED
    BY <1>4, <2>2, <2>3, <2>4 DEF ReceiveClear, TypeOK
<1>5. ASSUME NEW p \in Party, HearCancelled(p) PROVE TypeOK'
  BY <1>5 DEF HearCancelled, TypeOK, Status
<1>6. ASSUME NEW p \in Party, NEW a \in answers, HearResolved(p, a.round) PROVE TypeOK'
  <2>1. sigs' \in [Party -> [Party -> Signature]]
    BY <1>6 DEF HearResolved, TypeOK, Signature
  <2> QED
    BY <1>6, <2>1 DEF HearResolved, TypeOK, Status
<1>7. ASSUME NEW m \in net, Drop(m) PROVE TypeOK'
  BY <1>7 DEF Drop, partyVars, TypeOK
<1>8. CASE TrentCancels
  <2>1. [verdict |-> "cancelled", round |-> 0] \in Answers
    BY Numbers DEF Answers
  <2> QED
    BY <1>8, <2>1 DEF TrentCancels, partyVars, TypeOK
<1>9. ASSUME NEW c \in requests, TrentResolves(c) PROVE TypeOK'
  <2>1. [verdict |-> "resolved", round |-> c.round] \in Answers
    BY DEF Answers, Requests, TypeOK
  <2> QED
    BY <1>9, <2>1 DEF TrentResolves, partyVars, TypeOK
<1>10. CASE UNCHANGED vars
  BY <1>10 DEF vars, partyVars, TypeOK
<1> QED
  BY <1>1, <1>2, <1>3, <1>4, <1>5, <1>6, <1>7, <1>8, <1>9, <1>10
  DEF Next, PartyStep, Receive, Hear

\* Type correctness, for any number of parties: no party goes beyond the round of
\* the clear signatures, and every claim sent to Trent is one of rounds 0..N+1.
THEOREM TypeCorrect == Spec => []TypeOK
<1> QED
  BY TypeOKInit, TypeOKStep, PTL DEF Spec

-----------------------------------------------------------------------------
(***************************************************************************)
(* The rounds.                                                             *)
(***************************************************************************)
LEMMA RoundInvInit == Init => RoundInv
<1> SUFFICES ASSUME Init PROVE RoundInv
  OBVIOUS
<1> QED
  BY TypeOKInit, Numbers DEF Init, RoundInv, SentInRound, HeldWasSent, PastIsComplete

\* A party starts in round 1, which it may enter before it sends anything.
LEMMA RoundInvStart ==
  ASSUME RoundInv, NEW p \in Party, Starts(p), round[p] = 0
  PROVE  SentInRound' /\ HeldWasSent' /\ PastIsComplete'
<1>1. TypeOK /\ round' = [round EXCEPT ![p] = 1] /\ 1 \in Rounds
  BY Numbers DEF Starts, Start, StartRefusing, RoundInv
<1>2. \A q \in Party : round'[q] \in Nat /\ round[q] \in Nat /\ round[q] <= round'[q]
  BY <1>1, Numbers DEF TypeOK
<1>3. received' = received \/ received' = [received EXCEPT ![p][1] = {p}]
  BY DEF Starts, Start, StartRefusing
<1>4. net' = net \/ net' = net \cup Copies(p, {1})
  BY DEF Starts, Start, StartRefusing
<1>5. SentInRound'
  <2>1. ASSUME NEW m \in net' PROVE m.round <= round'[m.from]
    <3>1. CASE m \in net
      <4>1. m.round <= round[m.from] /\ m.from \in Party /\ m.round \in Nat
        BY <1>1, <3>1, Numbers DEF RoundInv, SentInRound, TypeOK, Messages
      <4> QED
        BY <1>2, <4>1
    <3>2. CASE m \in Copies(p, {1})
      BY <1>1, <3>2 DEF Copies, TypeOK
    <3> QED
      BY <1>4, <2>1, <3>1, <3>2
  <2> QED
    BY <2>1 DEF SentInRound
<1>6. HeldWasSent'
  <2>1. ASSUME NEW x \in Party, NEW q \in Party, NEW r \in Rounds, q \in received'[x][r]
        PROVE  r <= round'[q]
    <3>1. CASE q \in received[x][r]
      <4>1. r <= round[q] /\ r \in Nat
        BY <3>1, Numbers DEF RoundInv, HeldWasSent
      <4> QED
        BY <1>2, <4>1
    <3>2. CASE q \notin received[x][r]
      <4>1. q = p /\ r = 1
        <5>1. received' = [received EXCEPT ![p][1] = {p}]
          BY <1>3, <2>1, <3>2
        <5>2. received \in [Party -> [Rounds -> SUBSET Party]]
          BY <1>1 DEF TypeOK
        <5>3. CASE x = p /\ r = 1
          BY <1>1, <2>1, <5>1, <5>2, <5>3
        <5>4. CASE ~(x = p /\ r = 1)
          BY <1>1, <2>1, <3>2, <5>1, <5>2, <5>4
        <5> QED
          BY <5>3, <5>4
      <4> QED
        BY <1>1, <4>1 DEF TypeOK
    <3> QED
      BY <3>1, <3>2
  <2> QED
    BY <2>1 DEF HeldWasSent
<1>7. PastIsComplete'
  <2>1. ASSUME NEW x \in Party, NEW r \in Rounds, r < round'[x]
        PROVE  received'[x][r] = Party
    <3>1. x # p
      BY <1>1, <2>1, Numbers DEF TypeOK
    <3>2. r < round[x] /\ received'[x] = received[x]
      BY <1>1, <1>3, <2>1, <3>1 DEF TypeOK
    <3> QED
      BY <3>2 DEF RoundInv, PastIsComplete
  <2> QED
    BY <2>1 DEF PastIsComplete
<1> QED
  BY <1>5, <1>6, <1>7

\* What a promise m does to the rounds of p: those up to its new round t are
\* complete, and p has sent its own promise in each of those that it entered.
PromiseEffect(p, m, t, rc) ==
  /\ t \in 0..Last
  /\ rc \in [Rounds -> SUBSET Party]
  /\ round[p] <= t
  /\ round' = [round EXCEPT ![p] = t]
  /\ received' = [received EXCEPT ![p] = rc]
  /\ net' \subseteq net \cup Copies(p, (round[p] + 1)..t)
  /\ \A r \in Rounds :
       /\ received[p][r] \subseteq rc[r]
       /\ \A q \in rc[r] : \/ q \in received[p][r]
                           \/ q = m.from /\ r = m.round
                           \/ q = p /\ r <= t
       /\ round[p] <= r /\ r < t => rc[r] = Party

LEMMA PromiseStep ==
  ASSUME RoundInv, NEW p \in Party, NEW m \in net, ReceivePromise(p, m)
  PROVE  /\ m.from \in Party
         /\ m.round \in Rounds
         /\ m.round <= round[m.from]
         /\ \E t, rc : PromiseEffect(p, m, t, rc)
<1> DEFINE h == Holding(p, m)
<1>1. TypeOK /\ m \in Messages /\ m.round \in Rounds /\ m.from \in Party
  BY DEF RoundInv, TypeOK, ReceivePromise, Messages
<1>2. m.round <= round[m.from]
  BY DEF RoundInv, SentInRound
<1>3. /\ h \in [Rounds -> SUBSET Party]
      /\ \A r \in Rounds : h[r] = received[p][r] \cup (IF r = m.round THEN {m.from} ELSE {})
  BY <1>1, HoldingType
<1>4. Delivered(m) \subseteq net /\ round[p] \in 0..Last
  BY <1>1 DEF Delivered, TypeOK
<1> HIDE DEF h
<1>5. ASSUME Wait(p, h), net' = Delivered(m)
      PROVE  PromiseEffect(p, m, round[p], h)
  <2>1. round' = [round EXCEPT ![p] = round[p]]
    BY <1>1, <1>5 DEF Wait, TypeOK
  <2>2. received' = [received EXCEPT ![p] = h]
    BY <1>5 DEF Wait
  <2>3. \A r \in Rounds : ~(round[p] <= r /\ r < round[p])
    BY <1>4, Numbers
  <2> QED
    BY <1>3, <1>4, <1>5, <2>1, <2>2, <2>3, Numbers DEF PromiseEffect
<1>6. ASSUME Withdraw(p, h), net' = Delivered(m)
      PROVE  PromiseEffect(p, m, round[p] + 1, h)
  <2>1. round[p] \in Rounds /\ h[round[p]] = Party
    BY <1>6 DEF Withdraw, RoundComplete
  <2>2. /\ round[p] + 1 \in 0..Last
        /\ round[p] <= round[p] + 1
        /\ round' = [round EXCEPT ![p] = round[p] + 1]
        /\ received' = [received EXCEPT ![p] = h]
    BY <1>1, <1>6, <2>1, Numbers DEF Withdraw, TypeOK
  <2>3. \A r \in Rounds : round[p] <= r /\ r < round[p] + 1 => r = round[p]
    BY <2>1, Numbers
  <2>4. \A r \in Rounds : round[p] <= r /\ r < round[p] + 1 => h[r] = Party
    BY <2>1, <2>3
  <2> QED
    BY <1>3, <1>4, <1>6, <2>2, <2>4 DEF PromiseEffect
<1>7. ASSUME NEW t \in Rounds \cup {Last}, GoOn(p, h, t),
             net' = Delivered(m) \cup Copies(p, (round[p] + 1)..t)
      PROVE  \E rc : PromiseEffect(p, m, t, rc)
  <2> DEFINE rc == [r \in Rounds |-> h[r] \cup (IF r \in (round[p] + 1)..t THEN {p} ELSE {})]
  <2>1. /\ round[p] \in Rounds
        /\ h[round[p]] = Party
        /\ t \in (round[p] + 1)..Last
        /\ \A r \in (round[p] + 1)..(t - 1) : h[r] \cup {p} = Party
    BY <1>7 DEF GoOn, RoundComplete, StopsAt
  <2>2. /\ round' = [round EXCEPT ![p] = t]
        /\ received' = [received EXCEPT ![p] = rc]
    BY <1>7 DEF GoOn
  <2>3. t \in 0..Last /\ round[p] <= t
    BY <2>1, Numbers
  <2>4. rc \in [Rounds -> SUBSET Party]
    BY <1>3
  <2>5. ASSUME NEW r \in Rounds
        PROVE  /\ received[p][r] \subseteq rc[r]
               /\ \A q \in rc[r] : \/ q \in received[p][r]
                                   \/ q = m.from /\ r = m.round
                                   \/ q = p /\ r <= t
               /\ round[p] <= r /\ r < t => rc[r] = Party
    <3>1. rc[r] = h[r] \cup (IF r \in (round[p] + 1)..t THEN {p} ELSE {})
      OBVIOUS
    <3>2. r \in (round[p] + 1)..t => r <= t
      OBVIOUS
    <3>3. ASSUME round[p] <= r, r < t PROVE rc[r] = Party
      <4>1. CASE r = round[p]
        BY <2>1, <3>1, <4>1
      <4>2. CASE r # round[p]
        <5>1. r \in (round[p] + 1)..(t - 1) /\ r \in (round[p] + 1)..t
          BY <2>1, <3>3, <4>2, Numbers
        <5> QED
          BY <2>1, <3>1, <5>1
      <4> QED
        BY <4>1, <4>2
    <3> QED
      BY <1>3, <3>1, <3>2, <3>3
  <2>6. net' \subseteq net \cup Copies(p, (round[p] + 1)..t)
    BY <1>4, <1>7
  <2> HIDE DEF rc
  <2>7. PromiseEffect(p, m, t, rc)
    BY <2>2, <2>3, <2>4, <2>5, <2>6 DEF PromiseEffect
  <2> QED
    BY <2>7
<1>8. \/ Wait(p, h) /\ net' = Delivered(m)
      \/ Withdraw(p, h) /\ net' = Delivered(m)
      \/ \E t \in Rounds \cup {Last} :
           GoOn(p, h, t) /\ net' = Delivered(m) \cup Copies(p, (round[p] + 1)..t)
  BY DEF ReceivePromise, h
<1> QED
  BY <1>1, <1>2, <1>5, <1>6, <1>7, <1>8

LEMMA RoundInvReceivePromise ==
  ASSUME RoundInv, NEW p \in Party, NEW m \in net, ReceivePromise(p, m)
  PROVE  SentInRound' /\ HeldWasSent' /\ PastIsComplete'
<1>1. TypeOK /\ m.from \in Party /\ m.round \in Rounds /\ m.round <= round[m.from]
  BY PromiseStep DEF RoundInv
<1>2. PICK t, rc : PromiseEffect(p, m, t, rc)
  BY PromiseStep
<1>3. /\ t \in 0..Last
      /\ rc \in [Rounds -> SUBSET Party]
      /\ round[p] <= t
      /\ round' = [round EXCEPT ![p] = t]
      /\ received' = [received EXCEPT ![p] = rc]
  BY <1>2 DEF PromiseEffect
<1>4. /\ round'[p] = t
      /\ received'[p] = rc
      /\ \A q \in Party : q # p => round'[q] = round[q] /\ received'[q] = received[q]
      /\ \A q \in Party : round'[q] \in Nat /\ round[q] \in Nat /\ round[q] <= round'[q]
  BY <1>1, <1>3, Numbers DEF TypeOK
<1>5. SentInRound'
  <2>1. ASSUME NEW x \in net' PROVE x.round <= round'[x.from]
    <3>1. CASE x \in net
      <4>1. x.round <= round[x.from] /\ x.from \in Party /\ x.round \in Nat
        BY <1>1, <3>1, Numbers DEF RoundInv, SentInRound, TypeOK, Messages
      <4> QED
        BY <1>4, <4>1
    <3>2. CASE x \in Copies(p, (round[p] + 1)..t)
      BY <1>4, <3>2 DEF Copies
    <3> QED
      BY <1>2, <2>1, <3>1, <3>2 DEF PromiseEffect
  <2> QED
    BY <2>1 DEF SentInRound
<1>6. HeldWasSent'
  <2>1. ASSUME NEW x \in Party, NEW q \in Party, NEW r \in Rounds, q \in received'[x][r]
        PROVE  r <= round'[q]
    <3>1. CASE q \in received[x][r]
      <4>1. r <= round[q] /\ r \in Nat
        BY <3>1, Numbers DEF RoundInv, HeldWasSent
      <4> QED
        BY <1>4, <4>1
    <3>2. CASE q \notin received[x][r]
      <4>1. x = p /\ q \in rc[r]
        BY <1>4, <2>1, <3>2
      <4>2. (q = m.from /\ r = m.round) \/ (q = p /\ r <= t)
        BY <1>2, <3>2, <4>1 DEF PromiseEffect
      <4>3. r \in Nat
        BY Numbers
      <4> QED
        BY <1>1, <1>4, <4>2, <4>3
    <3> QED
      BY <3>1, <3>2
  <2> QED
    BY <2>1 DEF HeldWasSent
<1>7. PastIsComplete'
  <2>1. ASSUME NEW x \in Party, NEW r \in Rounds, r < round'[x]
        PROVE  received'[x][r] = Party
    <3>1. CASE x # p
      BY <1>4, <2>1, <3>1 DEF RoundInv, PastIsComplete
    <3>2. CASE x = p /\ r < round[p]
      <4>1. received[p][r] = Party
        BY <3>2 DEF RoundInv, PastIsComplete
      <4>2. received[p][r] \subseteq rc[r] /\ rc[r] \subseteq Party
        BY <1>2, <1>3 DEF PromiseEffect
      <4> QED
        BY <1>4, <3>2, <4>1, <4>2
    <3>3. CASE x = p /\ round[p] <= r
      BY <1>2, <1>4, <2>1, <3>3 DEF PromiseEffect
    <3> QED
      BY <1>4, <3>1, <3>2, <3>3, Numbers
  <2> QED
    BY <2>1 DEF PastIsComplete
<1> QED
  BY <1>5, <1>6, <1>7

-----------------------------------------------------------------------------
(***************************************************************************)
(* What a step may do to the status of a party, and to the requests.       *)
(***************************************************************************)
Active == {"NOWHERE", "SIGNING"}

\* A party that has left the protocol stays out of it and sends nothing more;
\* one that was not started enters no round without leaving that status.
LeavesAlone(q) ==
  /\ status'[q] = "NOWHERE" => status[q] = "NOWHERE" /\ round'[q] = round[q]
  /\ status[q] \notin Active =>
       /\ status'[q] \notin Active
       /\ round'[q] = round[q]
       /\ \A x \in net' : x.from = q => x \in net

\* A new request is that of a party that leaves the protocol with it: the round
\* it enters is the one after the claim.
NewRequest(c) ==
  /\ c.sender \in Party
  /\ status'[c.sender] \notin Active
  /\ round'[c.sender] = c.round + 1
  /\ round[c.sender] <= c.round
  /\ net' \subseteq net

LEMMA CopiesAreFrom ==
  ASSUME NEW p, NEW rs, NEW x \in Copies(p, rs)
  PROVE  x.from = p
  BY DEF Copies

LEMMA StartStatus ==
  ASSUME TypeOK, NEW p \in Party, Starts(p), NEW q \in Party
  PROVE  LeavesAlone(q)
<1>1. status[p] = "NOWHERE" /\ status'[p] # "NOWHERE"
  BY DEF Starts, Start, StartRefusing, TypeOK
<1>2. q # p => status'[q] = status[q] /\ round'[q] = round[q]
  BY DEF Starts, Start, StartRefusing, TypeOK
<1>3. \A x \in net' : x.from = p \/ x \in net
  BY CopiesAreFrom DEF Starts, Start, StartRefusing
<1> QED
  BY <1>1, <1>2, <1>3 DEF LeavesAlone, Active

LEMMA PromiseStatus ==
  ASSUME TypeOK, NEW p \in Party, NEW m \in net, ReceivePromise(p, m), NEW q \in Party
  PROVE  LeavesAlone(q)
<1> DEFINE h == Holding(p, m)
<1>1. Delivered(m) \subseteq net
  BY DEF Delivered
<1>2. CASE Wait(p, h) /\ net' = Delivered(m)
  BY <1>1, <1>2 DEF Wait, LeavesAlone
<1>3. CASE Withdraw(p, h) /\ net' = Delivered(m)
  <2>1. status[p] = "SIGNING" /\ status' = [status EXCEPT ![p] = "RESOLVING"]
        /\ round' = [round EXCEPT ![p] = @ + 1]
    BY <1>3 DEF Withdraw, RoundComplete
  <2> QED
    BY <1>1, <1>3, <2>1 DEF LeavesAlone, Active, TypeOK
<1>4. ASSUME NEW t \in Rounds \cup {Last}, GoOn(p, h, t),
             net' = Delivered(m) \cup Copies(p, (round[p] + 1)..t)
      PROVE  LeavesAlone(q)
  <2>1. status[p] = "SIGNING" /\ round' = [round EXCEPT ![p] = t]
        /\ (status' = status \/ status' = [status EXCEPT ![p] = "FINALIZED"])
    BY <1>4 DEF GoOn, RoundComplete
  <2>2. \A x \in net' : x.from = p \/ x \in net
    BY <1>1, <1>4, CopiesAreFrom
  <2> QED
    BY <2>1, <2>2 DEF LeavesAlone, Active, TypeOK
<1> QED
  BY <1>2, <1>3, <1>4 DEF ReceivePromise

LEMMA StatusStep ==
  ASSUME TypeOK, [Next]_vars, NEW q \in Party
  PROVE  LeavesAlone(q)
<1>1. ASSUME NEW p \in Party, Starts(p) PROVE LeavesAlone(q)
  BY <1>1, StartStatus
<1>2. ASSUME NEW p \in Party, NEW m \in net, ReceivePromise(p, m) PROVE LeavesAlone(q)
  BY <1>2, PromiseStatus
<1>3. ASSUME NEW p \in Party, NEW m \in net, ReceiveClear(p, m) PROVE LeavesAlone(q)
  <2>1. /\ status' = status \/ status' = [status EXCEPT ![p] = "FINALIZED"]
        /\ round' = round
        /\ net' \subseteq net
    BY <1>3 DEF ReceiveClear, Delivered
  <2> QED
    BY <2>1 DEF LeavesAlone, Active, TypeOK
<1>4. ASSUME NEW p \in Party, HearCancelled(p) PROVE LeavesAlone(q)
  BY <1>4 DEF HearCancelled, LeavesAlone, Active, TypeOK
<1>5. ASSUME NEW p \in Party, NEW a \in answers, HearResolved(p, a.round)
      PROVE  LeavesAlone(q)
  <2>1. /\ status' = status \/ status' = [status EXCEPT ![p] = "FINALIZED"]
        /\ round' = round
        /\ net' = net
    BY <1>5 DEF HearResolved
  <2> QED
    BY <2>1 DEF LeavesAlone, Active, TypeOK
<1>6. CASE UNCHANGED <<status, round>> /\ net' \subseteq net
  BY <1>6 DEF LeavesAlone
<1> QED
  BY <1>1, <1>2, <1>3, <1>4, <1>5, <1>6
  DEF Next, PartyStep, Receive, Hear, Refuse, Drop, TrentCancels, TrentResolves,
      partyVars, vars

\* A contract that was not started has no round yet.
NotStarted == \A p \in Party : status[p] = "NOWHERE" => round[p] = 0

\* A step that neither starts a party nor brings a promise changes no round.
LEMMA OtherSteps ==
  ASSUME TypeOK, [Next]_vars
  PROVE  \/ \E p \in Party : Starts(p)
         \/ \E p \in Party, m \in net : ReceivePromise(p, m)
         \/ net' \subseteq net /\ UNCHANGED <<round, received>>
  BY DEF Next, PartyStep, Receive, Hear, Refuse, ReceiveClear, Delivered, Drop,
         HearCancelled, HearResolved, TrentCancels, TrentResolves, partyVars, vars

LEMMA RoundInvStep ==
  RoundInv /\ NotStarted /\ [Next]_vars => RoundInv' /\ NotStarted'
<1> SUFFICES ASSUME RoundInv, NotStarted, [Next]_vars
             PROVE  RoundInv' /\ NotStarted'
  OBVIOUS
<1>1. TypeOK /\ TypeOK'
  BY TypeOKStep DEF RoundInv
<1>2. SentInRound' /\ HeldWasSent' /\ PastIsComplete'
  <2>1. ASSUME NEW p \in Party, Starts(p)
        PROVE  SentInRound' /\ HeldWasSent' /\ PastIsComplete'
    <3>1. round[p] = 0
      BY <2>1 DEF Starts, Start, StartRefusing, NotStarted
    <3> QED
      BY <2>1, <3>1, RoundInvStart
  <2>2. ASSUME NEW p \in Party, NEW m \in net, ReceivePromise(p, m)
        PROVE  SentInRound' /\ HeldWasSent' /\ PastIsComplete'
    BY <2>2, RoundInvReceivePromise
  <2>3. CASE net' \subseteq net /\ UNCHANGED <<round, received>>
    BY <2>3 DEF RoundInv, SentInRound, HeldWasSent, PastIsComplete
  <2> QED
    BY <1>1, <2>1, <2>2, <2>3, OtherSteps
<1>3. NotStarted'
  BY <1>1, StatusStep DEF NotStarted, LeavesAlone
<1> QED
  BY <1>1, <1>2, <1>3 DEF RoundInv

LEMMA RoundInvImpliesInStep == RoundInv => RoundsInStep
<1> SUFFICES ASSUME RoundInv, NEW p \in Party, NEW q \in Party
             PROVE  round[p] <= round[q] + 1
  BY DEF RoundsInStep
<1>1. round[p] \in 0..Last /\ round[q] \in 0..Last
  BY DEF RoundInv, TypeOK
<1>2. CASE round[p] <= 1
  BY <1>1, <1>2, Numbers
<1>3. CASE round[p] >= 2
  <2>1. round[p] - 1 \in Rounds /\ round[p] - 1 < round[p]
    BY <1>1, <1>3, Numbers
  <2>2. q \in received[p][round[p] - 1]
    BY <2>1 DEF RoundInv, PastIsComplete
  <2>3. round[p] - 1 <= round[q]
    BY <2>1, <2>2 DEF RoundInv, HeldWasSent
  <2> QED
    BY <1>1, <2>3, Numbers
<1> QED
  BY <1>1, <1>2, <1>3, Numbers

\* No party gets two rounds ahead of another, for any number of parties and in
\* whatever order the promises are delivered, found again or lost.
THEOREM InStep == Spec => []RoundsInStep
<1>1. Init => RoundInv /\ NotStarted
  BY RoundInvInit DEF Init, NotStarted
<1> QED
  BY <1>1, RoundInvStep, RoundInvImpliesInStep, PTL DEF Spec

-----------------------------------------------------------------------------
(***************************************************************************)
(* Requests and answers.                                                   *)
(***************************************************************************)

\* A party that asked Trent is out of the protocol, one round after its claim,
\* and has promised nothing for a later round than that of the claim.
RequestsAreLast ==
  \A c \in requests :
    /\ c.round + 1 = round[c.sender]
    /\ status[c.sender] \notin Active
    /\ \A m \in net : m.from = c.sender => m.round <= c.round

\* Trent answers requests, and never in both ways.
AnswersWereAsked ==
  \A a \in answers :
    \E c \in requests : c.round = IF a.verdict = "resolved" THEN a.round ELSE 0

AnswersAgree == \A a, b \in answers : a.verdict = b.verdict

LEMMA RequestStep ==
  ASSUME TypeOK, NotStarted, [Next]_vars
  PROVE  /\ requests \subseteq requests'
         /\ \A c \in requests' : c \in requests \/ NewRequest(c)
<1>1. ASSUME NEW p \in Party, NEW r, AskTrent(p, r), NEW c \in requests', c \notin requests
      PROVE  c.sender = p /\ c.round = r
  BY <1>1 DEF AskTrent
<1>2. ASSUME NEW p \in Party, Starts(p)
      PROVE  /\ requests \subseteq requests'
             /\ \A c \in requests' : c \in requests \/ NewRequest(c)
  <2>1. CASE Start(p)
    BY <2>1 DEF Start
  <2>2. CASE StartRefusing(p)
    <3>1. /\ round[p] = 0
          /\ status'[p] = "RESOLVING"
          /\ round'[p] = 1
          /\ net' = net
          /\ AskTrent(p, 0)
      BY <2>2 DEF StartRefusing, NotStarted, TypeOK
    <3> QED
      BY <1>1, <3>1 DEF NewRequest, Active, AskTrent
  <2> QED
    BY <1>2, <2>1, <2>2 DEF Starts
<1>3. ASSUME NEW p \in Party, NEW m \in net, ReceivePromise(p, m)
      PROVE  /\ requests \subseteq requests'
             /\ \A c \in requests' : c \in requests \/ NewRequest(c)
  <2>1. CASE Withdraw(p, Holding(p, m)) /\ net' = Delivered(m)
    <3>1. /\ round[p] \in Nat
          /\ status'[p] = "RESOLVING"
          /\ round'[p] = round[p] + 1
          /\ net' \subseteq net
          /\ AskTrent(p, round[p])
      BY <2>1, Numbers DEF Withdraw, Delivered, TypeOK
    <3> QED
      BY <1>1, <3>1 DEF NewRequest, Active, AskTrent
  <2>2. CASE UNCHANGED requests
    BY <2>2
  <2> QED
    BY <1>3, <2>1, <2>2 DEF ReceivePromise, Wait, GoOn
<1>4. CASE UNCHANGED requests
  BY <1>4
<1> QED
  BY <1>2, <1>3, <1>4
  DEF Next, PartyStep, Receive, Hear, Refuse, ReceiveClear, Drop, HearCancelled,
      HearResolved, TrentCancels, TrentResolves, partyVars, vars

LEMMA RequestsAreLastStep ==
  ASSUME RoundInv, NotStarted, RequestsAreLast, [Next]_vars
  PROVE  RequestsAreLast'
<1>1. TypeOK /\ TypeOK' /\ RoundInv'
  BY RoundInvStep DEF RoundInv
<1> SUFFICES ASSUME NEW c \in requests'
             PROVE  /\ c.round + 1 = round'[c.sender]
                    /\ status'[c.sender] \notin Active
                    /\ \A m \in net' : m.from = c.sender => m.round <= c.round
  BY DEF RequestsAreLast
<1>2. c.sender \in Party /\ c.round \in Nat
  BY <1>1, Numbers DEF TypeOK, Requests
<1>3. CASE c \in requests
  <2>1. LeavesAlone(c.sender)
    BY <1>1, <1>2, StatusStep
  <2> QED
    BY <1>3, <2>1 DEF LeavesAlone, RequestsAreLast
<1>4. CASE NewRequest(c)
  <2>1. ASSUME NEW m \in net', m.from = c.sender PROVE m.round <= c.round
    <3>1. m \in net /\ round[c.sender] <= c.round
      BY <1>4 DEF NewRequest
    <3>2. m.round <= round[c.sender]
      BY <2>1, <3>1 DEF RoundInv, SentInRound
    <3>3. m.round \in Nat /\ round[c.sender] \in Nat
      BY <1>1, <1>2, <3>1, Numbers DEF TypeOK, Messages
    <3> QED
      BY <1>2, <3>1, <3>2, <3>3
  <2> QED
    BY <1>4, <2>1 DEF NewRequest
<1> QED
  BY <1>1, <1>3, <1>4, RequestStep

LEMMA AnswersStep ==
  ASSUME TypeOK, NotStarted, AnswersWereAsked, AnswersAgree, [Next]_vars
  PROVE  AnswersWereAsked' /\ AnswersAgree' /\ answers \subseteq answers'
<1>1. requests \subseteq requests'
  BY RequestStep
<1>2. CASE UNCHANGED answers
  BY <1>1, <1>2 DEF AnswersWereAsked, AnswersAgree
<1>3. CASE TrentCancels
  BY <1>1, <1>3 DEF TrentCancels, AnswersWereAsked, AnswersAgree
<1>4. ASSUME NEW c \in requests, TrentResolves(c)
      PROVE  AnswersWereAsked' /\ AnswersAgree' /\ answers \subseteq answers'
  BY <1>1, <1>4 DEF TrentResolves, AnswersWereAsked, AnswersAgree
<1> QED
  BY <1>2, <1>3, <1>4
  DEF Next, PartyStep, Starts, Start, StartRefusing, Receive, ReceivePromise, Hear,
      Refuse, ReceiveClear, Drop, HearCancelled, HearResolved, partyVars, vars

\* A claim sent to Trent is complete, and its sender promised nothing later.
LEMMA HonestRequests == RoundInv /\ RequestsAreLast => RequestsAreHonest
<1> SUFFICES ASSUME RoundInv, RequestsAreLast, NEW c \in requests, c.round > 0
             PROVE  received[c.sender][c.round] = Party
  BY DEF RequestsAreHonest, RequestsAreLast
<1>1. c.sender \in Party /\ c.round \in Rounds
  BY Numbers DEF RoundInv, TypeOK, Requests
<1>2. c.round < round[c.sender]
  BY <1>1, Numbers DEF RequestsAreLast
<1> QED
  BY <1>1, <1>2 DEF RoundInv, PastIsComplete

-----------------------------------------------------------------------------
(***************************************************************************)
(* Signatures and outcome.                                                 *)
(***************************************************************************)

\* A clear signature that is held was sent in the last round.
ClearWasSent ==
  \A p, q \in Party : sigs[p][q] = "clear" => round[q] = Last

\* An opened one was made by Trent, who resolved the contract.
OpenedByTrent ==
  \A p, q \in Party : sigs[p][q] = "opened" => \E a \in answers : a.verdict = "resolved"

CancelledByTrent ==
  \A p \in Party : status[p] = "CANCELLED" => \E a \in answers : a.verdict = "cancelled"

FinalizedIsSigned ==
  \A p \in Party : status[p] = "FINALIZED" => \E q \in Party : sigs[p][q] # "none"

\* What a step may do to the signature of q that p holds.
SignatureStep(p, q) ==
  \/ sigs'[p][q] = sigs[p][q]
  \/ sigs'[p][q] = "clear" /\ round'[q] = Last
  \/ sigs'[p][q] = "opened" /\ \E a \in answers : a.verdict = "resolved"

\* And to the outcome of the contract at p.
OutcomeStep(p) ==
  /\ status'[p] = "CANCELLED" => \/ status[p] = "CANCELLED"
                                 \/ \E a \in answers : a.verdict = "cancelled"
  /\ status'[p] = "FINALIZED" => status[p] = "FINALIZED" \/ isFinalized(sigs'[p])

LEMMA StartOutcome ==
  ASSUME TypeOK, NEW x \in Party, Starts(x), NEW p \in Party
  PROVE  OutcomeStep(p) /\ \A q \in Party : SignatureStep(p, q)
<1>1. UNCHANGED sigs
  BY DEF Starts, Start, StartRefusing
<1>2. CASE status' = [status EXCEPT ![x] = "CANCELLED"] /\ \E a \in answers : a.verdict = "cancelled"
  BY <1>1, <1>2 DEF OutcomeStep, SignatureStep, TypeOK
<1>3. CASE status' = [status EXCEPT ![x] = "SIGNING"] \/ status' = [status EXCEPT ![x] = "RESOLVING"]
  BY <1>1, <1>3 DEF OutcomeStep, SignatureStep, TypeOK
<1> QED
  BY <1>2, <1>3 DEF Starts, Start, StartRefusing

LEMMA PromiseOutcome ==
  ASSUME TypeOK, NEW x \in Party, NEW m \in net, ReceivePromise(x, m), NEW p \in Party
  PROVE  OutcomeStep(p) /\ \A q \in Party : SignatureStep(p, q)
<1> DEFINE h == Holding(x, m)
<1>1. CASE Wait(x, h)
  BY <1>1 DEF Wait, OutcomeStep, SignatureStep
<1>2. CASE Withdraw(x, h)
  BY <1>2 DEF Withdraw, OutcomeStep, SignatureStep, TypeOK
<1>3. ASSUME NEW t \in Rounds \cup {Last}, GoOn(x, h, t)
      PROVE  OutcomeStep(p) /\ \A q \in Party : SignatureStep(p, q)
  <2>1. /\ sigs' = IF t = Last THEN [sigs EXCEPT ![x][x] = "clear"] ELSE sigs
        /\ round' = [round EXCEPT ![x] = t]
        /\ \/ status' = status
           \/ status' = [status EXCEPT ![x] = "FINALIZED"] /\ isFinalized(sigs'[x])
    BY <1>3 DEF GoOn
  <2>2. OutcomeStep(p)
    BY <2>1 DEF OutcomeStep, TypeOK
  <2>3. ASSUME NEW q \in Party PROVE SignatureStep(p, q)
    <3>1. round'[x] = t
      BY <2>1 DEF TypeOK
    <3>2. CASE p = x /\ q = x /\ t = Last
      <4>1. sigs'[p][q] = "clear"
        BY <2>1, <3>2 DEF TypeOK
      <4> QED
        BY <3>1, <3>2, <4>1 DEF SignatureStep
    <3>3. CASE ~(p = x /\ q = x /\ t = Last)
      <4>1. sigs'[p][q] = sigs[p][q]
        BY <2>1, <3>3 DEF TypeOK
      <4> QED
        BY <4>1 DEF SignatureStep
    <3> QED
      BY <3>2, <3>3
  <2> QED
    BY <2>2, <2>3
<1> QED
  BY <1>1, <1>2, <1>3 DEF ReceivePromise

LEMMA ClearOutcome ==
  ASSUME TypeOK, SentInRound, NEW x \in Party, NEW m \in net, ReceiveClear(x, m),
         NEW p \in Party
  PROVE  OutcomeStep(p) /\ \A q \in Party : SignatureStep(p, q)
<1>1. /\ sigs' = [sigs EXCEPT ![x][m.from] = "clear"]
      /\ round' = round
      /\ m.round = Last
      /\ \/ status' = status
         \/ status' = [status EXCEPT ![x] = "FINALIZED"] /\ isFinalized(sigs'[x])
  BY DEF ReceiveClear
<1>2. m.from \in Party /\ round[m.from] \in 0..Last /\ Last <= round[m.from]
  BY <1>1 DEF TypeOK, Messages, SentInRound
<1>3. round[m.from] = Last
  BY <1>2, Numbers
<1>4. OutcomeStep(p)
  BY <1>1 DEF OutcomeStep, TypeOK
<1>5. ASSUME NEW q \in Party PROVE SignatureStep(p, q)
  <2>1. CASE p = x /\ q = m.from
    <3>1. sigs'[p][q] = "clear"
      BY <1>1, <1>2, <2>1 DEF TypeOK
    <3> QED
      BY <1>1, <1>3, <2>1, <3>1 DEF SignatureStep
  <2>2. CASE ~(p = x /\ q = m.from)
    <3>1. sigs'[p][q] = sigs[p][q]
      BY <1>1, <1>2, <2>2 DEF TypeOK
    <3> QED
      BY <3>1 DEF SignatureStep
  <2> QED
    BY <2>1, <2>2
<1> QED
  BY <1>4, <1>5

LEMMA ResolvedOutcome ==
  ASSUME TypeOK, NEW x \in Party, NEW r, HearResolved(x, r), NEW p \in Party
  PROVE  OutcomeStep(p) /\ \A q \in Party : SignatureStep(p, q)
<1>1. /\ \/ sigs' = sigs
         \/ sigs' = [sigs EXCEPT ![x] = [y \in Party |-> "opened"]]
      /\ \E a \in answers : a.verdict = "resolved"
      /\ \/ status' = status
         \/ status' = [status EXCEPT ![x] = "FINALIZED"] /\ isFinalized(sigs'[x])
  BY DEF HearResolved
<1>2. OutcomeStep(p)
  BY <1>1 DEF OutcomeStep, TypeOK
<1>3. ASSUME NEW q \in Party PROVE SignatureStep(p, q)
  <2>1. CASE sigs' = sigs
    BY <2>1 DEF SignatureStep
  <2>2. CASE sigs' = [sigs EXCEPT ![x] = [y \in Party |-> "opened"]]
    <3>1. CASE p = x
      <4>1. sigs'[p] = [y \in Party |-> "opened"]
        BY <2>2, <3>1 DEF TypeOK
      <4>2. sigs'[p][q] = "opened"
        BY <4>1
      <4> QED
        BY <1>1, <4>2 DEF SignatureStep
    <3>2. CASE p # x
      <4>1. sigs'[p] = sigs[p]
        BY <2>2, <3>2 DEF TypeOK
      <4> QED
        BY <4>1 DEF SignatureStep
    <3> QED
      BY <3>1, <3>2
  <2> QED
    BY <1>1, <2>1, <2>2
<1> QED
  BY <1>2, <1>3

LEMMA OutcomeOfStep ==
  ASSUME TypeOK, SentInRound, [Next]_vars, NEW p \in Party
  PROVE  OutcomeStep(p) /\ \A q \in Party : SignatureStep(p, q)
<1> DEFINE Goal == OutcomeStep(p) /\ \A q \in Party : SignatureStep(p, q)
<1>1. ASSUME NEW x \in Party, Starts(x) PROVE Goal
  BY <1>1, StartOutcome
<1>2. ASSUME NEW x \in Party, NEW m \in net, ReceivePromise(x, m) PROVE Goal
  BY <1>2, PromiseOutcome
<1>3. ASSUME NEW x \in Party, NEW m \in net, ReceiveClear(x, m) PROVE Goal
  BY <1>3, ClearOutcome
<1>4. ASSUME NEW x \in Party, HearCancelled(x) PROVE Goal
  BY <1>4 DEF HearCancelled, OutcomeStep, SignatureStep, TypeOK
<1>5. ASSUME NEW x \in Party, NEW a \in answers, HearResolved(x, a.round) PROVE Goal
  BY <1>5, ResolvedOutcome
<1>6. CASE UNCHANGED <<status, sigs>>
  BY <1>6 DEF OutcomeStep, SignatureStep
<1> QED
  BY <1>1, <1>2, <1>3, <1>4, <1>5, <1>6
  DEF Next, PartyStep, Receive, Hear, Refuse, Drop, TrentCancels, TrentResolves,
      partyVars, vars

\* A finalized contract has a signature, be it only one.
LEMMA FinalizedHasOne ==
  ASSUME NEW s \in [Party -> Signature], isFinalized(s)
  PROVE  /\ \E q \in Party : s[q] # "none"
         /\ (\E q \in Party : s[q] = "clear") \/ (\A q \in Party : s[q] # "none")
<1>1. 1 \in Party
  BY Numbers DEF Party
<1> QED
  BY <1>1 DEF isFinalized

(***************************************************************************)
(* The inductive invariant.                                                *)
(***************************************************************************)
Signing ==
  /\ ClearWasSent
  /\ OpenedByTrent
  /\ CancelledByTrent
  /\ FinalizedIsSigned

IInv ==
  /\ RoundInv
  /\ NotStarted
  /\ RequestsAreLast
  /\ AnswersWereAsked
  /\ AnswersAgree
  /\ Signing

LEMMA IInvInit == Init => IInv
<1> SUFFICES ASSUME Init PROVE IInv
  OBVIOUS
<1>1. RoundInv /\ NotStarted
  BY RoundInvInit DEF Init, NotStarted
<1>2. Signing
  BY DEF Init, Signing, ClearWasSent, OpenedByTrent, CancelledByTrent, FinalizedIsSigned
<1> QED
  BY <1>1, <1>2 DEF Init, IInv, RequestsAreLast, AnswersWereAsked, AnswersAgree

\* A party in the last round stays there.
LEMMA LastIsLast ==
  ASSUME RoundInv, NotStarted, [Next]_vars, NEW q \in Party, round[q] = Last
  PROVE  round'[q] = Last
<1>1. TypeOK /\ TypeOK'
  BY TypeOKStep DEF RoundInv
<1>2. ASSUME NEW p \in Party, Starts(p) PROVE round'[q] = Last
  <2>1. round[p] = 0 /\ round' = [round EXCEPT ![p] = 1]
    BY <1>2 DEF Starts, Start, StartRefusing, NotStarted
  <2> QED
    BY <1>1, <2>1, Numbers DEF TypeOK
<1>3. ASSUME NEW p \in Party, NEW m \in net, ReceivePromise(p, m) PROVE round'[q] = Last
  <2>1. PICK t, rc : PromiseEffect(p, m, t, rc)
    BY <1>3, PromiseStep
  <2>2. t \in 0..Last /\ round[p] <= t /\ round' = [round EXCEPT ![p] = t]
    BY <2>1 DEF PromiseEffect
  <2> QED
    BY <1>1, <2>2, Numbers DEF TypeOK
<1> QED
  BY <1>1, <1>2, <1>3, OtherSteps

LEMMA SigningStep ==
  ASSUME IInv, [Next]_vars
  PROVE  Signing'
<1>1. TypeOK /\ TypeOK' /\ SentInRound /\ RoundInv /\ NotStarted
  BY TypeOKStep DEF IInv, RoundInv
<1>2. answers \subseteq answers'
  BY <1>1, AnswersStep DEF IInv
<1>3. ClearWasSent'
  <2> SUFFICES ASSUME NEW p \in Party, NEW q \in Party, sigs'[p][q] = "clear"
               PROVE  round'[q] = Last
    BY DEF ClearWasSent
  <2>1. SignatureStep(p, q)
    BY <1>1, OutcomeOfStep
  <2> QED
    BY <1>1, <2>1, LastIsLast DEF SignatureStep, IInv, Signing, ClearWasSent
<1>4. OpenedByTrent'
  <2> SUFFICES ASSUME NEW p \in Party, NEW q \in Party, sigs'[p][q] = "opened"
               PROVE  \E a \in answers' : a.verdict = "resolved"
    BY DEF OpenedByTrent
  <2>1. SignatureStep(p, q)
    BY <1>1, OutcomeOfStep
  <2> QED
    BY <1>2, <2>1 DEF SignatureStep, IInv, Signing, OpenedByTrent
<1>5. CancelledByTrent'
  <2> SUFFICES ASSUME NEW p \in Party, status'[p] = "CANCELLED"
               PROVE  \E a \in answers' : a.verdict = "cancelled"
    BY DEF CancelledByTrent
  <2>1. OutcomeStep(p)
    BY <1>1, OutcomeOfStep
  <2> QED
    BY <1>2, <2>1 DEF OutcomeStep, IInv, Signing, CancelledByTrent
<1>6. FinalizedIsSigned'
  <2> SUFFICES ASSUME NEW p \in Party, status'[p] = "FINALIZED"
               PROVE  \E q \in Party : sigs'[p][q] # "none"
    BY DEF FinalizedIsSigned
  <2>1. OutcomeStep(p) /\ \A q \in Party : SignatureStep(p, q)
    BY <1>1, OutcomeOfStep
  <2>2. CASE status[p] = "FINALIZED"
    BY <2>1, <2>2 DEF SignatureStep, IInv, Signing, FinalizedIsSigned
  <2>3. CASE isFinalized(sigs'[p])
    <3>1. sigs'[p] \in [Party -> Signature]
      BY <1>1 DEF TypeOK
    <3> QED
      BY <2>3, <3>1, FinalizedHasOne
  <2> QED
    BY <2>1, <2>2, <2>3 DEF OutcomeStep
<1> QED
  BY <1>3, <1>4, <1>5, <1>6 DEF Signing

LEMMA IInvStep == IInv /\ [Next]_vars => IInv'
<1> SUFFICES ASSUME IInv, [Next]_vars PROVE IInv'
  OBVIOUS
<1>1. TypeOK
  BY DEF IInv, RoundInv
<1>2. RoundInv' /\ NotStarted'
  BY RoundInvStep DEF IInv
<1>3. RequestsAreLast'
  BY RequestsAreLastStep DEF IInv
<1>4. AnswersWereAsked' /\ AnswersAgree'
  BY <1>1, AnswersStep DEF IInv
<1>5. Signing'
  BY SigningStep
<1> QED
  BY <1>2, <1>3, <1>4, <1>5 DEF IInv

\* The invariant of the signing step.
THEOREM Invariant == Spec => []IInv
<1> QED
  BY IInvInit, IInvStep, PTL DEF Spec

\* Whoever asks Trent shows him a complete claim, and has promised nothing for a
\* later round: nobody can turn the claim against it.
THEOREM RequestsHonest == Spec => []RequestsAreHonest
<1>1. IInv => RequestsAreHonest
  BY HonestRequests DEF IInv
<1> QED
  BY <1>1, Invariant, PTL
-----------------------------------------------------------------------------
(***************************************************************************)
(* Nobody holds a promise for a later round than that of its sender's      *)
(* claim.  Where the claim is an ABORT, nobody completes round 1, and all  *)
(* the other requests are ABORTs too.                                      *)
(***************************************************************************)
ClaimantsAreSilent ==
  \A c \in requests : \A q \in Party, r \in Rounds :
    c.sender \in received[q][r] => r <= c.round

AbortStandsAlone == \A c, d \in requests : c.round = 0 => d.round = 0

\* Where the promises come from that are held after a message.
LEMMA HeldAfterPromise ==
  ASSUME TypeOK, NEW p \in Party, NEW m \in net, ReceivePromise(p, m), NEW q \in Party,
         NEW r \in Rounds, NEW x \in received'[q][r]
  PROVE  \/ x \in received[q][r]
         \/ x = m.from /\ r = m.round
         \/ x = p /\ status[p] = "SIGNING" /\ requests' = requests
<1> DEFINE h == Holding(p, m)
<1>1. m \in Messages /\ m.round \in Rounds
  BY DEF TypeOK, ReceivePromise
<1>2. h[r] = received[p][r] \cup (IF r = m.round THEN {m.from} ELSE {})
  BY <1>1, HoldingType
<1> HIDE DEF h
<1>3. CASE received' = [received EXCEPT ![p] = h]
  BY <1>2, <1>3 DEF TypeOK
<1>4. ASSUME NEW t \in Rounds \cup {Last}, GoOn(p, h, t)
      PROVE  \/ x \in received[q][r]
             \/ x = m.from /\ r = m.round
             \/ x = p /\ status[p] = "SIGNING" /\ requests' = requests
  <2>1. /\ received' = [received EXCEPT ![p] =
             [k \in Rounds |-> h[k] \cup (IF k \in (round[p] + 1)..t THEN {p} ELSE {})]]
        /\ status[p] = "SIGNING" /\ requests' = requests
    BY <1>4 DEF GoOn, RoundComplete
  <2>2. /\ received'[p][r] \subseteq h[r] \cup {p}
        /\ q # p => received'[q] = received[q]
    BY <2>1 DEF TypeOK
  <2> QED
    BY <1>2, <2>1, <2>2
<1> QED
  BY <1>3, <1>4 DEF ReceivePromise, Wait, Withdraw, h

LEMMA SilentStep == IInv /\ ClaimantsAreSilent /\ [Next]_vars => ClaimantsAreSilent'
<1> SUFFICES ASSUME IInv, ClaimantsAreSilent, [Next]_vars,
                    NEW c \in requests', NEW q \in Party, NEW r \in Rounds,
                    c.sender \in received'[q][r]
             PROVE  r <= c.round
  BY DEF ClaimantsAreSilent
<1>1. /\ TypeOK /\ TypeOK' /\ NotStarted
      /\ c \in requests \/ NewRequest(c)
  BY TypeOKStep, RequestStep DEF IInv, RoundInv
<1>2. /\ c.sender \in Party /\ round[c.sender] \in Nat
      /\ r \in Nat /\ c.round \in Nat
  BY <1>1, Numbers DEF TypeOK, Requests
<1>3. CASE c.sender \in received[q][r]
  <2>1. CASE c \in requests
    BY <1>3, <2>1 DEF ClaimantsAreSilent
  <2>2. CASE NewRequest(c)
    BY <1>2, <1>3, <2>2 DEF NewRequest, IInv, RoundInv, HeldWasSent
  <2> QED
    BY <1>1, <2>1, <2>2
<1>4. ASSUME NEW p \in Party, c \in requests, status[p] \in Active PROVE c.sender # p
  BY <1>4 DEF IInv, RequestsAreLast
<1>5. ASSUME NEW p \in Party, Starts(p) PROVE r <= c.round
  <2>1. CASE Start(p)
    <3>1. c \in requests /\ status[p] \in Active
      BY <2>1 DEF Start, Active
    <3>2. received'[q][r] \subseteq received[q][r] \cup {p}
      BY <1>1, <2>1 DEF Start, TypeOK
    <3> QED
      BY <1>3, <1>4, <3>1, <3>2
  <2>2. CASE StartRefusing(p)
    BY <1>3, <2>2 DEF StartRefusing
  <2> QED
    BY <1>5, <2>1, <2>2 DEF Starts
<1>6. ASSUME NEW p \in Party, NEW m \in net, ReceivePromise(p, m)
      PROVE  r <= c.round
  <2>1. CASE c.sender = m.from /\ r = m.round
    <3>1. c \in requests => m.round <= c.round
      BY <2>1 DEF IInv, RequestsAreLast
    <3>2. NewRequest(c) => m.round <= c.round
      BY <1>2, <2>1 DEF NewRequest, IInv, RoundInv, SentInRound
    <3> QED
      BY <1>1, <2>1, <3>1, <3>2
  <2>2. CASE c.sender = p /\ status[p] = "SIGNING" /\ requests' = requests
    BY <1>4, <2>2 DEF Active
  <2> QED
    BY <1>1, <1>3, <1>6, <2>1, <2>2, HeldAfterPromise
<1>7. CASE UNCHANGED received
  BY <1>3, <1>7
<1> QED
  BY <1>1, <1>5, <1>6, <1>7, OtherSteps

LEMMA AbortIsAlone == IInv /\ ClaimantsAreSilent => AbortStandsAlone
<1> SUFFICES ASSUME IInv, ClaimantsAreSilent,
                    NEW c \in requests, NEW d \in requests, c.round = 0, d.round # 0
             PROVE  FALSE
  BY DEF AbortStandsAlone
<1>0. 1 \in Rounds
  BY Numbers
<1>1. c.sender \in Party /\ d.sender \in Party /\ d.round \in Nat /\ d.round > 0
  BY Numbers DEF IInv, RoundInv, TypeOK, Requests
<1>2. round[d.sender] = d.round + 1
  BY DEF IInv, RequestsAreLast
<1>3. received[d.sender][1] = Party
  BY <1>0, <1>1, <1>2 DEF IInv, RoundInv, PastIsComplete
<1> QED
  BY <1>0, <1>1, <1>3 DEF ClaimantsAreSilent

-----------------------------------------------------------------------------
(***************************************************************************)
(* What the invariant says of the outcome.                                 *)
(***************************************************************************)

\* When a clear signature is held, every party is in round N+1 or beyond.
LEMMA ClearIsLate ==
  ASSUME IInv, NEW p \in Party, NEW q \in Party, sigs[p][q] = "clear", NEW x \in Party
  PROVE  N + 1 <= round[x]
<1>1. round[q] = Last
  BY DEF IInv, Signing, ClearWasSent
<1>2. N + 1 \in Rounds /\ N + 1 < round[q]
  BY <1>1, Numbers
<1>3. x \in received[q][N + 1]
  BY <1>2 DEF IInv, RoundInv, PastIsComplete
<1> QED
  BY <1>2, <1>3 DEF IInv, RoundInv, HeldWasSent

LEMMA ClearCovered == IInv => ClearSignatureIsCovered
<1> SUFFICES ASSUME IInv, NEW p \in Party, NEW q \in Party, sigs[p][q] = "clear",
                    NEW x \in Party
             PROVE  received[x][N] = Party
  BY DEF ClearSignatureIsCovered
<1>1. N + 1 <= round[x] /\ round[x] \in 0..Last
  BY ClearIsLate DEF IInv, RoundInv, TypeOK
<1>2. N \in Rounds /\ N < round[x]
  BY <1>1, Numbers
<1> QED
  BY <1>2 DEF IInv, RoundInv, PastIsComplete

\* A contract that Trent cancelled has no signature at all: whoever asked with the
\* text ABORT has stopped in round 1, and everyone else before the last round.
NoneIfCancelled ==
  (\E a \in answers : a.verdict = "cancelled") => \A p, q \in Party : sigs[p][q] = "none"

LEMMA CancelledHasNone == IInv => NoneIfCancelled
<1> SUFFICES ASSUME IInv, NEW a \in answers, a.verdict = "cancelled",
                    NEW p \in Party, NEW q \in Party
             PROVE  sigs[p][q] = "none"
  BY DEF NoneIfCancelled
<1>1. sigs[p][q] \in {"none", "clear", "opened"}
  BY DEF IInv, RoundInv, TypeOK, Signature
<1>2. sigs[p][q] # "opened"
  BY DEF IInv, AnswersAgree, Signing, OpenedByTrent
<1>3. ASSUME sigs[p][q] = "clear" PROVE FALSE
  <2>1. PICK c \in requests : c.round = 0
    BY DEF IInv, AnswersWereAsked
  <2>2. c.sender \in Party
    BY DEF IInv, RoundInv, TypeOK, Requests
  <2>3. round[c.sender] = 1
    BY <2>1 DEF IInv, RequestsAreLast
  <2> QED
    BY <1>3, <2>2, <2>3, ClearIsLate, Numbers
<1> QED
  BY <1>1, <1>2, <1>3

NobodyDiffers ==
  \A p, q \in Party : status[p] = "CANCELLED" => status[q] # "FINALIZED"

LEMMA NotBoth == IInv => NobodyDiffers
<1> SUFFICES ASSUME IInv, NEW p \in Party, NEW q \in Party, status[p] = "CANCELLED"
             PROVE  status[q] # "FINALIZED"
  BY DEF NobodyDiffers
<1>1. PICK a \in answers : a.verdict = "cancelled"
  BY DEF IInv, Signing, CancelledByTrent
<1>2. \A x \in Party : sigs[q][x] = "none"
  BY <1>1, CancelledHasNone DEF NoneIfCancelled
<1> QED
  BY <1>2 DEF IInv, Signing, FinalizedIsSigned

\* No clear signature is out before every party holds all promises of round N, and
\* with them a complete claim of this round.
THEOREM ClearIsCovered == Spec => []ClearSignatureIsCovered
<1> QED
  BY Invariant, ClearCovered, PTL

-----------------------------------------------------------------------------
(***************************************************************************)
(* Finalized contracts.                                                    *)
(***************************************************************************)

LEMMA FinalizedIsLate == IInv /\ ClaimantsAreSilent => NoWayBackOnceFinalized
<1> SUFFICES ASSUME IInv, ClaimantsAreSilent, NEW p \in Party, status[p] = "FINALIZED",
                    \A a \in answers : a.verdict # "resolved", NEW c \in requests
             PROVE  c.round = N + 1
  BY DEF NoWayBackOnceFinalized
<1>1. PICK q \in Party : sigs[p][q] # "none"
  BY DEF IInv, Signing, FinalizedIsSigned
<1>2. sigs[p][q] = "clear"
  BY <1>1 DEF IInv, Signing, OpenedByTrent, RoundInv, TypeOK, Signature
<1>3. round[q] = Last
  BY <1>2 DEF IInv, Signing, ClearWasSent
<1>4. N + 1 \in Rounds /\ N + 1 < round[q]
  BY <1>3, Numbers
<1>5. c.sender \in Party /\ c.round \in 0..(N + 1)
  BY DEF IInv, RoundInv, TypeOK, Requests
<1>6. c.sender \in received[q][N + 1]
  BY <1>4, <1>5 DEF IInv, RoundInv, PastIsComplete
<1>7. N + 1 <= c.round
  BY <1>4, <1>6 DEF ClaimantsAreSilent
<1> QED
  BY <1>5, <1>7, Numbers

\* Once the contract is FINALIZED at a party, although the loop of isFinalized looks at
\* one clear signature only, nobody can have it cancelled: Trent resolved it, or every
\* claim that he is sent is one of the last round of promises.
THEOREM FinalizedLeavesNoWayBack == Spec => []NoWayBackOnceFinalized
<1>1. Init => ClaimantsAreSilent
  BY DEF Init, ClaimantsAreSilent
<1>2. Spec => []ClaimantsAreSilent
  BY <1>1, Invariant, SilentStep, PTL DEF Spec
<1> QED
  BY <1>2, Invariant, FinalizedIsLate, PTL

-----------------------------------------------------------------------------
(***************************************************************************)
(* The window of rounds in which opened promises are looked for.           *)
(***************************************************************************)

\* The round that Trent opened is that of a request, whose sender stopped one
\* round later: everyone is within a round of that.
LEMMA AnswerInWindow ==
  ASSUME IInv, NEW a \in answers, a.verdict = "resolved", NEW p \in Party
  PROVE  InWindow(p, a.round)
<1>1. PICK c \in requests : c.round = a.round
  BY DEF IInv, AnswersWereAsked
<1>2. c.sender \in Party /\ c.round \in Nat
  BY Numbers DEF IInv, RoundInv, TypeOK, Requests
<1>3. round[c.sender] = c.round + 1
  BY DEF IInv, RequestsAreLast
<1>4. round[p] <= round[c.sender] + 1 /\ round[c.sender] <= round[p] + 1
  BY <1>2, RoundInvImpliesInStep DEF IInv, RoundsInStep
<1>5. round[p] \in Int
  BY Numbers DEF IInv, RoundInv, TypeOK
<1> QED
  BY <1>1, <1>2, <1>3, <1>4, <1>5 DEF InWindow

LEMMA ResolvedUsableStep ==
  ASSUME IInv, ResolvedIsUsable, [Next]_vars
  PROVE  ResolvedIsUsable'
<1>1. TypeOK /\ SentInRound
  BY DEF IInv, RoundInv
<1> SUFFICES ASSUME NEW p \in Party, ignoring'[p], NEW q \in Party
             PROVE  sigs'[p][q] # "none"
  BY DEF ResolvedIsUsable
<1>2. CASE ignoring[p]
  <2>1. SignatureStep(p, q)
    BY <1>1, OutcomeOfStep
  <2> QED
    BY <1>2, <2>1 DEF SignatureStep, ResolvedIsUsable
<1>3. CASE ~ignoring[p]
  <2>1. ASSUME NEW x \in Party, NEW a \in answers, HearResolved(x, a.round)
        PROVE  sigs'[p][q] # "none"
    <3>1. x = p
      BY <1>1, <1>3, <2>1 DEF HearResolved, TypeOK
    <3>2. PICK b \in answers : b.verdict = "resolved" /\ b.round = a.round
      BY <2>1 DEF HearResolved
    <3>3. InWindow(p, a.round)
      BY <3>2, AnswerInWindow
    <3>4. sigs' = [sigs EXCEPT ![p] = [y \in Party |-> "opened"]]
      BY <2>1, <3>1, <3>3 DEF HearResolved
    <3>5. sigs'[p] = [y \in Party |-> "opened"]
      BY <1>1, <3>4 DEF TypeOK
    <3> QED
      BY <3>5
  <2>2. CASE \A x \in Party : ignoring'[x] => ignoring[x]
    BY <1>3, <2>2
  <2>3. \/ \E x \in Party, a \in answers : HearResolved(x, a.round)
        \/ \A x \in Party : ignoring'[x] => ignoring[x]
    <3>1. ASSUME NEW x \in Party, NEW r, AskTrent(x, r), NEW y \in Party, ignoring'[y]
          PROVE  ignoring[y]
      BY <1>1, <3>1 DEF AskTrent, TypeOK
    <3> QED
      BY <1>1, <3>1 DEF Next, PartyStep, Starts, Start, StartRefusing, Refuse, Receive,
         ReceivePromise, Wait, Withdraw, GoOn, ReceiveClear, Hear, HearCancelled, Drop,
         TrentCancels, TrentResolves, partyVars, vars
  <2> QED
    BY <2>1, <2>2, <2>3
<1> QED
  BY <1>2, <1>3

\* Whoever hears that Trent resolved the contract gets all the signatures: the
\* last three rounds are always enough to find those that were opened.
THEOREM ResolvedUsable == Spec => []ResolvedIsUsable
<1>1. Init => ResolvedIsUsable
  BY DEF Init, ResolvedIsUsable
<1> QED
  BY <1>1, Invariant, ResolvedUsableStep, PTL DEF Spec

-----------------------------------------------------------------------------
(***************************************************************************)
(* Nobody rests on a complete round.                                       *)
(***************************************************************************)
LEMMA NoRoundStep ==
  ASSUME TypeOK, NoRoundIsLeftComplete, [Next]_vars
  PROVE  NoRoundIsLeftComplete'
<1> DEFINE Rests(p) == status'[p] = "SIGNING" /\ round'[p] \in Rounds
                         /\ received'[p][round'[p]] = Party
<1> SUFFICES ASSUME NEW p \in Party, Rests(p) PROVE FALSE
  BY DEF NoRoundIsLeftComplete
<1>1. ASSUME status'[p] = status[p], round'[p] = round[p], received'[p] = received[p]
      PROVE  FALSE
  BY <1>1 DEF NoRoundIsLeftComplete
<1>2. ASSUME NEW x \in Party, Starts(x) PROVE FALSE
  <2>1. CASE x # p
    BY <1>1, <1>2, <2>1 DEF Starts, Start, StartRefusing, TypeOK
  <2>2. CASE x = p
    <3>1. Start(p)
      BY <1>2, <2>2 DEF Starts, StartRefusing, TypeOK
    <3>2. 1 \in Rounds /\ 1 \in Party /\ 2 \in Party
      BY Numbers DEF Party
    <3>3. round'[p] = 1 /\ received'[p][1] = {p}
      BY <3>1, <3>2 DEF Start, TypeOK
    <3> QED
      BY <3>2, <3>3
  <2> QED
    BY <2>1, <2>2
<1>3. ASSUME NEW x \in Party, NEW m \in net, ReceivePromise(x, m) PROVE FALSE
  <2> DEFINE h == Holding(x, m)
  <2>1. CASE x # p
    BY <1>1, <1>3, <2>1 DEF ReceivePromise, Wait, Withdraw, GoOn, TypeOK
  <2>2. CASE x = p /\ Wait(x, h)
    BY <2>2 DEF Wait, RoundComplete, TypeOK
  <2>3. CASE x = p /\ Withdraw(x, h)
    BY <2>3 DEF Withdraw, TypeOK
  <2>4. ASSUME NEW t \in Rounds \cup {Last}, x = p, GoOn(x, h, t) PROVE FALSE
    <3>1. /\ t \in Rounds => h[t] \cup {p} # Party
          /\ t \in (round[p] + 1)..Last
          /\ round' = [round EXCEPT ![p] = t]
          /\ received' = [received EXCEPT ![p] =
               [r \in Rounds |-> h[r] \cup (IF r \in (round[p] + 1)..t THEN {p} ELSE {})]]
      BY <2>4 DEF GoOn, StopsAt
    <3>2. round'[p] = t /\ t \in Rounds
      BY <3>1 DEF TypeOK
    <3>3. t \in (round[p] + 1)..t
      BY <3>1, <3>2, Numbers DEF TypeOK
    <3>4. received'[p] =
            [r \in Rounds |-> h[r] \cup (IF r \in (round[p] + 1)..t THEN {p} ELSE {})]
      BY <3>1 DEF TypeOK
    <3>5. received'[p][t] = h[t] \cup {p}
      BY <3>2, <3>3, <3>4
    <3> QED
      BY <3>1, <3>2, <3>5
  <2> QED
    BY <1>3, <2>1, <2>2, <2>3, <2>4 DEF ReceivePromise
<1>4. ASSUME UNCHANGED <<round, received>>,
             status'[p] = status[p] \/ status'[p] \in {"FINALIZED", "CANCELLED"}
      PROVE  FALSE
  BY <1>1, <1>4
<1>5. ASSUME NEW x \in Party, NEW m \in net, ReceiveClear(x, m) PROVE FALSE
  BY <1>4, <1>5 DEF ReceiveClear, TypeOK
<1>6. ASSUME NEW x \in Party, Hear(x) PROVE FALSE
  BY <1>4, <1>6 DEF Hear, HearCancelled, HearResolved, TypeOK
<1>7. ~UNCHANGED <<status, round, received>>
  BY <1>1
<1> QED
  BY <1>2, <1>3, <1>5, <1>6, <1>7
  DEF Next, PartyStep, Receive, Refuse, Drop, TrentCancels, TrentResolves, partyVars, vars

\* A party that signs always waits for somebody: the last promise of a round moves
\* it on, however many promises of later rounds have come before.
THEOREM NeverRestsOnComplete == Spec => []NoRoundIsLeftComplete
<1>1. Init => NoRoundIsLeftComplete
  BY DEF Init, NoRoundIsLeftComplete
<1> QED
  BY <1>1, TypeOKInit, TypeOKStep, NoRoundStep, PTL DEF Spec

-----------------------------------------------------------------------------
(***************************************************************************)
(* The refinement.                                                         *)
(***************************************************************************)
Decided == {"FINALIZED", "CANCELLED"}

\* A step changes the status of one party only, and never undoes a decision.
OneMoves(x) ==
  /\ \A p \in Party : p # x => status'[p] = status[p]
  /\ status[x] \in Decided => status'[x] \in Decided

LEMMA OnePartyMoves ==
  ASSUME TypeOK, [Next]_vars
  PROVE  \E x \in Party : OneMoves(x)
<1>1. ASSUME NEW x \in Party, NEW v, status' = [status EXCEPT ![x] = v],
             v \in Decided \/ status[x] \in Active
      PROVE  OneMoves(x)
  BY <1>1 DEF TypeOK, OneMoves, Decided, Active
<1>2. ASSUME NEW x \in Party, Starts(x) PROVE OneMoves(x)
  <2>1. status[x] \in Active
    BY <1>2 DEF Starts, Start, StartRefusing, Active
  <2> QED
    BY <1>1, <1>2, <2>1 DEF Starts, Start, StartRefusing
<1>3. ASSUME UNCHANGED status PROVE OneMoves(1) /\ 1 \in Party
  BY <1>3, Numbers DEF OneMoves, Party
<1>4. ASSUME NEW x \in Party, NEW m \in net, ReceivePromise(x, m)
      PROVE  \E y \in Party : OneMoves(y)
  <2> DEFINE h == Holding(x, m)
  <2>1. CASE Wait(x, h)
    BY <1>3, <2>1 DEF Wait
  <2>2. CASE Withdraw(x, h)
    BY <1>1, <2>2 DEF Withdraw, RoundComplete, Active
  <2>3. ASSUME NEW t \in Rounds \cup {Last}, GoOn(x, h, t)
        PROVE  \E y \in Party : OneMoves(y)
    <3>1. status' = status \/ status' = [status EXCEPT ![x] = "FINALIZED"]
      BY <2>3 DEF GoOn
    <3> QED
      BY <1>1, <1>3, <3>1 DEF Decided
  <2> QED
    BY <1>4, <2>1, <2>2, <2>3 DEF ReceivePromise
<1>5. ASSUME NEW x \in Party, NEW m \in net, ReceiveClear(x, m)
      PROVE  \E y \in Party : OneMoves(y)
  BY <1>1, <1>3, <1>5 DEF ReceiveClear, Decided
<1>6. ASSUME NEW x \in Party, Hear(x) PROVE \E y \in Party : OneMoves(y)
  BY <1>1, <1>3, <1>6 DEF Hear, HearCancelled, HearResolved, Decided
<1> QED
  BY <1>2, <1>3, <1>4, <1>5, <1>6
  DEF Next, PartyStep, Receive, Refuse, Drop, TrentCancels, TrentResolves, partyVars, vars

\* A decision stays what it was.
LEMMA DecidedStays ==
  ASSUME IInv, [Next]_vars, NEW p \in Party, status[p] \in Decided, status'[p] \in Decided
  PROVE  status'[p] = status[p]
<1>1. TypeOK /\ SentInRound /\ IInv'
  BY IInvStep DEF IInv, RoundInv
<1>2. NoneIfCancelled'
  BY <1>1, CancelledHasNone, PTL
<1>3. CASE status[p] = "CANCELLED" /\ status'[p] = "FINALIZED"
  <2>1. PICK a \in answers' : a.verdict = "cancelled"
    BY <1>1, <1>3, AnswersStep DEF IInv, Signing, CancelledByTrent
  <2>2. \A q \in Party : sigs'[p][q] = "none"
    BY <1>2, <2>1 DEF NoneIfCancelled
  <2> QED
    BY <1>1, <1>3, <2>2 DEF IInv, Signing, FinalizedIsSigned
<1>4. CASE status[p] = "FINALIZED" /\ status'[p] = "CANCELLED"
  <2>1. PICK q \in Party : sigs[p][q] # "none"
    BY <1>4 DEF IInv, Signing, FinalizedIsSigned
  <2>2. sigs'[p][q] # "none"
    BY <1>1, <2>1, OutcomeOfStep DEF SignatureStep
  <2>3. \E a \in answers' : a.verdict = "cancelled"
    BY <1>1, <1>4 DEF IInv, Signing, CancelledByTrent
  <2> QED
    BY <1>2, <2>2, <2>3 DEF NoneIfCancelled
<1> QED
  BY <1>3, <1>4 DEF Decided

LEMMA RefinementStep ==
  ASSUME IInv, [Next]_vars
  PROVE  [O!Next]_Outcome
<1>1. TypeOK /\ TypeOK' /\ IInv'
  BY IInvStep, TypeOKStep DEF IInv, RoundInv
<1>2. PICK x \in Party : OneMoves(x)
  BY <1>1, OnePartyMoves
<1>3. /\ status \in [Party -> Status]
      /\ status' \in [Party -> Status]
  BY <1>1 DEF TypeOK
<1>4. NobodyDiffers'
  BY <1>1, NotBoth, PTL
<1>5. CASE Outcome'[x] = Outcome[x]
  <2>1. \A p \in Party : Outcome'[p] = Outcome[p]
    BY <1>2, <1>5 DEF OneMoves, Outcome
  <2>2. Outcome' = Outcome
    BY <2>1 DEF Outcome
  <2> QED
    BY <2>2
<1>6. CASE Outcome'[x] # Outcome[x]
  <2>1. status[x] \notin Decided /\ status'[x] \in Decided
    <3>1. CASE status[x] \in Decided
      <4>1. status'[x] = status[x]
        BY <1>2, <3>1, DecidedStays DEF OneMoves
      <4> QED
        BY <1>6, <4>1 DEF Outcome
    <3>2. CASE status[x] \notin Decided /\ status'[x] \notin Decided
      BY <1>6, <3>2 DEF Outcome, Decided
    <3> QED
      BY <3>1, <3>2
  <2>2. Outcome[x] = "open"
    BY <2>1 DEF Outcome, Decided
  <2>3. CASE status'[x] = "FINALIZED"
    <3>1. Outcome' = [Outcome EXCEPT ![x] = "signed"]
      BY <1>2, <2>3 DEF Outcome, OneMoves
    <3>2. ASSUME NEW q \in Party PROVE Outcome[q] # "cancelled"
      <4>1. status'[q] # "CANCELLED"
        BY <1>4, <2>3 DEF NobodyDiffers
      <4>2. status[q] # "CANCELLED"
        BY <1>2, <2>1, <4>1 DEF OneMoves, Decided
      <4> QED
        BY <4>2 DEF Outcome
    <3> QED
      BY <2>2, <3>1, <3>2 DEF O!Next, O!Sign
  <2>4. CASE status'[x] = "CANCELLED"
    <3>1. Outcome' = [Outcome EXCEPT ![x] = "cancelled"]
      BY <1>2, <2>4 DEF Outcome, OneMoves
    <3>2. ASSUME NEW q \in Party PROVE Outcome[q] # "signed"
      <4>1. status'[q] # "FINALIZED"
        BY <1>4, <2>4 DEF NobodyDiffers
      <4>2. status[q] # "FINALIZED"
        BY <1>2, <2>1, <4>1 DEF OneMoves, Decided
      <4> QED
        BY <4>2 DEF Outcome
    <3> QED
      BY <2>2, <3>1, <3>2 DEF O!Next, O!Cancel
  <2> QED
    BY <2>1, <2>3, <2>4 DEF Decided
<1> QED
  BY <1>5, <1>6

\* The signing step implements SigmaOutcome, for any number of parties: the parties
\* never end one with the contract signed and another with the contract cancelled,
\* and no party goes from one outcome to the other.
THEOREM SigmaSignImplementsOutcome == Spec => ImplementsOutcome
<1>1. Init => O!Init
  BY DEF Init, O!Init, Outcome
<1> QED
  BY <1>1, Invariant, RefinementStep, PTL DEF Spec, ImplementsOutcome, O!Spec

-----------------------------------------------------------------------------
(***************************************************************************)
(* As long as all accept: what AllFinalized rests on.  The first party has *)
(* the last word: a contract is finalized at a party that has its          *)
(* signature, and it signs when it is through with the promises.           *)
(***************************************************************************)
Willing == \A p \in Party : wish[p] = "ACCEPT"

\* All promises and the signature of the rounds that p entered can be found.
OwnIsOut(p) ==
  \A r \in 1..round[p] : /\ Persistent => Copies(p, {r}) \subseteq net
                         /\ r \in Rounds => p \in received[p][r]

FirstDecides(p) ==
  /\ status[p] \in {"NOWHERE", "SIGNING", "FINALIZED"}
  /\ listening[p] => status[p] # "NOWHERE"
  /\ status[p] # "NOWHERE" => round[p] # 0
  /\ status[p] = "SIGNING" => listening[p] /\ sigs[p][1] # "clear"
  /\ status[p] = "FINALIZED" => sigs[p][1] = "clear"
  /\ \A q \in Party : sigs[p][q] # "opened"
  /\ round[p] = Last => sigs[p][p] = "clear"

IsWilling(p) == OwnIsOut(p) /\ FirstDecides(p)

WillingInv == Willing => requests = {} /\ \A p \in Party : IsWilling(p)

\* The loop of isFinalized when Trent has opened nothing.
LEMMA FirstSignature ==
  ASSUME NEW s, \A q \in Party : s[q] # "opened"
  PROVE  isFinalized(s) <=> s[1] = "clear"
<1>1. 1 \in Party /\ 1..(1 - 1) = {}
  BY Numbers DEF Party
<1>2. \A k \in Party : k # 1 => 1 \in 1..(k - 1)
  BY Numbers DEF Party
<1> QED
  BY <1>1, <1>2 DEF isFinalized

LEMMA UntouchedIsWilling ==
  ASSUME NEW q \in Party, IsWilling(q), round'[q] = round[q], received'[q] = received[q],
         status'[q] = status[q], listening'[q] = listening[q], sigs'[q] = sigs[q],
         Persistent => net \subseteq net'
  PROVE  IsWilling(q)'
  BY DEF IsWilling, OwnIsOut, FirstDecides

LEMMA WillingStart ==
  ASSUME IInv, requests = {}, NEW p \in Party, Start(p), \A q \in Party : IsWilling(q)
  PROVE  requests' = {} /\ \A q \in Party : IsWilling(q)'
<1>1. TypeOK /\ 1 \in Rounds /\ 1 # Last
  BY Numbers DEF IInv, RoundInv
<1>2. answers = {}
  BY DEF IInv, AnswersWereAsked
<1>3. /\ status[p] = "NOWHERE" /\ status' = [status EXCEPT ![p] = "SIGNING"]
      /\ round' = [round EXCEPT ![p] = 1]
      /\ received' = [received EXCEPT ![p][1] = {p}]
      /\ listening' = [listening EXCEPT ![p] = TRUE]
      /\ net' = net \cup Copies(p, {1})
      /\ UNCHANGED <<sigs, requests>>
  BY <1>2 DEF Start
<1>4. /\ status'[p] = "SIGNING" /\ round'[p] = 1 /\ received'[p][1] = {p}
      /\ listening'[p] = TRUE /\ sigs'[p] = sigs[p]
  BY <1>1, <1>3 DEF TypeOK
<1>5. sigs[p][1] # "clear"
  <2>1. 1 \in Party /\ p \in Party
    BY Numbers DEF Party
  <2>2. ~(round[1] = Last)
    <3>1. round[p] = 0 /\ round[1] \in 0..Last
      BY <1>1, <1>3, <2>1 DEF IInv, NotStarted, TypeOK
    <3>2. round[1] <= round[p] + 1
      BY <2>1, RoundInvImpliesInStep DEF IInv, RoundsInStep
    <3> QED
      BY <3>1, <3>2, Numbers
  <2> QED
    BY <2>1, <2>2 DEF IInv, Signing, ClearWasSent
<1>6. ASSUME NEW q \in Party PROVE IsWilling(q)'
  <2>1. CASE q = p
    <3>1. OwnIsOut(p)'
      <4>1. 1..round'[p] = {1}
        BY <1>4
      <4> QED
        BY <1>3, <1>4, <4>1 DEF OwnIsOut
    <3>2. FirstDecides(p)'
      BY <1>1, <1>4, <1>5 DEF IsWilling, FirstDecides
    <3> QED
      BY <2>1, <3>1, <3>2 DEF IsWilling
  <2>2. CASE q # p
    <3>1. /\ round'[q] = round[q] /\ received'[q] = received[q] /\ status'[q] = status[q]
          /\ listening'[q] = listening[q] /\ sigs'[q] = sigs[q] /\ net \subseteq net'
      BY <1>1, <1>3, <2>2 DEF TypeOK
    <3> QED
      BY <3>1, UntouchedIsWilling
  <2> QED
    BY <2>1, <2>2
<1> QED
  BY <1>3, <1>6

LEMMA WillingPromise ==
  ASSUME IInv, requests = {}, Willing, NEW p \in Party, NEW m \in net, ReceivePromise(p, m),
         \A q \in Party : IsWilling(q)
  PROVE  requests' = {} /\ \A q \in Party : IsWilling(q)'
<1> DEFINE h == Holding(p, m)
<1>1. TypeOK /\ m \in Messages /\ m.round \in Rounds
  BY DEF IInv, RoundInv, TypeOK, ReceivePromise
<1>2. Persistent => Delivered(m) = net
  BY DEF Delivered
<1>3. h \in [Rounds -> SUBSET Party] /\ \A r \in Rounds : received[p][r] \subseteq h[r]
  BY <1>1, HoldingType
<1>4. ~Withdraw(p, h)
  BY DEF Withdraw, Willing
<1> HIDE DEF h
<1>5. ASSUME Wait(p, h), net' = Delivered(m)
      PROVE  requests' = {} /\ \A q \in Party : IsWilling(q)'
  <2>1. /\ received' = [received EXCEPT ![p] = h]
        /\ UNCHANGED <<status, round, sigs, listening, requests>>
    BY <1>5 DEF Wait
  <2>2. received'[p] = h /\ \A q \in Party : q # p => received'[q] = received[q]
    BY <1>1, <1>3, <2>1 DEF TypeOK
  <2>3. \A q \in Party : \A r \in Rounds : received[q][r] \subseteq received'[q][r]
    BY <1>3, <2>2
  <2>4. \A q \in Party : IsWilling(q)'
    BY <1>2, <1>5, <2>1, <2>3 DEF IsWilling, OwnIsOut, FirstDecides
  <2> QED
    BY <2>1, <2>4
<1>6. ASSUME NEW t \in Rounds \cup {Last}, GoOn(p, h, t),
             net' = Delivered(m) \cup Copies(p, (round[p] + 1)..t)
      PROVE  requests' = {} /\ \A q \in Party : IsWilling(q)'
  <2>1. /\ status[p] = "SIGNING"
        /\ round' = [round EXCEPT ![p] = t]
        /\ received' = [received EXCEPT ![p] =
             [r \in Rounds |-> h[r] \cup (IF r \in (round[p] + 1)..t THEN {p} ELSE {})]]
        /\ sigs' = IF t = Last THEN [sigs EXCEPT ![p][p] = "clear"] ELSE sigs
        /\ status' = IF t = Last /\ isFinalized(sigs'[p])
                       THEN [status EXCEPT ![p] = "FINALIZED"] ELSE status
        /\ UNCHANGED <<listening, requests>>
        /\ round[p] \in Rounds /\ t \in (round[p] + 1)..Last
    BY <1>6 DEF GoOn, RoundComplete, StopsAt
  <2>2. /\ round'[p] = t
        /\ received'[p] =
             [r \in Rounds |-> h[r] \cup (IF r \in (round[p] + 1)..t THEN {p} ELSE {})]
    BY <1>1, <2>1 DEF TypeOK
  <2>3. \A q \in Party : q # p =>
          /\ round'[q] = round[q] /\ received'[q] = received[q] /\ status'[q] = status[q]
          /\ listening'[q] = listening[q] /\ sigs'[q] = sigs[q]
    BY <1>1, <2>1 DEF TypeOK
  <2>4. OwnIsOut(p)'
    <3>1. ASSUME NEW r \in 1..t
          PROVE  /\ Persistent => Copies(p, {r}) \subseteq net'
                 /\ r \in Rounds => p \in received'[p][r]
      <4>1. CASE r \in (round[p] + 1)..t
        BY <1>6, <2>2, <4>1 DEF Copies
      <4>2. CASE r \in 1..round[p]
        <5>1. /\ Persistent => Copies(p, {r}) \subseteq net
              /\ r \in Rounds => p \in received[p][r]
          BY <4>2 DEF IsWilling, OwnIsOut
        <5> QED
          BY <1>2, <1>3, <1>6, <2>2, <5>1
      <4>3. round[p] \in Nat /\ t \in Nat
        BY <2>1, Numbers
      <4>4. r \in (round[p] + 1)..t \/ r \in 1..round[p]
        BY <4>3
      <4> QED
        BY <4>1, <4>2, <4>4
    <3> QED
      BY <2>2, <3>1 DEF OwnIsOut
  <2>5. FirstDecides(p)'
    <3>1. CASE t = Last
      <4>1. /\ sigs'[p] = [sigs[p] EXCEPT ![p] = "clear"] /\ sigs'[p][p] = "clear"
            /\ \A q \in Party : sigs'[p][q] # "opened"
        BY <1>1, <2>1, <3>1 DEF TypeOK, IsWilling, FirstDecides
      <4>2. isFinalized(sigs'[p]) <=> sigs'[p][1] = "clear"
        <5> DEFINE s == sigs'[p]
        <5>1. \A q \in Party : s[q] # "opened"
          BY <4>1
        <5> HIDE DEF s
        <5>2. isFinalized(s) <=> s[1] = "clear"
          BY <5>1, FirstSignature
        <5> QED
          BY <5>2 DEF s
      <4>3. status'[p] = IF isFinalized(sigs'[p]) THEN "FINALIZED" ELSE "SIGNING"
        BY <1>1, <2>1, <3>1 DEF TypeOK
      <4>4. listening'[p] /\ round'[p] # 0
        BY <2>1, <2>2, <3>1, Numbers DEF IsWilling, FirstDecides
      <4> QED
        BY <4>1, <4>2, <4>3, <4>4 DEF FirstDecides
    <3>2. CASE t # Last
      <4>1. sigs' = sigs /\ status' = status /\ listening' = listening /\ round'[p] # Last
            /\ round'[p] # 0
        BY <2>1, <2>2, <3>2, Numbers
      <4> QED
        BY <4>1 DEF IsWilling, FirstDecides
    <3> QED
      BY <3>1, <3>2
  <2>6. ASSUME NEW q \in Party, q # p PROVE IsWilling(q)'
    <3>1. Persistent => net \subseteq net'
      BY <1>2, <1>6
    <3> QED
      BY <2>3, <2>6, <3>1, UntouchedIsWilling
  <2> QED
    BY <2>1, <2>4, <2>5, <2>6 DEF IsWilling
<1> QED
  BY <1>4, <1>5, <1>6 DEF ReceivePromise, h

LEMMA WillingClear ==
  ASSUME IInv, requests = {}, NEW p \in Party, NEW m \in net, ReceiveClear(p, m),
         \A q \in Party : IsWilling(q)
  PROVE  requests' = {} /\ \A q \in Party : IsWilling(q)'
<1>1. TypeOK /\ m.from \in Party
  BY DEF IInv, RoundInv, TypeOK, Messages
<1>2. /\ listening[p]
      /\ sigs' = [sigs EXCEPT ![p][m.from] = "clear"]
      /\ IF isFinalized(sigs'[p])
           THEN /\ status' = [status EXCEPT ![p] = "FINALIZED"]
                /\ listening' = [listening EXCEPT ![p] = FALSE]
           ELSE UNCHANGED <<status, listening>>
      /\ UNCHANGED <<round, received, requests>>
      /\ Persistent => net' = net
  BY DEF ReceiveClear, Delivered
<1>3. \A q \in Party : q # p =>
        status'[q] = status[q] /\ listening'[q] = listening[q] /\ sigs'[q] = sigs[q]
  BY <1>1, <1>2 DEF TypeOK
<1>4. /\ sigs'[p] = [sigs[p] EXCEPT ![m.from] = "clear"]
      /\ \A q \in Party : sigs'[p][q] # "opened"
      /\ \A q \in Party : sigs[p][q] = "clear" => sigs'[p][q] = "clear"
  BY <1>1, <1>2 DEF TypeOK, IsWilling, FirstDecides
<1>5. isFinalized(sigs'[p]) <=> sigs'[p][1] = "clear"
  <2> DEFINE s == sigs'[p]
  <2>1. \A q \in Party : s[q] # "opened"
    BY <1>4
  <2> HIDE DEF s
  <2>2. isFinalized(s) <=> s[1] = "clear"
    BY <2>1, FirstSignature
  <2> QED
    BY <2>2 DEF s
<1>6. FirstDecides(p)'
  <2>1. FirstDecides(p) /\ 1 \in Party
    BY Numbers DEF IsWilling, Party
  <2>2. CASE isFinalized(sigs'[p])
    <3>1. status'[p] = "FINALIZED" /\ listening'[p] = FALSE
      BY <1>1, <1>2, <2>2 DEF TypeOK
    <3> QED
      BY <1>2, <1>4, <1>5, <2>1, <2>2, <3>1 DEF FirstDecides
  <2>3. CASE ~isFinalized(sigs'[p])
    <3>1. status'[p] = status[p] /\ listening'[p] = listening[p]
      BY <1>2, <2>3
    <3> QED
      BY <1>2, <1>4, <1>5, <2>1, <2>3, <3>1 DEF FirstDecides
  <2> QED
    BY <2>2, <2>3
<1>7. OwnIsOut(p)'
  BY <1>2 DEF IsWilling, OwnIsOut
<1>8. ASSUME NEW q \in Party, q # p PROVE IsWilling(q)'
  BY <1>2, <1>3, <1>8, UntouchedIsWilling
<1> QED
  BY <1>2, <1>6, <1>7, <1>8 DEF IsWilling

LEMMA WillingStep ==
  ASSUME IInv, WillingInv, [Next]_vars
  PROVE  WillingInv'
<1> SUFFICES ASSUME Willing'
             PROVE  requests' = {} /\ \A p \in Party : IsWilling(p)'
  BY DEF WillingInv
<1>1. TypeOK
  BY DEF IInv, RoundInv
<1>2. Willing /\ ~\E p \in Party : Refuse(p)
  <2>1. UNCHANGED wish \/ \E p \in Party : Refuse(p)
    BY DEF Next, PartyStep, Starts, Start, StartRefusing, Receive, ReceivePromise, ReceiveClear,
       Drop, Hear, HearCancelled, HearResolved, TrentCancels, TrentResolves, partyVars, vars
  <2>2. ASSUME NEW p \in Party, Refuse(p) PROVE FALSE
    <3>1. wish'[p] = "REFUSE"
      BY <1>1, <2>2 DEF Refuse, TypeOK
    <3> QED
      BY <3>1 DEF Willing
  <2> QED
    BY <2>1, <2>2 DEF Willing
<1>3. requests = {} /\ \A p \in Party : IsWilling(p)
  BY <1>2 DEF WillingInv
<1>4. answers = {}
  BY <1>3 DEF IInv, AnswersWereAsked
<1>5. ASSUME NEW p \in Party, Starts(p)
      PROVE  requests' = {} /\ \A q \in Party : IsWilling(q)'
  <2>1. Start(p)
    BY <1>2, <1>5 DEF Starts, StartRefusing, Willing
  <2> QED
    BY <1>3, <2>1, WillingStart
<1>6. ASSUME NEW p \in Party, NEW m \in net, ReceivePromise(p, m) \/ ReceiveClear(p, m)
      PROVE  requests' = {} /\ \A q \in Party : IsWilling(q)'
  BY <1>2, <1>3, <1>6, WillingPromise, WillingClear
<1>7. ASSUME UNCHANGED <<partyVars, requests>>, Persistent => net' = net
      PROVE  requests' = {} /\ \A q \in Party : IsWilling(q)'
  BY <1>3, <1>7, UntouchedIsWilling DEF partyVars
<1>8. ~\E p \in Party : Hear(p)
  BY <1>4 DEF Hear, HearCancelled
<1> QED
  BY <1>2, <1>3, <1>5, <1>6, <1>7, <1>8
  DEF Next, PartyStep, Receive, Drop, TrentCancels, TrentResolves, vars

LEMMA WillingInvInit == Init => WillingInv
<1>1. ASSUME Init, NEW p \in Party PROVE IsWilling(p)
  <2>1. /\ status[p] = "NOWHERE" /\ round[p] = 0 /\ listening[p] = FALSE
        /\ \A q \in Party : sigs[p][q] = "none"
    BY <1>1 DEF Init
  <2>2. 1..0 = {} /\ 0 # Last
    BY Numbers
  <2> QED
    BY <2>1, <2>2 DEF IsWilling, OwnIsOut, FirstDecides
<1>2. Init => requests = {}
  BY DEF Init
<1> QED
  BY <1>1, <1>2 DEF WillingInv

LEMMA WillingInvariant == Spec => []WillingInv
<1> QED
  BY WillingInvInit, WillingStep, Invariant, PTL DEF Spec

\* No party is behind all others by more than one round, so that one is last.
LEMMA SlowestParty ==
  ASSUME TypeOK, RoundsInStep
  PROVE  \E p \in Party : \A q \in Party : round[p] <= round[q]
<1>1. \A p \in Party : round[p] \in Nat
  BY Numbers DEF TypeOK
<1>2. CASE \E p, q \in Party : round[p] < round[q]
  <2>1. PICK p \in Party, q \in Party : round[p] < round[q]
    BY <1>2
  <2>2. \A x \in Party : round[p] <= round[x]
    BY <1>1, <2>1 DEF RoundsInStep
  <2> QED
    BY <2>2
<1>3. CASE ~\E p, q \in Party : round[p] < round[q]
  <2>1. 1 \in Party
    BY Numbers DEF Party
  <2> QED
    BY <1>1, <1>3, <2>1
<1> QED
  BY <1>2, <1>3

\* All parties have started, and no message that can be found by a party that
\* listens brings it anything new.
AllIsFound ==
  /\ \A p \in Party : status[p] # "NOWHERE"
  /\ \A m \in net : listening[m.to] =>
       IF m.round \in Rounds THEN m.from \in received[m.to][m.round]
       ELSE sigs[m.to][m.from] = "clear"

\* With advertisements, and as long as nobody refuses, there is no state in which all
\* that was published has been found and a party still waits: a party whose contract
\* is finalized by an early signature, and that listens no more, leaves nobody behind.
\* With the theorem below, AllFinalized only asks that advertisements are found.
THEOREM NobodyIsLeft ==
  Spec => [](Persistent /\ Willing /\ AllIsFound => \A p \in Party : status[p] = "FINALIZED")
<1>1. ASSUME IInv, WillingInv, NoRoundIsLeftComplete, Persistent, Willing, AllIsFound,
             NEW x \in Party
      PROVE  status[x] = "FINALIZED"
  <2>1. /\ TypeOK /\ RoundsInStep /\ 1 \in Party
        /\ \A p \in Party : round[p] \in 0..Last /\ round[p] # 0 /\ IsWilling(p)
    BY <1>1, RoundInvImpliesInStep, Numbers
    DEF IInv, RoundInv, TypeOK, WillingInv, AllIsFound, IsWilling, FirstDecides, Party
  <2>2. \A p \in Party : status[p] \in {"SIGNING", "FINALIZED"}
    BY <1>1, <2>1 DEF AllIsFound, IsWilling, FirstDecides
  <2>3. ASSUME NEW p \in Party, status[p] = "SIGNING", NEW q \in Party, q # p,
               NEW r \in 1..round[q]
        PROVE  IF r \in Rounds THEN q \in received[p][r] ELSE sigs[p][q] = "clear"
    <3>1. PICK m : m = [from |-> q, to |-> p, round |-> r]
      OBVIOUS
    <3>2. m \in net
      BY <1>1, <2>1, <2>3, <3>1 DEF IsWilling, OwnIsOut, Copies
    <3>3. m.to = p /\ m.from = q /\ m.round = r /\ listening[p]
      BY <2>1, <2>3, <3>1 DEF IsWilling, FirstDecides
    <3> QED
      BY <1>1, <3>2, <3>3 DEF AllIsFound
  <2>4. round[1] = Last
    <3> SUFFICES ASSUME round[1] # Last PROVE FALSE
      OBVIOUS
    <3>1. \A p \in Party : status[p] = "SIGNING"
      <4>1. \A p \in Party : sigs[p][1] # "clear"
        BY <1>1, <2>1 DEF IInv, Signing, ClearWasSent
      <4> QED
        BY <2>1, <2>2, <4>1 DEF IsWilling, FirstDecides
    <3>2. PICK p \in Party : \A q \in Party : round[p] <= round[q]
      BY <2>1, SlowestParty
    <3> DEFINE r == round[p]
    <3>3. r \in Rounds
      <4>1. r \in 0..Last /\ r # 0 /\ r <= round[1] /\ round[1] \in 0..Last
        BY <2>1, <3>2
      <4> QED
        BY <4>1, Numbers
    <3>4. ASSUME NEW q \in Party PROVE q \in received[p][r]
      <4>1. r \in 1..round[q]
        BY <2>1, <3>2, <3>3, Numbers
      <4>2. CASE q = p
        BY <2>1, <3>3, <4>1, <4>2 DEF IsWilling, OwnIsOut
      <4>3. CASE q # p
        BY <2>3, <3>1, <3>3, <4>1, <4>3
      <4> QED
        BY <4>2, <4>3
    <3>5. received[p][r] = Party
      <4>1. received[p][r] \subseteq Party
        BY <2>1, <3>3 DEF TypeOK
      <4> QED
        BY <3>4, <4>1
    <3> QED
      BY <1>1, <3>1, <3>3, <3>5 DEF NoRoundIsLeftComplete
  <2>5. sigs[x][1] = "clear" \/ status[x] = "FINALIZED"
    <3>1. CASE x = 1
      BY <2>1, <2>4, <3>1 DEF IsWilling, FirstDecides
    <3>2. CASE x # 1 /\ status[x] = "SIGNING"
      <4>1. Last \in 1..round[1] /\ Last \notin Rounds
        BY <2>4, Numbers
      <4> QED
        BY <2>1, <2>3, <3>2, <4>1
    <3> QED
      BY <2>2, <3>1, <3>2
  <2> QED
    BY <2>1, <2>2, <2>5 DEF IsWilling, FirstDecides
<1> DEFINE Left == Persistent /\ Willing /\ AllIsFound => \A p \in Party : status[p] = "FINALIZED"
<1>2. IInv /\ WillingInv /\ NoRoundIsLeftComplete => Left
  BY <1>1
<1> QED
  BY <1>2, Invariant, WillingInvariant, NeverRestsOnComplete, PTL

\* Who has not started holds nothing.
StartsWithNothing ==
  \A p \in Party : status[p] = "NOWHERE" =>
    ~listening[p] /\ \A r \in Rounds : received[p][r] = {}

LEMMA NothingStep ==
  ASSUME IInv, StartsWithNothing, [Next]_vars
  PROVE  StartsWithNothing'
<1> SUFFICES ASSUME NEW q \in Party, status'[q] = "NOWHERE"
             PROVE  ~listening'[q] /\ \A r \in Rounds : received'[q][r] = {}
  BY DEF StartsWithNothing
<1> DEFINE Goal == ~listening'[q] /\ \A r \in Rounds : received'[q][r] = {}
<1>1. TypeOK /\ status[q] = "NOWHERE"
  BY StatusStep DEF IInv, RoundInv, LeavesAlone
<1>2. ~listening[q] /\ \A r \in Rounds : received[q][r] = {}
  BY <1>1 DEF StartsWithNothing
<1>3. ASSUME NEW p \in Party, Starts(p) PROVE Goal
  <2>1. p # q
    BY <1>1, <1>3 DEF Starts, Start, StartRefusing, TypeOK
  <2> QED
    BY <1>1, <1>2, <1>3, <2>1 DEF Starts, Start, StartRefusing, TypeOK
<1>4. ASSUME NEW p \in Party, NEW m \in net, ReceivePromise(p, m) PROVE Goal
  <2>1. p # q
    BY <1>2, <1>4 DEF ReceivePromise
  <2> QED
    BY <1>1, <1>2, <1>4, <2>1 DEF ReceivePromise, Wait, Withdraw, GoOn, TypeOK
<1>5. ASSUME UNCHANGED received,
             listening' = listening \/ \E p \in Party : listening' = [listening EXCEPT ![p] = FALSE]
      PROVE  Goal
  BY <1>1, <1>2, <1>5 DEF TypeOK
<1> QED
  BY <1>3, <1>4, <1>5
  DEF Next, PartyStep, Receive, Hear, Refuse, ReceiveClear, Drop, HearCancelled, HearResolved,
      TrentCancels, TrentResolves, partyVars, vars

\* What is held is kept, and nobody goes back to an earlier round.
OnlyMore ==
  \A p \in Party : /\ round[p] <= round'[p]
                   /\ \A r \in Rounds : received[p][r] \subseteq received'[p][r]

\* Every party only goes forward: no promise that was stored is lost, though the step
\* stores its own one over whatever is there, and no message takes a party back to
\* a round that it left. As rounds are N+2 at most, nobody advances for ever.
THEOREM OnlyForward == Spec => [][OnlyMore]_vars
<1>1. ASSUME IInv, StartsWithNothing, [Next]_vars PROVE OnlyMore
  <2>1. TypeOK /\ \A p \in Party : round[p] \in Nat
    BY <1>1, Numbers DEF IInv, RoundInv, TypeOK
  <2>2. ASSUME NEW x \in Party, Starts(x) PROVE OnlyMore
    <3>1. round[x] = 0 /\ round' = [round EXCEPT ![x] = 1] /\ received[x][1] = {}
      BY <1>1, <2>2, Numbers DEF Starts, Start, StartRefusing, IInv, NotStarted, StartsWithNothing
    <3>2. received' = received \/ received' = [received EXCEPT ![x][1] = {x}]
      BY <2>2 DEF Starts, Start, StartRefusing
    <3>3. \A p \in Party : round[p] <= round'[p]
      BY <2>1, <3>1 DEF TypeOK
    <3>4. CASE received' = received
      BY <3>3, <3>4 DEF OnlyMore
    <3>5. CASE received' = [received EXCEPT ![x][1] = {x}]
      <4>1. ASSUME NEW p \in Party, NEW r \in Rounds
            PROVE  received[p][r] \subseteq received'[p][r]
        <5>1. CASE p = x /\ r = 1
          BY <3>1, <5>1
        <5>2. CASE ~(p = x /\ r = 1)
          BY <2>1, <3>5, <5>2 DEF TypeOK
        <5> QED
          BY <5>1, <5>2
      <4> QED
        BY <3>3, <4>1 DEF OnlyMore
    <3> QED
      BY <3>2, <3>4, <3>5
  <2>3. ASSUME NEW x \in Party, NEW m \in net, ReceivePromise(x, m) PROVE OnlyMore
    <3>1. PICK t, rc : PromiseEffect(x, m, t, rc)
      BY <1>1, <2>3, PromiseStep DEF IInv
    <3>2. /\ round[x] <= t /\ round' = [round EXCEPT ![x] = t]
          /\ received' = [received EXCEPT ![x] = rc]
          /\ \A r \in Rounds : received[x][r] \subseteq rc[r]
      BY <3>1 DEF PromiseEffect
    <3> QED
      BY <2>1, <3>2 DEF OnlyMore, TypeOK
  <2>4. CASE UNCHANGED <<round, received>>
    BY <2>1, <2>4 DEF OnlyMore
  <2> QED
    BY <1>1, <2>1, <2>2, <2>3, <2>4, OtherSteps
<1>2. Init => StartsWithNothing
  BY DEF Init, StartsWithNothing
<1>3. IInv /\ StartsWithNothing /\ [Next]_vars => StartsWithNothing'
  BY NothingStep
<1>4. IInv /\ StartsWithNothing /\ [Next]_vars => [OnlyMore]_vars
  BY <1>1
<1> QED
  BY <1>2, <1>3, <1>4, Invariant, PTL DEF Spec
-----------------------------------------------------------------------------
(***************************************************************************)
(* What an answer of Trent settles.                                        *)
(***************************************************************************)
IsSettled(p) == status[p] \in {"CANCELLED", "FINALIZED"}

\* Who no longer recognises the key of Trent does not need him any more.
IgnoringIsSettled == \A p \in Party : ignoring[p] => status[p] = "FINALIZED"

LEMMA OpenedIsFinalized ==
  ASSUME IInv, NEW p \in Party, NEW a \in answers, HearResolved(p, a.round)
  PROVE  /\ status' = [status EXCEPT ![p] = "FINALIZED"]
         /\ ignoring' = [ignoring EXCEPT ![p] = TRUE]
<1>1. TypeOK
  BY DEF IInv, RoundInv
<1>2. PICK b \in answers : b.verdict = "resolved" /\ b.round = a.round
  BY DEF HearResolved
<1>3. InWindow(p, a.round)
  BY <1>2, AnswerInWindow
<1>4. sigs' = [sigs EXCEPT ![p] = [q \in Party |-> "opened"]]
  BY <1>3 DEF HearResolved
<1>5. sigs'[p] = [q \in Party |-> "opened"]
  BY <1>1, <1>4 DEF TypeOK
<1>6. isFinalized(sigs'[p])
  BY <1>5 DEF isFinalized
<1> QED
  BY <1>6 DEF HearResolved

LEMMA IgnoringStep ==
  ASSUME IInv, IgnoringIsSettled, [Next]_vars
  PROVE  IgnoringIsSettled'
<1>1. TypeOK
  BY DEF IInv, RoundInv
<1> SUFFICES ASSUME NEW p \in Party, ignoring'[p]
             PROVE  status'[p] = "FINALIZED"
  BY DEF IgnoringIsSettled
<1> DEFINE Goal == status'[p] = "FINALIZED"
<1>2. ignoring[p] => status[p] = "FINALIZED"
  BY DEF IgnoringIsSettled
<1>3. ASSUME NEW x \in Party, Starts(x) PROVE Goal
  <2>1. status[x] = "NOWHERE" /\ \A y \in Party : y # x => status'[y] = status[y]
    BY <1>1, <1>3 DEF Starts, Start, StartRefusing, TypeOK
  <2>2. ignoring' = ignoring \/ ignoring' = [ignoring EXCEPT ![x] = FALSE]
    BY <1>3 DEF Starts, Start, StartRefusing, AskTrent
  <2>3. ignoring[p]
    BY <1>1, <2>2 DEF TypeOK
  <2> QED
    BY <1>2, <2>1, <2>3
<1>4. ASSUME NEW x \in Party, NEW m \in net, ReceivePromise(x, m) PROVE Goal
  <2>1. \/ status' = status
        \/ status[x] = "SIGNING" /\ \E s \in Status : status' = [status EXCEPT ![x] = s]
    BY <1>4 DEF ReceivePromise, Wait, Withdraw, GoOn, RoundComplete, Status
  <2>2. ignoring' = ignoring \/ ignoring' = [ignoring EXCEPT ![x] = FALSE]
    BY <1>4 DEF ReceivePromise, Wait, Withdraw, GoOn, AskTrent
  <2>3. ignoring[p]
    BY <1>1, <2>2 DEF TypeOK
  <2> QED
    BY <1>1, <1>2, <2>1, <2>3 DEF TypeOK
<1>5. ASSUME NEW x \in Party, NEW a \in answers, HearResolved(x, a.round) PROVE Goal
  <2>1. /\ status' = [status EXCEPT ![x] = "FINALIZED"]
        /\ ignoring' = [ignoring EXCEPT ![x] = TRUE]
    BY <1>5, OpenedIsFinalized
  <2> QED
    BY <1>1, <1>2, <2>1 DEF TypeOK
<1>6. ASSUME NEW x \in Party, HearCancelled(x) PROVE Goal
  BY <1>1, <1>2, <1>6 DEF HearCancelled, TypeOK
<1>7. ASSUME NEW x \in Party, NEW m \in net, ReceiveClear(x, m) PROVE Goal
  <2>1. /\ ignoring' = ignoring
        /\ status' = status \/ status' = [status EXCEPT ![x] = "FINALIZED"]
    BY <1>7 DEF ReceiveClear
  <2> QED
    BY <1>1, <1>2, <2>1 DEF TypeOK
<1>8. CASE UNCHANGED <<status, ignoring>>
  BY <1>2, <1>8
<1> QED
  BY <1>3, <1>4, <1>5, <1>6, <1>7, <1>8
  DEF Next, PartyStep, Receive, Hear, Refuse, Drop, TrentCancels, TrentResolves,
      partyVars, vars

\* An answer of Trent that a party looks at settles the contract for it.
VerdictSettles == \A p \in Party : Hear(p) => IsSettled(p)'

LEMMA VerdictSettlesStep ==
  ASSUME IInv, [Next]_vars
  PROVE  VerdictSettles
<1>1. TypeOK
  BY DEF IInv, RoundInv
<1> SUFFICES ASSUME NEW p \in Party, Hear(p) PROVE IsSettled(p)'
  BY DEF VerdictSettles
<1>2. CASE HearCancelled(p)
  BY <1>1, <1>2 DEF HearCancelled, IsSettled, TypeOK
<1>3. ASSUME NEW a \in answers, HearResolved(p, a.round) PROVE IsSettled(p)'
  BY <1>1, <1>3, OpenedIsFinalized DEF IsSettled, TypeOK
<1> QED
  BY <1>2, <1>3 DEF Hear

\* Whatever Trent has decided, and however far a party has gone by then, the answer
\* that its listener looks at leaves it CANCELLED or FINALIZED: RESOLVING, and the
\* rounds it might still wait for, are over.
THEOREM AnswerSettles == Spec => [][VerdictSettles]_vars
<1>1. IInv /\ [Next]_vars => [VerdictSettles]_vars
  BY VerdictSettlesStep
<1> QED
  BY <1>1, Invariant, PTL DEF Spec
=============================================================================
