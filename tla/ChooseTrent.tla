---------------------------- MODULE ChooseTrent ----------------------------
(***************************************************************************)
(* The choice of Trent by the parties of one contract: the step            *)
(* ProtocolChooseTrent.  Each party publishes the users it knows, keeps    *)
(* those that the others know too, publishes a random number, and takes    *)
(* the user whose rank is the sum of the numbers.  It goes on to sign when *)
(* all have published the same user, and starts again when one has not.    *)
(*                                                                         *)
(* Everything is an advertisement: it can be found by every party, in any  *)
(* order, and again.  The listener of a party is on its own messages too,  *)
(* and sendContract tells it of them before it returns: a handler here     *)
(* takes in what the messages it sends make the same listener do.          *)
(***************************************************************************)
EXTENDS Integers, Sequences, FiniteSets, SequencesExt

CONSTANTS
  N,        \* number of parties
  Users,    \* the users who do not sign, numbered in the order of their keys
  Lists,    \* the users known to each party, in the order of its database
  Numbers,  \* the random numbers
  Cycle     \* sums are kept modulo a multiple of the lengths of all lists

Party == 1..N
Done == N + 1     \* the slot of hasSent that marks a round as over
Kinds == {"list", "number", "trent"}     \* data[0] is "0", "1", "2"

ASSUME ConstantsAssumption ==
  /\ N \in Nat /\ N >= 2
  /\ Users \subseteq Nat
  /\ Lists \subseteq [Party -> Seq(Users)]
  /\ Numbers \subseteq Nat
  /\ Cycle \in Nat \ {0}
  /\ \A lists \in Lists, p \in Party : \A n \in 1..Len(lists[p]) : Cycle % n = 0

VARIABLES
  step,     \* the fields of the step of each party
  started,  \* the parties whose user has pressed the button
  net       \* the advertisements

vars == <<step, started, net>>

Steps == [list : Seq(Users),
          own : Numbers,              \* randomNumber
          sum : 0..(Cycle - 1),       \* finalNumber
          hasSent : [Kinds -> SUBSET (1..Done)],
          size : {N, Done},           \* length of the three arrays of hasSent
          trent : {{}} \cup {{u} : u \in Users},   \* the key of Trent, if any
          gone : BOOLEAN]             \* nextStep has been called

Messages ==
  [kind : {"list"}, from : Party, list : Seq(Users)]
    \cup [kind : {"number"}, from : Party, number : Numbers]
    \cup [kind : {"trent"}, from : Party, trent : Users]

-----------------------------------------------------------------------------
\* Arrays.asList(hasSent[k]).indexOf(null) != -1
Waits(s, k) == ~(1..s.size \subseteq s.hasSent[k])

\* Mutated form of IsComplete: the length of the arrays is not looked at.
IsCompleteAnyLength(s, k) == Party \subseteq s.hasSent[k] /\ Done \notin s.hasSent[k]

\* Arrays.asList(hasSent[k]).indexOf(null) == N: only the last slot is left,
\* and there is one.
IsComplete(s, k) == s.size = Done /\ Waits(s, k) /\ Party \subseteq s.hasSent[k]

Mark(s, k, j) == [s EXCEPT !.hasSent[k] = @ \cup {j}]

(***************************************************************************)
(* The elements of a finite set of numbers, in increasing order.           *)
(***************************************************************************)
InOrder(S) ==
  CHOOSE s \in [1..Cardinality(S) -> S] : \A i, j \in DOMAIN s : i < j => s[i] < s[j]

(***************************************************************************)
(* The filter.  The iterator on the own list moves on at each user of the  *)
(* other one: the own list is cut in pieces as long as the other, whose    *)
(* last user is removed when no user of the piece is at its place in the   *)
(* other list.  A piece that is too short, or an empty list, ends it with  *)
(* an exception.                                                           *)
(***************************************************************************)
FilterThrows(own, other) ==
  own # << >> /\ (other = << >> \/ Len(own) % Len(other) # 0)

\* The places of the own list whose users are removed.
Dropped(own, other) ==
  IF other = << >> THEN {}
  ELSE {c * Len(other) : c \in
          {c \in 1..(Len(own) \div Len(other)) :
             \A i \in 1..Len(other) : own[(c - 1) * Len(other) + i] # other[i]}}

Filter(own, other) ==
  LET kept == InOrder(DOMAIN own \ Dropped(own, other)) IN
  [i \in DOMAIN kept |-> own[kept[i]]]

Sorted(list) == InOrder(ToSet(list))

ListMessage(p, s) == [kind |-> "list", from |-> p, list |-> s.list]
NumberMessage(p, s) == [kind |-> "number", from |-> p, number |-> s.own]
TrentMessage(p, t) == [kind |-> "trent", from |-> p, trent |-> t]

-----------------------------------------------------------------------------
(***************************************************************************)
(* What the handlers make of the fields s of p, and what they send.        *)
(***************************************************************************)

\* Mutated form of Restart: the new arrays are one shorter than the last ones.
RestartShorter(p, s) ==
  [state |-> [s EXCEPT !.hasSent = [k \in Kinds |-> IF k = "list" THEN {p} ELSE {}],
                       !.size = @ - 1,
                       !.trent = {}],
   sent |-> {ListMessage(p, s)}]

\* After a mismatch: new arrays, without the last slot, and sendMessage.  The
\* own list is told to the listener, and filters nothing.
Restart(p, s) ==
  [state |-> [s EXCEPT !.hasSent = [k \in Kinds |-> IF k = "list" THEN {p} ELSE {}],
                       !.size = N,
                       !.trent = {}],
   sent |-> {ListMessage(p, s)}]

\* All have published the same user: nextStep.
GoOn(s) ==
  IF IsComplete(s, "trent") THEN [Mark(s, "trent", Done) EXCEPT !.gone = TRUE] ELSE s

\* Publish the user t, unless another one was heard of first.
Announce(p, s, t) ==
  LET known == IF s.trent = {} THEN [s EXCEPT !.trent = {t}] ELSE s
      again == Restart(p, known) IN
  IF known.trent = {t}
    THEN [state |-> GoOn(Mark(known, "trent", p)), sent |-> {TrentMessage(p, t)}]
    ELSE [state |-> Mark(again.state, "trent", p),
          sent |-> again.sent \cup {TrentMessage(p, t)}]

\* Once all numbers are there.
Pick(p, s) ==
  IF ~IsComplete(s, "number") THEN [state |-> s, sent |-> {}]
  ELSE LET over == Mark(s, "number", Done) IN
       IF s.list = << >> THEN [state |-> over, sent |-> {}]
       ELSE Announce(p, over, s.list[(s.sum % Len(s.list)) + 1])

\* Mutated form of OnNumber: a number that is found again is added again.
OnNumberTwice(p, s, m) ==
  IF ~Waits(s, "number") THEN [state |-> s, sent |-> {}]
  ELSE Pick(p, [Mark(s, "number", m.from) EXCEPT !.sum = (@ + m.number) % Cycle])

OnNumber(p, s, m) ==
  IF ~Waits(s, "number") THEN [state |-> s, sent |-> {}]
  ELSE Pick(p, IF m.from \in s.hasSent["number"] THEN s
               ELSE [Mark(s, "number", m.from) EXCEPT !.sum = (@ + m.number) % Cycle])

\* Once all lists are there: sort, and publish the own number, which is not
\* added again when the listener is told of it.
Draw(p, s) ==
  LET sorted == [s EXCEPT !.list = Sorted(@),
                          !.hasSent["list"] = @ \cup {Done},
                          !.hasSent["number"] = @ \cup {p}]
      next == Pick(p, sorted) IN
  [state |-> next.state, sent |-> next.sent \cup {NumberMessage(p, s)}]

OnList(p, s, m) ==
  IF ~Waits(s, "list") THEN [state |-> s, sent |-> {}]
  ELSE LET kept == [s EXCEPT !.list = Filter(@, m.list)]
           held == Mark(kept, "list", m.from) IN
       IF FilterThrows(s.list, m.list) THEN [state |-> kept, sent |-> {}]
       ELSE IF IsComplete(held, "list") THEN Draw(p, held)
       ELSE [state |-> held, sent |-> {}]

\* Mutated form of OnTrent: another user than the own one is not looked at.
OnTrentAny(p, s, m) ==
  IF ~Waits(s, "trent") THEN [state |-> s, sent |-> {}]
  ELSE IF s.trent = {}
    THEN [state |-> [Mark(s, "trent", m.from) EXCEPT !.trent = {m.trent}], sent |-> {}]
  ELSE [state |-> GoOn(Mark(s, "trent", m.from)), sent |-> {}]

OnTrent(p, s, m) ==
  IF ~Waits(s, "trent") THEN [state |-> s, sent |-> {}]
  ELSE IF s.trent = {}
    THEN [state |-> [Mark(s, "trent", m.from) EXCEPT !.trent = {m.trent}], sent |-> {}]
  ELSE IF s.trent = {m.trent}
    THEN [state |-> GoOn(Mark(s, "trent", m.from)), sent |-> {}]
  ELSE Restart(p, s)

Handle(p, s, m) ==
  CASE m.kind = "list" -> OnList(p, s, m)
    [] m.kind = "number" -> OnNumber(p, s, m)
    [] m.kind = "trent" -> OnTrent(p, s, m)

-----------------------------------------------------------------------------
\* SigmaEstablisher.start: the first list goes out.
Start(p) ==
  /\ p \notin started
  /\ started' = started \cup {p}
  /\ LET first == ListMessage(p, step[p])
         told == OnList(p, step[p], first) IN
     /\ step' = [step EXCEPT ![p] = Mark(told.state, "list", p)]
     /\ net' = net \cup told.sent \cup {first}

Receive(p, m) ==
  LET told == Handle(p, step[p], m) IN
  /\ step' = [step EXCEPT ![p] = told.state]
  /\ net' = net \cup told.sent
  /\ UNCHANGED started

Init ==
  /\ \E lists \in Lists, numbers \in [Party -> Numbers] :
       step = [p \in Party |->
         [list |-> lists[p], own |-> numbers[p], sum |-> numbers[p] % Cycle,
          hasSent |-> [k \in Kinds |-> {}], size |-> Done, trent |-> {},
          gone |-> FALSE]]
  /\ started = {}
  /\ net = {}

Next == \E p \in Party : Start(p) \/ \E m \in net : Receive(p, m)

Spec == Init /\ [][Next]_vars

(***************************************************************************)
(* Every user presses the button, and every advertisement is found.        *)
(***************************************************************************)
Fairness ==
  \A p \in Party : WF_vars(Start(p)) /\ WF_vars(\E m \in net : Receive(p, m))

FairSpec == Spec /\ Fairness

-----------------------------------------------------------------------------
\* Types.
TypeOK ==
  /\ step \in [Party -> Steps]
  /\ started \subseteq Party
  /\ net \subseteq Messages

\* The Trent of the parties that have gone on.
Chosen == [p \in Party |-> IF step[p].gone THEN step[p].trent ELSE {}]

A == INSTANCE Agreement WITH chosen <- Chosen

\* All parties that go on to sign have the same Trent, whatever they knew at
\* first and in whatever order their messages are found.
ImplementsAgreement == A!Spec

\* A Trent who is chosen was in the list of every party: nobody signs under a
\* third party that another one has never heard of.
TrentIsKnownToAll ==
  \A p, q \in Party : step[p].gone =>
    \E m \in net : m.kind = "list" /\ m.from = q /\ step[p].trent \subseteq ToSet(m.list)

\* The sum of the numbers of all parties, each counted once.
SumOf(number) ==
  LET sum[n \in 0..N] == IF n = 0 THEN 0 ELSE sum[n - 1] + number[n] IN sum[N]

Total == SumOf([p \in Party |-> step[p].own])

\* Nobody alone decides who is Trent: his rank is the sum of all the numbers,
\* though a number may be found several times, and before the lists are there.
EveryoneDraws ==
  \A p \in Party : step[p].gone =>
    step[p].trent = {step[p].list[(Total % Len(step[p].list)) + 1]}

\* When all know the same users at first, in the same order, all go on to sign.
SameLists == \A p, q \in Party : step[p].list = step[q].list /\ step[p].list # << >>

EveryoneGoesOn == SameLists => <>(\A p \in Party : step[p].gone)

\* A party that starts again has lost the slot that marks a round as over, and
\* does not go on any more.
RestartNeverEnds == \A p \in Party : step[p].size = N => ~step[p].gone

\* The comment on getRound (ProtocolChooseTrent.java:151-156): the list is set up
\* with the other peers in round 0.  Those who have left it have the same list.
ListIsSetUpTogether ==
  \A p, q \in Party :
    Done \in step[p].hasSent["list"] /\ Done \in step[q].hasSent["list"] =>
      step[p].list = step[q].list
=============================================================================
