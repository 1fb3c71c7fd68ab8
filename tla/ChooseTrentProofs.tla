------------------------- MODULE ChooseTrentProofs -------------------------
(***************************************************************************)
(* Proofs about ChooseTrent, for any number of parties, any lists of users *)
(* and any numbers.                                                        *)
(*                                                                         *)
(* What matters to agreement is what a party has told of its own choice,   *)
(* and whom it has marked: it tells one user at most, and it goes on only  *)
(* when all have told its Trent.  Lists are left as they are: the filter   *)
(* and the sort are computed, and no fact about them is needed.            *)
(***************************************************************************)
EXTENDS ChooseTrent, TLAPS

\* The fields of a party, whatever its list and numbers.
Fields == {"list", "own", "sum", "hasSent", "size", "trent", "gone"}

Fit(s) ==
  /\ DOMAIN s = Fields
  /\ s = [f \in Fields |-> s[f]]
  /\ s.hasSent \in [Kinds -> SUBSET (1..Done)]
  /\ s.size \in {N, Done}
  /\ s.gone \in BOOLEAN

WellFormed(m) ==
  /\ m.kind \in Kinds
  /\ m.from \in Party
  /\ m.kind = "trent" => m = TrentMessage(m.from, m.trent)

Told(sent) == {m \in sent : m.kind = "trent"}

\* The number round of s is not over, and was never started again.
Open(s) == s.size = Done /\ Done \notin s.hasSent["number"]

\* The invariant, of one party.
GoneIsOver(s) == s.gone => s.size = Done /\ 1..Done \subseteq s.hasSent["trent"]

MarkedHasTold(s) ==
  s.size = Done =>
    \A j \in Party : j \in s.hasSent["trent"] =>
      \E t : s.trent = {t} /\ TrentMessage(j, t) \in net

TellsOnce(p, s) ==
  \A m \in net : m.kind = "trent" /\ m.from = p =>
    /\ ~Open(s)
    /\ \A o \in net : o.kind = "trent" /\ o.from = p => o = m

PartyInv(p, s) == Fit(s) /\ GoneIsOver(s) /\ MarkedHasTold(s) /\ TellsOnce(p, s)

IInv ==
  /\ DOMAIN step = Party
  /\ step = [p \in Party |-> step[p]]
  /\ \A m \in net : WellFormed(m)
  /\ \A p \in Party : PartyInv(p, step[p])

-----------------------------------------------------------------------------
(***************************************************************************)
(* What a handler may make of the fields s of p: r is its result.          *)
(***************************************************************************)

\* The marks of the third round and the choice are as they were.
Quiet(s, n) ==
  /\ n.trent = s.trent /\ n.size = s.size /\ n.gone = s.gone
  /\ n.hasSent["trent"] = s.hasSent["trent"]
  /\ Open(n) => Open(s)

\* The user t told by j is marked, and all may have told it.
Noted(j, t, s, n) ==
  /\ n.trent = {t} /\ s.trent \in {{}, {t}} /\ n.size = s.size
  /\ n.hasSent["trent"] \subseteq s.hasSent["trent"] \cup {j, Done}
  /\ s.hasSent["trent"] \subseteq n.hasSent["trent"]
  /\ n.gone => s.gone \/ (n.size = Done /\ 1..Done \subseteq n.hasSent["trent"])
  /\ s.gone => n.gone
  /\ Open(n) => Open(s)

Still(s, r) == Told(r.sent) = {} /\ Quiet(s, r.state)

Hears(s, r) ==
  \E j \in Party : \E t :
    TrentMessage(j, t) \in net /\ Told(r.sent) = {} /\ Noted(j, t, s, r.state)

Tells(p, s, r) ==
  \E t : Told(r.sent) = {TrentMessage(p, t)} /\ Noted(p, t, s, r.state)
           /\ Open(s) /\ ~Open(r.state)

StartsAgain(p, s, r) ==
  /\ r.state.size = N /\ r.state.gone = s.gone
  /\ \/ Told(r.sent) = {} /\ Waits(s, "trent")
     \/ Open(s) /\ \E t : Told(r.sent) = {TrentMessage(p, t)}

\* What comes of the end of a round of numbers, or of nothing.
Picked(p, s, r) ==
  /\ Fit(r.state)
  /\ \A m \in r.sent : WellFormed(m)
  /\ Still(s, r) \/ Tells(p, s, r) \/ StartsAgain(p, s, r)

Effect(p, s, r) ==
  /\ Fit(r.state)
  /\ \A m \in r.sent : WellFormed(m)
  /\ Still(s, r) \/ Hears(s, r) \/ Tells(p, s, r) \/ StartsAgain(p, s, r)

-----------------------------------------------------------------------------
LEMMA Slots ==
  /\ N \in Nat /\ N >= 2 /\ N # Done /\ Done \notin Party
  /\ 1..Done = Party \cup {Done}
  BY ConstantsAssumption DEF Done, Party

IsMarked(s, k, j, n) ==
  /\ Fit(n)
  /\ n.trent = s.trent /\ n.size = s.size /\ n.gone = s.gone
  /\ n.list = s.list /\ n.own = s.own
  /\ n.hasSent = [s.hasSent EXCEPT ![k] = @ \cup {j}]

LEMMA MarkShape ==
  ASSUME NEW s, Fit(s), NEW k \in Kinds, NEW j \in Party \cup {Done}
  PROVE  IsMarked(s, k, j, Mark(s, k, j))
  BY Slots DEF IsMarked, Mark, Fit, Fields

LEMMA OtherFields ==
  ASSUME NEW s, Fit(s), NEW x
  PROVE  /\ LET n == [s EXCEPT !.list = x] IN Fit(n) /\ n.hasSent = s.hasSent /\ n.trent = s.trent /\ n.size = s.size /\ n.gone = s.gone
         /\ LET n == [s EXCEPT !.sum = x] IN Fit(n) /\ n.hasSent = s.hasSent /\ n.trent = s.trent /\ n.size = s.size /\ n.gone = s.gone
         /\ LET n == [s EXCEPT !.trent = x] IN Fit(n) /\ n.hasSent = s.hasSent /\ n.trent = x /\ n.size = s.size /\ n.gone = s.gone
         /\ LET n == [s EXCEPT !.gone = TRUE] IN Fit(n) /\ n.hasSent = s.hasSent /\ n.trent = s.trent /\ n.size = s.size /\ n.gone = TRUE
  BY DEF Fit, Fields

LEMMA TrentMessages ==
  ASSUME NEW p \in Party, NEW t
  PROVE  /\ WellFormed(TrentMessage(p, t)) /\ Told({TrentMessage(p, t)}) = {TrentMessage(p, t)}
         /\ TrentMessage(p, t).from = p /\ TrentMessage(p, t).kind = "trent"
         /\ TrentMessage(p, t).trent = t
  BY DEF WellFormed, Told, TrentMessage, Kinds

LEMMA OtherMessages ==
  ASSUME NEW p \in Party, NEW s
  PROVE  /\ WellFormed(ListMessage(p, s)) /\ Told({ListMessage(p, s)}) = {}
         /\ WellFormed(NumberMessage(p, s)) /\ Told({NumberMessage(p, s)}) = {}
  BY DEF WellFormed, Told, ListMessage, NumberMessage, Kinds

LEMMA ToldUnion ==
  ASSUME NEW S, NEW T
  PROVE  Told(S \cup T) = Told(S) \cup Told(T) /\ Told({}) = {}
  BY DEF Told

-----------------------------------------------------------------------------
(***************************************************************************)
(* The handlers, from the innermost.                                       *)
(***************************************************************************)
LEMMA RestartShape ==
  ASSUME NEW p \in Party, NEW s, Fit(s)
  PROVE  /\ Fit(Restart(p, s).state)
         /\ Restart(p, s).state.size = N
         /\ Restart(p, s).state.gone = s.gone
         /\ Restart(p, s).sent = {ListMessage(p, s)}
<1>1. [k \in Kinds |-> IF k = "list" THEN {p} ELSE {}] \in [Kinds -> SUBSET (1..Done)]
  BY Slots
<1> QED
  BY <1>1 DEF Restart, Fit, Fields

LEMMA GoOnShape ==
  ASSUME NEW s, Fit(s)
  PROVE  /\ Fit(GoOn(s))
         /\ GoOn(s).trent = s.trent /\ GoOn(s).size = s.size
         /\ GoOn(s).hasSent["number"] = s.hasSent["number"]
         /\ GoOn(s).hasSent["trent"] \subseteq s.hasSent["trent"] \cup {Done}
         /\ s.hasSent["trent"] \subseteq GoOn(s).hasSent["trent"]
         /\ GoOn(s).gone =>
              s.gone \/ (s.size = Done /\ 1..Done \subseteq GoOn(s).hasSent["trent"])
         /\ s.gone => GoOn(s).gone
<1>1. "trent" \in Kinds /\ "number" \in Kinds
  BY DEF Kinds
<1>2. CASE IsComplete(s, "trent")
  <2> DEFINE marked == Mark(s, "trent", Done)
  <2>1. /\ Fit(marked) /\ marked.trent = s.trent /\ marked.size = s.size
        /\ marked.hasSent = [s.hasSent EXCEPT !["trent"] = @ \cup {Done}]
    <3>1. IsMarked(s, "trent", Done, marked)
      BY <1>1, MarkShape
    <3> QED
      BY <3>1 DEF IsMarked
  <2>2. marked.hasSent["trent"] = s.hasSent["trent"] \cup {Done}
        /\ marked.hasSent["number"] = s.hasSent["number"]
    BY <2>1, <1>1 DEF Fit
  <2>3. GoOn(s) = [marked EXCEPT !.gone = TRUE]
    BY <1>2 DEF GoOn
  <2> HIDE DEF marked
  <2>4. /\ Fit(GoOn(s)) /\ GoOn(s).hasSent = marked.hasSent
        /\ GoOn(s).trent = s.trent /\ GoOn(s).size = s.size /\ GoOn(s).gone = TRUE
    BY <2>1, <2>3 DEF Fit, Fields
  <2>5. s.size = Done /\ Party \subseteq s.hasSent["trent"]
    BY <1>2 DEF IsComplete
  <2> QED
    BY <2>2, <2>4, <2>5, Slots
<1>3. CASE ~IsComplete(s, "trent")
  BY <1>3 DEF GoOn
<1> QED
  BY <1>2, <1>3

\* The user t was announced.
Announced(p, t, s, r) ==
  /\ Fit(r.state) /\ ~Open(r.state)
  /\ \A m \in r.sent : WellFormed(m)
  /\ Told(r.sent) = {TrentMessage(p, t)}
  /\ \/ Noted(p, t, s, r.state)
     \/ r.state.size = N /\ r.state.gone = s.gone

LEMMA AnnounceEffect ==
  ASSUME NEW p \in Party, NEW s, Fit(s), Done \in s.hasSent["number"], NEW t,
         NEW r, r = Announce(p, s, t)
  PROVE  Announced(p, t, s, r)
<1> DEFINE known == IF s.trent = {} THEN [s EXCEPT !.trent = {t}] ELSE s
           again == Restart(p, known)
<1>1. /\ Fit(known) /\ known.hasSent = s.hasSent /\ known.size = s.size
      /\ known.gone = s.gone /\ known.trent = (IF s.trent = {} THEN {t} ELSE s.trent)
  BY DEF Fit, Fields
<1>2. r = IF known.trent = {t}
            THEN [state |-> GoOn(Mark(known, "trent", p)), sent |-> {TrentMessage(p, t)}]
            ELSE [state |-> Mark(again.state, "trent", p),
                  sent |-> again.sent \cup {TrentMessage(p, t)}]
  BY DEF Announce
<1>3. "trent" \in Kinds /\ "number" \in Kinds
  BY DEF Kinds
<1>4. /\ Fit(again.state) /\ again.state.size = N /\ again.state.gone = known.gone
      /\ again.sent = {ListMessage(p, known)}
  BY <1>1, RestartShape
<1> HIDE DEF known, again
<1>5. CASE known.trent = {t}
  <2> DEFINE marked == Mark(known, "trent", p)
  <2>1. /\ Fit(marked) /\ marked.trent = {t} /\ marked.size = s.size
        /\ marked.gone = s.gone
        /\ marked.hasSent = [s.hasSent EXCEPT !["trent"] = @ \cup {p}]
    <3>1. IsMarked(known, "trent", p, marked)
      BY <1>1, <1>3, MarkShape
    <3> QED
      BY <1>1, <1>5, <3>1 DEF IsMarked
  <2>2. marked.hasSent["trent"] = s.hasSent["trent"] \cup {p}
        /\ marked.hasSent["number"] = s.hasSent["number"]
    BY <2>1, <1>3 DEF Fit
  <2>3. r.state = GoOn(marked) /\ r.sent = {TrentMessage(p, t)}
    BY <1>2, <1>5
  <2> HIDE DEF marked
  <2>4. s.trent \in {{}, {t}}
    BY <1>1, <1>5
  <2>5. /\ Fit(r.state) /\ r.state.trent = {t} /\ r.state.size = s.size
        /\ r.state.hasSent["number"] = s.hasSent["number"]
        /\ r.state.hasSent["trent"] \subseteq s.hasSent["trent"] \cup {p, Done}
        /\ s.hasSent["trent"] \subseteq r.state.hasSent["trent"]
        /\ r.state.gone =>
             s.gone \/ (r.state.size = Done /\ 1..Done \subseteq r.state.hasSent["trent"])
        /\ s.gone => r.state.gone
    <3>1. r.state = GoOn(marked)
      BY <2>3
    <3>2. /\ Fit(GoOn(marked))
          /\ GoOn(marked).trent = marked.trent /\ GoOn(marked).size = marked.size
          /\ GoOn(marked).hasSent["number"] = marked.hasSent["number"]
          /\ GoOn(marked).hasSent["trent"] \subseteq marked.hasSent["trent"] \cup {Done}
          /\ marked.hasSent["trent"] \subseteq GoOn(marked).hasSent["trent"]
          /\ GoOn(marked).gone =>
               marked.gone \/ (marked.size = Done /\ 1..Done \subseteq GoOn(marked).hasSent["trent"])
          /\ marked.gone => GoOn(marked).gone
      BY <2>1, GoOnShape
    <3> QED
      BY <2>1, <2>2, <3>1, <3>2
  <2>6. ~Open(r.state)
    BY <2>5 DEF Open
  <2>7. Noted(p, t, s, r.state)
    BY <2>4, <2>5, <2>6 DEF Noted
  <2> QED
    BY <2>3, <2>5, <2>6, <2>7, TrentMessages, OtherMessages DEF Announced
<1>6. CASE known.trent # {t}
  <2>1. r.state = Mark(again.state, "trent", p)
        /\ r.sent = {ListMessage(p, known)} \cup {TrentMessage(p, t)}
    BY <1>2, <1>4, <1>6
  <2>2. Fit(r.state) /\ r.state.size = N /\ r.state.gone = s.gone
    <3> DEFINE back == again.state
    <3>1. Fit(back) /\ back.size = N /\ back.gone = s.gone
      BY <1>1, <1>4
    <3>2. r.state = Mark(back, "trent", p)
      BY <2>1
    <3> HIDE DEF back
    <3>3. /\ Fit(Mark(back, "trent", p)) /\ Mark(back, "trent", p).size = back.size
          /\ Mark(back, "trent", p).gone = back.gone
      <4>1. p \in Party \cup {Done}
        OBVIOUS
      <4>2. IsMarked(back, "trent", p, Mark(back, "trent", p))
        BY <1>3, <3>1, <4>1, MarkShape
      <4> QED
        BY <4>2 DEF IsMarked
    <3> QED
      BY <3>1, <3>2, <3>3
  <2>3. ~Open(r.state)
    BY <2>2, Slots DEF Open
  <2>4. Told(r.sent) = {TrentMessage(p, t)}
    <3>1. Told(r.sent) = Told({ListMessage(p, known)}) \cup Told({TrentMessage(p, t)})
      BY <2>1, ToldUnion
    <3> QED
      BY <3>1, TrentMessages, OtherMessages
  <2> QED
    <3>1. WellFormed(ListMessage(p, known)) /\ WellFormed(TrentMessage(p, t))
      BY TrentMessages, OtherMessages
    <3>2. \A m \in r.sent : WellFormed(m)
      BY <2>1, <3>1
    <3> QED
      BY <2>2, <2>3, <2>4, <3>2 DEF Announced
<1> QED
  BY <1>5, <1>6

LEMMA PickEffect ==
  ASSUME NEW p \in Party, NEW s, Fit(s), NEW r, r = Pick(p, s)
  PROVE  Picked(p, s, r)
<1>1. CASE ~IsComplete(s, "number")
  <2>1. r.state = s /\ r.sent = {}
    BY <1>1 DEF Pick
  <2> QED
    BY <2>1, ToldUnion DEF Picked, Still, Quiet
<1>2. CASE IsComplete(s, "number")
  <2> DEFINE over == Mark(s, "number", Done)
  <2>1. "number" \in Kinds /\ "trent" \in Kinds /\ "trent" # "number"
    BY DEF Kinds
  <2>2. /\ Fit(over) /\ over.trent = s.trent /\ over.size = s.size
        /\ over.gone = s.gone /\ over.list = s.list
        /\ over.hasSent = [s.hasSent EXCEPT !["number"] = @ \cup {Done}]
    <3>1. IsMarked(s, "number", Done, over)
      BY <2>1, MarkShape
    <3> QED
      BY <3>1 DEF IsMarked
  <2>3. over.hasSent["trent"] = s.hasSent["trent"]
        /\ Done \in over.hasSent["number"] /\ ~Open(over)
    BY <2>1, <2>2 DEF Fit, Open
  <2>4. Open(s)
    BY <1>2, Slots DEF IsComplete, Waits, Open
  <2>5. r = IF s.list = << >> THEN [state |-> over, sent |-> {}]
            ELSE Announce(p, over, s.list[(s.sum % Len(s.list)) + 1])
    BY <1>2 DEF Pick
  <2> HIDE DEF over
  <2>6. CASE s.list = << >>
    <3>1. r.state = over /\ r.sent = {}
      BY <2>5, <2>6
    <3> QED
      BY <3>1, <2>2, <2>3, ToldUnion DEF Picked, Still, Quiet
  <2>7. CASE s.list # << >>
    <3> DEFINE t == s.list[(s.sum % Len(s.list)) + 1]
    <3>1. r = Announce(p, over, t)
      BY <2>5, <2>7
    <3> HIDE DEF t
    <3>2. Announced(p, t, over, r)
      BY <3>1, <2>2, <2>3, AnnounceEffect
    <3>3. Noted(p, t, over, r.state) => Noted(p, t, s, r.state)
      BY <2>2, <2>3, <2>4 DEF Noted
    <3> QED
      BY <3>2, <3>3, <2>2, <2>4 DEF Announced, Picked, Tells, StartsAgain
  <2> QED
    BY <2>6, <2>7
<1> QED
  BY <1>1, <1>2

\* Nothing changes but what was received in the first two rounds, and n is fit.
Same(s, n) ==
  /\ Fit(n)
  /\ n.trent = s.trent /\ n.size = s.size /\ n.gone = s.gone
  /\ n.hasSent["trent"] = s.hasSent["trent"]
  /\ Open(n) <=> Open(s)

LEMMA MarkIsSame ==
  ASSUME NEW s, Fit(s), NEW k \in {"list", "number"}, NEW j \in Party \cup {Done},
         k = "list" \/ j # Done
  PROVE  Same(s, Mark(s, k, j))
<1> DEFINE n == Mark(s, k, j)
<1>1. k \in Kinds /\ "trent" \in Kinds /\ "number" \in Kinds /\ k # "trent"
  BY DEF Kinds
<1>2. /\ Fit(n) /\ n.trent = s.trent /\ n.size = s.size /\ n.gone = s.gone
      /\ n.hasSent = [s.hasSent EXCEPT ![k] = @ \cup {j}]
  <2>1. IsMarked(s, k, j, n)
    BY <1>1, MarkShape
  <2> QED
    BY <2>1 DEF IsMarked
<1> HIDE DEF n
<1>3. /\ n.hasSent["trent"] = s.hasSent["trent"]
      /\ Done \in n.hasSent["number"] <=> Done \in s.hasSent["number"]
  BY <1>1, <1>2 DEF Fit
<1>4. Same(s, n)
  BY <1>2, <1>3 DEF Same, Open
<1> QED
  BY <1>4 DEF n

LEMMA SameListAndSum ==
  ASSUME NEW s, Fit(s), NEW x
  PROVE  Same(s, [s EXCEPT !.list = x]) /\ Same(s, [s EXCEPT !.sum = x])
  BY DEF Same, Fit, Fields, Open

LEMMA SameIsTransitive ==
  ASSUME NEW s, NEW n, NEW o, Same(s, n), Same(n, o)
  PROVE  Same(s, o)
  BY DEF Same

LEMMA PickedAfterSame ==
  ASSUME NEW p, NEW s, NEW n, NEW r, NEW q, Same(s, n), Picked(p, n, r),
         q.state = r.state,
         NEW X, q.sent = r.sent \cup X, Told(X) = {}, \A m \in X : WellFormed(m)
  PROVE  Picked(p, s, q)
<1>1. Told(q.sent) = Told(r.sent)
  <2>1. Told(r.sent \cup X) = Told(r.sent) \cup Told(X)
    BY ToldUnion
  <2> QED
    BY <2>1
<1>2. Still(n, r) => Still(s, q)
  BY <1>1 DEF Still, Quiet, Same
<1>3. Tells(p, n, r) => Tells(p, s, q)
  BY <1>1 DEF Tells, Noted, Same
<1>4. StartsAgain(p, n, r) => StartsAgain(p, s, q)
  BY <1>1 DEF StartsAgain, Same, Waits
<1> QED
  BY <1>2, <1>3, <1>4 DEF Picked

LEMMA SameIsPicked ==
  ASSUME NEW p, NEW s, NEW r, Same(s, r.state), r.sent = {}
  PROVE  Picked(p, s, r)
  BY ToldUnion DEF Picked, Still, Quiet, Same

LEMMA OnNumberEffect ==
  ASSUME NEW p \in Party, NEW s, Fit(s), NEW m, WellFormed(m),
         NEW r, r = OnNumber(p, s, m)
  PROVE  Picked(p, s, r)
<1>1. CASE ~Waits(s, "number")
  <2>1. r.state = s /\ r.sent = {}
    BY <1>1 DEF OnNumber
  <2>2. Same(s, r.state)
    BY <2>1 DEF Same
  <2> QED
    BY <2>1, <2>2, SameIsPicked
<1>2. CASE Waits(s, "number")
  <2> DEFINE marked == Mark(s, "number", m.from)
             added == [marked EXCEPT !.sum = (marked.sum + m.number) % Cycle]
             n == IF m.from \in s.hasSent["number"] THEN s ELSE added
  <2>1. r = Pick(p, n)
    BY <1>2 DEF OnNumber
  <2>2. m.from \in Party \cup {Done} /\ m.from # Done
    BY Slots DEF WellFormed
  <2>3. Same(s, marked)
    BY <2>2, MarkIsSame
  <2>4. Same(marked, added)
    <3>1. Fit(marked)
      BY <2>3 DEF Same
    <3> HIDE DEF marked
    <3> QED
      BY <3>1, SameListAndSum
  <2> HIDE DEF marked, added
  <2>5. Same(s, added) /\ Same(s, s)
    BY <2>3, <2>4, SameIsTransitive DEF Same
  <2>6. Same(s, n)
    BY <2>5
  <2> HIDE DEF n
  <2>7. Picked(p, n, r)
    BY <2>1, <2>6, PickEffect DEF Same
  <2> QED
    <3>1. r.sent = r.sent \cup {} /\ Told({}) = {}
      BY ToldUnion
    <3> QED
      BY <2>6, <2>7, <3>1, PickedAfterSame
<1> QED
  BY <1>1, <1>2

LEMMA DrawEffect ==
  ASSUME NEW p \in Party, NEW s, Fit(s), NEW r, r = Draw(p, s)
  PROVE  Picked(p, s, r)
<1> DEFINE ordered == [s EXCEPT !.list = Sorted(s.list)]
           closed == Mark(ordered, "list", Done)
           sorted == Mark(closed, "number", p)
           next == Pick(p, sorted)
<1>1. Same(s, ordered)
  BY SameListAndSum
<1> HIDE DEF ordered
<1>2. Fit(ordered) /\ Done \in Party \cup {Done} /\ p \in Party \cup {Done} /\ p # Done
  BY <1>1, Slots DEF Same
<1>3. Same(ordered, closed)
  BY <1>2, MarkIsSame
<1> HIDE DEF closed
<1>4. Fit(closed)
  BY <1>3 DEF Same
<1>5. Same(closed, sorted)
  BY <1>2, <1>4, MarkIsSame
<1>6. [s EXCEPT !.list = Sorted(@),
                !.hasSent["list"] = @ \cup {Done},
                !.hasSent["number"] = @ \cup {p}] = sorted
  BY DEF sorted, closed, ordered, Mark, Fit, Fields, Kinds
<1> HIDE DEF sorted
<1>7. Same(s, sorted)
  BY <1>1, <1>3, <1>5, SameIsTransitive
<1>8. r = [state |-> next.state, sent |-> next.sent \cup {NumberMessage(p, s)}]
  BY <1>6 DEF Draw
<1>9. Picked(p, sorted, next)
  BY <1>7, PickEffect DEF Same
<1> HIDE DEF next
<1>10. r.state = next.state /\ r.sent = next.sent \cup {NumberMessage(p, s)}
  BY <1>8
<1>11. Told({NumberMessage(p, s)}) = {} /\ \A m \in {NumberMessage(p, s)} : WellFormed(m)
  BY OtherMessages
<1> QED
  BY <1>7, <1>9, <1>10, <1>11, PickedAfterSame

LEMMA OnListEffect ==
  ASSUME NEW p \in Party, NEW s, Fit(s), NEW m, WellFormed(m),
         NEW r, r = OnList(p, s, m)
  PROVE  Picked(p, s, r)
<1> DEFINE kept == [s EXCEPT !.list = Filter(s.list, m.list)]
           held == Mark(kept, "list", m.from)
<1>1. Same(s, kept)
  BY SameListAndSum
<1> HIDE DEF kept
<1>2. Fit(kept) /\ m.from \in Party \cup {Done}
  BY <1>1 DEF Same, WellFormed
<1>3. Same(kept, held)
  BY <1>2, MarkIsSame
<1>4. r = IF ~Waits(s, "list") THEN [state |-> s, sent |-> {}]
          ELSE IF FilterThrows(s.list, m.list) THEN [state |-> kept, sent |-> {}]
          ELSE IF IsComplete(held, "list") THEN Draw(p, held)
          ELSE [state |-> held, sent |-> {}]
  BY DEF OnList, kept
<1> HIDE DEF held
<1>5. Same(s, held) /\ Same(s, s)
  BY <1>1, <1>3, SameIsTransitive DEF Same
<1>6. CASE r = Draw(p, held)
  <2>1. Picked(p, held, r)
    BY <1>5, <1>6, DrawEffect DEF Same
  <2>2. r.sent = r.sent \cup {} /\ Told({}) = {}
    BY ToldUnion
  <2> QED
    BY <1>5, <2>1, <2>2, PickedAfterSame
<1>7. CASE r.sent = {} /\ r.state \in {s, kept, held}
  <2>1. Same(s, r.state)
    BY <1>1, <1>5, <1>7
  <2> QED
    BY <1>7, <2>1, SameIsPicked
<1> QED
  BY <1>4, <1>6, <1>7

LEMMA PickedIsEffect ==
  ASSUME NEW p, NEW s, NEW r, Picked(p, s, r)
  PROVE  Effect(p, s, r)
  BY DEF Picked, Effect

LEMMA OnTrentEffect ==
  ASSUME NEW p \in Party, NEW s, Fit(s), NEW m \in net, WellFormed(m), m.kind = "trent",
         NEW r, r = OnTrent(p, s, m)
  PROVE  Effect(p, s, r)
<1> DEFINE j == m.from
           t == m.trent
           marked == Mark(s, "trent", j)
<1>1. j \in Party /\ TrentMessage(j, t) \in net
  BY DEF WellFormed
<1>2. "trent" \in Kinds /\ "number" \in Kinds /\ j \in Party \cup {Done}
  BY <1>1 DEF Kinds
<1>3. r = IF ~Waits(s, "trent") THEN [state |-> s, sent |-> {}]
          ELSE IF s.trent = {}
            THEN [state |-> [marked EXCEPT !.trent = {t}], sent |-> {}]
          ELSE IF s.trent = {t}
            THEN [state |-> GoOn(marked), sent |-> {}]
          ELSE Restart(p, s)
  BY DEF OnTrent
<1> HIDE DEF j, t
<1>4. /\ Fit(marked) /\ marked.trent = s.trent /\ marked.size = s.size
      /\ marked.gone = s.gone
      /\ marked.hasSent = [s.hasSent EXCEPT !["trent"] = @ \cup {j}]
  <2>1. IsMarked(s, "trent", j, marked)
    BY <1>2, MarkShape
  <2> QED
    BY <2>1 DEF IsMarked
<1> HIDE DEF marked
<1>5. /\ marked.hasSent["trent"] = s.hasSent["trent"] \cup {j}
      /\ marked.hasSent["number"] = s.hasSent["number"]
  BY <1>2, <1>4 DEF Fit
<1>6. CASE ~Waits(s, "trent")
  <2>1. r.state = s /\ r.sent = {}
    BY <1>3, <1>6
  <2> QED
    BY <2>1, ToldUnion DEF Effect, Still, Quiet
<1>7. CASE Waits(s, "trent") /\ s.trent = {}
  <2>1. r.state = [marked EXCEPT !.trent = {t}] /\ r.sent = {}
    BY <1>3, <1>7
  <2>2. /\ Fit(r.state) /\ r.state.hasSent = marked.hasSent /\ r.state.trent = {t}
        /\ r.state.size = s.size /\ r.state.gone = s.gone
    BY <1>4, <2>1 DEF Fit, Fields
  <2>3. Noted(j, t, s, r.state)
    BY <1>5, <1>7, <2>2 DEF Noted, Open
  <2> QED
    BY <1>1, <2>1, <2>2, <2>3, ToldUnion DEF Effect, Hears
<1>8. CASE Waits(s, "trent") /\ s.trent = {t}
  <2>1. r.state = GoOn(marked) /\ r.sent = {}
    BY <1>3, <1>8
  <2>2. /\ Fit(GoOn(marked))
        /\ GoOn(marked).trent = marked.trent /\ GoOn(marked).size = marked.size
        /\ GoOn(marked).hasSent["number"] = marked.hasSent["number"]
        /\ GoOn(marked).hasSent["trent"] \subseteq marked.hasSent["trent"] \cup {Done}
        /\ marked.hasSent["trent"] \subseteq GoOn(marked).hasSent["trent"]
        /\ GoOn(marked).gone =>
             marked.gone \/ (marked.size = Done /\ 1..Done \subseteq GoOn(marked).hasSent["trent"])
        /\ marked.gone => GoOn(marked).gone
    BY <1>4, GoOnShape
  <2>3. Noted(j, t, s, r.state)
    BY <1>4, <1>5, <1>8, <2>1, <2>2 DEF Noted, Open
  <2> QED
    BY <1>1, <2>1, <2>2, <2>3, ToldUnion DEF Effect, Hears
<1>9. CASE Waits(s, "trent") /\ s.trent # {} /\ s.trent # {t}
  <2>1. r = Restart(p, s)
    BY <1>3, <1>9
  <2>2. /\ Fit(r.state) /\ r.state.size = N /\ r.state.gone = s.gone
        /\ r.sent = {ListMessage(p, s)}
    BY <2>1, RestartShape
  <2>3. WellFormed(ListMessage(p, s)) /\ Told({ListMessage(p, s)}) = {}
    BY OtherMessages
  <2> QED
    BY <1>9, <2>2, <2>3 DEF Effect, StartsAgain
<1> QED
  BY <1>6, <1>7, <1>8, <1>9

LEMMA HandleEffect ==
  ASSUME NEW p \in Party, NEW s, Fit(s), NEW m \in net, WellFormed(m),
         NEW r, r = Handle(p, s, m)
  PROVE  Effect(p, s, r)
<1>1. CASE m.kind = "list"
  <2>1. r = OnList(p, s, m)
    BY <1>1 DEF Handle
  <2> QED
    BY <2>1, OnListEffect, PickedIsEffect
<1>2. CASE m.kind = "number"
  <2>1. r = OnNumber(p, s, m)
    BY <1>2 DEF Handle
  <2> QED
    BY <2>1, OnNumberEffect, PickedIsEffect
<1>3. CASE m.kind = "trent"
  <2>1. r = OnTrent(p, s, m)
    BY <1>3 DEF Handle
  <2> QED
    BY <1>3, <2>1, OnTrentEffect
<1> QED
  BY <1>1, <1>2, <1>3 DEF WellFormed, Kinds

LEMMA PickedBeforeSame ==
  ASSUME NEW p, NEW s, NEW r, Picked(p, s, r), NEW q, Same(r.state, q.state),
         NEW X, q.sent = r.sent \cup X, Told(X) = {}, \A m \in X : WellFormed(m)
  PROVE  Picked(p, s, q)
<1>1. Told(q.sent) = Told(r.sent)
  <2>1. Told(r.sent \cup X) = Told(r.sent) \cup Told(X)
    BY ToldUnion
  <2> QED
    BY <2>1
<1>2. Still(s, r) => Still(s, q)
  BY <1>1 DEF Still, Quiet, Same
<1>3. Tells(p, s, r) => Tells(p, s, q)
  BY <1>1 DEF Tells, Noted, Same
<1>4. StartsAgain(p, s, r) => StartsAgain(p, s, q)
  BY <1>1 DEF StartsAgain, Same
<1> QED
  BY <1>2, <1>3, <1>4 DEF Picked, Same

\* A step of p that is an effect.
EffectOf(p, r) ==
  /\ Effect(p, step[p], r)
  /\ step' = [step EXCEPT ![p] = r.state]
  /\ net' = net \cup r.sent

LEMMA StartStep ==
  ASSUME IInv, NEW p \in Party, Start(p)
  PROVE  \E r : EffectOf(p, r)
<1> DEFINE s == step[p]
           first == ListMessage(p, s)
           told == OnList(p, s, first)
           q == [state |-> Mark(told.state, "list", p), sent |-> told.sent \cup {first}]
<1>1. Fit(s)
  BY DEF IInv, PartyInv
<1>2. WellFormed(first) /\ Told({first}) = {}
  BY OtherMessages
<1>3. step' = [step EXCEPT ![p] = q.state] /\ net' = net \cup q.sent
  BY DEF Start
<1> HIDE DEF s, first
<1>4. Picked(p, s, told)
  BY <1>1, <1>2, OnListEffect
<1>5. q.sent = told.sent \cup {first} /\ q.state = Mark(told.state, "list", p)
  OBVIOUS
<1>6. Same(told.state, q.state)
  <2> DEFINE n == told.state
  <2>1. Fit(n) /\ p \in Party \cup {Done}
    BY <1>4 DEF Picked
  <2>2. q.state = Mark(n, "list", p)
    BY <1>5
  <2> HIDE DEF n, q
  <2>3. Same(n, Mark(n, "list", p))
    BY <2>1, MarkIsSame
  <2>4. Same(n, q.state)
    BY <2>2, <2>3
  <2> QED
    BY <2>4 DEF n
<1> HIDE DEF told, q
<1>7. Picked(p, s, q)
  BY <1>2, <1>4, <1>5, <1>6, PickedBeforeSame
<1> QED
  BY <1>3, <1>7, PickedIsEffect DEF EffectOf, s

LEMMA ReceiveStep ==
  ASSUME IInv, NEW p \in Party, NEW m \in net, Receive(p, m)
  PROVE  \E r : EffectOf(p, r)
<1> DEFINE r == Handle(p, step[p], m)
<1>1. Fit(step[p]) /\ WellFormed(m)
  BY DEF IInv, PartyInv
<1>2. step' = [step EXCEPT ![p] = r.state] /\ net' = net \cup r.sent
  BY DEF Receive
<1>3. \A x : x = r => Effect(p, step[p], x)
  BY <1>1, HandleEffect
<1> HIDE DEF r
<1>4. Effect(p, step[p], r)
  BY <1>3
<1> QED
  BY <1>2, <1>4 DEF EffectOf

-----------------------------------------------------------------------------
(***************************************************************************)
(* The invariant.                                                          *)
(***************************************************************************)
LEMMA GoneIsClosed ==
  ASSUME NEW p \in Party, NEW s, PartyInv(p, s), s.gone
  PROVE  /\ s.size = Done /\ ~Open(s) /\ ~Waits(s, "trent")
         /\ \E t : s.trent = {t} /\ \A j \in Party : TrentMessage(j, t) \in net
<1>1. s.size = Done /\ 1..Done \subseteq s.hasSent["trent"]
  BY DEF PartyInv, GoneIsOver
<1>2. PICK t : s.trent = {t} /\ TrentMessage(p, t) \in net
  BY <1>1, Slots DEF PartyInv, MarkedHasTold
<1>3. \A j \in Party : TrentMessage(j, t) \in net
  BY <1>1, <1>2, Slots DEF PartyInv, MarkedHasTold
<1>4. ~Open(s)
  BY <1>2, TrentMessages DEF PartyInv, TellsOnce
<1> QED
  BY <1>1, <1>2, <1>3, <1>4 DEF Waits

\* The party whose step it is.
LEMMA OwnStep ==
  ASSUME IInv, NEW p \in Party, NEW r, EffectOf(p, r)
  PROVE  PartyInv(p, r.state)'
<1> DEFINE s == step[p]
<1> USE DEF EffectOf
<1>1. PartyInv(p, s) /\ Effect(p, s, r) /\ net' = net \cup r.sent
  BY DEF IInv
<1>2. \A m : m \in Told(r.sent) <=> m \in r.sent /\ m.kind = "trent"
  BY DEF Told
<1> HIDE DEF s, EffectOf
<1> DEFINE n == r.state
<1>3. Fit(n)
  BY <1>1 DEF Effect
<1>4. CASE Still(s, r)
  <2>1. GoneIsOver(n)
    BY <1>1, <1>4 DEF Still, Quiet, PartyInv, GoneIsOver
  <2>2. MarkedHasTold(n)'
    BY <1>1, <1>4 DEF Still, Quiet, PartyInv, MarkedHasTold
  <2>3. TellsOnce(p, n)'
    BY <1>1, <1>2, <1>4 DEF Still, Quiet, PartyInv, TellsOnce
  <2> QED
    BY <1>3, <2>1, <2>2, <2>3 DEF PartyInv, GoneIsOver, Fit
<1>5. ASSUME NEW j \in Party, NEW t, Noted(j, t, s, n),
             TrentMessage(j, t) \in net'
      PROVE  GoneIsOver(n) /\ MarkedHasTold(n)'
  <2>1. GoneIsOver(n)
    BY <1>1, <1>5 DEF Noted, PartyInv, GoneIsOver
  <2>2. ASSUME n.size = Done, NEW i \in Party, i \in n.hasSent["trent"]
        PROVE  n.trent = {t} /\ TrentMessage(i, t) \in net'
    <3>1. CASE i = j
      BY <1>5, <3>1 DEF Noted
    <3>2. CASE i \in s.hasSent["trent"]
      BY <1>1, <1>5, <2>2, <3>2 DEF Noted, PartyInv, MarkedHasTold
    <3> QED
      BY <1>5, <2>2, <3>1, <3>2, Slots DEF Noted
  <2> QED
    BY <2>1, <2>2 DEF MarkedHasTold
<1>6. CASE Hears(s, r)
  <2>1. PICK j \in Party : \E t : TrentMessage(j, t) \in net /\ Told(r.sent) = {}
                                   /\ Noted(j, t, s, n)
    BY <1>6 DEF Hears
  <2>2. PICK t : TrentMessage(j, t) \in net /\ Told(r.sent) = {}
                   /\ Noted(j, t, s, n)
    BY <2>1
  <2>3. GoneIsOver(n) /\ MarkedHasTold(n)'
    BY <1>1, <1>5, <2>2
  <2>4. TellsOnce(p, n)'
    BY <1>1, <1>2, <2>2 DEF Noted, PartyInv, TellsOnce
  <2> QED
    BY <1>3, <2>3, <2>4 DEF PartyInv, GoneIsOver, Fit
<1>7. ASSUME NEW t, Told(r.sent) = {TrentMessage(p, t)}, Open(s), ~Open(n)
      PROVE  TellsOnce(p, n)' /\ TrentMessage(p, t) \in net'
  <2>1. \A m \in net : ~(m.kind = "trent" /\ m.from = p)
    BY <1>1, <1>7 DEF PartyInv, TellsOnce
  <2>2. \A m \in net' : m.kind = "trent" /\ m.from = p => m = TrentMessage(p, t)
    BY <1>1, <1>2, <1>7, <2>1
  <2>3. TrentMessage(p, t) \in net'
    BY <1>1, <1>2, <1>7
  <2> QED
    BY <1>7, <2>2, <2>3 DEF TellsOnce
<1>8. CASE Tells(p, s, r)
  <2>1. PICK t : Told(r.sent) = {TrentMessage(p, t)} /\ Noted(p, t, s, n)
                   /\ Open(s) /\ ~Open(n)
    BY <1>8 DEF Tells
  <2>2. TellsOnce(p, n)' /\ TrentMessage(p, t) \in net'
    BY <1>7, <2>1
  <2>3. GoneIsOver(n) /\ MarkedHasTold(n)'
    BY <1>5, <2>1, <2>2
  <2> QED
    BY <1>3, <2>2, <2>3 DEF PartyInv, GoneIsOver, Fit
<1>9. CASE StartsAgain(p, s, r)
  <2>1. ~Open(n) /\ n.size # Done
    BY <1>9, Slots DEF StartsAgain, Open
  <2>2. TellsOnce(p, n)'
    <3>1. CASE Told(r.sent) = {}
      BY <1>1, <1>2, <2>1, <3>1 DEF PartyInv, TellsOnce
    <3>2. CASE Open(s) /\ \E t : Told(r.sent) = {TrentMessage(p, t)}
      BY <1>7, <2>1, <3>2
    <3> QED
      BY <1>9, <3>1, <3>2 DEF StartsAgain
  <2>3. ~n.gone
    BY <1>1, <1>9, GoneIsClosed DEF StartsAgain
  <2> QED
    BY <1>3, <2>1, <2>2, <2>3 DEF PartyInv, GoneIsOver, MarkedHasTold, Fit
<1> QED
  BY <1>1, <1>4, <1>6, <1>8, <1>9 DEF Effect

\* Another party than the one whose step it is.
LEMMA OthersStep ==
  ASSUME NEW q \in Party, NEW s, PartyInv(q, s), net \subseteq net',
         \A m \in net' : m.kind = "trent" /\ m.from = q => m \in net
  PROVE  PartyInv(q, s)'
<1>1. TellsOnce(q, s)'
  BY DEF PartyInv, TellsOnce
<1>2. MarkedHasTold(s)'
  BY DEF PartyInv, MarkedHasTold
<1> QED
  BY <1>1, <1>2 DEF PartyInv, GoneIsOver, Fit

LEMMA EffectPreserves ==
  ASSUME IInv, NEW p \in Party, NEW r, EffectOf(p, r)
  PROVE  IInv'
<1>1. step' = [step EXCEPT ![p] = r.state] /\ net' = net \cup r.sent
      /\ Effect(p, step[p], r)
  BY DEF EffectOf
<1>2. /\ DOMAIN step' = Party
      /\ step' = [q \in Party |-> step'[q]]
      /\ step'[p] = r.state
      /\ \A q \in Party : q # p => step'[q] = step[q]
  BY <1>1 DEF IInv
<1>3. \A m \in net' : WellFormed(m)
  BY <1>1 DEF IInv, Effect
<1>4. ASSUME NEW q \in Party, NEW s, s = step'[q]
      PROVE  PartyInv(q, s)'
  <2>1. CASE q = p
    <3>1. PartyInv(p, r.state)'
      BY OwnStep
    <3>2. s = r.state
      BY <1>2, <1>4, <2>1
    <3> QED
      BY <2>1, <3>1, <3>2
  <2>2. CASE q # p
    <3>1. PartyInv(q, s)
      BY <1>2, <1>4, <2>2 DEF IInv
    <3>2. ASSUME NEW m \in r.sent, m.kind = "trent"
          PROVE  m.from = p
      BY <1>1, <3>2, TrentMessages DEF Effect, Still, Hears, Tells, StartsAgain, Told
    <3>3. \A m \in net' : m.kind = "trent" /\ m.from = q => m \in net
      BY <1>1, <2>2, <3>2
    <3> QED
      BY <1>1, <3>1, <3>3, OthersStep
  <2> QED
    BY <2>1, <2>2
<1>5. ASSUME NEW q \in Party
      PROVE  PartyInv(q, step[q])'
  <2>1. PICK s : s = step'[q]
    OBVIOUS
  <2>2. PartyInv(q, s)'
    BY <1>4, <2>1
  <2> QED
    BY <2>1, <2>2 DEF PartyInv, GoneIsOver, MarkedHasTold, TellsOnce
<1> QED
  BY <1>2, <1>3, <1>5 DEF IInv

LEMMA IInvInit == Init => IInv
<1> SUFFICES ASSUME Init PROVE IInv
  OBVIOUS
<1>1. PICK lists \in Lists, numbers \in [Party -> Numbers] :
        step = [p \in Party |->
          [list |-> lists[p], own |-> numbers[p], sum |-> numbers[p] % Cycle,
           hasSent |-> [k \in Kinds |-> {}], size |-> Done, trent |-> {},
           gone |-> FALSE]]
  BY DEF Init
<1>2. net = {}
  BY DEF Init
<1>3. ASSUME NEW p \in Party
      PROVE  PartyInv(p, step[p])
  <2> DEFINE s == step[p]
  <2>1. s = [list |-> lists[p], own |-> numbers[p], sum |-> numbers[p] % Cycle,
             hasSent |-> [k \in Kinds |-> {}], size |-> Done, trent |-> {},
             gone |-> FALSE]
    BY <1>1
  <2> HIDE DEF s
  <2>2. Fit(s)
    BY <2>1 DEF Fit, Fields
  <2>3. GoneIsOver(s) /\ MarkedHasTold(s)
    BY <2>1 DEF GoneIsOver, MarkedHasTold, Kinds
  <2>4. TellsOnce(p, s)
    BY <1>2 DEF TellsOnce
  <2> QED
    BY <2>2, <2>3, <2>4 DEF PartyInv, s
<1> QED
  BY <1>1, <1>2, <1>3 DEF IInv

\* A step of the system is an effect of one party, or changes nothing.
LEMMA NextIsEffect ==
  ASSUME IInv, [Next]_vars
  PROVE  UNCHANGED vars \/ \E p \in Party : \E r : EffectOf(p, r)
<1>1. CASE Next
  BY <1>1, StartStep, ReceiveStep DEF Next
<1> QED
  BY <1>1

LEMMA IInvStutter == IInv /\ UNCHANGED vars => IInv'
  BY DEF IInv, vars, PartyInv, GoneIsOver, MarkedHasTold, TellsOnce, Fit

THEOREM Invariant == Spec => []IInv
<1>1. IInv /\ [Next]_vars => IInv'
  BY NextIsEffect, EffectPreserves, IInvStutter
<1> QED
  BY <1>1, IInvInit, PTL DEF Spec

-----------------------------------------------------------------------------
(***************************************************************************)
(* What follows from it.                                                   *)
(***************************************************************************)

\* A party that has started again never goes on: the slot that marks a round
\* as over is not in its new arrays.
THEOREM RestartIsForever == Spec => []RestartNeverEnds
<1>1. IInv => RestartNeverEnds
  BY Slots DEF IInv, PartyInv, GoneIsOver, RestartNeverEnds
<1> QED
  BY <1>1, Invariant, PTL

\* Those who have gone on have the same Trent.
Agreed ==
  \A p, q \in Party : step[p].gone /\ step[q].gone => step[p].trent = step[q].trent

LEMMA InvariantAgrees == IInv => Agreed
<1> SUFFICES ASSUME IInv, NEW p \in Party, NEW q \in Party,
                    step[p].gone, step[q].gone
             PROVE  step[p].trent = step[q].trent
  BY DEF Agreed
<1>1. PICK t : step[p].trent = {t} /\ TrentMessage(p, t) \in net
  BY GoneIsClosed DEF IInv
<1>2. PICK u : step[q].trent = {u} /\ TrentMessage(p, u) \in net
  BY GoneIsClosed DEF IInv
<1>3. TellsOnce(p, step[p])
  BY DEF IInv, PartyInv
<1>4. /\ TrentMessage(p, t).kind = "trent" /\ TrentMessage(p, t).from = p
      /\ TrentMessage(p, u).kind = "trent" /\ TrentMessage(p, u).from = p
      /\ TrentMessage(p, t).trent = t /\ TrentMessage(p, u).trent = u
  BY DEF TrentMessage
<1>5. TrentMessage(p, t) = TrentMessage(p, u)
  BY <1>1, <1>2, <1>3, <1>4 DEF TellsOnce
<1> QED
  BY <1>1, <1>2, <1>4, <1>5

\* Nobody who has gone on is called back, or takes another Trent.
LEMMA GoneStays ==
  ASSUME IInv, NEW p \in Party, NEW r, EffectOf(p, r), step[p].gone
  PROVE  r.state.gone /\ r.state.trent = step[p].trent
<1> DEFINE s == step[p]
<1>1. Effect(p, s, r) /\ s.gone /\ PartyInv(p, s)
  BY DEF EffectOf, IInv
<1> HIDE DEF s
<1>2. ~Open(s) /\ ~Waits(s, "trent") /\ \E t : s.trent = {t}
  BY <1>1, GoneIsClosed
<1>3. ~Tells(p, s, r) /\ ~StartsAgain(p, s, r)
  BY <1>2 DEF Tells, StartsAgain
<1>4. r.state.gone /\ r.state.trent = s.trent
  BY <1>1, <1>2, <1>3 DEF Effect, Still, Quiet, Hears, Noted
<1> QED
  BY <1>4 DEF s

\* For any number of parties, any lists of users and any numbers, the parties
\* that go on to sign have the same Trent, and keep him.
THEOREM ChooseTrentImplementsAgreement == Spec => ImplementsAgreement
<1>1. Init => A!Init
  BY DEF Init, A!Init, Chosen
<1>2. ASSUME IInv, IInv', [Next]_vars
      PROVE  [A!Next]_Chosen
  <2>1. CASE UNCHANGED vars
    BY <2>1 DEF vars, Chosen
  <2>2. ASSUME NEW p \in Party, NEW r, EffectOf(p, r)
        PROVE  [A!Next]_Chosen
    <3>1. /\ step'[p] = r.state
          /\ \A q \in Party : q # p => step'[q] = step[q]
      BY <1>2, <2>2 DEF EffectOf, IInv
    <3>2. CASE step[p].gone
      BY <1>2, <2>2, <3>1, <3>2, GoneStays DEF Chosen
    <3>3. CASE ~step[p].gone /\ ~step'[p].gone
      BY <3>1, <3>3 DEF Chosen
    <3>4. CASE ~step[p].gone /\ step'[p].gone
      <4>1. Chosen[p] = {} /\ Chosen'[p] = step'[p].trent
        BY <3>4 DEF Chosen
      <4>2. Chosen' = [Chosen EXCEPT ![p] = Chosen'[p]]
        BY <3>1 DEF Chosen
      <4>3. Agreed'
        BY <1>2, InvariantAgrees, PTL
      <4>4. ASSUME NEW q \in Party
            PROVE  Chosen[q] \in {{}, Chosen'[p]}
        BY <3>1, <3>4, <4>1, <4>3 DEF Chosen, Agreed
      <4> QED
        BY <4>1, <4>2, <4>4 DEF A!Next, A!Choose
    <3> QED
      BY <3>2, <3>3, <3>4
  <2> QED
    BY <1>2, <2>1, <2>2, NextIsEffect
<1> QED
  BY <1>1, <1>2, Invariant, PTL DEF Spec, ImplementsAgreement, A!Spec
=============================================================================
