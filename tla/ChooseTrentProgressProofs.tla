--------------------- MODULE ChooseTrentProgressProofs ---------------------
(***************************************************************************)
(* What EveryoneGoesOn rests on.  When all parties know the same users in  *)
(* the same order at first, nobody ever starts again, what a party has     *)
(* marked stays marked, a message that is handled is marked, and when no   *)
(* message changes anything any more all have gone on.                     *)
(***************************************************************************)
EXTENDS ChooseTrentDrawProofs

Of(p, k, M) == {m \in M : m.kind = k /\ m.from = p}

\* The user who is drawn when all know the list l and the numbers are w.
Favourite(l, w) == Drawn(Sorted(l), w)

-----------------------------------------------------------------------------
(***************************************************************************)
(* The invariant, for the list l and the numbers w.                        *)
(***************************************************************************)
MessagesAgree(M, l, w) ==
  \A m \in M : /\ m.kind = "list" => m.list = l
               /\ m.kind = "trent" => m.trent = Favourite(l, w)

FieldsAgree(s, l, w) ==
  /\ s.size = Done
  /\ s.list = (IF Done \in s.hasSent["list"] THEN Sorted(l) ELSE l)
  /\ s.trent \in {{}, {Favourite(l, w)}}
  /\ s.trent = {} => s.hasSent["trent"] = {}

\* A round is over as soon as all have sent, and the next message is out.
ListsAreOver(p, s, M) ==
  /\ Party \subseteq s.hasSent["list"] => Done \in s.hasSent["list"]
  /\ Done \in s.hasSent["list"] => p \in s.hasSent["number"] /\ Of(p, "number", M) # {}

NumbersAreOver(s) == Party \subseteq s.hasSent["number"] => Done \in s.hasSent["number"]

TrentIsOut(p, s, M) ==
  Done \in s.hasSent["number"] => Of(p, "trent", M) # {}

TrentsAreOver(s) ==
  Party \subseteq s.hasSent["trent"] \/ Done \in s.hasSent["trent"] => s.gone

Agrees(p, s, M, l, w) ==
  /\ MessagesAgree(M, l, w)
  /\ FieldsAgree(s, l, w)
  /\ ListsAreOver(p, s, M)
  /\ NumbersAreOver(s)
  /\ TrentIsOut(p, s, M)
  /\ TrentsAreOver(s)

\* No mark is taken back.
Grows(s, n) == \A k \in Kinds : s.hasSent[k] \subseteq n.hasSent[k]

\* A result r of p that keeps it so; no list is published again.
Advances(p, s, r, M, l, w) ==
  /\ Agrees(p, r.state, M \cup r.sent, l, w)
  /\ Grows(s, r.state)
  /\ \A m \in r.sent : m.kind # "list"

-----------------------------------------------------------------------------
(***************************************************************************)
(* Lists that are the same.                                                *)
(***************************************************************************)

\* The numbers from 1 to n in order are themselves.
LEMMA InOrderOfInterval ==
  ASSUME NEW n \in Nat, NEW s, s = InOrder(1..n)
  PROVE  DOMAIN s = 1..n /\ \A i \in 1..n : s[i] = i
<1>1. PICK I : I = 1..n
  OBVIOUS
<1>2. IsFiniteSet(I) /\ Cardinality(I) = n
  BY <1>1, FS_Interval
<1>3. I \in SUBSET Nat
  BY <1>1
<1>4. s \in [1..Cardinality(I) -> I] /\ Increasing(s) /\ ToSet(s) = I
  BY <1>1, <1>2, <1>3, InOrderOfSet
<1>5. s \in [1..n -> 1..n] /\ \A j \in 1..n : \E i \in 1..n : s[i] = j
  <2>1. s \in [1..n -> 1..n]
    BY <1>1, <1>2, <1>4
  <2>2. \A j \in I : \E i \in DOMAIN s : s[i] = j
    BY <1>4 DEF ToSet
  <2> QED
    BY <1>1, <2>1, <2>2
<1> DEFINE T == {i \in 1..n : s[i] # i}
<1>6. T = {}
  <2> SUFFICES ASSUME T # {} PROVE FALSE
    OBVIOUS
  <2>1. PICK i \in T : \A j \in T : i <= j
    <3>1. T \in SUBSET Nat /\ T # {}
      OBVIOUS
    <3> HIDE DEF T
    <3> QED
      BY <3>1, SmallestNumber
  <2>2. i \in 1..n /\ s[i] # i /\ s[i] \in 1..n
    BY <1>5
  <2>3. \A j \in 1..n : j < i => s[j] = j
    BY <2>1, <2>2
  <2>4. s[i] > i
    <3>1. CASE s[i] < i
      <4>1. s[s[i]] = s[i] /\ s[s[i]] < s[i]
        BY <1>4, <1>5, <2>2, <2>3, <3>1 DEF Increasing
      <4> QED
        BY <2>2, <4>1
    <3> QED
      BY <2>2, <3>1
  <2>5. PICK j \in 1..n : s[j] = i
    BY <1>5, <2>2
  <2>6. CASE j < i
    BY <2>2, <2>3, <2>5, <2>6
  <2>7. CASE j = i
    BY <2>2, <2>5, <2>7
  <2>8. CASE j > i
    <3>1. s[i] < s[j]
      BY <1>4, <1>5, <2>2, <2>8 DEF Increasing
    <3> QED
      BY <2>2, <2>4, <2>5, <3>1
  <2> QED
    BY <2>2, <2>6, <2>7, <2>8
<1> QED
  BY <1>5, <1>6

\* A list that is filtered by itself stays as it is.
LEMMA FilterBySame ==
  ASSUME NEW l \in Seq(Users), l # << >>
  PROVE  ~FilterThrows(l, l) /\ Filter(l, l) = l
<1> DEFINE n == Len(l)
<1>1. n \in Nat \ {0} /\ l = [i \in 1..n |-> l[i]] /\ DOMAIN l = 1..n
  OBVIOUS
<1> HIDE DEF n
<1>2. n \div n = 1 /\ n % n = 0
  <2>1. n \in Nat \ {0} /\ n = n * 1 + 0 /\ 0 \in 0..(n - 1) /\ 1 \in Nat
    BY <1>1
  <2> QED
    BY <2>1, Remainder, Quotient
<1>3. ~FilterThrows(l, l)
  BY <1>2 DEF FilterThrows, n
<1>4. Dropped(l, l) = {}
  <2>1. ASSUME NEW c \in 1..(n \div n), \A i \in 1..n : l[(c - 1) * n + i] # l[i]
        PROVE  FALSE
    <3>1. c = 1 /\ 1 \in 1..n
      BY <1>1, <1>2
    <3>2. (c - 1) * n + 1 = 1
      BY <1>1, <3>1
    <3> QED
      BY <2>1, <3>1, <3>2
  <2>2. Dropped(l, l) = {c * n : c \in {c \in 1..(n \div n) :
                           \A i \in 1..n : l[(c - 1) * n + i] # l[i]}}
    BY DEF Dropped, n
  <2> QED
    BY <2>1, <2>2
<1>5. Filter(l, l) = [i \in DOMAIN InOrder(1..n) |-> l[InOrder(1..n)[i]]]
  BY <1>1, <1>4 DEF Filter
<1>6. DOMAIN InOrder(1..n) = 1..n /\ \A i \in 1..n : InOrder(1..n)[i] = i
  BY <1>1, InOrderOfInterval
<1>7. Filter(l, l) = [i \in 1..n |-> l[i]]
  BY <1>5, <1>6
<1> QED
  BY <1>1, <1>3, <1>7

LEMMA SortedIsNotEmpty ==
  ASSUME NEW l \in Seq(Users), l # << >>
  PROVE  Sorted(l) # << >>
<1>1. ToSet(Sorted(l)) = ToSet(l)
  BY SortedList
<1>2. l[1] \in ToSet(l)
  BY DEF ToSet
<1> QED
  BY <1>1, <1>2 DEF ToSet

-----------------------------------------------------------------------------
(***************************************************************************)
(* The handlers, from the innermost.                                       *)
(***************************************************************************)
LEMMA AgreesWithMore ==
  ASSUME NEW p, NEW s, NEW M, NEW L, NEW l, NEW w, Agrees(p, s, M, l, w),
         M \subseteq L, MessagesAgree(L, l, w)
  PROVE  Agrees(p, s, L, l, w)
  BY DEF Agrees, ListsAreOver, TrentIsOut, Of

LEMMA GoOnGrows ==
  ASSUME NEW s \in Steps, s.size = Done, Done \in s.hasSent["trent"] => s.gone,
         NEW n, n = GoOn(s)
  PROVE  /\ n.size = Done /\ n.list = s.list /\ n.trent = s.trent
         /\ n.hasSent["list"] = s.hasSent["list"]
         /\ n.hasSent["number"] = s.hasSent["number"]
         /\ s.hasSent["trent"] \subseteq n.hasSent["trent"]
         /\ TrentsAreOver(n)
<1>1. CASE IsComplete(s, "trent")
  <2> DEFINE marked == Mark(s, "trent", Done)
  <2>1. IsMarkedStep(s, "trent", Done, marked)
    BY MarkedStep DEF Kinds
  <2>2. n = [marked EXCEPT !.gone = TRUE]
    BY <1>1 DEF GoOn
  <2> HIDE DEF marked
  <2>3. /\ n.list = marked.list /\ n.size = marked.size /\ n.trent = marked.trent
        /\ n.hasSent = marked.hasSent /\ n.gone = TRUE
    BY <2>1, <2>2 DEF IsMarkedStep, Steps
  <2> QED
    BY <2>1, <2>3, KindNames DEF IsMarkedStep, TrentsAreOver
<1>2. CASE ~IsComplete(s, "trent")
  <2>1. n = s
    BY <1>2 DEF GoOn
  <2>2. Party \subseteq s.hasSent["trent"] => Done \in s.hasSent["trent"]
    BY <1>2, Slots DEF IsComplete, Waits
  <2> QED
    BY <2>1, <2>2 DEF TrentsAreOver
<1> QED
  BY <1>1, <1>2

\* The favourite is told of: it becomes Trent and j is marked.
NotesFavourite(s, j, n, l, w) ==
  /\ n.size = Done /\ n.list = s.list /\ n.trent = {Favourite(l, w)}
  /\ n.hasSent["list"] = s.hasSent["list"]
  /\ n.hasSent["number"] = s.hasSent["number"]
  /\ s.hasSent["trent"] \cup {j} \subseteq n.hasSent["trent"]
  /\ TrentsAreOver(n)

LEMMA MarkAndGoOn ==
  ASSUME NEW s \in Steps, s.size = Done, TrentsAreOver(s), NEW j \in Party,
         NEW l, NEW w, s.trent = {Favourite(l, w)}, NEW n, n = GoOn(Mark(s, "trent", j))
  PROVE  NotesFavourite(s, j, n, l, w)
<1> DEFINE marked == Mark(s, "trent", j)
<1>1. IsMarkedStep(s, "trent", j, marked)
  <2>1. "trent" \in Kinds /\ j \in Party \cup {Done}
    BY KindNames
  <2> QED
    BY <2>1, MarkedStep
<1>2. n = GoOn(marked)
  OBVIOUS
<1> HIDE DEF marked
<1>3. /\ marked \in Steps /\ marked.size = Done /\ marked.list = s.list
      /\ marked.trent = s.trent /\ marked.gone = s.gone
      /\ marked.hasSent["list"] = s.hasSent["list"]
      /\ marked.hasSent["number"] = s.hasSent["number"]
      /\ marked.hasSent["trent"] = s.hasSent["trent"] \cup {j}
  BY <1>1, KindNames DEF IsMarkedStep
<1>4. Done \in marked.hasSent["trent"] => marked.gone
  BY <1>3, Slots DEF TrentsAreOver
<1>5. /\ n.size = Done /\ n.list = marked.list /\ n.trent = marked.trent
      /\ n.hasSent["list"] = marked.hasSent["list"]
      /\ n.hasSent["number"] = marked.hasSent["number"]
      /\ marked.hasSent["trent"] \subseteq n.hasSent["trent"]
      /\ TrentsAreOver(n)
  BY <1>2, <1>3, <1>4, GoOnGrows
<1> QED
  BY <1>3, <1>5 DEF NotesFavourite

LEMMA PickAdvances ==
  ASSUME NEW p \in Party, NEW s, NEW M, NEW w \in [Party -> Nat], IsKept(p, s, M, w),
         NEW l \in Seq(Users), l # << >>, MessagesAgree(M, l, w), FieldsAgree(s, l, w),
         ListsAreOver(p, s, M), TrentIsOut(p, s, M), TrentsAreOver(s),
         NEW r, r = Pick(p, s)
  PROVE  Advances(p, s, r, M, l, w)
<1>1. s \in Steps /\ s.size = Done
  BY DEF IsKept, FieldsAgree
<1>2. CASE ~IsComplete(s, "number")
  <2>1. r.state = s /\ r.sent = {} /\ M \cup {} = M
    BY <1>2 DEF Pick
  <2>2. NumbersAreOver(s)
    BY <1>1, <1>2, Slots DEF IsComplete, Waits, NumbersAreOver
  <2> QED
    BY <2>1, <2>2 DEF Advances, Agrees, Grows
<1>3. CASE IsComplete(s, "number")
  <2> DEFINE t == Favourite(l, w)
             over == Mark(s, "number", Done)
             known == IF over.trent = {} THEN [over EXCEPT !.trent = {t}] ELSE over
             m == TrentMessage(p, t)
             n == GoOn(Mark(known, "trent", p))
  <2>1. Done \in s.hasSent["list"] /\ s.list = Sorted(l)
    <3>1. p \in s.hasSent["number"]
      BY <1>3 DEF IsComplete
    <3>2. Settled(s)
      BY <1>1, <3>1 DEF IsKept, RoundsFollow
    <3> QED
      BY <3>2, Slots DEF Settled, FieldsAgree
  <2>2. s.list # << >>
    BY <2>1, SortedIsNotEmpty
  <2>3. s.list[(s.sum % Len(s.list)) + 1] = t /\ t \in Users
    <3>1. PICK u : u = s.list[(s.sum % Len(s.list)) + 1]
      OBVIOUS
    <3>2. u = Drawn(s.list, w) /\ u \in Users
      BY <1>3, <2>2, <3>1, PickedUser
    <3> QED
      BY <2>1, <3>1, <3>2 DEF Favourite
  <2>4. r = Announce(p, over, t)
    BY <1>3, <2>2, <2>3 DEF Pick
  <2> HIDE DEF t
  <2>5. IsMarkedStep(s, "number", Done, over)
    <3>1. "number" \in Kinds /\ Done \in Party \cup {Done}
      BY KindNames
    <3> QED
      BY <1>1, <3>1, MarkedStep
  <2> HIDE DEF over
  <2>6. /\ over \in Steps /\ over.size = Done /\ over.list = s.list
        /\ over.trent = s.trent /\ over.gone = s.gone
        /\ over.hasSent["list"] = s.hasSent["list"]
        /\ over.hasSent["number"] = s.hasSent["number"] \cup {Done}
        /\ over.hasSent["trent"] = s.hasSent["trent"]
    BY <1>1, <2>5, KindNames DEF IsMarkedStep
  <2>7. s.trent \in {{}, {t}}
    BY DEF FieldsAgree, t
  <2>8. /\ known \in Steps /\ known.size = Done /\ known.list = s.list
        /\ known.trent = {t} /\ known.gone = s.gone /\ known.hasSent = over.hasSent
    BY <2>3, <2>6, <2>7 DEF Steps
  <2>9. r.state = n /\ r.sent = {m}
    BY <2>4, <2>8 DEF Announce
  <2> HIDE DEF known
  <2>10. TrentsAreOver(known)
    BY <2>6, <2>8 DEF TrentsAreOver
  <2>11. NotesFavourite(known, p, n, l, w)
    BY <2>8, <2>10, MarkAndGoOn DEF t
  <2> HIDE DEF n
  <2>12. /\ n.size = Done /\ n.list = s.list /\ n.trent = {t}
         /\ n.hasSent["list"] = s.hasSent["list"]
         /\ n.hasSent["number"] = s.hasSent["number"] \cup {Done}
         /\ s.hasSent["trent"] \subseteq n.hasSent["trent"]
         /\ TrentsAreOver(n)
    BY <2>6, <2>8, <2>11 DEF NotesFavourite, t
  <2>13. m.kind = "trent" /\ m.from = p /\ m.trent = t
    BY DEF TrentMessage
  <2> HIDE DEF m
  <2>14. MessagesAgree(M \cup {m}, l, w)
    BY <2>13 DEF MessagesAgree, t
  <2>15. FieldsAgree(n, l, w)
    BY <2>1, <2>12 DEF FieldsAgree, t
  <2>16. ListsAreOver(p, n, M \cup {m}) /\ NumbersAreOver(n) /\ TrentIsOut(p, n, M \cup {m})
    BY <2>12, <2>13 DEF ListsAreOver, NumbersAreOver, TrentIsOut, Of
  <2>17. Grows(s, n)
    BY <2>12 DEF Grows, Kinds
  <2> QED
    BY <2>9, <2>12, <2>13, <2>14, <2>15, <2>16, <2>17 DEF Advances, Agrees
<1> QED
  BY <1>2, <1>3

LEMMA OnNumberAdvances ==
  ASSUME NEW p \in Party, NEW s, NEW M, NEW w \in [Party -> Nat], IsKept(p, s, M, w),
         NEW l \in Seq(Users), l # << >>, Agrees(p, s, M, l, w),
         NEW m \in M, IsTrue(m, w), m.kind = "number", NEW r, r = OnNumber(p, s, m)
  PROVE  Advances(p, s, r, M, l, w) /\ m.from \in r.state.hasSent["number"]
<1>1. m.from \in Party /\ s.size = Done
  BY DEF IsTrue, Messages, Agrees, FieldsAgree
<1>2. CASE ~Waits(s, "number")
  <2>1. r.state = s /\ r.sent = {} /\ M \cup {} = M
    BY <1>2 DEF OnNumber
  <2>2. m.from \in s.hasSent["number"]
    BY <1>1, <1>2, Slots DEF Waits
  <2> QED
    BY <2>1, <2>2 DEF Advances, Grows
<1>3. CASE Waits(s, "number")
  <2> DEFINE n == Counts(s, m)
  <2>1. r = Pick(p, n)
    BY <1>3 DEF OnNumber, Counts
  <2>2. /\ IsKept(p, n, M, w)
        /\ n.list = s.list /\ n.size = s.size /\ n.trent = s.trent /\ n.gone = s.gone
        /\ n.hasSent["list"] = s.hasSent["list"]
        /\ n.hasSent["number"] = s.hasSent["number"] \cup {m.from}
        /\ n.hasSent["trent"] = s.hasSent["trent"]
    BY CountsIsKept
  <2> HIDE DEF n
  <2>3. MessagesAgree(M, l, w) /\ FieldsAgree(n, l, w) /\ ListsAreOver(p, n, M)
        /\ TrentsAreOver(n)
    BY <2>2 DEF Agrees, FieldsAgree, ListsAreOver, TrentsAreOver
  <2>4. TrentIsOut(p, n, M)
    BY <1>1, <2>2, Slots DEF Agrees, TrentIsOut
  <2>5. Advances(p, n, r, M, l, w)
    BY <2>1, <2>2, <2>3, <2>4, PickAdvances
  <2>6. m.from \in r.state.hasSent["number"]
    BY <2>2, <2>5, KindNames DEF Advances, Grows
  <2>7. Grows(s, r.state)
    BY <2>2, <2>5 DEF Advances, Grows, Kinds
  <2> QED
    BY <2>5, <2>6, <2>7 DEF Advances
<1> QED
  BY <1>2, <1>3

LEMMA DrawAdvances ==
  ASSUME NEW p \in Party, NEW s, NEW M, NEW w \in [Party -> Nat], IsKept(p, s, M, w),
         NEW l \in Seq(Users), l # << >>, MessagesAgree(M, l, w), FieldsAgree(s, l, w),
         TrentIsOut(p, s, M), TrentsAreOver(s), IsComplete(s, "list"),
         NEW r, r = Draw(p, s)
  PROVE  Advances(p, s, r, M, l, w)
<1> DEFINE n == SortedStep(p, s)
           next == Pick(p, n)
           m == NumberMessage(p, s)
           L == M \cup {m}
<1>1. IsKept(p, n, L, w) /\ m.kind = "number" /\ m.from = p
  BY SortedIsKept
<1>2. r.state = next.state /\ r.sent = next.sent \cup {m}
  BY DrawShape DEF IsKept
<1>3. /\ n.list = Sorted(s.list) /\ n.size = s.size /\ n.trent = s.trent /\ n.gone = s.gone
      /\ n.hasSent["list"] = s.hasSent["list"] \cup {Done}
      /\ n.hasSent["number"] = s.hasSent["number"] \cup {p}
      /\ n.hasSent["trent"] = s.hasSent["trent"]
  BY SortedShape DEF IsKept
<1> HIDE DEF n, m
<1>4. Done \notin s.hasSent["list"] /\ s.size = Done
  BY Slots DEF IsComplete, Waits
<1>5. FieldsAgree(n, l, w)
  BY <1>3, <1>4 DEF FieldsAgree
<1>6. MessagesAgree(L, l, w)
  BY <1>1 DEF MessagesAgree
<1>7. ListsAreOver(p, n, L)
  BY <1>1, <1>3 DEF ListsAreOver, Of
<1>8. TrentIsOut(p, n, L)
  BY <1>3, Slots DEF TrentIsOut, Of
<1>9. TrentsAreOver(n)
  BY <1>3 DEF TrentsAreOver
<1> HIDE DEF L
<1>10. Advances(p, n, next, L, l, w)
  BY <1>1, <1>5, <1>6, <1>7, <1>8, <1>9, PickAdvances
<1> HIDE DEF next
<1>11. Grows(s, r.state)
  BY <1>2, <1>3, <1>10 DEF Advances, Grows, Kinds
<1>12. M \cup r.sent = L \cup next.sent
  BY <1>2 DEF L
<1> QED
  BY <1>1, <1>2, <1>10, <1>11, <1>12 DEF Advances

LEMMA OnListAdvances ==
  ASSUME NEW p \in Party, NEW s, NEW M, NEW w \in [Party -> Nat], IsKept(p, s, M, w),
         NEW l \in Seq(Users), l # << >>, Agrees(p, s, M, l, w),
         NEW m \in M, IsTrue(m, w), m.kind = "list", NEW r, r = OnList(p, s, m)
  PROVE  Advances(p, s, r, M, l, w) /\ m.from \in r.state.hasSent["list"]
<1> DEFINE j == m.from
           held == Mark(s, "list", j)
<1>1. j \in Party /\ s \in Steps /\ s.size = Done
  BY DEF IsTrue, Messages, Agrees, FieldsAgree, IsKept
<1>2. CASE ~Waits(s, "list")
  <2>1. r.state = s /\ r.sent = {} /\ M \cup {} = M
    BY <1>2 DEF OnList
  <2>2. j \in s.hasSent["list"]
    BY <1>1, <1>2, Slots DEF Waits
  <2> QED
    BY <2>1, <2>2 DEF Advances, Grows
<1>3. CASE Waits(s, "list")
  <2>1. Done \notin s.hasSent["list"]
    BY <1>1, <1>3 DEF IsKept, RoundsFollow, Settled, Waits
  <2>2. s.list = l /\ m.list = l
    BY <2>1 DEF Agrees, FieldsAgree, MessagesAgree
  <2>3. Filter(s.list, m.list) = s.list /\ ~FilterThrows(s.list, m.list)
    BY <2>2, FilterBySame
  <2>4. [s EXCEPT !.list = s.list] = s
    BY <1>1 DEF Steps
  <2>5. r = IF IsComplete(held, "list") THEN Draw(p, held)
            ELSE [state |-> held, sent |-> {}]
    BY <1>3, <2>3, <2>4 DEF OnList
  <2>6. IsMarkedStep(s, "list", j, held)
    <3>1. "list" \in Kinds /\ j \in Party \cup {Done}
      BY <1>1, KindNames
    <3> HIDE DEF j
    <3> QED
      BY <1>1, <3>1, MarkedStep
  <2>7. IsKept(p, held, M, w)
    <3>1. j = p => ListsOf(p, M) # {}
      BY DEF ListsOf
    <3> HIDE DEF j
    <3> QED
      BY <1>1, <3>1, ListMarkIsKept
  <2> HIDE DEF held, j
  <2>8. /\ held.list = s.list /\ held.size = s.size /\ held.trent = s.trent
        /\ held.gone = s.gone
        /\ held.hasSent["list"] = s.hasSent["list"] \cup {j}
        /\ held.hasSent["number"] = s.hasSent["number"]
        /\ held.hasSent["trent"] = s.hasSent["trent"]
    BY <2>6, KindNames DEF IsMarkedStep
  <2>9. Done \notin held.hasSent["list"]
    BY <1>1, <2>1, <2>8, Slots
  <2>10. MessagesAgree(M, l, w) /\ FieldsAgree(held, l, w) /\ NumbersAreOver(held)
         /\ TrentIsOut(p, held, M) /\ TrentsAreOver(held)
    BY <2>1, <2>8, <2>9 DEF Agrees, FieldsAgree, NumbersAreOver, TrentIsOut, TrentsAreOver
  <2>11. Advances(p, held, r, M, l, w)
    <3>1. CASE IsComplete(held, "list")
      BY <2>5, <2>7, <2>10, <3>1, DrawAdvances
    <3>2. CASE ~IsComplete(held, "list")
      <4>1. r.state = held /\ r.sent = {} /\ M \cup {} = M
        BY <2>5, <3>2
      <4>2. ListsAreOver(p, held, M)
        BY <1>1, <2>8, <2>9, <3>2, Slots DEF ListsAreOver, IsComplete, Waits
      <4> QED
        BY <2>10, <4>1, <4>2 DEF Advances, Agrees, Grows
    <3> QED
      BY <3>1, <3>2
  <2>12. j \in r.state.hasSent["list"] /\ Grows(s, r.state)
    BY <2>8, <2>11 DEF Advances, Grows, Kinds
  <2> QED
    BY <2>11, <2>12 DEF Advances, j
<1> QED
  BY <1>2, <1>3

\* The own user is published by all: nobody starts again.
LEMMA OnTrentAdvances ==
  ASSUME NEW p \in Party, NEW s, NEW M, NEW w \in [Party -> Nat], IsKept(p, s, M, w),
         NEW l, Agrees(p, s, M, l, w),
         NEW m \in M, IsTrue(m, w), m.kind = "trent", NEW r, r = OnTrent(p, s, m)
  PROVE  Advances(p, s, r, M, l, w) /\ m.from \in r.state.hasSent["trent"]
<1> DEFINE j == m.from
           t == m.trent
           marked == Mark(s, "trent", j)
           known == [marked EXCEPT !.trent = {t}]
<1>1. j \in Party /\ s \in Steps /\ s.size = Done /\ t \in Users /\ t = Favourite(l, w)
      /\ M \cup {} = M
  BY DEF IsTrue, Messages, Agrees, FieldsAgree, MessagesAgree, IsKept
<1>2. r = IF ~Waits(s, "trent") THEN [state |-> s, sent |-> {}]
          ELSE IF s.trent = {} THEN [state |-> known, sent |-> {}]
          ELSE IF s.trent = {t} THEN [state |-> GoOn(marked), sent |-> {}]
          ELSE Restart(p, s)
  BY DEF OnTrent
<1> HIDE DEF t, j
<1>3. CASE ~Waits(s, "trent")
  <2>1. r.state = s /\ r.sent = {}
    BY <1>2, <1>3
  <2>2. j \in s.hasSent["trent"]
    BY <1>1, <1>3, Slots DEF Waits
  <2> QED
    BY <1>1, <2>1, <2>2 DEF Advances, Grows, j
<1>4. ASSUME NEW n, n.size = Done, n.list = s.list, n.trent = {t},
             n.hasSent["list"] = s.hasSent["list"],
             n.hasSent["number"] = s.hasSent["number"],
             s.hasSent["trent"] \cup {j} \subseteq n.hasSent["trent"],
             TrentsAreOver(n), r.state = n, r.sent = {}
      PROVE  Advances(p, s, r, M, l, w) /\ j \in r.state.hasSent["trent"]
  <2>1. FieldsAgree(n, l, w) /\ ListsAreOver(p, n, M) /\ NumbersAreOver(n)
        /\ TrentIsOut(p, n, M)
    BY <1>1, <1>4 DEF Agrees, FieldsAgree, ListsAreOver, NumbersAreOver, TrentIsOut
  <2>2. Grows(s, n)
    BY <1>4 DEF Grows, Kinds
  <2> QED
    BY <1>1, <1>4, <2>1, <2>2 DEF Advances, Agrees
<1>5. CASE Waits(s, "trent") /\ s.trent = {}
  <2>1. IsMarkedStep(s, "trent", j, marked)
    <3>1. "trent" \in Kinds /\ j \in Party \cup {Done}
      BY <1>1, KindNames
    <3> QED
      BY <1>1, <3>1, MarkedStep
  <2>2. r.state = known /\ r.sent = {}
    BY <1>2, <1>5
  <2> HIDE DEF marked
  <2>3. /\ known.size = Done /\ known.list = s.list /\ known.trent = {t}
        /\ known.hasSent = marked.hasSent
    BY <1>1, <2>1 DEF IsMarkedStep, Steps
  <2> HIDE DEF known
  <2>4. /\ known.hasSent["list"] = s.hasSent["list"]
        /\ known.hasSent["number"] = s.hasSent["number"]
        /\ known.hasSent["trent"] = {j}
    BY <1>5, <2>1, <2>3, KindNames DEF IsMarkedStep, Agrees, FieldsAgree
  <2>5. TrentsAreOver(known)
    <3>1. 1 \in Party /\ 2 \in Party /\ 1 # 2
      BY Slots DEF Party
    <3> QED
      BY <1>1, <2>4, <3>1, Slots DEF TrentsAreOver
  <2> QED
    BY <1>4, <1>5, <2>2, <2>3, <2>4, <2>5 DEF j, Agrees, FieldsAgree
<1>6. CASE Waits(s, "trent") /\ s.trent # {}
  <2> DEFINE n == GoOn(marked)
  <2>1. s.trent = {t} /\ TrentsAreOver(s)
    BY <1>1, <1>6 DEF Agrees, FieldsAgree
  <2>2. NotesFavourite(s, j, n, l, w)
    BY <1>1, <2>1, MarkAndGoOn
  <2>3. r.state = n /\ r.sent = {}
    BY <1>2, <1>6, <2>1
  <2> HIDE DEF n
  <2> QED
    BY <1>1, <1>4, <2>2, <2>3 DEF NotesFavourite, j
<1> QED
  BY <1>3, <1>5, <1>6

\* Every message that is handled is marked.
LEMMA HandleAdvances ==
  ASSUME NEW p \in Party, NEW s, NEW M, NEW w \in [Party -> Nat], IsKept(p, s, M, w),
         NEW l \in Seq(Users), l # << >>, Agrees(p, s, M, l, w),
         NEW m \in M, IsTrue(m, w), NEW r, r = Handle(p, s, m)
  PROVE  Advances(p, s, r, M, l, w) /\ m.from \in r.state.hasSent[m.kind]
<1>1. CASE m.kind = "list"
  <2>1. r = OnList(p, s, m)
    BY <1>1 DEF Handle
  <2> QED
    BY <1>1, <2>1, OnListAdvances
<1>2. CASE m.kind = "number"
  <2>1. r = OnNumber(p, s, m)
    BY <1>2 DEF Handle
  <2> QED
    BY <1>2, <2>1, OnNumberAdvances
<1>3. CASE m.kind = "trent"
  <2>1. r = OnTrent(p, s, m)
    BY <1>3 DEF Handle
  <2> QED
    BY <1>3, <2>1, OnTrentAdvances
<1>4. m.kind \in {"list", "number", "trent"}
  BY DEF IsTrue, Messages
<1> QED
  BY <1>1, <1>2, <1>3, <1>4

-----------------------------------------------------------------------------
(***************************************************************************)
(* The invariant of the runs in which all know the list l at first.        *)
(***************************************************************************)
ListAgreed(l) ==
  /\ l \in Seq(Users) /\ l # << >>
  /\ \A p \in Party : Agrees(p, step[p], net, l, Own)
  /\ \A p \in Party : p \in started <=> ListsOf(p, net) # {}

\* A step of p with the result r, in which list messages come from S only.
AdvancesOf(p, r, l, S) ==
  /\ Agrees(p, r.state, net \cup r.sent, l, Own)
  /\ Grows(step[p], r.state)
  /\ \A q \in Party : (\E m \in r.sent : m.kind = "list" /\ m.from = q) <=> q \in S
  /\ step' = [step EXCEPT ![p] = r.state]
  /\ net' = net \cup r.sent
  /\ started' = started \cup S

LEMMA ReceiveAdvances ==
  ASSUME DrawInv, NEW l, ListAgreed(l), NEW p \in Party, NEW m \in net, Receive(p, m)
  PROVE  \E r : AdvancesOf(p, r, l, {})
<1> DEFINE r == Handle(p, step[p], m)
<1>1. IsKept(p, step[p], net, Own) /\ IsTrue(m, Own) /\ Own \in [Party -> Nat]
  BY OwnIsNumbers DEF DrawInv
<1>2. l \in Seq(Users) /\ l # << >> /\ Agrees(p, step[p], net, l, Own)
  BY DEF ListAgreed
<1>3. step' = [step EXCEPT ![p] = r.state] /\ net' = net \cup r.sent /\ started' = started
  BY DEF Receive
<1>4. Advances(p, step[p], r, net, l, Own)
  BY <1>1, <1>2, HandleAdvances
<1> HIDE DEF r
<1>5. AdvancesOf(p, r, l, {})
  BY <1>3, <1>4 DEF AdvancesOf, Advances
<1> QED
  BY <1>5

\* The first list of p is the common one, and leaves it as it is.
LEMMA StartAdvances ==
  ASSUME DrawInv, NEW l, ListAgreed(l), NEW p \in Party, Start(p)
  PROVE  \E r : AdvancesOf(p, r, l, {p})
<1> DEFINE s == step[p]
           first == ListMessage(p, s)
           told == OnList(p, s, first)
           r == [state |-> told.state, sent |-> told.sent \cup {first}]
           M == net \cup {first}
<1>1. /\ step' = [step EXCEPT ![p] = Mark(told.state, "list", p)]
      /\ net' = net \cup r.sent
      /\ started' = started \cup {p} /\ p \notin started
  BY DEF Start
<1>2. s \in Steps /\ IsKept(p, s, net, Own) /\ Own \in [Party -> Nat]
  BY OwnIsNumbers DEF DrawInv
<1>3. first.kind = "list" /\ first.from = p /\ first.list = s.list /\ first \in Messages
  BY <1>2, MessageTypes DEF ListMessage
<1>4. l \in Seq(Users) /\ l # << >> /\ Agrees(p, s, net, l, Own)
  BY DEF ListAgreed
<1>5. IsTrue(first, Own)
  BY <1>3 DEF IsTrue
<1> HIDE DEF s, first
<1>6. s.list = l
  <2>1. ListsOf(p, net) = {}
    BY <1>1 DEF ListAgreed
  <2>2. s.size = Done
    BY <1>4 DEF Agrees, FieldsAgree
  <2>3. p \notin s.hasSent["list"]
    BY <1>2, <2>1, <2>2 DEF IsKept, ListIsTold
  <2>4. Done \notin s.hasSent["list"]
    BY <1>2, <2>2, <2>3, Slots DEF IsKept, RoundsFollow, Settled
  <2> QED
    BY <1>4, <2>4 DEF Agrees, FieldsAgree
<1>7. IsKept(p, s, M, Own) /\ first \in M /\ net \subseteq M
  BY <1>2, <1>3, ListIsSent
<1>8. MessagesAgree(M, l, Own)
  BY <1>3, <1>4, <1>6 DEF Agrees, MessagesAgree
<1>9. Agrees(p, s, M, l, Own)
  BY <1>4, <1>7, <1>8, AgreesWithMore
<1>10. Advances(p, s, told, M, l, Own) /\ p \in told.state.hasSent["list"]
  BY <1>2, <1>3, <1>4, <1>5, <1>7, <1>9, OnListAdvances
<1>11. told.state \in Steps
  <2>1. Keeps(p, told, M, Own)
    BY <1>2, <1>3, <1>5, <1>7, OnListKeeps
  <2> QED
    BY <2>1 DEF Keeps, IsKept
<1> HIDE DEF told
<1>12. Mark(told.state, "list", p) = told.state
  <2> DEFINE n == told.state
  <2>1. n \in Steps /\ p \in n.hasSent["list"]
    BY <1>10, <1>11
  <2> HIDE DEF n
  <2>2. n.hasSent["list"] \cup {p} = n.hasSent["list"]
    BY <2>1
  <2>3. Mark(n, "list", p) = n
    BY <2>1, <2>2, KindNames DEF Mark, Steps
  <2> QED
    BY <2>3 DEF n
<1>13. net \cup r.sent = M \cup told.sent /\ r.state = told.state
  OBVIOUS
<1>14. \A m \in r.sent : m.kind = "list" <=> m = first
  BY <1>3, <1>10 DEF Advances
<1>15. first \in r.sent
  OBVIOUS
<1> HIDE DEF r, M
<1>16. AdvancesOf(p, r, l, {p})
  BY <1>1, <1>3, <1>10, <1>12, <1>13, <1>14, <1>15 DEF AdvancesOf, Advances, s
<1> QED
  BY <1>16

LEMMA AdvancesPreserves ==
  ASSUME DrawInv, DrawInv', NEW l, ListAgreed(l), Own' = Own,
         NEW p \in Party, NEW r, NEW S, AdvancesOf(p, r, l, S)
  PROVE  ListAgreed(l)' /\ \A q \in Party : Grows(step[q], step'[q])
<1>1. step'[p] = r.state /\ \A q \in Party : q # p => step'[q] = step[q]
  BY DEF DrawInv, AdvancesOf
<1>2. MessagesAgree(net', l, Own) /\ net \subseteq net'
  BY DEF AdvancesOf, Agrees
<1>3. ASSUME NEW q \in Party
      PROVE  Agrees(q, step'[q], net', l, Own)
  <2>1. CASE q = p
    BY <1>1, <2>1 DEF AdvancesOf
  <2>2. CASE q # p
    <3>1. Agrees(q, step[q], net, l, Own)
      BY DEF ListAgreed
    <3> QED
      BY <1>1, <1>2, <2>2, <3>1, AgreesWithMore
  <2> QED
    BY <2>1, <2>2
<1>4. \A q \in Party : q \in started' <=> ListsOf(q, net') # {}
  BY DEF AdvancesOf, ListAgreed, ListsOf
<1>5. \A q \in Party : Grows(step[q], step'[q])
  BY <1>1 DEF AdvancesOf, Grows
<1>6. \A q \in Party : Agrees(q, step[q], net, l, Own)'
  BY <1>3
<1> QED
  BY <1>4, <1>5, <1>6 DEF ListAgreed

SameInv == DrawInv /\ \E l : ListAgreed(l)

LEMMA SameInvInit == Init /\ SameLists => SameInv
<1> SUFFICES ASSUME Init, SameLists PROVE SameInv
  OBVIOUS
<1>1. PICK lists \in Lists, numbers \in [Party -> Numbers] :
        step = [p \in Party |->
          [list |-> lists[p], own |-> numbers[p], sum |-> numbers[p] % Cycle,
           hasSent |-> [k \in Kinds |-> {}], size |-> Done, trent |-> {},
           gone |-> FALSE]]
  BY DEF Init
<1>2. net = {} /\ started = {}
  BY DEF Init
<1>3. 1 \in Party /\ 2 \in Party /\ Done \in 1..Done
  BY Slots DEF Party
<1> DEFINE l == step[1].list
<1>4. l \in Seq(Users) /\ l # << >> /\ \A p \in Party : step[p].list = l
  <2>1. DrawInv
    BY DrawInvInit
  <2> QED
    BY <1>3, <2>1 DEF SameLists, DrawInv, Steps
<1> HIDE DEF l
<1>5. ASSUME NEW p \in Party
      PROVE  Agrees(p, step[p], net, l, Own)
  <2> DEFINE s == step[p]
  <2>1. s.hasSent = [k \in Kinds |-> {}] /\ s.size = Done /\ s.trent = {}
    BY <1>1
  <2>2. s.list = l
    BY <1>4
  <2> HIDE DEF s
  <2>3. s.hasSent["list"] = {} /\ s.hasSent["number"] = {} /\ s.hasSent["trent"] = {}
    BY <2>1, KindNames
  <2>4. MessagesAgree(net, l, Own) /\ FieldsAgree(s, l, Own)
    BY <1>2, <2>1, <2>2, <2>3 DEF MessagesAgree, FieldsAgree
  <2>5. /\ ListsAreOver(p, s, net) /\ NumbersAreOver(s)
        /\ TrentIsOut(p, s, net) /\ TrentsAreOver(s)
    BY <1>3, <2>3 DEF ListsAreOver, NumbersAreOver, TrentIsOut, TrentsAreOver
  <2> QED
    BY <2>4, <2>5 DEF Agrees, s
<1>6. \A p \in Party : p \in started <=> ListsOf(p, net) # {}
  BY <1>2 DEF ListsOf
<1>7. ListAgreed(l)
  BY <1>4, <1>5, <1>6 DEF ListAgreed
<1> QED
  BY <1>7, DrawInvInit DEF SameInv

\* Every step keeps it, and every mark.
LEMMA SameInvStep ==
  ASSUME SameInv, [Next]_vars, DrawInv'
  PROVE  SameInv' /\ \A q \in Party : Grows(step[q], step'[q])
<1>1. PICK l : ListAgreed(l) /\ DrawInv
  BY DEF SameInv
<1>2. Own' = Own
  <2>1. CASE Next
    <3>1. PICK p \in Party : \E r : KeepsOf(p, r)
      BY <1>1, <2>1, StartKeeps, ReceiveKeeps DEF Next
    <3>2. PICK r : KeepsOf(p, r)
      BY <3>1
    <3>3. step' = [step EXCEPT ![p] = r.state] /\ r.state.own = step[p].own
      BY <3>2 DEF KeepsOf, Keeps, IsKept, Own
    <3> QED
      BY <1>1, <3>3 DEF Own, DrawInv
  <2>2. CASE UNCHANGED vars
    BY <2>2 DEF vars, Own
  <2> QED
    BY <2>1, <2>2
<1>3. CASE Next
  <2>1. \E p \in Party : \E r, S : AdvancesOf(p, r, l, S)
    BY <1>1, <1>3, StartAdvances, ReceiveAdvances DEF Next
  <2>2. ListAgreed(l)' /\ \A q \in Party : Grows(step[q], step'[q])
    BY <1>1, <1>2, <2>1, AdvancesPreserves
  <2> QED
    BY <2>2 DEF SameInv
<1>4. CASE UNCHANGED vars
  <2>1. ListAgreed(l)'
    BY <1>1, <1>2, <1>4 DEF ListAgreed, vars
  <2>2. \A q \in Party : Grows(step[q], step'[q])
    BY <1>4 DEF Grows, vars
  <2> QED
    BY <2>1, <2>2 DEF SameInv
<1> QED
  BY <1>3, <1>4

LEMMA SameInvariant == Spec /\ SameLists => []SameInv
<1>1. SameInv /\ [Next]_vars /\ DrawInv' => SameInv'
  BY SameInvStep
<1> QED
  BY <1>1, SameInvInit, DrawInvariant, PTL DEF Spec

-----------------------------------------------------------------------------
(***************************************************************************)
(* What EveryoneGoesOn rests on.                                           *)
(***************************************************************************)

\* No party has forgotten that another one has sent its message of a round.
MarksStay == \A p \in Party : \A k \in Kinds : step[p].hasSent[k] \subseteq step'[p].hasSent[k]

\* Everybody has started, and no message changes the fields of anybody.
AllIsHeard ==
  /\ started = Party
  /\ \A p \in Party, m \in net : Handle(p, step[p], m).state = step[p]

\* When all know the same users at first, in the same order, the arrays of hasSent
\* only fill up: no party ever starts again, in whatever order it finds the messages.
THEOREM NobodyStartsAgain == Spec /\ SameLists => [][MarksStay]_vars
<1>1. SameInv /\ [Next]_vars /\ DrawInv' => [MarksStay]_vars
  BY SameInvStep DEF MarksStay, Grows
<1> QED
  BY <1>1, SameInvariant, DrawInvariant, PTL DEF Spec

\* When all know the same users at first, in the same order, there is no state in
\* which the messages are used up and somebody has not gone on to sign: with the
\* theorem above, EveryoneGoesOn only asks that messages are found.
THEOREM NobodyIsStuck == Spec /\ SameLists => [](AllIsHeard => \A p \in Party : step[p].gone)
<1>1. ASSUME SameInv, AllIsHeard
      PROVE  \A p \in Party : step[p].gone
  <2>1. PICK l : ListAgreed(l)
    BY <1>1 DEF SameInv
  <2>2. \A p \in Party : Agrees(p, step[p], net, l, Own)
    BY <2>1 DEF ListAgreed
  <2>3. ASSUME NEW p \in Party, NEW m \in net
        PROVE  m.from \in step[p].hasSent[m.kind]
    <3> DEFINE w == Own
    <3>1. IsKept(p, step[p], net, w) /\ IsTrue(m, w) /\ w \in [Party -> Nat]
      BY <1>1, OwnIsNumbers DEF SameInv, DrawInv
    <3>2. l \in Seq(Users) /\ l # << >> /\ Agrees(p, step[p], net, l, w)
      BY <2>1 DEF ListAgreed
    <3> HIDE DEF w
    <3>3. PICK r : r = Handle(p, step[p], m)
      OBVIOUS
    <3>4. m.from \in r.state.hasSent[m.kind]
      BY <3>1, <3>2, <3>3, HandleAdvances
    <3> QED
      BY <1>1, <3>3, <3>4 DEF AllIsHeard
  <2>4. \A p, q \in Party : q \in step[p].hasSent["list"]
    <3>1. \A q \in Party : \E m \in net : m.kind = "list" /\ m.from = q
      BY <1>1, <2>1 DEF AllIsHeard, ListAgreed, ListsOf
    <3> QED
      BY <2>3, <3>1
  <2>5. \A p, q \in Party : q \in step[p].hasSent["number"]
    <3>1. \A q \in Party : \E m \in net : m.kind = "number" /\ m.from = q
      BY <2>2, <2>4 DEF Agrees, ListsAreOver, Of
    <3> QED
      BY <2>3, <3>1
  <2>6. \A p, q \in Party : q \in step[p].hasSent["trent"]
    <3>1. \A q \in Party : \E m \in net : m.kind = "trent" /\ m.from = q
      BY <2>2, <2>5 DEF Agrees, NumbersAreOver, TrentIsOut, Of
    <3> QED
      BY <2>3, <3>1
  <2> QED
    BY <2>2, <2>6 DEF Agrees, TrentsAreOver
<1>2. SameInv => (AllIsHeard => \A p \in Party : step[p].gone)
  BY <1>1
<1> QED
  BY <1>2, SameInvariant, PTL
\* What the comment on getRound says of the first round is true under the same
\* condition: those who have left it have the same list, whatever they have found.
THEOREM SameListIsSetUp == Spec /\ SameLists => []ListIsSetUpTogether
<1>1. ASSUME SameInv PROVE ListIsSetUpTogether
  <2>1. PICK l : ListAgreed(l)
    BY <1>1 DEF SameInv
  <2>2. \A p \in Party : FieldsAgree(step[p], l, Own)
    BY <2>1 DEF ListAgreed, Agrees
  <2> QED
    BY <2>2 DEF FieldsAgree, ListIsSetUpTogether
<1>2. SameInv => ListIsSetUpTogether
  BY <1>1
<1> QED
  BY <1>2, SameInvariant, PTL
=============================================================================
