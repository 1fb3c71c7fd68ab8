------------------------- MODULE TrentSolverProofs -------------------------
(***************************************************************************)
(* Proofs about TrentSolver, for any set of parties and any claims.        *)
(*                                                                         *)
(* The invariant that carries them relates the list of claims to the flag  *)
(* optimistic: the list is still empty when a claim is opened, and nothing *)
(* is opened once it is not.  A claim of round 1 is what clears the flag.  *)
(***************************************************************************)
EXTENDS TrentSolver, SequenceTheorems, FiniteSetTheorems, TLAPS

\* The maps that the list may hold.
Map == {{}} \cup {{c} : c \in Arrivals}

LEMMA ClaimTypes ==
  ASSUME NEW c \in Arrivals
  PROVE  c.sender \in Party /\ c.round \in Int
  BY ConstantsAssumption DEF Claim

\* What HashMap.remove leaves in the list.
LEMMA RemoveProperties ==
  ASSUME claims \in Seq(Map), NEW k \in 0..(Size - 1), NEW s
  PROVE  /\ Remove(k, s) \in Seq(Map)
         /\ Len(Remove(k, s)) = Size
         /\ \A j \in 0..(Size - 1) :
              Remove(k, s)[j + 1] = IF j = k THEN {d \in Held(k) : d.sender # s} ELSE Held(j)
<1>1. Size \in Nat
  BY LenProperties DEF Size
<1>2. k + 1 \in 1..Len(claims) /\ claims[k + 1] \in Map
  BY <1>1, ElementOfSeq DEF Size
<1>3. {d \in claims[k + 1] : d.sender # s} \in Map
  BY <1>2 DEF Map
<1> DEFINE left == {d \in claims[k + 1] : d.sender # s}
<1>4. left \in Map /\ Remove(k, s) = [claims EXCEPT ![k + 1] = left]
  BY <1>3 DEF Remove
<1>5. left = {d \in Held(k) : d.sender # s}
  BY DEF Held
<1> HIDE DEF left
<1>6. /\ [claims EXCEPT ![k + 1] = left] \in Seq(Map)
      /\ Len([claims EXCEPT ![k + 1] = left]) = Size
      /\ \A j \in 1..Size :
           [claims EXCEPT ![k + 1] = left][j] = IF j = k + 1 THEN left ELSE claims[j]
  BY <1>1, <1>2, <1>4, ExceptSeq DEF Size
<1> QED
  BY <1>1, <1>4, <1>5, <1>6 DEF Held

\* ArrayList.add keeps what is in the list.
LEMMA InsertAtProperties ==
  ASSUME claims \in Seq(Map), NEW c \in Arrivals, NEW k \in 0..Size
  PROVE  /\ InsertAt(k, c) \in Seq(Map)
         /\ Len(InsertAt(k, c)) = Size + 1
         /\ InsertAt(k, c)[k + 1] = {c}
         /\ \A j \in 0..(Size - 1) :
              \E i \in 0..Size : InsertAt(k, c)[i + 1] = Held(j)
         /\ \A i \in 0..Size :
              \/ InsertAt(k, c)[i + 1] = {c}
              \/ \E j \in 0..(Size - 1) : InsertAt(k, c)[i + 1] = Held(j)
<1> DEFINE front == SubSeq(claims, 1, k)
           back == SubSeq(claims, k + 1, Size)
<1>0. Size \in Nat /\ k \in Nat /\ k <= Size
  BY LenProperties DEF Size
<1>1. Size \in Nat /\ \A j \in 1..Size : claims[j] \in Map
  BY LenProperties, ElementOfSeq DEF Size
<1>2. front \in Seq(Map) /\ Len(front) = k
      /\ \A j \in 1..k : front[j] = claims[j]
  <2>1. \A j \in 1..k : claims[j] \in Map
    BY <1>1
  <2> QED
    BY <1>0, <2>1, SubSeqProperties
<1>3. back \in Seq(Map) /\ Len(back) = Size - k
      /\ \A j \in 1..(Size - k) : back[j] = claims[k + j]
  <2>1. \A j \in (k + 1)..Size : claims[j] \in Map
    BY <1>1
  <2> QED
    BY <1>0, <2>1, SubSeqProperties
<1>4. <<{c}>> \in Seq(Map) /\ Len(<<{c}>>) = 1 /\ <<{c}>>[1] = {c}
  BY DEF Map
<1> DEFINE first == front \o <<{c}>>
<1>5. first \in Seq(Map) /\ Len(first) = k + 1 /\ first[k + 1] = {c}
      /\ \A j \in 1..k : first[j] = claims[j]
  BY <1>0, <1>2, <1>4, ConcatProperties
<1>6. InsertAt(k, c) = first \o back
  BY DEF InsertAt
<1> HIDE DEF first, back, front
<1>7. first \o back \in Seq(Map) /\ Len(first \o back) = Size + 1
      /\ \A i \in 1..(Size + 1) :
           (first \o back)[i] = IF i <= k + 1 THEN first[i] ELSE back[i - (k + 1)]
  BY <1>0, <1>3, <1>5, ConcatProperties
<1>8. ASSUME NEW j \in 0..(Size - 1)
      PROVE  \E i \in 0..Size : (first \o back)[i + 1] = Held(j)
  <2>1. CASE j < k
    <3>1. j \in 0..Size /\ (first \o back)[j + 1] = Held(j)
      BY <1>0, <1>5, <1>7, <2>1 DEF Held
    <3> QED
      BY <3>1
  <2>2. CASE j >= k
    <3>1. /\ j + 1 \in 0..Size
          /\ (j + 1) + 1 \in 1..(Size + 1)
          /\ ~((j + 1) + 1 <= k + 1)
          /\ ((j + 1) + 1) - (k + 1) \in 1..(Size - k)
          /\ k + (((j + 1) + 1) - (k + 1)) = j + 1
      BY <1>0, <2>2
    <3>2. (first \o back)[(j + 1) + 1] = back[((j + 1) + 1) - (k + 1)]
      BY <1>7, <3>1
    <3>3. back[((j + 1) + 1) - (k + 1)] = claims[k + (((j + 1) + 1) - (k + 1))]
      BY <1>3, <3>1
    <3> QED
      BY <3>1, <3>2, <3>3 DEF Held
  <2> QED
    <3>1. j < k \/ j >= k
      BY <1>0
    <3> QED
      BY <2>1, <2>2, <3>1
<1>9. (first \o back)[k + 1] = {c}
  BY <1>0, <1>5, <1>7
<1>10. ASSUME NEW i \in 0..Size
       PROVE  \/ (first \o back)[i + 1] = {c}
              \/ \E j \in 0..(Size - 1) : (first \o back)[i + 1] = Held(j)
  <2>1. CASE i < k
    <3>1. i \in 0..(Size - 1) /\ (first \o back)[i + 1] = Held(i)
      BY <1>0, <1>5, <1>7, <2>1 DEF Held
    <3> QED
      BY <3>1
  <2>2. CASE i = k
    BY <1>9, <2>2
  <2>3. CASE i > k
    <3> DEFINE n == (i + 1) - (k + 1)
    <3>1. /\ i - 1 \in 0..(Size - 1) /\ i + 1 \in 1..(Size + 1) /\ ~(i + 1 <= k + 1)
          /\ n \in 1..(Size - k) /\ k + n = (i - 1) + 1
      BY <1>0, <2>3
    <3>2. (first \o back)[i + 1] = back[n]
      BY <1>7, <3>1
    <3>3. back[n] = claims[k + n]
      BY <1>3, <3>1
    <3> HIDE DEF n
    <3>4. (first \o back)[i + 1] = Held(i - 1)
      BY <3>1, <3>2, <3>3 DEF Held
    <3> QED
      BY <3>1, <3>4
  <2> QED
    <3>1. i < k \/ i = k \/ i > k
      BY <1>0
    <3> QED
      BY <2>1, <2>2, <2>3, <3>1
<1> QED
  BY <1>6, <1>7, <1>8, <1>9, <1>10

\* A map of the list holds one claim at most.
LEMMA HeldClaims ==
  ASSUME claims \in Seq(Map), NEW k \in 0..(Size - 1), NEW d \in Held(k)
  PROVE  d \in Arrivals /\ Held(k) = {d}
<1>1. k + 1 \in 1..Len(claims)
  BY LenProperties DEF Size
<1>2. Held(k) \in Map
  BY <1>1, ElementOfSeq DEF Held
<1> QED
  BY <1>2 DEF Map

LEMMA EvidenceShows ==
  ASSUME NEW e \in Arrivals \X Arrivals
  PROVE  e # NoEvidence
<1>1. PICK a \in Arrivals, b \in Arrivals : e = <<a, b>>
  OBVIOUS
<1>2. Len(<<a, b>>) = 2
  OBVIOUS
<1> QED
  BY <1>1, <1>2, EmptySeq DEF NoEvidence

LEMMA StopsBelowAreIndices ==
  ASSUME NEW c \in Arrivals, NEW k \in StopsBelow(c)
  PROVE  k \in Nat
  BY DEF StopsBelow

-----------------------------------------------------------------------------
(***************************************************************************)
(* What each kind of step does to the list of claims and to the evidence.  *)
(***************************************************************************)

\* The accusing steps: a claim of the accused may leave its map, the list keeps
\* its length, and whoever loses a claim is accused.
Accusing(c) == ShowOtherDishonest(c) \/ ShowSelfDishonest(c) \/ ShownDishonest(c)

LEMMA AccusingStep ==
  ASSUME TypeOK, NEW c \in Arrivals, Accusing(c)
  PROVE  \E p \in Party, e \in Arrivals \X Arrivals :
           /\ Size \in Nat
           /\ Size > 0
           /\ dishonest' = [dishonest EXCEPT ![p] = e]
           /\ claims' \in Seq(Map)
           /\ Len(claims') = Size
           /\ \A j \in 0..(Size - 1) : \A d \in Held(j) :
                d \in claims'[j + 1] \/ d.sender = p
<1>1. claims \in Seq(Map) /\ Size \in Nat
  BY LenProperties DEF TypeOK, Map, Size
<1>2. ASSUME NEW i \in 0..(Size - 1), NEW p \in Party, claims' = Remove(i, p)
      PROVE  /\ claims' \in Seq(Map)
             /\ Len(claims') = Size
             /\ \A j \in 0..(Size - 1) : \A x \in Held(j) :
                  x \in claims'[j + 1] \/ x.sender = p
  <2>1. /\ Remove(i, p) \in Seq(Map)
        /\ Len(Remove(i, p)) = Size
        /\ \A j \in 0..(Size - 1) :
             Remove(i, p)[j + 1] = IF j = i THEN {d \in Held(i) : d.sender # p} ELSE Held(j)
    BY <1>1, RemoveProperties
  <2> QED
    BY <1>2, <2>1
<1>3. CASE ShowOtherDishonest(c)
  <2>1. PICK k \in StopsBelow(c) :
          /\ k < Size
          /\ \E d \in Held(k) : Accuse(d.sender, d, c) /\ claims' = Remove(k, d.sender)
    BY <1>3 DEF ShowOtherDishonest
  <2>2. PICK d \in Held(k) : Accuse(d.sender, d, c) /\ claims' = Remove(k, d.sender)
    BY <2>1
  <2>3. k \in 0..(Size - 1)
    BY <1>1, <2>1, StopsBelowAreIndices
  <2>4. d \in Arrivals /\ d.sender \in Party
    BY <1>1, <2>3, HeldClaims, ClaimTypes
  <2>5. /\ claims' \in Seq(Map)
        /\ Len(claims') = Size
        /\ \A j \in 0..(Size - 1) : \A x \in Held(j) :
             x \in claims'[j + 1] \/ x.sender = d.sender
    BY <1>2, <2>2, <2>3, <2>4
  <2>6. Size > 0 /\ <<d, c>> \in Arrivals \X Arrivals
    BY <1>1, <2>3, <2>4
  <2> QED
    BY <1>1, <2>2, <2>4, <2>5, <2>6 DEF Accuse
<1>4. CASE ShowSelfDishonest(c)
  <2>1. PICK k \in OwnElsewhere(c) :
          \E d \in Held(k) :
            /\ d.sender = c.sender
            /\ Accuse(c.sender, c, d)
            /\ \E i \in 0..k : IsIndexOf(i, k) /\ claims' = Remove(i, c.sender)
    BY <1>4 DEF ShowSelfDishonest
  <2>2. PICK d \in Held(k) :
          /\ d.sender = c.sender
          /\ Accuse(c.sender, c, d)
          /\ \E i \in 0..k : IsIndexOf(i, k) /\ claims' = Remove(i, c.sender)
    BY <2>1
  <2>3. PICK i \in 0..k : IsIndexOf(i, k) /\ claims' = Remove(i, c.sender)
    BY <2>2
  <2>4. k \in 0..(Size - 1) /\ i \in 0..(Size - 1)
    BY <1>1, <2>1, <2>3 DEF OwnElsewhere, IsIndexOf
  <2>5. d \in Arrivals /\ c.sender \in Party
    BY <1>1, <2>4, HeldClaims, ClaimTypes
  <2>6. /\ claims' \in Seq(Map)
        /\ Len(claims') = Size
        /\ \A j \in 0..(Size - 1) : \A x \in Held(j) :
             x \in claims'[j + 1] \/ x.sender = c.sender
    BY <1>2, <2>2, <2>3, <2>4, <2>5
  <2>7. Size > 0 /\ <<c, d>> \in Arrivals \X Arrivals
    BY <1>1, <2>4, <2>5
  <2> QED
    BY <1>1, <2>2, <2>5, <2>6, <2>7 DEF Accuse
<1>5. CASE ShownDishonest(c)
  <2>1. PICK k \in StopsAbove(c) :
          /\ \E d \in Held(k) : Accuse(c.sender, c, d)
          /\ claims' = Remove(k, c.sender)
    BY <1>5 DEF ShownDishonest
  <2>2. PICK d \in Held(k) : Accuse(c.sender, c, d)
    BY <2>1
  <2>3. k \in 0..(Size - 1)
    BY DEF StopsAbove
  <2>4. d \in Arrivals /\ c.sender \in Party
    BY <1>1, <2>3, HeldClaims, ClaimTypes
  <2>5. /\ claims' \in Seq(Map)
        /\ Len(claims') = Size
        /\ \A j \in 0..(Size - 1) : \A x \in Held(j) :
             x \in claims'[j + 1] \/ x.sender = c.sender
    BY <1>2, <2>1, <2>3, <2>4
  <2>6. Size > 0 /\ <<c, d>> \in Arrivals \X Arrivals
    BY <1>1, <2>3, <2>4
  <2> QED
    BY <1>1, <2>2, <2>4, <2>5, <2>6 DEF Accuse
<1> QED
  BY <1>3, <1>4, <1>5 DEF Accusing

\* The evidence starts with a claim that Trent has just read or was holding, and
\* what he holds comes from nowhere else.
LEMMA AccusingEvidence ==
  ASSUME TypeOK, NEW c \in Arrivals, Accusing(c)
  PROVE  \E p \in Party, its \in Arrivals, other \in Arrivals :
           /\ dishonest' = [dishonest EXCEPT ![p] = <<its, other>>]
           /\ its = c \/ \E j \in 0..(Size - 1) : its \in Held(j)
           /\ \A j \in 0..(Size - 1) : claims'[j + 1] \subseteq Held(j)
<1>1. claims \in Seq(Map) /\ Size \in Nat
  BY LenProperties DEF TypeOK, Map, Size
<1>2. ASSUME NEW i \in 0..(Size - 1), NEW p, claims' = Remove(i, p), NEW j \in 0..(Size - 1)
      PROVE  claims'[j + 1] \subseteq Held(j)
  <2>1. /\ Remove(i, p) \in Seq(Map)
        /\ Len(Remove(i, p)) = Size
        /\ \A x \in 0..(Size - 1) :
             Remove(i, p)[x + 1] = IF x = i THEN {d \in Held(i) : d.sender # p} ELSE Held(x)
    BY <1>1, RemoveProperties
  <2> QED
    BY <1>2, <2>1
<1>3. CASE ShowOtherDishonest(c)
  <2>1. PICK k \in StopsBelow(c) :
          /\ k < Size
          /\ \E d \in Held(k) : Accuse(d.sender, d, c) /\ claims' = Remove(k, d.sender)
    BY <1>3 DEF ShowOtherDishonest
  <2>2. PICK d \in Held(k) : Accuse(d.sender, d, c) /\ claims' = Remove(k, d.sender)
    BY <2>1
  <2>3. k \in 0..(Size - 1)
    BY <1>1, <2>1, StopsBelowAreIndices
  <2>4. d \in Arrivals /\ d.sender \in Party
    BY <1>1, <2>3, HeldClaims, ClaimTypes
  <2>5. \A j \in 0..(Size - 1) : claims'[j + 1] \subseteq Held(j)
    BY <1>2, <2>2, <2>3
  <2> QED
    BY <2>2, <2>3, <2>4, <2>5 DEF Accuse
<1>4. CASE ShowSelfDishonest(c)
  <2>1. PICK k \in OwnElsewhere(c) :
          \E d \in Held(k) :
            /\ Accuse(c.sender, c, d)
            /\ \E i \in 0..k : IsIndexOf(i, k) /\ claims' = Remove(i, c.sender)
    BY <1>4 DEF ShowSelfDishonest
  <2>2. PICK d \in Held(k) :
          /\ Accuse(c.sender, c, d)
          /\ \E i \in 0..k : IsIndexOf(i, k) /\ claims' = Remove(i, c.sender)
    BY <2>1
  <2>3. PICK i \in 0..k : claims' = Remove(i, c.sender)
    BY <2>2
  <2>4. k \in 0..(Size - 1) /\ i \in 0..(Size - 1)
    BY <1>1, <2>1, <2>3 DEF OwnElsewhere
  <2>5. d \in Arrivals /\ c.sender \in Party
    BY <1>1, <2>4, HeldClaims, ClaimTypes
  <2>6. \A j \in 0..(Size - 1) : claims'[j + 1] \subseteq Held(j)
    BY <1>2, <2>3, <2>4
  <2> QED
    BY <2>2, <2>5, <2>6 DEF Accuse
<1>5. CASE ShownDishonest(c)
  <2>1. PICK k \in StopsAbove(c) :
          /\ \E d \in Held(k) : Accuse(c.sender, c, d)
          /\ claims' = Remove(k, c.sender)
    BY <1>5 DEF ShownDishonest
  <2>2. PICK d \in Held(k) : Accuse(c.sender, c, d)
    BY <2>1
  <2>3. k \in 0..(Size - 1)
    BY DEF StopsAbove
  <2>4. d \in Arrivals /\ c.sender \in Party
    BY <1>1, <2>3, HeldClaims, ClaimTypes
  <2>5. \A j \in 0..(Size - 1) : claims'[j + 1] \subseteq Held(j)
    BY <1>2, <2>1, <2>3
  <2> QED
    BY <2>2, <2>4, <2>5 DEF Accuse
<1> QED
  BY <1>3, <1>4, <1>5 DEF Accusing

\* What an accusing step broadcasts, and what it leaves alone.
LEMMA AccusingBroadcasts ==
  ASSUME NEW c \in Arrivals, Accusing(c)
  PROVE  /\ \E kind \in {"honestyToken", "dishonest"} : Broadcast(kind, c)
         /\ UNCHANGED <<optimistic, unanswered>>
  BY DEF Accusing, ShowOtherDishonest, ShowSelfDishonest, ShownDishonest

\* Every way out of resolveT leaves its claim among those that it has run on.
LEMMA FoundStep ==
  ASSUME NEW c \in Arrivals, resolve(c)
  PROVE  Found' = Found \cup {c}
<1>1. CASE \E kind : Broadcast(kind, c) /\ unanswered' = unanswered
  <2>1. PICK kind : Broadcast(kind, c) /\ unanswered' = unanswered
    BY <1>1
  <2> DEFINE a == [kind |-> kind, claim |-> c]
  <2>2. answers' = answers \cup {a} /\ a.claim = c
    BY <2>1 DEF Broadcast
  <2> HIDE DEF a
  <2> QED
    BY <2>1, <2>2 DEF Found
<1>2. CASE answers' = answers /\ unanswered' = unanswered \cup {c}
  BY <1>2 DEF Found
<1> QED
  BY <1>1, <1>2 DEF resolve, ShowOtherDishonest, ShowSelfDishonest, ShownDishonest, Resolve,
     Abort, FailToOpen, Fail

LEMMA BroadcastType ==
  ASSUME answers \subseteq Answer, NEW c \in Arrivals, NEW kind \in Kinds,
         Broadcast(kind, c)
  PROVE  answers' \subseteq Answer
  BY DEF Broadcast, Answer

\* What the parties read in the answers after a broadcast.
LEMMA BroadcastAnnounces ==
  ASSUME NEW c, NEW kind, Broadcast(kind, c)
  PROVE  /\ kind = "dishonest" => Announced' = Announced
         /\ kind # "dishonest" => Announced' = Announced \cup {VerdictOf(kind)}
<1> DEFINE a == [kind |-> kind, claim |-> c]
<1>1. answers' = answers \cup {a} /\ a.kind = kind
  BY DEF Broadcast
<1>2. Announced = {VerdictOf(x.kind) : x \in {b \in answers : b.kind # "dishonest"}}
  BY DEF Announced
<1>3. Announced' = {VerdictOf(x.kind) : x \in {b \in answers' : b.kind # "dishonest"}}
  BY DEF Announced, VerdictOf
<1> HIDE DEF a
<1>4. CASE kind = "dishonest"
  <2>1. {b \in answers' : b.kind # "dishonest"} = {b \in answers : b.kind # "dishonest"}
    BY <1>1, <1>4
  <2> QED
    BY <1>2, <1>3, <1>4, <2>1
<1>5. CASE kind # "dishonest"
  <2>1. {b \in answers' : b.kind # "dishonest"}
          = {b \in answers : b.kind # "dishonest"} \cup {a}
    BY <1>1, <1>5
  <2> QED
    BY <1>1, <1>2, <1>3, <1>5, <2>1
<1> QED
  BY <1>4, <1>5

\* Abort puts a claim in the list and loses none.
LEMMA AbortStep ==
  ASSUME TypeOK, NEW c \in Arrivals, Abort(c)
  PROVE  /\ Size \in Nat
         /\ claims' \in Seq(Map)
         /\ Len(claims') = Size + 1
         /\ \A j \in 0..(Size - 1) : \E i \in 0..Size : claims'[i + 1] = Held(j)
         /\ \E i \in 0..Size : c \in claims'[i + 1]
         /\ \A i \in 0..Size :
              claims'[i + 1] = {c} \/ \E j \in 0..(Size - 1) : claims'[i + 1] = Held(j)
         /\ Size + 1 <= MaxClaims
<1>1. claims \in Seq(Map) /\ Size \in Nat
  BY LenProperties DEF TypeOK, Map, Size
<1>2. c.round \in 0..Size
  BY DEF Abort
<1>3. claims' = InsertAt(c.round, c)
  BY DEF Abort
<1>4. Size + 1 <= MaxClaims
  BY <1>1, ConstantsAssumption DEF Abort
<1>5. /\ claims' \in Seq(Map)
      /\ Len(claims') = Size + 1
      /\ claims'[c.round + 1] = {c}
      /\ \A j \in 0..(Size - 1) : \E i \in 0..Size : claims'[i + 1] = Held(j)
      /\ \A i \in 0..Size :
           claims'[i + 1] = {c} \/ \E j \in 0..(Size - 1) : claims'[i + 1] = Held(j)
  <2> DEFINE r == c.round
  <2>1. r \in 0..Size /\ claims' = InsertAt(r, c)
    BY <1>2, <1>3
  <2> HIDE DEF r
  <2>2. /\ InsertAt(r, c) \in Seq(Map)
        /\ Len(InsertAt(r, c)) = Size + 1
        /\ InsertAt(r, c)[r + 1] = {c}
        /\ \A j \in 0..(Size - 1) :
             \E i \in 0..Size : InsertAt(r, c)[i + 1] = Held(j)
        /\ \A i \in 0..Size :
             \/ InsertAt(r, c)[i + 1] = {c}
             \/ \E j \in 0..(Size - 1) : InsertAt(r, c)[i + 1] = Held(j)
    BY <1>1, <2>1, InsertAtProperties
  <2>3. claims'[r + 1] = {c}
    BY <2>1, <2>2
  <2> QED
    BY <2>1, <2>2, <2>3 DEF r
<1>6. \E i \in 0..Size : c \in claims'[i + 1]
  BY <1>2, <1>5
<1> QED
  BY <1>1, <1>4, <1>5, <1>6

-----------------------------------------------------------------------------
(***************************************************************************)
(* Types.                                                                  *)
(***************************************************************************)
LEMMA TypeOKInit == Init => TypeOK
<1>1. << >> \in Seq(Map) /\ Len(<< >>) = 0
  BY EmptySeq
<1> QED
  BY <1>1, ConstantsAssumption DEF Init, TypeOK, Map, Size, Evidence

LEMMA TypeOKStep == TypeOK /\ [Next]_vars => TypeOK'
<1> SUFFICES ASSUME TypeOK, [Next]_vars PROVE TypeOK'
  OBVIOUS
<1>1. CASE UNCHANGED vars
  BY <1>1 DEF TypeOK, vars, Size
<1>2. ASSUME NEW c \in Arrivals, resolve(c) PROVE TypeOK'
  <2>1. c \in Arrivals /\ claims \in Seq(Map)
    BY ConstantsAssumption DEF TypeOK, Map
  <2>2. CASE Accusing(c)
    <3>1. PICK p \in Party, e \in Arrivals \X Arrivals :
            /\ dishonest' = [dishonest EXCEPT ![p] = e]
            /\ claims' \in Seq(Map)
            /\ Len(claims') = Size
      BY <2>1, <2>2, AccusingStep
    <3>2. answers' \subseteq Answer
      BY <2>1, <2>2, AccusingBroadcasts, BroadcastType DEF TypeOK, Kinds
    <3>3. dishonest' \in [Party -> Evidence]
      BY <3>1 DEF TypeOK, Evidence
    <3> QED
      BY <2>1, <2>2, <3>1, <3>2, <3>3, AccusingBroadcasts DEF TypeOK, Map, Size
  <2>3. CASE Resolve(c)
    <3>1. answers' \subseteq Answer
      BY <2>1, <2>3, BroadcastType DEF TypeOK, Kinds, Resolve
    <3> QED
      BY <2>3, <3>1 DEF TypeOK, Resolve, Size
  <2>4. CASE Abort(c)
    <3>1. answers' \subseteq Answer
      BY <2>1, <2>4, BroadcastType DEF TypeOK, Kinds, Abort
    <3>2. UNCHANGED <<dishonest, optimistic, unanswered>>
      BY <2>4 DEF Abort
    <3> QED
      BY <2>1, <2>4, <3>1, <3>2, AbortStep DEF TypeOK, Map, Size
  <2>5. CASE FailToOpen(c) \/ Fail(c)
    BY <2>1, <2>5 DEF TypeOK, FailToOpen, Fail, Size
  <2> QED
    BY <1>2, <2>2, <2>3, <2>4, <2>5 DEF resolve, Accusing
<1> QED
  BY <1>1, <1>2 DEF Next

\* Type correctness: whatever reaches Trent, a map of possiblyHonestClaims never
\* holds more than one claim, whatever is removed from it or shifted in the list.
THEOREM TypeCorrect == Spec => []TypeOK
<1>1. Init => TypeOK
  BY TypeOKInit
<1>2. TypeOK /\ [Next]_vars => TypeOK'
  BY TypeOKStep
<1> QED
  BY <1>1, <1>2, PTL DEF Spec

-----------------------------------------------------------------------------
(***************************************************************************)
(* The inductive invariant: the list of claims tells which of the verdicts *)
(* was announced.                                                          *)
(***************************************************************************)
ListIsEmptyOnceResolved == ~optimistic => claims = << >>

NobodyAccusedWhileEmpty ==
  claims = << >> => \A p \in Party : dishonest[p] = NoEvidence

AbortOpensTheList ==
  claims # << >> => \E a \in answers : a.kind = "aborted" /\ a.claim.round = 0

CancelledMeansPiledUp == "cancelled" \in Announced => claims # << >>

ResolvedMeansOpened == "resolved" \in Announced => ~optimistic

OpenedByRoundOne == ~optimistic => \E c \in Found : c.round = 1

IInv ==
  /\ TypeOK
  /\ ListIsEmptyOnceResolved
  /\ NobodyAccusedWhileEmpty
  /\ AbortOpensTheList
  /\ CancelledMeansPiledUp
  /\ ResolvedMeansOpened
  /\ OpenedByRoundOne

LEMMA IInvInit == Init => IInv
<1> SUFFICES ASSUME Init PROVE IInv
  OBVIOUS
<1>1. Announced = {}
  BY DEF Init, Announced
<1>2. TypeOK
  BY TypeOKInit
<1> QED
  BY <1>1, <1>2 DEF Init, IInv, ListIsEmptyOnceResolved, NobodyAccusedWhileEmpty,
     AbortOpensTheList, CancelledMeansPiledUp, ResolvedMeansOpened, OpenedByRoundOne

\* An empty list has no length, and no other list has none.
LEMMA EmptyList ==
  ASSUME NEW s \in Seq(Map)
  PROVE  /\ Len(s) \in Nat
         /\ s = << >> <=> Len(s) = 0
  BY EmptySeq, LenProperties

\* A claim that is handed to resolveToken meets an empty list; it is of round 1, or
\* of an earlier one when a claim of round 1 came before it.
LEMMA OpenedOnEmptyList ==
  ASSUME IInv, NEW c \in Arrivals, PossiblyHonest(c), Resolvable(c)
  PROVE  /\ claims = << >>
         /\ c.round <= 1
         /\ c.round = 1 \/ \E d \in Found : d.round = 1
<1>1. claims = << >>
  BY DEF Resolvable, IInv, ListIsEmptyOnceResolved
<1>2. Size = 0
  BY <1>1, EmptySeq DEF Size
<1>3. c.round \in Int
  BY ClaimTypes
<1>4. CASE c.round >= 2
  <2>1. 0 \in StopsBelow(c)
    BY <1>2, <1>3, <1>4 DEF StopsBelow
  <2> QED
    BY <2>1 DEF PossiblyHonest
<1>5. c.round <= 1
  BY <1>3, <1>4
<1>6. CASE optimistic
  BY <1>1, <1>3, <1>5, <1>6 DEF Resolvable
<1>7. CASE ~optimistic
  BY <1>1, <1>5, <1>7 DEF IInv, OpenedByRoundOne
<1> QED
  BY <1>6, <1>7

LEMMA IInvAccusing ==
  ASSUME IInv, NEW c \in Arrivals, Accusing(c)
  PROVE  /\ ListIsEmptyOnceResolved'
         /\ NobodyAccusedWhileEmpty'
         /\ AbortOpensTheList'
         /\ CancelledMeansPiledUp'
         /\ ResolvedMeansOpened'
<1>1. TypeOK /\ claims \in Seq(Map)
  BY DEF IInv, TypeOK, Map
<1>2. claims' \in Seq(Map) /\ Len(claims') = Size /\ Size > 0 /\ Size \in Nat
  BY <1>1, AccusingStep
<1>3. claims # << >> /\ claims' # << >>
  BY <1>1, <1>2, EmptyList DEF Size
<1>4. PICK kind \in {"honestyToken", "dishonest"} :
        Broadcast(kind, c) /\ UNCHANGED <<optimistic, unanswered>>
  BY AccusingBroadcasts
<1>5. optimistic
  BY <1>3 DEF IInv, ListIsEmptyOnceResolved, TypeOK
<1>6. "resolved" \notin Announced'
  <2>1. "resolved" \notin Announced
    BY <1>5 DEF IInv, ResolvedMeansOpened
  <2>2. Announced' = Announced \/ Announced' = Announced \cup {"cancelled"}
    BY <1>4, BroadcastAnnounces DEF VerdictOf
  <2> QED
    BY <2>1, <2>2
<1>7. AbortOpensTheList'
  BY <1>3, <1>4 DEF IInv, AbortOpensTheList, Broadcast
<1> QED
  BY <1>3, <1>4, <1>5, <1>6, <1>7 DEF ListIsEmptyOnceResolved,
     NobodyAccusedWhileEmpty, CancelledMeansPiledUp, ResolvedMeansOpened

LEMMA IInvResolve ==
  ASSUME IInv, NEW c \in Arrivals, Resolve(c)
  PROVE  /\ ListIsEmptyOnceResolved'
         /\ NobodyAccusedWhileEmpty'
         /\ AbortOpensTheList'
         /\ CancelledMeansPiledUp'
         /\ ResolvedMeansOpened'
<1>1. /\ optimistic' = FALSE
      /\ Broadcast("resolved", c)
      /\ UNCHANGED <<claims, dishonest, unanswered>>
  BY DEF Resolve
<1>2. claims = << >>
  BY OpenedOnEmptyList DEF Resolve
<1>3. Announced' = Announced \cup {"resolved"}
  BY <1>1, BroadcastAnnounces DEF VerdictOf
<1>4. "cancelled" \notin Announced'
  BY <1>2, <1>3 DEF IInv, CancelledMeansPiledUp
<1>5. NobodyAccusedWhileEmpty'
  BY <1>1, <1>2 DEF IInv, NobodyAccusedWhileEmpty
<1> QED
  BY <1>1, <1>2, <1>4, <1>5 DEF ListIsEmptyOnceResolved, AbortOpensTheList,
     CancelledMeansPiledUp, ResolvedMeansOpened

LEMMA IInvAbort ==
  ASSUME IInv, NEW c \in Arrivals, Abort(c)
  PROVE  /\ ListIsEmptyOnceResolved'
         /\ NobodyAccusedWhileEmpty'
         /\ AbortOpensTheList'
         /\ CancelledMeansPiledUp'
         /\ ResolvedMeansOpened'
<1>1. TypeOK
  BY DEF IInv
<1>2. Broadcast("aborted", c) /\ UNCHANGED <<dishonest, optimistic, unanswered>>
  BY DEF Abort
<1>3. claims' # << >>
  BY <1>1, AbortStep, EmptyList
<1>4. optimistic
  BY <1>1 DEF Abort, Resolvable, TypeOK
<1>5. Announced' = Announced \cup {"cancelled"}
  BY <1>2, BroadcastAnnounces DEF VerdictOf
<1>6. AbortOpensTheList'
  <2>1. answers' = answers \cup {[kind |-> "aborted", claim |-> c]}
    BY <1>2 DEF Broadcast
  <2>2. CASE claims = << >>
    <3>1. Size = 0 /\ c.round \in Int
      BY <2>2, EmptySeq, ClaimTypes DEF Size
    <3>2. c.round = 0
      BY <3>1 DEF Abort
    <3>3. [kind |-> "aborted", claim |-> c] \in answers'
      BY <2>1
    <3>4. \E a \in answers' : a.kind = "aborted" /\ a.claim.round = 0
      BY <3>2, <3>3
    <3> QED
      BY <3>4 DEF AbortOpensTheList
  <2>3. CASE claims # << >>
    BY <2>1, <2>3 DEF IInv, AbortOpensTheList
  <2> QED
    BY <2>2, <2>3
<1> QED
  BY <1>2, <1>3, <1>4, <1>5, <1>6 DEF IInv, ListIsEmptyOnceResolved,
     NobodyAccusedWhileEmpty, CancelledMeansPiledUp, ResolvedMeansOpened

LEMMA IInvFailToOpen ==
  ASSUME IInv, NEW c \in Arrivals, FailToOpen(c)
  PROVE  /\ ListIsEmptyOnceResolved'
         /\ NobodyAccusedWhileEmpty'
         /\ AbortOpensTheList'
         /\ CancelledMeansPiledUp'
         /\ ResolvedMeansOpened'
<1>1. claims = << >>
  BY OpenedOnEmptyList DEF FailToOpen
<1>2. optimistic' = FALSE /\ UNCHANGED <<claims, dishonest, answers>>
  BY DEF FailToOpen
<1>3. Announced' = Announced
  BY <1>2 DEF Announced
<1> QED
  BY <1>1, <1>2, <1>3 DEF IInv, ListIsEmptyOnceResolved, NobodyAccusedWhileEmpty,
     AbortOpensTheList, CancelledMeansPiledUp, ResolvedMeansOpened

\* The flag is cleared by a claim of round 1, and never set again.
LEMMA OpenedByRoundOneStep ==
  ASSUME IInv, NEW c \in Arrivals, resolve(c)
  PROVE  OpenedByRoundOne'
<1>1. Found' = Found \cup {c}
  BY FoundStep
<1>2. CASE PossiblyHonest(c) /\ Resolvable(c)
  BY <1>1, <1>2, OpenedOnEmptyList DEF OpenedByRoundOne
<1>3. CASE ~(PossiblyHonest(c) /\ Resolvable(c))
  <2>1. optimistic' = optimistic
    BY <1>3 DEF resolve, ShowOtherDishonest, ShowSelfDishonest, ShownDishonest, Resolve,
       Abort, FailToOpen, Fail
  <2> QED
    BY <1>1, <2>1 DEF IInv, OpenedByRoundOne
<1> QED
  BY <1>2, <1>3

LEMMA IInvStep == IInv /\ [Next]_vars => IInv'
<1> SUFFICES ASSUME IInv, [Next]_vars PROVE IInv'
  OBVIOUS
<1> USE DEF ListIsEmptyOnceResolved, NobodyAccusedWhileEmpty, AbortOpensTheList,
            CancelledMeansPiledUp, ResolvedMeansOpened
<1>1. TypeOK'
  BY TypeOKStep DEF IInv
<1>2. CASE UNCHANGED vars
  BY <1>1, <1>2 DEF IInv, vars, Announced, OpenedByRoundOne, Found
<1>3. ASSUME NEW c \in Arrivals, resolve(c) PROVE IInv'
  <2>1. OpenedByRoundOne'
    BY <1>3, OpenedByRoundOneStep
  <2>2. CASE Accusing(c)
    BY <1>1, <2>1, <2>2, IInvAccusing DEF IInv
  <2>3. CASE Resolve(c)
    BY <1>1, <2>1, <2>3, IInvResolve DEF IInv
  <2>4. CASE Abort(c)
    BY <1>1, <2>1, <2>4, IInvAbort DEF IInv
  <2>5. CASE FailToOpen(c)
    BY <1>1, <2>1, <2>5, IInvFailToOpen DEF IInv
  <2>6. CASE Fail(c)
    BY <1>1, <2>1, <2>6 DEF IInv, Fail, Announced
  <2> QED
    BY <1>3, <2>2, <2>3, <2>4, <2>5, <2>6 DEF resolve, Accusing
<1> QED
  BY <1>2, <1>3 DEF Next

\* The invariant holds in every state that Trent reaches.
THEOREM Invariant == Spec => []IInv
<1> QED
  BY IInvInit, IInvStep, PTL DEF Spec

-----------------------------------------------------------------------------
(***************************************************************************)
(* What follows from the invariant.                                        *)
(***************************************************************************)

\* Once resolveT has opened a claim, the list stays empty and nobody is accused.
THEOREM StaysResolved == Spec => []ResolvedForGood
<1>1. IInv => ResolvedForGood
  BY DEF IInv, ListIsEmptyOnceResolved, NobodyAccusedWhileEmpty, ResolvedForGood
<1> QED
  BY <1>1, Invariant, PTL

\* The parties are told of a cancellation only when a claim of round 0 was accepted:
\* no sequence of claims of other rounds, whatever they hold, makes resolveT cancel.
THEOREM PromisesNeverCancel == Spec => []CancelNeedsAbort
<1>1. IInv => CancelNeedsAbort
  BY DEF IInv, CancelledMeansPiledUp, AbortOpensTheList, CancelNeedsAbort
<1> QED
  BY <1>1, Invariant, PTL

\* A contract is resolved only after a claim of round 1, and resolveT opens nothing
\* that is sent with a later round, whoever sends it and whatever it holds.
THEOREM RoundOneOpensOnly == Spec => []RoundOneOpens
<1>1. Init => RoundOneOpens
  BY DEF Init, RoundOneOpens
<1>2. IInv /\ RoundOneOpens /\ [Next]_vars => RoundOneOpens'
  <2> SUFFICES ASSUME IInv, RoundOneOpens, [Next]_vars
               PROVE  RoundOneOpens'
    OBVIOUS
  <2>1. CASE UNCHANGED vars
    BY <2>1 DEF vars, RoundOneOpens, Found
  <2>2. ASSUME NEW c \in Arrivals, resolve(c) PROVE RoundOneOpens'
    <3>1. Found' = Found \cup {c}
      BY <2>2, FoundStep
    <3>2. CASE Accusing(c)
      <4>1. PICK kind \in {"honestyToken", "dishonest"} : Broadcast(kind, c)
        BY <3>2, AccusingBroadcasts
      <4> QED
        BY <3>1, <4>1 DEF Broadcast, RoundOneOpens
    <3>3. CASE Resolve(c)
      <4>1. c.round <= 1 /\ \E d \in Found' : d.round = 1
        BY <3>1, <3>3, OpenedOnEmptyList DEF Resolve
      <4>2. answers' = answers \cup {[kind |-> "resolved", claim |-> c]}
        BY <3>3 DEF Resolve, Broadcast
      <4> QED
        BY <4>1, <4>2 DEF RoundOneOpens
    <3>4. CASE Abort(c)
      BY <3>1, <3>4 DEF Abort, Broadcast, RoundOneOpens
    <3>5. CASE FailToOpen(c) \/ Fail(c)
      BY <3>1, <3>5 DEF FailToOpen, Fail, RoundOneOpens
    <3> QED
      BY <2>2, <3>2, <3>3, <3>4, <3>5 DEF resolve, Accusing
  <2> QED
    BY <2>1, <2>2 DEF Next
<1> QED
  BY <1>1, <1>2, Invariant, PTL DEF Spec

\* The indices are in bounds for the claims of rounds 0 and 1.
LEMMA OutOfBoundsLate ==
  ASSUME IInv, NEW c \in Arrivals, OutOfBounds(c)
  PROVE  c.round \notin {0, 1}
<1>1. c.round \in Int /\ Size \in Nat /\ (claims = << >> <=> Size = 0)
  BY ClaimTypes, EmptyList DEF IInv, TypeOK, Map, Size
<1>2. ASSUME NEW k \in StopsBelow(c) PROVE c.round >= 2
  BY <1>1 DEF StopsBelow
<1>3. CASE PossiblyHonest(c) /\ ~Resolvable(c) /\ c.round \notin 0..Size
  BY <1>1, <1>3 DEF Resolvable
<1> QED
  BY <1>1, <1>2, <1>3 DEF OutOfBounds

LEMMA FirstClaimsStep == IInv /\ FirstClaimsAreAnswered /\ [Next]_vars => FirstClaimsAreAnswered'
<1> SUFFICES ASSUME IInv, FirstClaimsAreAnswered, [Next]_vars
             PROVE  FirstClaimsAreAnswered'
  OBVIOUS
<1>1. CASE UNCHANGED vars
  BY <1>1 DEF vars, FirstClaimsAreAnswered
<1>2. ASSUME NEW c \in Arrivals, resolve(c) PROVE FirstClaimsAreAnswered'
  <2>1. CASE Accusing(c)
    BY <2>1, AccusingBroadcasts DEF FirstClaimsAreAnswered
  <2>2. CASE Resolve(c)
    BY <2>2 DEF Resolve, FirstClaimsAreAnswered
  <2>3. CASE Abort(c)
    BY <2>3 DEF Abort, FirstClaimsAreAnswered
  <2>4. CASE FailToOpen(c)
    BY <2>4 DEF FailToOpen, FirstClaimsAreAnswered
  <2>5. CASE Fail(c)
    <3>1. OutOfBounds(c) /\ unanswered' = unanswered \cup {c} /\ UNCHANGED optimistic
      BY <2>5 DEF Fail
    <3> QED
      BY OutOfBoundsLate, <3>1 DEF FirstClaimsAreAnswered
  <2> QED
    BY <1>2, <2>1, <2>2, <2>3, <2>4, <2>5 DEF resolve, Accusing
<1> QED
  BY <1>1, <1>2 DEF Next

\* A claim of round 0 or 1 always has an answer while the contract is not resolved,
\* and afterwards whenever it holds a promise of every party: resolveT ends with an
\* exception on no other.
THEOREM FirstClaimsAnswered == Spec => []FirstClaimsAreAnswered
<1>1. Init => FirstClaimsAreAnswered
  BY DEF Init, FirstClaimsAreAnswered
<1> QED
  BY <1>1, FirstClaimsStep, Invariant, PTL DEF Spec

\* A claim that was refused with "aborted" stays in the list that the honesty
\* tokens show, or its sender is accused in them.
THEOREM AbortedAccounted == Spec => []AbortedIsAccountedFor
<1>1. Init => AbortedIsAccountedFor
  BY DEF Init, AbortedIsAccountedFor
<1>2. IInv /\ AbortedIsAccountedFor /\ [Next]_vars => AbortedIsAccountedFor'
  <2> SUFFICES ASSUME IInv, AbortedIsAccountedFor, [Next]_vars
               PROVE  AbortedIsAccountedFor'
    OBVIOUS
  <2>1. CASE UNCHANGED vars
    BY <2>1 DEF vars, AbortedIsAccountedFor, Size, Held
  <2>2. ASSUME NEW c \in Arrivals, resolve(c) PROVE AbortedIsAccountedFor'
    <3>1. TypeOK
      BY DEF IInv
    <3>2. ASSUME NEW a \in answers', a.kind = "aborted", a \in answers
          PROVE  \/ \E k \in 0..(Size - 1) : a.claim \in Held(k)
                 \/ dishonest[a.claim.sender] # NoEvidence
      BY <3>2 DEF AbortedIsAccountedFor
    <3>3. CASE Accusing(c)
      <4>1. PICK p \in Party, e \in Arrivals \X Arrivals :
              /\ Size \in Nat
              /\ dishonest' = [dishonest EXCEPT ![p] = e]
              /\ Len(claims') = Size
              /\ \A j \in 0..(Size - 1) : \A d \in Held(j) :
                   d \in claims'[j + 1] \/ d.sender = p
        BY <3>1, <3>3, AccusingStep
      <4>2. dishonest'[p] # NoEvidence
        BY <3>1, <4>1, EvidenceShows DEF TypeOK
      <4>3. ASSUME NEW q \in Party, dishonest[q] # NoEvidence
            PROVE  dishonest'[q] # NoEvidence
        BY <3>1, <4>1, <4>2, <4>3 DEF TypeOK
      <4>4. ASSUME NEW a \in answers', a.kind = "aborted"
            PROVE  \/ \E k \in 0..(Size' - 1) : a.claim \in Held(k)'
                   \/ dishonest'[a.claim.sender] # NoEvidence
        <5>1. a \in answers /\ a \in Answer
          BY <3>1, <3>3, <4>4, AccusingBroadcasts DEF Broadcast, TypeOK
        <5>2. a.claim.sender \in Party
          BY <5>1, ClaimTypes DEF Answer
        <5>3. CASE dishonest[a.claim.sender] # NoEvidence
          BY <4>3, <5>2, <5>3
        <5>4. ASSUME NEW k \in 0..(Size - 1), a.claim \in Held(k)
              PROVE  a.claim \in Held(k)' \/ dishonest'[a.claim.sender] # NoEvidence
          BY <4>1, <4>2, <5>4 DEF Held
        <5>5. Size' = Size
          BY <4>1 DEF Size
        <5> QED
          BY <3>2, <4>4, <5>1, <5>3, <5>4, <5>5
      <4> QED
        BY <4>4 DEF AbortedIsAccountedFor
    <3>4. CASE Resolve(c)
      BY <3>4 DEF Resolve, Broadcast, AbortedIsAccountedFor, Size, Held
    <3>5. CASE Abort(c)
      <4>1. /\ Size \in Nat
            /\ Len(claims') = Size + 1
            /\ \A j \in 0..(Size - 1) : \E i \in 0..Size : claims'[i + 1] = Held(j)
            /\ \E i \in 0..Size : c \in claims'[i + 1]
        BY <3>1, <3>5, AbortStep
      <4>2. 0..(Size' - 1) = 0..Size
        BY <4>1 DEF Size
      <4>3. ASSUME NEW a \in answers', a.kind = "aborted"
            PROVE  \/ \E k \in 0..Size : a.claim \in claims'[k + 1]
                   \/ dishonest'[a.claim.sender] # NoEvidence
        <5>1. a \in answers \/ a.claim = c
          BY <3>5 DEF Abort, Broadcast
        <5>2. CASE a \in answers
          BY <3>2, <3>5, <4>1, <4>3, <5>2 DEF Abort
        <5>3. CASE a.claim = c
          BY <4>1, <5>3
        <5> QED
          BY <5>1, <5>2, <5>3
      <4> QED
        BY <4>2, <4>3 DEF AbortedIsAccountedFor, Held
    <3>6. CASE FailToOpen(c) \/ Fail(c)
      BY <3>6 DEF FailToOpen, Fail, AbortedIsAccountedFor, Size, Held
    <3> QED
      BY <2>2, <3>3, <3>4, <3>5, <3>6 DEF resolve, Accusing
  <2> QED
    BY <2>1, <2>2 DEF Next
<1> QED
  BY <1>1, <1>2, Invariant, PTL DEF Spec

-----------------------------------------------------------------------------
(***************************************************************************)
(* Where claims come from: what Trent holds was answered "aborted", and    *)
(* the evidence against a party starts with a claim that he answered.      *)
(***************************************************************************)
Answered(c) == \E a \in answers : a.claim = c

ClaimsWereAnswered ==
  /\ \A k \in 0..(Size - 1) : \A d \in Held(k) : Answered(d)
  /\ \A p \in Party : dishonest[p] # NoEvidence => Answered(dishonest[p][1])

LEMMA AnsweredStays ==
  ASSUME NEW kind, NEW c, Broadcast(kind, c)
  PROVE  Answered(c)' /\ \A d : Answered(d) => Answered(d)'
<1>1. answers' = answers \cup {[kind |-> kind, claim |-> c]}
  BY DEF Broadcast
<1>2. [kind |-> kind, claim |-> c] \in answers' /\ [kind |-> kind, claim |-> c].claim = c
  BY <1>1
<1> QED
  BY <1>1, <1>2 DEF Answered

LEMMA ClaimsWereAnsweredInit == Init => ClaimsWereAnswered
  BY EmptySeq DEF Init, ClaimsWereAnswered, Size

LEMMA ClaimsWereAnsweredStep ==
  IInv /\ ClaimsWereAnswered /\ [Next]_vars => ClaimsWereAnswered'
<1> SUFFICES ASSUME IInv, ClaimsWereAnswered, [Next]_vars PROVE ClaimsWereAnswered'
  OBVIOUS
<1>0. TypeOK
  BY DEF IInv
<1>1. CASE UNCHANGED vars
  BY <1>1 DEF vars, ClaimsWereAnswered, Answered, Size, Held
<1>2. ASSUME NEW c \in Arrivals, resolve(c) PROVE ClaimsWereAnswered'
  <2>1. CASE Accusing(c)
    <3>1. PICK p \in Party, its \in Arrivals, other \in Arrivals :
            /\ dishonest' = [dishonest EXCEPT ![p] = <<its, other>>]
            /\ its = c \/ \E j \in 0..(Size - 1) : its \in Held(j)
            /\ \A j \in 0..(Size - 1) : claims'[j + 1] \subseteq Held(j)
      BY <1>0, <2>1, AccusingEvidence
    <3>2. PICK kind : Broadcast(kind, c) /\ optimistic' = optimistic
      BY <2>1, AccusingBroadcasts
    <3>3. Answered(c)' /\ \A d : Answered(d) => Answered(d)'
      BY <3>2, AnsweredStays
    <3>4. Size' = Size
      BY <1>0, <2>1, AccusingStep DEF Size
    <3>5. ASSUME NEW k \in 0..(Size' - 1), NEW d \in Held(k)' PROVE Answered(d)'
      BY <3>1, <3>3, <3>4, <3>5 DEF ClaimsWereAnswered, Held
    <3>6. Answered(its)'
      BY <3>1, <3>3 DEF ClaimsWereAnswered
    <3>7. ASSUME NEW q \in Party, dishonest'[q] # NoEvidence PROVE Answered(dishonest[q][1])'
      <4>1. CASE q = p
        BY <1>0, <3>1, <3>6, <4>1 DEF TypeOK, Answered
      <4>2. CASE q # p
        BY <1>0, <3>1, <3>3, <3>7, <4>2 DEF TypeOK, ClaimsWereAnswered, Answered
      <4> QED
        BY <4>1, <4>2
    <3> QED
      BY <3>5, <3>7 DEF ClaimsWereAnswered
  <2>2. CASE Resolve(c)
    <3>1. Broadcast("resolved", c) /\ UNCHANGED <<claims, dishonest>>
      BY <2>2 DEF Resolve
    <3>2. \A d : Answered(d) => Answered(d)'
      BY <3>1, AnsweredStays
    <3> QED
      BY <3>1, <3>2 DEF ClaimsWereAnswered, Size, Held
  <2>3. CASE Abort(c)
    <3>1. Broadcast("aborted", c) /\ UNCHANGED <<dishonest, optimistic>>
      BY <2>3 DEF Abort
    <3>2. Answered(c)' /\ \A d : Answered(d) => Answered(d)'
      BY <3>1, AnsweredStays
    <3>3. /\ Size \in Nat /\ Size' = Size + 1
          /\ \A i \in 0..Size :
               claims'[i + 1] = {c} \/ \E j \in 0..(Size - 1) : claims'[i + 1] = Held(j)
      BY <1>0, <2>3, AbortStep DEF Size
    <3>4. ASSUME NEW k \in 0..(Size' - 1), NEW d \in Held(k)' PROVE Answered(d)'
      <4>1. k \in 0..Size /\ d \in claims'[k + 1]
        BY <3>3, <3>4 DEF Held
      <4> QED
        BY <3>2, <3>3, <4>1 DEF ClaimsWereAnswered
    <3>5. \A p \in Party : dishonest'[p] # NoEvidence => Answered(dishonest[p][1])'
      BY <3>1, <3>2 DEF ClaimsWereAnswered
    <3> QED
      BY <3>4, <3>5 DEF ClaimsWereAnswered
  <2>4. CASE FailToOpen(c) \/ Fail(c)
    BY <2>4 DEF FailToOpen, Fail, ClaimsWereAnswered, Answered, Size, Held
  <2> QED
    BY <1>2, <2>1, <2>2, <2>3, <2>4 DEF resolve, Accusing
<1> QED
  BY <1>1, <1>2 DEF Next

-----------------------------------------------------------------------------
(***************************************************************************)
(* Refinement: what the parties read in the answers of Trent is a behaviour *)
(* of Verdict, which never announces both verdicts.                        *)
(***************************************************************************)
THEOREM TrentSolverImplementsVerdict == Spec => ImplementsVerdict
<1>1. Init => V!Init
  BY DEF Init, V!Init, Announced
<1>2. IInv /\ [Next]_vars => [V!Next]_Announced
  <2> SUFFICES ASSUME IInv, [Next]_vars
               PROVE  V!Next \/ Announced' = Announced
    OBVIOUS
  <2>1. CASE UNCHANGED vars
    BY <2>1 DEF vars, Announced
  <2>2. ASSUME NEW c \in Arrivals, resolve(c)
        PROVE  V!Next \/ Announced' = Announced
    <3>1. TypeOK
      BY DEF IInv
    <3>2. Announced \subseteq {"cancelled", "resolved"}
      BY DEF Announced, VerdictOf
    <3>3. ASSUME optimistic, Announced' = Announced \cup {"cancelled"}
          PROVE  V!Announce("cancelled")
      BY <3>2, <3>3 DEF IInv, ResolvedMeansOpened, V!Announce
    <3>4. CASE Accusing(c)
      <4>1. claims # << >>
        <5>1. Size > 0 /\ Size \in Nat
          BY <3>1, <3>4, AccusingStep
        <5> QED
          BY <5>1, EmptySeq DEF Size
      <4>2. optimistic
        BY <3>1, <4>1 DEF IInv, ListIsEmptyOnceResolved, TypeOK
      <4>3. Announced' = Announced \/ Announced' = Announced \cup {"cancelled"}
        BY <3>1, <3>4, AccusingBroadcasts, BroadcastAnnounces DEF VerdictOf
      <4> QED
        BY <3>3, <4>2, <4>3 DEF V!Next, V!Verdicts
    <3>5. CASE Resolve(c)
      <4>1. claims = << >>
        BY <3>1, <3>5, OpenedOnEmptyList DEF Resolve
      <4>2. Announced' = Announced \cup {"resolved"}
        BY <3>5, BroadcastAnnounces DEF Resolve, VerdictOf
      <4>3. V!Announce("resolved")
        BY <3>2, <4>1, <4>2 DEF IInv, CancelledMeansPiledUp, V!Announce
      <4> QED
        BY <4>3 DEF V!Next, V!Verdicts
    <3>6. CASE Abort(c)
      <4>1. optimistic
        BY <3>1, <3>6 DEF Abort, Resolvable, TypeOK
      <4>2. Announced' = Announced \cup {"cancelled"}
        BY <3>6, BroadcastAnnounces DEF Abort, VerdictOf
      <4> QED
        BY <3>3, <4>1, <4>2 DEF V!Next, V!Verdicts
    <3>7. CASE FailToOpen(c) \/ Fail(c)
      BY <3>7 DEF FailToOpen, Fail, Announced
    <3> QED
      BY <2>2, <3>4, <3>5, <3>6, <3>7 DEF resolve, Accusing
  <2> QED
    BY <2>1, <2>2 DEF Next
<1> QED
  BY <1>1, <1>2, Invariant, PTL DEF Spec, ImplementsVerdict, V!Spec
=============================================================================
