-------------------------- MODULE ItemSearchProofs --------------------------
(***************************************************************************)
(* Proofs about ItemSearch, for any texts, peers and items and any number  *)
(* of searches.                                                            *)
(*                                                                         *)
(* The invariant has four parts: types, with what a search that was not    *)
(* made leaves untouched; where the titles that are on their way come      *)
(* from; what the spinner waits for; and where the first node of the last  *)
(* search is until the page shows it.                                      *)
(***************************************************************************)
EXTENDS ItemSearch, TLAPS

Node == SUBSET Item

Unmade ==
  \A i \in Search : i > Last =>
    phase[i] = "none" /\ step[i] = "none" /\ out[i] = << >>

Types == TypeOK /\ Unmade

-----------------------------------------------------------------------------
LEMMA Sizes == MaxSearches \in Nat /\ \A i \in Search : i \in Nat /\ i > 0
  BY ConstantsAssumption DEF Search

\* What the sequences of nodes are used for.
LEMMA Appended ==
  ASSUME NEW s \in Seq(Node), NEW node \in Node
  PROVE  /\ Append(s, node) \in Seq(Node)
         /\ Append(s, node) # << >>
         /\ s = << >> => Head(Append(s, node)) = node
         /\ s # << >> => Head(Append(s, node)) = Head(s)
         /\ \A j \in 1..Len(Append(s, node)) :
              Append(s, node)[j] = node \/ (j \in 1..Len(s) /\ Append(s, node)[j] = s[j])
  OBVIOUS

LEMMA Taken ==
  ASSUME NEW s \in Seq(Node), s # << >>
  PROVE  /\ Head(s) \in Node
         /\ Head(s) = s[1] /\ 1 \in 1..Len(s)
         /\ Tail(s) \in Seq(Node)
         /\ \A j \in 1..Len(Tail(s)) : j + 1 \in 1..Len(s) /\ Tail(s)[j] = s[j + 1]
  OBVIOUS

LEMMA Typed ==
  ASSUME NEW s \in Seq(Texts), NEW t \in Texts
  PROVE  /\ Append(s, t) \in Seq(Texts)
         /\ Len(s) \in Nat
         /\ Len(Append(s, t)) = Len(s) + 1
         /\ Append(s, t)[Len(s) + 1] = t
         /\ \A i \in 1..Len(s) : Append(s, t)[i] = s[i] /\ s[i] \in Texts
  OBVIOUS

-----------------------------------------------------------------------------
\* Only stream may differ between the phases before and after.
OnlyAborts(before, after) ==
  /\ after \in [Search -> Phase]
  /\ \A i \in Search :
       after[i] = before[i] \/ (after[i] = "aborted" /\ i = stream /\ stream # 0)
  /\ stream = 0 => after = before

LEMMA AbortedKeeps ==
  ASSUME NEW ph \in [Search -> Phase]
  PROVE  OnlyAborts(ph, Aborted(ph))
  BY DEF Aborted, Phase, OnlyAborts

LEMMA Basics ==
  ASSUME Types
  PROVE  /\ text \in Seq(Texts) /\ Last \in Nat /\ Last <= MaxSearches
         /\ out \in [Search -> Seq(Node)] /\ digest \in Seq(Node)
         /\ phase \in [Search -> Phase] /\ step \in [Search -> Step]
         /\ \A i \in Search : i <= Last => text[i] \in Texts
         /\ \A i \in 1..Last : i \in Search
<1>1. text \in Seq(Texts) /\ Last <= MaxSearches
  BY DEF Types, TypeOK
<1>2. Last \in Nat /\ \A i \in 1..Last : text[i] \in Texts
  BY <1>1 DEF Last
<1>3. \A i \in 1..Last : i \in Search
  BY <1>1, <1>2, Sizes DEF Search
<1>4. \A i \in Search : i <= Last => i \in 1..Last
  BY <1>2, Sizes
<1> QED
  BY <1>1, <1>2, <1>3, <1>4 DEF Types, TypeOK, Node

LEMMA Writes ==
  ASSUME Types, NEW i \in Nat, NEW node \in Node, Write(i, node)
  PROVE  /\ out' \in [Search -> Seq(Node)]
         /\ \A j \in Search : j # i => out'[j] = out[j]
         /\ i \in Search => out'[i] = Append(out[i], node)
<1>1. \A j \in Search : Append(out[j], node) \in Seq(Node)
  BY Basics, Appended
<1> QED
  BY <1>1, Basics DEF Write

\* What a search does to the sequences and functions.
LEMMA SearchEffect ==
  ASSUME Types, NEW t \in Texts, search(t)
  PROVE  /\ Last + 1 \in Search /\ Last' = Last + 1
         /\ text' \in Seq(Texts) /\ text'[Last + 1] = t
         /\ \A i \in 1..Last : text'[i] = text[i]
         /\ phase' \in [Search -> Phase] /\ phase'[Last + 1] = "sent"
         /\ \A i \in Search : i # Last + 1 =>
              phase'[i] = phase[i] \/ (phase'[i] = "aborted" /\ i = stream)
         /\ step' \in [Search -> Step] /\ step'[Last + 1] = "called"
         /\ \A i \in Search : i # Last + 1 => step'[i] = step[i]
<1>1. Last + 1 \in Search
  BY Sizes, Basics DEF search, Search
<1>2. /\ Last' = Last + 1
      /\ text' \in Seq(Texts) /\ text'[Last + 1] = t
      /\ \A i \in 1..Last : text'[i] = text[i]
  BY Typed, Basics DEF search, Last
<1>3. OnlyAborts(phase, Aborted(phase))
  BY Basics, AbortedKeeps
<1> QED
  BY <1>1, <1>2, <1>3, Basics DEF search, OnlyAborts, Phase, Step

\* What the page makes of a node.
LEMMA NodeEffect ==
  ASSUME Types, onNode
  PROVE  /\ digest # << >> /\ Head(digest) \in Node
         /\ digest' = Tail(digest) /\ digest' \in Seq(Node)
         /\ results' = results \cup Head(digest)
         /\ errorSearch' = (results' = {})
         /\ searchItem' = (searchItem /\ Head(digest) = {} /\ stream = 0)
         /\ OnlyAborts(phase, phase')
         /\ stream' \in {0, stream}
         /\ text' = text /\ step' = step /\ out' = out /\ rest' = rest /\ net' = net
<1>1. OnlyAborts(phase, phase)
  BY Basics DEF OnlyAborts
<1>2. OnlyAborts(phase, Aborted(phase))
  BY Basics, AbortedKeeps
<1>3. digest # << >> /\ digest' = Tail(digest)
  BY DEF onNode
<1>4. Head(digest) \in Node /\ digest' \in Seq(Node)
  BY <1>3, Basics, Taken
<1> QED
  BY <1>1, <1>2, <1>3, <1>4 DEF onNode

-----------------------------------------------------------------------------
LEMMA TypesInit == Init => Types
<1> SUFFICES ASSUME Init PROVE Types
  OBVIOUS
<1>1. text = << >> /\ Last = 0 /\ digest = << >>
  BY DEF Init, Last
<1>2. << >> \in Seq(Texts) /\ << >> \in Seq(SUBSET Item)
  OBVIOUS
<1>3. Unmade
  BY DEF Init, Unmade
<1>4. /\ phase \in [Search -> Phase] /\ step \in [Search -> Step]
      /\ out \in [Search -> Seq(SUBSET Item)]
  BY <1>2 DEF Init, Phase, Step
<1>5. 0 <= MaxSearches /\ 0 \in 0..0
  BY Sizes
<1>6. TypeOK
  BY <1>1, <1>2, <1>4, <1>5 DEF Init, TypeOK
<1> QED
  BY <1>3, <1>6 DEF Types

LEMMA TypesStep == Types /\ [Next]_vars => Types'
<1> SUFFICES ASSUME Types, [Next]_vars PROVE Types'
  OBVIOUS
<1> USE Sizes
<1>0. /\ text \in Seq(Texts) /\ Last \in Nat /\ Last <= MaxSearches
      /\ out \in [Search -> Seq(Node)] /\ digest \in Seq(Node)
      /\ phase \in [Search -> Phase] /\ step \in [Search -> Step]
      /\ Holds \in [Peers \cup {Here} -> SUBSET Texts]
      /\ \A i \in Search : i <= Last => text[i] \in Texts
      /\ \A i \in 1..Last : i \in Search
  BY Basics, ConstantsAssumption
<1>1. ASSUME NEW t \in Texts, search(t) PROVE Types'
  <2>1. /\ results' = {} /\ errorSearch' = FALSE /\ searchItem' = TRUE
        /\ rest' \in {Last + 1, rest}
        /\ UNCHANGED <<stream, digest, out, listener, currentSl, answers, responses>>
    BY <1>1 DEF search, net
  <2>2. /\ Last' \in Nat /\ Last' <= MaxSearches /\ Last <= Last'
        /\ rest' \in 0..Last' /\ stream' \in 0..Last'
        /\ listener' \in 0..Last' /\ currentSl' \in 0..Last'
    <3>1. /\ rest \in 0..Last /\ stream \in 0..Last
          /\ listener \in 0..Last /\ currentSl \in 0..Last
      BY DEF Types, TypeOK
    <3>2. Last' = Last + 1 /\ Last + 1 <= MaxSearches
      BY <1>0, <1>1, SearchEffect DEF Search
    <3> QED
      BY <1>0, <2>1, <3>1, <3>2
  <2>3. answers' \subseteq [search : 1..Last', peer : Peers]
    BY <1>0, <2>1, <2>2 DEF Types, TypeOK
  <2>4. text' \in Seq(Texts) /\ phase' \in [Search -> Phase] /\ step' \in [Search -> Step]
    BY <1>1, SearchEffect
  <2>5. TypeOK'
    BY <2>1, <2>2, <2>3, <2>4 DEF Types, TypeOK
  <2>6. \A i \in Search : i > Last + 1 => i # Last + 1 /\ i > Last /\ i # stream
    BY <1>0 DEF Types, TypeOK
  <2>7. Unmade'
    BY <1>0, <1>1, <2>1, <2>6, SearchEffect DEF Types, Unmade
  <2> QED
    BY <2>5, <2>7 DEF Types
<1>2. ASSUME NEW i \in Search, start(i) PROVE Types'
  <2>1. i <= Last
    BY <1>0, <1>2 DEF start, Types, Unmade
  <2> QED
    BY <1>0, <1>2, <2>1 DEF start, Types, TypeOK, Unmade, Phase, Last, net
<1>3. ASSUME NEW i \in Search, fail(i) PROVE Types'
  <2>1. i <= Last
    BY <1>0, <1>3 DEF fail, Live, Types, Unmade
  <2> QED
    BY <1>0, <1>3, <2>1 DEF fail, Types, TypeOK, Unmade, Phase, Last, page, net
<1>4. ASSUME NEW i \in Search, notify(i) PROVE Types'
  <2>1. out[i] # << >> /\ out[i] \in Seq(Node) /\ i <= Last
    BY <1>0, <1>4 DEF notify, Types, Unmade
  <2>2. digest' \in Seq(Node) /\ Tail(out[i]) \in Seq(Node)
    BY <1>0, <1>4, <2>1, Taken, Appended DEF notify
  <2> QED
    BY <1>0, <1>4, <2>1, <2>2 DEF notify, Types, TypeOK, Unmade, Phase, Last, page, net, Node
<1>5. CASE onNode
  <2>1. Last' = Last
    BY <1>5, NodeEffect DEF Last
  <2>2. results' \subseteq Item /\ errorSearch' \in BOOLEAN /\ searchItem' \in BOOLEAN
    BY <1>5, NodeEffect DEF Types, TypeOK, Node
  <2>3. digest' \in Seq(SUBSET Item) /\ phase' \in [Search -> Phase] /\ stream' \in 0..Last
    BY <1>0, <1>5, NodeEffect DEF OnlyAborts, Node, Types, TypeOK
  <2>4. TypeOK'
    <3>1. UNCHANGED <<text, step, out, rest, listener, currentSl, answers, responses>>
      BY <1>5, NodeEffect DEF net
    <3> QED
      BY <2>1, <2>2, <2>3, <3>1 DEF Types, TypeOK
  <2>5. Unmade'
    BY <1>0, <1>5, <2>1, NodeEffect DEF Types, TypeOK, Unmade, OnlyAborts
  <2> QED
    BY <2>4, <2>5 DEF Types
<1>6. ASSUME NEW i \in Search, FindHere(i) PROVE Types'
  <2>1. i <= Last /\ text[i] \in Texts
    BY <1>0, <1>6 DEF FindHere, Goes, Types, Unmade
  <2>2. {[title |-> text[i], at |-> Here]} \in Node
    BY <2>1 DEF Node, Item
  <2>3. out' \in [Search -> Seq(Node)] /\ \A j \in Search : j # i => out'[j] = out[j]
    BY <1>0, <1>6, <2>2, Writes DEF FindHere
  <2> QED
    BY <1>0, <1>6, <2>1, <2>3 DEF FindHere, Goes, Step, Types, TypeOK, Unmade, Last, page, net, Node
<1>7. ASSUME NEW i \in Search, Listen(i) PROVE Types'
  <2>1. i <= Last
    BY <1>0, <1>7 DEF Listen, Goes, Types, Unmade
  <2> QED
    BY <1>0, <1>7, <2>1 DEF Listen, Goes, Step, Types, TypeOK, Unmade, Last, page
<1>8. ASSUME NEW i \in Search, AskNetwork(i) PROVE Types'
  <2>1. i <= Last
    BY <1>0, <1>8 DEF AskNetwork, Goes, Types, Unmade
  <2> QED
    BY <1>0, <1>8, <2>1 DEF AskNetwork, Goes, Step, Types, TypeOK, Unmade, Last, page
<1>9. ASSUME NEW i \in Search, Close(i) PROVE Types'
  <2>1. i <= Last
    BY <1>0, <1>9 DEF Close, Goes, Types, Unmade
  <2>2. out' \in [Search -> Seq(Node)] /\ \A j \in Search : j # i => out'[j] = out[j]
    BY <1>0, <1>9, Writes DEF Close, Node
  <2> QED
    BY <1>0, <1>9, <2>1, <2>2 DEF Close, Goes, Step, Types, TypeOK, Unmade, Last, page, net, Node
<1>10. ASSUME NEW a \in answers, discoveryEvent(a) PROVE Types'
  <2>1. a.peer \in Peers /\ Holds[a.peer] \subseteq Texts
    BY <1>0 DEF Types, TypeOK
  <2> QED
    BY <1>0, <1>10, <2>1 DEF discoveryEvent, Types, TypeOK, Unmade, Last, page
<1>11. ASSUME NEW m \in responses, pipeMsgEvent(m) PROVE Types'
  <2>1. {[title |-> m.title, at |-> m.peer]} \in Node
    BY DEF Types, TypeOK, Node, Item
  <2>2. listener \in 0..Last /\ listener \in Nat
    BY <1>0 DEF Types, TypeOK
  <2>3. out' \in [Search -> Seq(Node)] /\ \A j \in Search : j > Last => out'[j] = out[j]
    BY <1>0, <1>11, <2>1, <2>2, Writes DEF pipeMsgEvent
  <2> QED
    BY <1>0, <1>11, <2>3 DEF pipeMsgEvent, Types, TypeOK, Unmade, Last, page, Node
<1>12. CASE Lose
  BY <1>0, <1>12 DEF Lose, Types, TypeOK, Unmade, Last, page
<1>13. CASE UNCHANGED vars
  BY <1>0, <1>13 DEF vars, Types, TypeOK, Unmade, Last, page, net
<1> QED
  BY <1>1, <1>2, <1>3, <1>4, <1>5, <1>6, <1>7, <1>8, <1>9, <1>10, <1>11, <1>12, <1>13 DEF Next

\* The state of the page, of the threads and of the network keeps its types.
THEOREM TypeCorrect == Spec => []TypeOK
<1>1. Types => TypeOK
  BY DEF Types
<1> QED
  BY TypesInit, TypesStep, <1>1, PTL DEF Spec

-----------------------------------------------------------------------------
(***************************************************************************)
(* Where titles come from: everything on its way to the page, and whatever *)
(* can still be sent, is of a search since nothing else was going on.      *)
(***************************************************************************)
Recent(t) == \E i \in rest..Last : i > 0 /\ t = text[i]

RecentNode(node) == \A x \in node : Recent(x.title)
RecentSeq(s) == \A j \in 1..Len(s) : RecentNode(s[j])

OldIsOver(i) == step[i] = "closed" /\ ~Live(i)

Recency ==
  /\ RecentNode(results)
  /\ RecentSeq(digest)
  /\ \A i \in Search : i >= rest => RecentSeq(out[i])
  /\ \A m \in responses : Recent(m.title)
  /\ \A i \in 1..Last : i < rest => OldIsOver(i)
  /\ answers # {} => currentSl >= rest /\ currentSl > 0

LEMMA RecencyInit == Init => Recency
<1> SUFFICES ASSUME Init PROVE Recency
  OBVIOUS
<1>1. Last = 0 /\ Len(digest) = 0 /\ \A i \in Search : Len(out[i]) = 0
  BY DEF Init, Last
<1> QED
  BY <1>1 DEF Init, Recency, RecentNode, RecentSeq

\* A step that makes no search keeps the titles recent.
LEMMA RecentKeeps ==
  ASSUME text' = text, rest' = rest
  PROVE  /\ Last' = Last
         /\ \A t : Recent(t)' = Recent(t)
         /\ \A node : RecentNode(node) => \A x \in node : Recent(x.title)'
  BY DEF Last, Recent, RecentNode

\* What a thread writes is recent when it writes recent titles.
LEMMA RecentWrite ==
  ASSUME Types, Recency, text' = text, rest' = rest,
         NEW i \in Nat, NEW node \in Node, Write(i, node), RecentNode(node)
  PROVE  (\A j \in Search : j >= rest => RecentSeq(out[j]))'
<1> SUFFICES ASSUME NEW j \in Search, j >= rest,
                    NEW k \in 1..Len(out'[j]), NEW x \in out'[j][k]
             PROVE  Recent(x.title)'
  BY DEF RecentSeq, RecentNode
<1>1. CASE j # i
  BY <1>1, Writes, RecentKeeps DEF Recency, RecentSeq, RecentNode
<1>2. CASE j = i
  <2>1. out[i] \in Seq(Node) /\ out'[i] = Append(out[i], node)
    BY <1>2, Writes, Basics
  <2>2. x \in node \/ (k \in 1..Len(out[i]) /\ x \in out[i][k])
    BY <1>2, <2>1, Appended
  <2> QED
    BY <1>2, <2>2, RecentKeeps DEF Recency, RecentSeq, RecentNode
<1> QED
  BY <1>1, <1>2

LEMMA RecencyStep == Types /\ Recency /\ [Next]_vars => Recency'
<1> SUFFICES ASSUME Types, Recency, [Next]_vars PROVE Recency'
  OBVIOUS
<1>0. /\ Last \in Nat /\ rest \in 0..Last
      /\ out \in [Search -> Seq(Node)] /\ digest \in Seq(Node)
      /\ \A i \in Search : i \in Nat /\ i > 0
      /\ \A i \in 1..Last : i \in Search
  BY Basics, Sizes DEF Types, TypeOK
<1>1. ASSUME NEW t \in Texts, search(t) PROVE Recency'
  <2>0. /\ results' = {} /\ rest' = (IF AtRest THEN Last + 1 ELSE rest)
        /\ UNCHANGED <<digest, out, currentSl, answers, responses>>
    BY <1>1 DEF search, net
  <2>1. /\ Last' = Last + 1 /\ \A i \in 1..Last : text'[i] = text[i]
        /\ \A i \in 1..Last : step'[i] = step[i] /\ phase'[i] \in {phase[i], "aborted"}
    BY <1>0, <1>1, SearchEffect
  <2>2. \A i \in 1..Last : OldIsOver(i) => OldIsOver(i)'
    BY <2>0, <2>1 DEF OldIsOver, Live
  <2>3. CASE AtRest
    <3>1. digest = << >> /\ answers = {} /\ responses = {} /\ \A i \in 1..Last : OldIsOver(i)
      BY <2>3 DEF AtRest, OldIsOver
    <3>2. \A i \in Search : i >= Last + 1 => out[i] = << >>
      BY <1>0 DEF Types, Unmade
    <3>3. RecentNode(results)' /\ RecentSeq(digest)'
      BY <2>0, <3>1 DEF RecentNode, RecentSeq
    <3>4. (\A i \in Search : i >= rest => RecentSeq(out[i]))'
      BY <2>0, <2>3, <3>2 DEF RecentSeq
    <3>5. (\A i \in 1..Last : i < rest => OldIsOver(i))'
      <4> SUFFICES ASSUME NEW i \in 1..(Last + 1), i < Last + 1 PROVE OldIsOver(i)'
        BY <2>0, <2>1, <2>3
      <4>1. i \in 1..Last
        BY <1>0
      <4> QED BY <2>2, <3>1, <4>1
    <3> QED
      BY <2>0, <3>1, <3>3, <3>4, <3>5 DEF Recency
  <2>4. CASE ~AtRest
    <3>1. \A u : Recent(u) => Recent(u)'
      BY <1>0, <2>0, <2>1, <2>4 DEF Recent
    <3>2. RecentNode(results)'
      BY <2>0 DEF RecentNode
    <3>3. RecentSeq(digest)' /\ (\A i \in Search : i >= rest => RecentSeq(out[i]))'
      BY <2>0, <2>4, <3>1 DEF Recency, RecentSeq, RecentNode
    <3>4. (\A i \in 1..Last : i < rest => OldIsOver(i))'
      BY <1>0, <2>0, <2>1, <2>2, <2>4 DEF Recency
    <3> QED
      BY <2>0, <2>4, <3>1, <3>2, <3>3, <3>4 DEF Recency
  <2> QED
    BY <2>3, <2>4
<1>2. ASSUME NEW i \in Search, start(i) PROVE Recency'
  <2>1. /\ text' = text /\ rest' = rest
        /\ UNCHANGED <<results, digest, out, step, currentSl, answers, responses>>
    BY <1>2 DEF start, net
  <2>2. \A j \in 1..Last : OldIsOver(j) => OldIsOver(j)'
    BY <1>0, <1>2, <2>1, Basics DEF start, OldIsOver, Live
  <2> QED
    BY <2>1, <2>2, RecentKeeps DEF Recency, RecentNode, RecentSeq
<1>3. ASSUME NEW i \in Search, fail(i) PROVE Recency'
  <2>1. /\ text' = text /\ rest' = rest
        /\ UNCHANGED <<results, digest, out, step, currentSl, answers, responses>>
    BY <1>3 DEF fail, page, net
  <2>2. \A j \in 1..Last : OldIsOver(j) => OldIsOver(j)'
    BY <1>0, <1>3, <2>1, Basics DEF fail, OldIsOver, Live
  <2> QED
    BY <2>1, <2>2, RecentKeeps DEF Recency, RecentNode, RecentSeq
<1>4. ASSUME NEW i \in Search, notify(i) PROVE Recency'
  <2>1. /\ text' = text /\ rest' = rest
        /\ UNCHANGED <<results, step, currentSl, answers, responses>>
        /\ phase[i] = "started" /\ out[i] # << >>
        /\ digest' = Append(digest, Head(out[i]))
        /\ out' = [out EXCEPT ![i] = Tail(@)]
        /\ phase' = [phase EXCEPT ![i] = "resolved"]
    BY <1>4 DEF notify, page, net
  <2>2. i \in 1..Last /\ i >= rest
    <3>1. i <= Last
      BY <1>0, <2>1, Basics DEF Types, Unmade
    <3>2. ~OldIsOver(i)
      BY <2>1 DEF OldIsOver, Live
    <3> QED BY <1>0, <3>1, <3>2 DEF Recency
  <2>3. /\ out[i] \in Seq(Node) /\ Head(out[i]) \in Node /\ RecentSeq(out[i])
        /\ RecentNode(Head(out[i]))
        /\ \A k \in 1..Len(Tail(out[i])) : RecentNode(Tail(out[i])[k])
    BY <1>0, <2>1, <2>2, Taken DEF Recency, RecentSeq
  <2>4. RecentSeq(digest)'
    <3>1. \A k \in 1..Len(digest') : RecentNode(digest'[k])
      BY <1>0, <2>1, <2>3, Appended DEF Recency, RecentSeq
    <3> QED BY <2>1, <3>1, RecentKeeps DEF RecentSeq, RecentNode
  <2>5. (\A j \in Search : j >= rest => RecentSeq(out[j]))'
    <3>1. \A j \in Search : j >= rest => \A k \in 1..Len(out'[j]) : RecentNode(out'[j][k])
      BY <1>0, <2>1, <2>3 DEF Recency, RecentSeq
    <3> QED BY <2>1, <3>1, RecentKeeps DEF RecentSeq, RecentNode
  <2>6. (\A j \in 1..Last : j < rest => OldIsOver(j))'
    BY <1>0, <2>1, <2>2, RecentKeeps DEF Recency, OldIsOver, Live
  <2> QED
    BY <2>1, <2>4, <2>5, <2>6, RecentKeeps DEF Recency, RecentNode
<1>5. CASE onNode
  <2>1. /\ digest # << >> /\ Head(digest) \in Node /\ digest' = Tail(digest)
        /\ results' = results \cup Head(digest) /\ OnlyAborts(phase, phase')
        /\ text' = text /\ step' = step /\ out' = out /\ rest' = rest
        /\ UNCHANGED <<currentSl, answers, responses>>
    BY <1>5, NodeEffect DEF net
  <2>2. RecentNode(Head(digest)) /\ \A k \in 1..Len(Tail(digest)) : RecentNode(Tail(digest)[k])
    BY <1>0, <2>1, Taken DEF Recency, RecentSeq
  <2>3. RecentNode(results)' /\ RecentSeq(digest)'
    <3>1. RecentNode(results')
      BY <2>1, <2>2 DEF Recency, RecentNode
    <3> QED BY <2>1, <2>2, <3>1, RecentKeeps DEF RecentSeq, RecentNode
  <2>4. \A j \in 1..Last : OldIsOver(j) => OldIsOver(j)'
    BY <1>0, <2>1 DEF OldIsOver, Live, OnlyAborts
  <2> QED
    BY <2>1, <2>3, <2>4, RecentKeeps DEF Recency, RecentNode, RecentSeq
<1>6. ASSUME NEW i \in Search, FindHere(i) PROVE Recency'
  <2>1. /\ text' = text /\ rest' = rest
        /\ UNCHANGED <<results, digest, phase, currentSl, answers, responses>>
        /\ step[i] = "called" /\ step' = [step EXCEPT ![i] = "found"]
    BY <1>6 DEF FindHere, Goes, page, net
  <2>2. i \in 1..Last /\ i >= rest
    BY <1>0, <2>1 DEF Types, Unmade, Recency, OldIsOver
  <2>3. (\A j \in Search : j >= rest => RecentSeq(out[j]))'
    <3>1. CASE out' = out
      BY <2>1, <3>1, RecentKeeps DEF Recency, RecentSeq, RecentNode
    <3>2. CASE Write(i, {[title |-> text[i], at |-> Here]})
      <4>1. {[title |-> text[i], at |-> Here]} \in Node
        BY <1>0, <2>2, Basics DEF Node, Item
      <4>2. RecentNode({[title |-> text[i], at |-> Here]})
        BY <1>0, <2>2 DEF RecentNode, Recent
      <4> QED BY <1>0, <2>1, <3>2, <4>1, <4>2, RecentWrite
    <3> QED BY <1>6, <3>1, <3>2 DEF FindHere
  <2>4. \A j \in Search : j # i => out'[j] = out[j]
    BY <1>0, <1>6 DEF FindHere, Write
  <2>5. (\A j \in 1..Last : j < rest => OldIsOver(j))'
    BY <1>0, <2>1, <2>2, <2>4, RecentKeeps DEF Recency, OldIsOver, Live
  <2> QED
    BY <2>1, <2>3, <2>5, RecentKeeps DEF Recency, RecentNode, RecentSeq
<1>7. ASSUME NEW i \in Search, Listen(i) PROVE Recency'
  <2>1. /\ text' = text /\ rest' = rest
        /\ UNCHANGED <<results, digest, out, phase, currentSl, answers, responses>>
        /\ step[i] = "found" /\ step' = [step EXCEPT ![i] = "listening"]
    BY <1>7 DEF Listen, Goes, page
  <2>2. (\A j \in 1..Last : j < rest => OldIsOver(j))'
    BY <1>0, <2>1, RecentKeeps DEF Recency, OldIsOver, Live
  <2> QED
    BY <2>1, <2>2, RecentKeeps DEF Recency, RecentNode, RecentSeq
<1>8. ASSUME NEW i \in Search, AskNetwork(i) PROVE Recency'
  <2>1. /\ text' = text /\ rest' = rest
        /\ UNCHANGED <<results, digest, out, phase, responses>> /\ currentSl' = i
        /\ step[i] = "listening" /\ step' = [step EXCEPT ![i] = "asked"]
    BY <1>8 DEF AskNetwork, Goes, page
  <2>2. i \in 1..Last /\ i >= rest
    BY <1>0, <2>1 DEF Types, Unmade, Recency, OldIsOver
  <2>3. (\A j \in 1..Last : j < rest => OldIsOver(j))'
    BY <1>0, <2>1, RecentKeeps DEF Recency, OldIsOver, Live
  <2> QED
    BY <1>0, <2>1, <2>2, <2>3, RecentKeeps DEF Recency, RecentNode, RecentSeq
<1>9. ASSUME NEW i \in Search, Close(i) PROVE Recency'
  <2>1. /\ text' = text /\ rest' = rest
        /\ UNCHANGED <<results, digest, phase, currentSl, answers, responses>>
        /\ step[i] = "asked" /\ step' = [step EXCEPT ![i] = "closed"]
        /\ Write(i, {})
    BY <1>9 DEF Close, Goes, page, net
  <2>2. i \in 1..Last /\ i >= rest
    BY <1>0, <2>1 DEF Types, Unmade, Recency, OldIsOver
  <2>3. (\A j \in Search : j >= rest => RecentSeq(out[j]))'
    <3>1. {} \in Node /\ RecentNode({}) /\ i \in Nat
      BY <1>0 DEF Node, RecentNode
    <3> QED BY <2>1, <3>1, RecentWrite
  <2>4. \A j \in Search : j # i => out'[j] = out[j]
    BY <2>1 DEF Write
  <2>5. (\A j \in 1..Last : j < rest => OldIsOver(j))'
    BY <1>0, <2>1, <2>2, <2>4, RecentKeeps DEF Recency, OldIsOver, Live
  <2> QED
    BY <2>1, <2>3, <2>5, RecentKeeps DEF Recency, RecentNode, RecentSeq
<1>10. ASSUME NEW a \in answers, discoveryEvent(a) PROVE Recency'
  <2>1. /\ text' = text /\ rest' = rest
        /\ UNCHANGED <<results, digest, phase, step, out, currentSl>>
        /\ answers' \subseteq answers
        /\ \A m \in responses' : m \in responses \/ m.title = text[currentSl]
    BY <1>10 DEF discoveryEvent, page
  <2>2. Recent(text[currentSl])
    BY <1>0 DEF Recency, Recent, Types, TypeOK
  <2>3. (\A j \in 1..Last : j < rest => OldIsOver(j))'
    BY <2>1, RecentKeeps DEF Recency, OldIsOver, Live
  <2> QED
    BY <2>1, <2>2, <2>3, RecentKeeps DEF Recency, RecentNode, RecentSeq
<1>11. ASSUME NEW m \in responses, pipeMsgEvent(m) PROVE Recency'
  <2>1. /\ text' = text /\ rest' = rest
        /\ UNCHANGED <<results, digest, phase, step, currentSl, answers>>
        /\ responses' \subseteq responses
    BY <1>11 DEF pipeMsgEvent, page
  <2>2. CASE out' = out
    <3>1. (\A j \in 1..Last : j < rest => OldIsOver(j))'
      BY <2>1, <2>2, RecentKeeps DEF Recency, OldIsOver, Live
    <3> QED
      BY <2>1, <2>2, <3>1, RecentKeeps DEF Recency, RecentNode, RecentSeq
  <2>3. CASE step[listener] # "closed" /\ Write(listener, {[title |-> m.title, at |-> m.peer]})
    <3>1. listener \in Nat /\ {[title |-> m.title, at |-> m.peer]} \in Node
      BY <1>0 DEF Types, TypeOK, Node, Item
    <3>2. RecentNode({[title |-> m.title, at |-> m.peer]})
      BY DEF Recency, RecentNode
    <3>3. (\A j \in Search : j >= rest => RecentSeq(out[j]))'
      BY <2>1, <2>3, <3>1, <3>2, RecentWrite
    <3>4. \A j \in Search : j # listener => out'[j] = out[j]
      BY <2>3 DEF Write
    <3>5. (\A j \in 1..Last : j < rest => OldIsOver(j))'
      BY <1>0, <2>1, <2>3, <3>4, RecentKeeps DEF Recency, OldIsOver, Live
    <3> QED
      BY <2>1, <3>3, <3>5, RecentKeeps DEF Recency, RecentNode, RecentSeq
  <2> QED
    BY <1>11, <2>2, <2>3 DEF pipeMsgEvent
<1>12. CASE Lose
  <2>1. /\ text' = text /\ rest' = rest
        /\ UNCHANGED <<results, digest, phase, step, out, currentSl>>
        /\ answers' \subseteq answers /\ responses' \subseteq responses
    BY <1>12 DEF Lose, page
  <2>2. (\A j \in 1..Last : j < rest => OldIsOver(j))'
    BY <2>1, RecentKeeps DEF Recency, OldIsOver, Live
  <2> QED
    BY <2>1, <2>2, RecentKeeps DEF Recency, RecentNode, RecentSeq
<1>13. CASE UNCHANGED vars
  <2>1. /\ text' = text /\ rest' = rest
        /\ UNCHANGED <<results, digest, phase, step, out, currentSl, answers, responses>>
    BY <1>13 DEF vars, page, net
  <2>2. (\A j \in 1..Last : j < rest => OldIsOver(j))'
    BY <2>1, RecentKeeps DEF Recency, OldIsOver, Live
  <2> QED
    BY <2>1, <2>2, RecentKeeps DEF Recency, RecentNode, RecentSeq
<1> QED
  BY <1>1, <1>2, <1>3, <1>4, <1>5, <1>6, <1>7, <1>8, <1>9, <1>10, <1>11, <1>12, <1>13 DEF Next

\* What the page shows is never of a search that was over, in the page, in the
\* node and in the network, before a later one was made.
THEOREM ShownRecent == Spec => []ShownIsRecent
<1>1. Recency => ShownIsRecent
  BY DEF Recency, RecentNode, Recent, ShownIsRecent
<1> QED
  BY TypesInit, TypesStep, RecencyInit, RecencyStep, <1>1, PTL DEF Spec

-----------------------------------------------------------------------------
(***************************************************************************)
(* What the spinner waits for.  The page knows no stream only while that   *)
(* of the last search has not started; once its first node was read, that  *)
(* is still to be handled; and a thread that is done has left something    *)
(* to read to a page that has read nothing.                                *)
(***************************************************************************)
Pending ==
  /\ Last > 0
  /\ phase[Last] \in {"sent", "started", "resolved", "failed"}
  /\ stream = 0 => phase[Last] \in {"sent", "failed"}
  /\ phase[Last] = "resolved" => digest # << >>

LeavesToRead(i) ==
  step[i] = "closed" /\ phase[i] \in {"sent", "started"} => out[i] # << >>

Spinning ==
  /\ searchItem => Pending
  /\ \A i \in Search : LeavesToRead(i)

LEMMA SpinningInit == Init => Spinning
  BY DEF Init, Spinning, LeavesToRead

LEMMA SpinningStep == Types /\ Spinning /\ [Next]_vars => Spinning'
<1> SUFFICES ASSUME Types, Spinning, [Next]_vars PROVE Spinning'
  OBVIOUS
<1>0. /\ Last \in Nat /\ stream \in 0..Last
      /\ out \in [Search -> Seq(Node)] /\ digest \in Seq(Node)
      /\ phase \in [Search -> Phase] /\ step \in [Search -> Step]
      /\ \A i \in Search : i \in Nat /\ i > 0
      /\ \A i \in 1..Last : i \in Search
      /\ Last > 0 => Last \in Search
  BY Basics, Sizes DEF Types, TypeOK
<1>1. ASSUME NEW t \in Texts, search(t) PROVE Spinning'
  <2>1. UNCHANGED <<out, digest, stream>>
    BY <1>1 DEF search, net
  <2>2. /\ Last' = Last + 1 /\ Last + 1 \in Search
        /\ phase'[Last + 1] = "sent" /\ step'[Last + 1] = "called"
        /\ \A i \in Search : i # Last + 1 => step'[i] = step[i] /\ phase'[i] \in {phase[i], "aborted"}
    BY <1>1, SearchEffect
  <2> QED
    BY <1>0, <2>1, <2>2 DEF Spinning, Pending, LeavesToRead
<1>2. ASSUME NEW i \in Search, start(i) PROVE Spinning'
  <2>1. UNCHANGED <<text, searchItem, out, digest, step>> /\ stream' = i
    BY <1>2 DEF start, net
  <2> QED
    BY <1>0, <1>2, <2>1 DEF start, Spinning, Pending, LeavesToRead, Last
<1>3. ASSUME NEW i \in Search, fail(i) PROVE Spinning'
  <2>1. UNCHANGED <<text, searchItem, stream, out, digest, step>>
    BY <1>3 DEF fail, page, net
  <2> QED
    BY <1>0, <1>3, <2>1 DEF fail, Spinning, Pending, LeavesToRead, Last
<1>4. ASSUME NEW i \in Search, notify(i) PROVE Spinning'
  <2>1. /\ UNCHANGED <<text, searchItem, stream, step>>
        /\ digest' = Append(digest, Head(out[i])) /\ phase[i] = "started"
        /\ phase' = [phase EXCEPT ![i] = "resolved"]
        /\ \A j \in Search : j # i => out'[j] = out[j]
    BY <1>0, <1>4 DEF notify, page, net
  <2>2. digest' # << >>
    BY <1>0, <1>4, <2>1, Taken, Appended DEF notify
  <2> QED
    BY <1>0, <2>1, <2>2 DEF Spinning, Pending, LeavesToRead, Last
<1>5. CASE onNode
  <2>1. /\ searchItem' = (searchItem /\ Head(digest) = {} /\ stream = 0)
        /\ stream' \in {0, stream} /\ OnlyAborts(phase, phase')
        /\ text' = text /\ step' = step /\ out' = out
    BY <1>5, NodeEffect
  <2>2. \A j \in Search : LeavesToRead(j)'
    BY <2>1 DEF Spinning, LeavesToRead, OnlyAborts
  <2>3. ASSUME searchItem' PROVE Pending'
    <3>1. searchItem /\ stream = 0 /\ stream' = 0 /\ phase' = phase
      BY <2>1, <2>3 DEF OnlyAborts
    <3> QED
      BY <1>0, <2>1, <3>1 DEF Spinning, Pending, Last
  <2> QED
    BY <2>2, <2>3 DEF Spinning
<1>6. ASSUME NEW i \in Search, FindHere(i) PROVE Spinning'
  <2>1. /\ UNCHANGED <<text, searchItem, stream, digest, phase>>
        /\ step' = [step EXCEPT ![i] = "found"]
        /\ \A j \in Search : j # i => out'[j] = out[j]
    BY <1>0, <1>6 DEF FindHere, Goes, Write, page, net
  <2> QED
    BY <1>0, <2>1 DEF Spinning, Pending, LeavesToRead, Last
<1>7. ASSUME NEW i \in Search, Listen(i) PROVE Spinning'
  <2>1. /\ UNCHANGED <<text, searchItem, stream, digest, phase, out>>
        /\ step' = [step EXCEPT ![i] = "listening"]
    BY <1>7 DEF Listen, Goes, page
  <2> QED
    BY <1>0, <2>1 DEF Spinning, Pending, LeavesToRead, Last
<1>8. ASSUME NEW i \in Search, AskNetwork(i) PROVE Spinning'
  <2>1. /\ UNCHANGED <<text, searchItem, stream, digest, phase, out>>
        /\ step' = [step EXCEPT ![i] = "asked"]
    BY <1>8 DEF AskNetwork, Goes, page
  <2> QED
    BY <1>0, <2>1 DEF Spinning, Pending, LeavesToRead, Last
<1>9. ASSUME NEW i \in Search, Close(i) PROVE Spinning'
  <2>1. /\ UNCHANGED <<text, searchItem, stream, digest, phase>>
        /\ step' = [step EXCEPT ![i] = "closed"] /\ Write(i, {})
    BY <1>9 DEF Close, Goes, page, net
  <2>2. out'[i] # << >> /\ \A j \in Search : j # i => out'[j] = out[j]
    BY <1>0, <2>1, Appended DEF Write, Node
  <2> QED
    BY <1>0, <2>1, <2>2 DEF Spinning, Pending, LeavesToRead, Last
<1>10. ASSUME NEW a \in answers, discoveryEvent(a) PROVE Spinning'
  BY <1>10 DEF discoveryEvent, page, Spinning, Pending, LeavesToRead, Last
<1>11. ASSUME NEW m \in responses, pipeMsgEvent(m) PROVE Spinning'
  <2>1. UNCHANGED <<text, searchItem, stream, digest, phase, step>>
    BY <1>11 DEF pipeMsgEvent, page
  <2>2. \A j \in Search : out'[j] = out[j] \/ out'[j] # << >>
    <3>1. CASE out' = out
      BY <3>1
    <3>2. CASE Write(listener, {[title |-> m.title, at |-> m.peer]})
      <4>1. {[title |-> m.title, at |-> m.peer]} \in Node
        BY DEF Types, TypeOK, Node, Item
      <4> QED BY <1>0, <3>2, <4>1, Appended DEF Write
    <3> QED BY <1>11, <3>1, <3>2 DEF pipeMsgEvent
  <2> QED
    BY <1>0, <2>1, <2>2 DEF Spinning, Pending, LeavesToRead, Last
<1>12. CASE Lose
  BY <1>12 DEF Lose, page, Spinning, Pending, LeavesToRead, Last
<1>13. CASE UNCHANGED vars
  BY <1>13 DEF vars, page, Spinning, Pending, LeavesToRead, Last
<1> QED
  BY <1>1, <1>2, <1>3, <1>4, <1>5, <1>6, <1>7, <1>8, <1>9, <1>10, <1>11, <1>12, <1>13 DEF Next

\* The spinner never turns without a node that is still to come, unless the
\* request of the last search has failed: no earlier search leaves it on.
THEOREM SpinnerOwed == Spec => []SpinnerIsOwed
<1>1. Types /\ Spinning => SpinnerIsOwed
  <2> SUFFICES ASSUME Types, Spinning, searchItem
               PROVE  Live(Last) \/ digest # << >> \/ phase[Last] = "failed"
    BY DEF SpinnerIsOwed
  <2>1. Pending /\ LeavesToRead(Last)
    BY Basics DEF Spinning, Pending
  <2> QED
    BY <2>1 DEF Pending, LeavesToRead, Live
<1> QED
  BY TypesInit, TypesStep, SpinningInit, SpinningStep, <1>1, PTL DEF Spec

-----------------------------------------------------------------------------
(***************************************************************************)
(* Where the first node of the last search is, if that was made when       *)
(* nothing else was going on and the node has what was typed: not yet      *)
(* looked for, or not read, or not handled, or among the results.          *)
(***************************************************************************)
Lone == rest = Last /\ Last > 0 /\ text[Last] \in Holds[Here] /\ results = {}

Coming ==
  /\ digest # << >> => Head(digest) # {}
  /\ out[Last] # << >> /\ digest = << >> => Head(out[Last]) # {}
  /\ step[Last] # "called" => digest # << >> \/ out[Last] # << >>

Listens(i) == listener = i => step[i] \in {"listening", "asked", "closed"}
Untold(i) == step[i] = "called" => out[i] = << >>

Finding ==
  /\ errorSearch => results = {} /\ Last > 0
  /\ Last = 0 => digest = << >>
  /\ Lone => Coming /\ ~errorSearch
  /\ \A i \in Search : Listens(i) /\ Untold(i)

LEMMA FindingInit == Init => Finding
<1> SUFFICES ASSUME Init PROVE Finding
  OBVIOUS
<1>1. Last = 0 /\ \A i \in Search : i # 0
  BY Sizes DEF Init, Last
<1> QED
  BY <1>1 DEF Init, Finding, Lone, Listens, Untold

LEMMA FindingStep == Types /\ Recency /\ Finding /\ [Next]_vars => Finding'
<1> SUFFICES ASSUME Types, Recency, Finding, [Next]_vars PROVE Finding'
  OBVIOUS
<1>0. /\ Last \in Nat /\ rest \in 0..Last /\ listener \in 0..Last
      /\ out \in [Search -> Seq(Node)] /\ digest \in Seq(Node)
      /\ phase \in [Search -> Phase] /\ step \in [Search -> Step]
      /\ \A i \in Search : i \in Nat /\ i > 0
      /\ Last > 0 => Last \in Search
  BY Basics, Sizes DEF Types, TypeOK
<1>1. ASSUME NEW t \in Texts, search(t) PROVE Finding'
  <2>1. /\ UNCHANGED <<out, digest, listener>> /\ results' = {} /\ errorSearch' = FALSE
        /\ rest' = (IF AtRest THEN Last + 1 ELSE rest)
    BY <1>1 DEF search, net
  <2>2. /\ Last' = Last + 1 /\ Last + 1 \in Search /\ step'[Last + 1] = "called"
        /\ \A i \in Search : i # Last + 1 => step'[i] = step[i]
    BY <1>1, SearchEffect
  <2>3. out[Last + 1] = << >>
    BY <1>0, <2>2 DEF Types, Unmade
  <2>4. Lone' => digest = << >>
    BY <1>0, <2>1, <2>2 DEF Lone, AtRest
  <2>5. \A i \in Search : Listens(i)' /\ Untold(i)'
    BY <1>0, <2>1, <2>2, <2>3 DEF Finding, Listens, Untold
  <2> QED
    BY <1>0, <2>1, <2>2, <2>3, <2>4, <2>5 DEF Finding, Coming
<1>2. ASSUME NEW i \in Search, start(i) PROVE Finding'
  BY <1>2 DEF start, net, Finding, Lone, Coming, Listens, Untold, Last
<1>3. ASSUME NEW i \in Search, fail(i) PROVE Finding'
  BY <1>3 DEF fail, page, net, Finding, Lone, Coming, Listens, Untold, Last
<1>4. ASSUME NEW i \in Search, notify(i) PROVE Finding'
  <2>1. /\ UNCHANGED <<text, results, errorSearch, step, listener, rest>>
        /\ phase[i] = "started" /\ out[i] # << >>
        /\ digest' = Append(digest, Head(out[i]))
        /\ out' = [out EXCEPT ![i] = Tail(@)]
    BY <1>4 DEF notify, page, net
  <2>2. i \in 1..Last /\ i >= rest
    <3>1. i <= Last
      BY <1>0, <2>1 DEF Types, Unmade
    <3>2. ~OldIsOver(i)
      BY <2>1 DEF OldIsOver, Live
    <3> QED BY <1>0, <3>1, <3>2 DEF Recency
  <2>3. /\ digest' # << >>
        /\ digest # << >> => Head(digest') = Head(digest)
        /\ digest = << >> => Head(digest') = Head(out[i])
    BY <1>0, <2>1, Taken, Appended
  <2>4. Lone => i = Last
    BY <1>0, <2>2 DEF Lone
  <2>5. Lone' => Lone /\ Last' = Last
    BY <2>1 DEF Lone, Last
  <2>6. \A j \in Search : Listens(j)' /\ Untold(j)'
    BY <1>0, <2>1 DEF Finding, Listens, Untold
  <2> QED
    BY <1>0, <2>1, <2>2, <2>3, <2>4, <2>5, <2>6 DEF Finding, Coming, Last
<1>5. CASE onNode
  <2>1. /\ digest # << >> /\ results' = results \cup Head(digest)
        /\ errorSearch' = (results' = {})
        /\ text' = text /\ step' = step /\ out' = out /\ rest' = rest /\ listener' = listener
    BY <1>5, NodeEffect DEF net
  <2>2. Last' = Last /\ Last > 0
    BY <1>0, <2>1 DEF Finding, Last
  <2>3. ~Lone'
    BY <2>1, <2>2 DEF Finding, Lone, Coming
  <2>4. \A j \in Search : Listens(j)' /\ Untold(j)'
    BY <2>1 DEF Finding, Listens, Untold
  <2> QED
    BY <2>1, <2>2, <2>3, <2>4 DEF Finding
<1>6. ASSUME NEW i \in Search, FindHere(i) PROVE Finding'
  <2>1. /\ UNCHANGED <<text, results, errorSearch, digest, listener, rest>>
        /\ step[i] = "called" /\ step' = [step EXCEPT ![i] = "found"]
        /\ \A j \in Search : j # i => out'[j] = out[j]
    BY <1>0, <1>6 DEF FindHere, Goes, Write, page, net
  <2>2. out[i] = << >> /\ listener # i
    BY <2>1 DEF Finding, Listens, Untold
  <2>3. text[i] \in Holds[Here] /\ i <= Last => out'[i] # << >> /\ Head(out'[i]) # {}
    <3> SUFFICES ASSUME text[i] \in Holds[Here], i <= Last PROVE out'[i] # << >> /\ Head(out'[i]) # {}
      OBVIOUS
    <3>1. {[title |-> text[i], at |-> Here]} \in Node
      BY <1>0, Basics DEF Node, Item
    <3>2. out'[i] = Append(out[i], {[title |-> text[i], at |-> Here]})
      BY <1>0, <1>6 DEF FindHere, Write
    <3> DEFINE node == {[title |-> text[i], at |-> Here]}
    <3>3. node # {}
      OBVIOUS
    <3> HIDE DEF node
    <3>4. out[i] \in Seq(Node)
      BY <1>0
    <3>5. Append(out[i], node) # << >> /\ Head(Append(out[i], node)) = node
      BY <2>2, <3>1, <3>4, Appended DEF node
    <3> QED BY <3>2, <3>3, <3>5 DEF node
  <2>4. \A j \in Search : Listens(j)' /\ Untold(j)'
    BY <1>0, <2>1, <2>2 DEF Finding, Listens, Untold
  <2>5. Lone' = Lone /\ Last' = Last
    BY <2>1 DEF Lone, Last
  <2>6. Lone => Coming'
    BY <1>0, <2>1, <2>2, <2>3, <2>5 DEF Finding, Lone, Coming
  <2> QED
    BY <2>1, <2>4, <2>5, <2>6 DEF Finding
<1>7. ASSUME NEW i \in Search, Listen(i) PROVE Finding'
  <2>1. /\ UNCHANGED <<text, results, errorSearch, digest, out, rest>> /\ listener' = i
        /\ step[i] = "found" /\ step' = [step EXCEPT ![i] = "listening"]
    BY <1>7 DEF Listen, Goes, page
  <2> QED
    BY <1>0, <2>1 DEF Finding, Lone, Coming, Listens, Untold, Last
<1>8. ASSUME NEW i \in Search, AskNetwork(i) PROVE Finding'
  <2>1. /\ UNCHANGED <<text, results, errorSearch, digest, out, rest, listener>>
        /\ step[i] = "listening" /\ step' = [step EXCEPT ![i] = "asked"]
    BY <1>8 DEF AskNetwork, Goes, page
  <2> QED
    BY <1>0, <2>1 DEF Finding, Lone, Coming, Listens, Untold, Last
<1>9. ASSUME NEW i \in Search, Close(i) PROVE Finding'
  <2>1. /\ UNCHANGED <<text, results, errorSearch, digest, listener, rest>>
        /\ step[i] = "asked" /\ step' = [step EXCEPT ![i] = "closed"]
        /\ \A j \in Search : j # i => out'[j] = out[j]
        /\ out'[i] = Append(out[i], {})
    BY <1>0, <1>9 DEF Close, Goes, Write, page, net
  <2>2. /\ out'[i] # << >>
        /\ out[i] # << >> => Head(out'[i]) = Head(out[i])
    <3>1. out[i] \in Seq(Node) /\ {} \in Node
      BY <1>0 DEF Node
    <3> QED BY <2>1, <3>1, Appended
  <2>3. \A j \in Search : Listens(j)' /\ Untold(j)'
    BY <1>0, <2>1 DEF Finding, Listens, Untold
  <2>4. Lone' = Lone /\ Last' = Last
    BY <2>1 DEF Lone, Last
  <2>5. Lone => Coming'
    BY <1>0, <2>1, <2>2, <2>4 DEF Finding, Lone, Coming
  <2> QED
    BY <2>1, <2>3, <2>4, <2>5 DEF Finding
<1>10. ASSUME NEW a \in answers, discoveryEvent(a) PROVE Finding'
  BY <1>10 DEF discoveryEvent, page, Finding, Lone, Coming, Listens, Untold, Last
<1>11. ASSUME NEW m \in responses, pipeMsgEvent(m) PROVE Finding'
  <2>1. UNCHANGED <<text, results, errorSearch, digest, step, listener, rest>>
    BY <1>11 DEF pipeMsgEvent, page
  <2>2. \A j \in Search : j # listener => out'[j] = out[j]
    BY <1>0, <1>11 DEF pipeMsgEvent, Write
  <2>3. \A j \in Search : \/ out'[j] = out[j]
                        \/ /\ out'[j] # << >>
                           /\ Head(out'[j]) = (IF out[j] = << >> THEN {[title |-> m.title, at |-> m.peer]} ELSE Head(out[j]))
    <3>1. CASE out' = out
      BY <3>1
    <3>2. CASE Write(listener, {[title |-> m.title, at |-> m.peer]})
      <4>1. {[title |-> m.title, at |-> m.peer]} \in Node
        BY DEF Types, TypeOK, Node, Item
      <4> QED BY <1>0, <3>2, <4>1, Appended DEF Write
    <3> QED BY <1>11, <3>1, <3>2 DEF pipeMsgEvent
  <2>4. \A j \in Search : Listens(j)' /\ Untold(j)'
    BY <2>1, <2>2 DEF Finding, Listens, Untold
  <2>5. Lone' = Lone /\ Last' = Last
    BY <2>1 DEF Lone, Last
  <2>6. Lone => Coming'
    BY <1>0, <2>1, <2>3, <2>5 DEF Finding, Lone, Coming
  <2> QED
    BY <2>1, <2>4, <2>5, <2>6 DEF Finding
<1>12. CASE Lose
  BY <1>12 DEF Lose, page, Finding, Lone, Coming, Listens, Untold, Last
<1>13. CASE UNCHANGED vars
  BY <1>13 DEF vars, page, net, Finding, Lone, Coming, Listens, Untold, Last
<1> QED
  BY <1>1, <1>2, <1>3, <1>4, <1>5, <1>6, <1>7, <1>8, <1>9, <1>10, <1>11, <1>12, <1>13 DEF Next

\* To the last search, if it was made when nothing else was going on, the page
\* never says that there is nothing when the node itself has it.
THEOREM NotFoundTrue == Spec => []NotFoundIsTrue
<1>1. Finding => NotFoundIsTrue
  BY DEF Finding, Lone, NotFoundIsTrue
<1> QED
  BY TypesInit, TypesStep, RecencyInit, RecencyStep, FindingInit, FindingStep, <1>1, PTL DEF Spec
=============================================================================
