----------------------------- MODULE ItemSearch -----------------------------
(***************************************************************************)
(* The search of items by title, from the page to the other nodes and      *)
(* back: the search page, the thread that serves each search, the manager  *)
(* that asks the network, and the two services it asks through.            *)
(*                                                                         *)
(* The page searches at every key that is pressed, and nothing ties what   *)
(* comes in to the search it was meant for.  The page knows one stream,    *)
(* that which started last, and hears of the first list of each: that      *)
(* resolves the promise, and a promise that is resolved tells nothing      *)
(* more.  A node has one slot for the search that discovery tells, and     *)
(* since the page sends no session with its searches, they all put their   *)
(* listener on messages under the same name.                               *)
(***************************************************************************)
EXTENDS Naturals, Sequences, FiniteSets

CONSTANTS
  Texts,         \* what is typed: an item is found by its whole title
  Here, Peers,   \* this node and the others
  Holds,         \* the titles of the items of each node
  Limit,         \* the number of results at which the page stops a search
  MaxSearches    \* bound on the number of searches

ASSUME ConstantsAssumption ==
  /\ Here \notin Peers
  /\ Holds \in [Peers \cup {Here} -> SUBSET Texts]
  /\ MaxSearches \in Nat

Search == 1..MaxSearches
Item == [title : Texts, at : Peers \cup {Here}]
Phase == {"none", "sent", "started", "resolved", "aborted", "failed"}
Step == {"none", "called", "found", "listening", "asked", "closed"}

VARIABLES
  text,         \* of each search so far
  results,      \* $scope.results, $scope.errorSearch, $scope.searchItem: what
  errorSearch,  \* the page shows, its message that nothing was found, and
  searchItem,   \* its spinner
  stream,       \* $scope.stream; 0 for null
  phase,        \* of the stream of each search at the page
  digest,       \* nodes notified to the page and not yet handled
  step,         \* of the thread that serves each search
  out,          \* the nodes it wrote that the page has not read
  listener,     \* the search whose listener receives messages
  currentSl,    \* the search that discovery tells
  answers,      \* discovery events on their way, each from a peer to a search
  responses,    \* messages with the items of a peer for a title
  rest          \* the last search made when nothing else was going on

page == <<results, errorSearch, searchItem, stream>>
net == <<listener, currentSl, answers, responses>>
vars == <<text, page, phase, digest, step, out, net, rest>>

Last == Len(text)

Live(i) ==
  /\ phase[i] \in {"sent", "started"}
  /\ ~(step[i] = "closed" /\ out[i] = << >>)

AtRest ==
  /\ digest = << >> /\ answers = {} /\ responses = {}
  /\ \A i \in 1..Last : ~Live(i) /\ step[i] = "closed"

Aborted(ph) == IF stream = 0 THEN ph ELSE [ph EXCEPT ![stream] = "aborted"]

Write(i, node) == out' = [out EXCEPT ![i] = Append(@, node)]

-----------------------------------------------------------------------------
\* Mutated form of search: the results are kept.
searchKeeping(t) ==
  /\ Last < MaxSearches
  /\ text' = Append(text, t)
  /\ errorSearch' = FALSE
  /\ searchItem' = TRUE
  /\ phase' = [Aborted(phase) EXCEPT ![Last + 1] = "sent"]
  /\ step' = [step EXCEPT ![Last + 1] = "called"]
  /\ rest' = IF AtRest THEN Last + 1 ELSE rest
  /\ UNCHANGED <<results, stream, digest, out, net>>

\* search: the page forgets what it shows, aborts the stream that it knows, and
\* sends a request, whose stream it will know when it starts.
search(t) ==
  /\ Last < MaxSearches
  /\ text' = Append(text, t)
  /\ results' = {}
  /\ errorSearch' = FALSE
  /\ searchItem' = TRUE
  /\ phase' = [Aborted(phase) EXCEPT ![Last + 1] = "sent"]
  /\ step' = [step EXCEPT ![Last + 1] = "called"]
  /\ rest' = IF AtRest THEN Last + 1 ELSE rest
  /\ UNCHANGED <<stream, digest, out, net>>

\* Mutated form of start: whatever became of the request, unless it was aborted.
startUnlessAborted(i) ==
  /\ phase[i] # "aborted"
  /\ phase' = [phase EXCEPT ![i] = "started"]
  /\ stream' = i
  /\ UNCHANGED <<text, results, errorSearch, searchItem, digest, step, out, net, rest>>

start(i) ==
  /\ phase[i] = "sent"
  /\ phase' = [phase EXCEPT ![i] = "started"]
  /\ stream' = i
  /\ UNCHANGED <<text, results, errorSearch, searchItem, digest, step, out, net, rest>>

\* The page does nothing about an error, and hears of none once the promise is
\* resolved.
fail(i) ==
  /\ Live(i)
  /\ phase' = [phase EXCEPT ![i] = "failed"]
  /\ UNCHANGED <<text, page, digest, step, out, net, rest>>

(***************************************************************************)
(* The first node of a stream that was not aborted is read, which resolves *)
(* the promise: what is written after it is read by nobody.  The page      *)
(* handles the node in a later turn, and does not look at whose it is.     *)
(***************************************************************************)
notify(i) ==
  /\ phase[i] = "started"
  /\ out[i] # << >>
  /\ digest' = Append(digest, Head(out[i]))
  /\ out' = [out EXCEPT ![i] = Tail(@)]
  /\ phase' = [phase EXCEPT ![i] = "resolved"]
  /\ UNCHANGED <<text, page, step, net, rest>>

(***************************************************************************)
(* What the page does with a node: it adds the items, and with the last    *)
(* node or enough results it aborts the stream that it knows.  If it knows *)
(* none it fails there, before it puts out the spinner.                    *)
(***************************************************************************)
Enough(node, found) == node = {} \/ Cardinality(found) = Limit

\* Mutated form of onNode: the spinner is only put out by items.
onNodeSpinning ==
  LET node == Head(digest)
      found == results \cup node
  IN
  /\ digest # << >>
  /\ digest' = Tail(digest)
  /\ results' = found
  /\ errorSearch' = (found = {})
  /\ searchItem' = (searchItem /\ node = {})
  /\ IF Enough(node, found)
     THEN stream' = 0 /\ phase' = Aborted(phase)
     ELSE UNCHANGED <<stream, phase>>
  /\ UNCHANGED <<text, step, out, net, rest>>

\* Mutated form of onNode: the message is set before the items are added.
onNodeEarly ==
  LET node == Head(digest)
      found == results \cup node
  IN
  /\ digest # << >>
  /\ digest' = Tail(digest)
  /\ results' = found
  /\ errorSearch' = (results = {})
  /\ searchItem' = (searchItem /\ node = {} /\ stream = 0)
  /\ IF Enough(node, found)
     THEN stream' = 0 /\ phase' = Aborted(phase)
     ELSE UNCHANGED <<stream, phase>>
  /\ UNCHANGED <<text, step, out, net, rest>>

onNode ==
  LET node == Head(digest)
      found == results \cup node
  IN
  /\ digest # << >>
  /\ digest' = Tail(digest)
  /\ results' = found
  /\ errorSearch' = (found = {})
  /\ searchItem' = (searchItem /\ node = {} /\ stream = 0)
  /\ IF Enough(node, found)
     THEN stream' = 0 /\ phase' = Aborted(phase)
     ELSE UNCHANGED <<stream, phase>>
  /\ UNCHANGED <<text, step, out, net, rest>>

-----------------------------------------------------------------------------
(***************************************************************************)
(* The thread that serves search i: write what is found here, put the      *)
(* listener on messages, take the slot and ask the network, and close      *)
(* after five seconds with an empty list.                                  *)
(***************************************************************************)
Goes(i, from, to) == step[i] = from /\ step' = [step EXCEPT ![i] = to]

FindHere(i) ==
  /\ Goes(i, "called", "found")
  /\ IF text[i] \in Holds[Here]
     THEN Write(i, {[title |-> text[i], at |-> Here]})
     ELSE UNCHANGED out
  /\ UNCHANGED <<text, page, phase, digest, net, rest>>

Listen(i) ==
  /\ Goes(i, "found", "listening")
  /\ listener' = i
  /\ UNCHANGED <<text, page, phase, digest, out, currentSl, answers, responses, rest>>

AskNetwork(i) ==
  /\ Goes(i, "listening", "asked")
  /\ currentSl' = i
  /\ answers' = answers \cup
       {[search |-> i, peer |-> p] : p \in {p \in Peers : text[i] \in Holds[p]}}
  /\ UNCHANGED <<text, page, phase, digest, out, listener, responses, rest>>

\* Mutated form of Close: without the empty list.
CloseSilently(i) ==
  /\ Goes(i, "asked", "closed")
  /\ UNCHANGED <<text, page, phase, digest, out, net, rest>>

Close(i) ==
  /\ Goes(i, "asked", "closed")
  /\ Write(i, {})
  /\ UNCHANGED <<text, page, phase, digest, net, rest>>

\* discoveryEvent: whichever search asked, the one in the slot sends its own
\* title to the peer; a peer that does not have it answers with nothing.
discoveryEvent(a) ==
  /\ a \in answers
  /\ answers' = answers \ {a}
  /\ responses' = responses \cup
       {[title |-> t, peer |-> a.peer] : t \in {text[currentSl]} \cap Holds[a.peer]}
  /\ UNCHANGED <<text, page, phase, digest, step, out, listener, currentSl, rest>>

\* pipeMsgEvent: the listener writes the items to its output, if that is open.
pipeMsgEvent(m) ==
  /\ m \in responses
  /\ responses' = responses \ {m}
  /\ IF step[listener] # "closed"
     THEN Write(listener, {[title |-> m.title, at |-> m.peer]})
     ELSE UNCHANGED out
  /\ UNCHANGED <<text, page, phase, digest, step, listener, currentSl, answers, rest>>

Lose ==
  /\ \/ \E a \in answers : answers' = answers \ {a} /\ UNCHANGED responses
     \/ \E m \in responses : responses' = responses \ {m} /\ UNCHANGED answers
  /\ UNCHANGED <<text, page, phase, digest, step, out, listener, currentSl, rest>>

-----------------------------------------------------------------------------
Init ==
  /\ text = << >>
  /\ results = {} /\ errorSearch = FALSE /\ searchItem = FALSE
  /\ stream = 0
  /\ phase = [i \in Search |-> "none"]
  /\ digest = << >>
  /\ step = [i \in Search |-> "none"]
  /\ out = [i \in Search |-> << >>]
  /\ listener = 0 /\ currentSl = 0
  /\ answers = {} /\ responses = {}
  /\ rest = 0

Next ==
  \/ \E t \in Texts : search(t)
  \/ \E i \in Search : \/ start(i) \/ fail(i) \/ notify(i)
                       \/ FindHere(i) \/ Listen(i) \/ AskNetwork(i) \/ Close(i)
  \/ onNode
  \/ \E a \in answers : discoveryEvent(a)
  \/ \E m \in responses : pipeMsgEvent(m)
  \/ Lose

Spec == Init /\ [][Next]_vars

\* A request is answered or fails, the first node written is read, the page and
\* the threads go on.  Nothing is assumed of the other nodes.
Fairness ==
  /\ WF_vars(onNode)
  /\ \A i \in Search : /\ WF_vars(start(i) \/ fail(i))
                       /\ WF_vars(notify(i))
                       /\ WF_vars(FindHere(i) \/ Listen(i) \/ AskNetwork(i) \/ Close(i))

FairSpec == Spec /\ Fairness

-----------------------------------------------------------------------------
TypeOK ==
  /\ text \in Seq(Texts) /\ Last <= MaxSearches
  /\ results \subseteq Item
  /\ errorSearch \in BOOLEAN /\ searchItem \in BOOLEAN
  /\ stream \in 0..Last
  /\ phase \in [Search -> Phase]
  /\ digest \in Seq(SUBSET Item)
  /\ step \in [Search -> Step]
  /\ out \in [Search -> Seq(SUBSET Item)]
  /\ listener \in 0..Last /\ currentSl \in 0..Last
  /\ answers \subseteq [search : 1..Last, peer : Peers]
  /\ responses \subseteq [title : Texts, peer : Peers]
  /\ rest \in 0..Last

\* The page shows items only of what was typed since nothing else was going on:
\* what is shown for a search can be that of an earlier one, but never of one
\* that had come to its end in the page, in the node and in the network.
ShownIsRecent ==
  \A x \in results : \E i \in rest..Last : i > 0 /\ x.title = text[i]

\* To a search that was made when nothing else was going on, and is the last,
\* the page does not say that there is nothing when the node itself has it.
NotFoundIsTrue ==
  rest = Last /\ errorSearch => text[Last] \notin Holds[Here]

\* The spinner turns only as long as the last search can still put it out, or
\* when that has failed: an earlier search cannot leave it on.
SpinnerIsOwed ==
  searchItem => Live(Last) \/ digest # << >> \/ phase[Last] = "failed"

\* The spinner stops once the user types no more, unless the last request fails.
SpinnerStops ==
  searchItem ~> (~searchItem \/ phase[Last] = "failed")
=============================================================================
