# A verification project for ResilientSXP

ResilientSXP is a peer-to-peer exchange platform: a node written in Java and the
pages through which its users reach it, written in JavaScript. Its users
offer items, write each other messages, and sign contracts with the *Sigma*
protocol: an optimistic multi-party contract-signing protocol in which a trusted
third party, called Trent, is asked only when something goes wrong. This
directory holds TLA+ modules that model the program, the TLC configurations that
check them on small instances, and proofs that TLAPS checks for every value of
the constants. Source paths below are relative to `src/src/main/java/` unless
they start with `docs/` or with `src/main/js/`.

## 1. Inventory

### Contract signing at the parties (`protocol/impl/SigmaEstablisher.java`, `protocol/impl/sigma/steps/`, `protocol/impl/sigma/SigmaContract.java`)

* *State*: the contract (its status, its wish and the signatures that were
  gathered), the step that runs, and for `ProtocolSign` the round and the
  promises received in each round (`roundReceived`).
* *Operations*: `initialize` starts `ProtocolChooseTrent`; `setListenerOnTrent`
  builds `ProtocolResolve` and then calls `sign`, which builds `ProtocolSign`.
  Then everything happens in two listeners: on the messages of the signature and
  on the answers of Trent.
* *Interactions*: messages of the establisher service to the other parties and to
  Trent; the wish is set by the REST resource and read by `sendMessage`.
* *Hard*: messages come in any order, twice, or never; the wish changes between
  two of them; three pieces of code set the status without looking at it.
* *Correct when*: the parties never disagree on the outcome; what is sent to
  Trent is complete and honest; a clear signature goes out only when everyone can
  get the others; everybody finishes when nobody refuses.

### Trusted third party (`protocol/impl/sigma/Trent.java`, `TrentSolver.java`)

* *State*: for each contract a list of maps of possibly honest claims, the
  accused with the evidence, and the flag `optimistic`.
* *Operations*: `setListener` checks a request and calls `resolve`, which calls
  `resolveT` (three loops, four results, and three ways to end with an exception)
  and broadcasts the answer.
* *Hard*: requests in any order; an advertisement found twice; a list in which
  `add(index, element)` shifts what follows while the index is taken for a round.
* *Correct when*: it never cancels for one what it resolves for another; those it
  refused are accounted for; those it accuses have cheated.
* Nothing under `src/main` calls `Trent.setListener`: only tests do. The model
  is that of a deployment in which the user who was chosen does.

### Choice of Trent (`steps/ProtocolChooseTrent.java`)

* *State*: three arrays of what was received, the list of candidates, the random
  number and the sum, the key of Trent.
* *Operations*: three kinds of messages (the users that a party knows, its random
  number, the user it has drawn), the filter of the candidates, a restart after a
  mismatch.
* *Hard*: a message of a later kind comes first; the arrays are one shorter after
  a mismatch; one iterator advances inside the loop on another list.
* *Correct when*: all parties end with the same Trent.

### Sigma proofs and signatures (`PCS`, `Sender`, `Receiver`, `Fabric`, `model/entity/sigma/`)

Non-interactive proofs over a group of 1024 bits: ElGamal, Schnorr, CCE and CCD
proofs, with And and Or composition. No state but caches. Correct when a proof
that was made is accepted, and opened only by Trent.

### Establisher service and JXTA services (`network/`)

* *State*: listeners by title and name; one listener of a search per service; the
  cache of advertisements.
* *Operations*: `sendContract` (pipe messages when uris are known, an advertisement
  otherwise), `setListener`, `removeListener`, `listens`, `search`, `pipeMsgEvent`.
* *Hard*: discovery threads and callers use the same maps; listeners change the
  registry while it is iterated; a second search takes the slot of the first.

### Contracts of a node (`controller/Contracts.java`, `model/syncManager/`, `model/manager/ManagerAdapter.java`, `rest/impl/SimpleAuthentifier.java`)

* *State*: the rows of the database, one per contract and party; for each request
  the entities it has read and its transaction; one establisher per contract that
  was signed; the sessions, in memory.
* *Operations*: add, get, edit, delete, sign and cancel; `begin`, `persist`, `end`
  and `close` of the managers; login and logout.
* *Interactions*: `sign` starts an establisher on the entity it has read; the
  status that the protocol sets on it is written by the commit at the end of the
  request, or never. `get` signs again what was accepted.
* *Hard*: requests overlap, with no lock and no version on a row; the establisher
  and the request that cancels look at different copies of a contract; after a
  restart the rows are all that is left.
* *Correct when*: the parties are shown the same terms; nobody's acceptance is
  given other terms, at least by requests that come after it; what was refused
  stays settled; what was accepted is taken up again.

### Search of items (`src/main/js/modules/search.js`, `src/main/js/libs/angular-oboe.js`, `controller/Search.java`, `controller/managers/NetworkItemManagerDecorator.java`, `network/impl/jxta/`)

* *State*: in the page the results, a message, a spinner and the stream it knows; in
  the node one thread per search, one slot for the search that discovery tells,
  and the listeners on messages.
* *Operations*: a search at each key; the events of a stream; in the node the
  items found here, the request to the network, what peers answer, the end after
  five seconds.
* *Hard*: streams overlap, and nothing says to which search a node of a stream, an
  answer of the discovery or a message belongs.
* *Correct when*: the page shows what was asked for lately, puts its spinner out,
  and does not deny what there is.

### Decorators, users, items and messages (`controller/`, `controller/managers/`)

Publication of items, users and messages on the network, before a commit that may
fail, or from a list that was cleared. Only what the search needs of them is
modelled so far.

### Save files, cryptographic tools, the rest of the Web front end

Save files (`resilience/`) are not called by the program. The cryptographic tools
are used as functions that are right. The other pages (`src/main/js/modules/`) are
layout and single calls of the REST resources, whose effects are in
`ContractRows`; `src/main/js/libs/angular.js` and everything under
`src/main/js/SXP-linux-x64/` are a vendored library and an older packaged copy of
the pages, together some 62,000 of the 64,000 lines of JavaScript.

Every hazard we found in the code is listed, at its line, under `hazards` of
`PROJECT.json`, with the properties that cover it or why none does.

## 2. Modules

| Module | Models | Built on |
|---|---|---|
| `Verdict` | what Trent promises: at most one verdict, for good | |
| `TrentSolver` | `TrentSolver.resolveT` and the answers of `Trent.resolve` | refines `Verdict` |
| `MCTrentSolver` | instances of it for TLC | extends `TrentSolver` |
| `SigmaOutcome` | what the protocol promises: never signed here and cancelled there | |
| `SigmaSign` | parties of one contract, from the agreement on Trent on; Trent is an environment | refines `SigmaOutcome` |
| `SigmaExchange` | parties together with the real `TrentSolver` | `TrentSolver` + `SigmaSign`, refines `SigmaSign` |
| `Agreement` | what a choice in common promises | |
| `ChooseTrent` | the step before: how the parties choose Trent | refines `Agreement` |
| `MCChooseTrent` | the lists of users known at first, for TLC | extends `ChooseTrent` |
| `ContractRows` | the contracts of one node: requests, database, establishers, sessions, restarts | |
| `MCContractRows` | titles and parties, for TLC | extends `ContractRows` |
| `ItemSearch` | the search of items, from the page to the other nodes and back | |
| `MCItemSearch` | the items of the nodes, for TLC | extends `ItemSearch` |
| `TrentSolverProofs`, `SigmaSignProofs`, `SigmaExchangeProofs`, `ContractRowsProofs`, `ItemSearchProofs` | theorems | the module they are about, TLAPS |
| `ChooseTrentProofs`, `ChooseTrentDrawProofs`, `ChooseTrentProgressProofs` | theorems on agreement, on the draw, and on what moves it on | each extends the one before, TLAPS |

The refinements form a chain: `SigmaExchange` implements `SigmaSign`, which
implements `SigmaOutcome`; inside it `TrentSolver` implements `Verdict`.

### TrentSolver

A *claim* `[sender, round, text]` is a request that passed the checks of
`Trent.resolve`. Those who run this code send the text ABORT with round 0, or the
complete vector of the promises of a round r > 0 with r. The checks ask for less: when
the round is positive each promise in the vector must be of that round, but not
how many there are; of any other round the text is not looked at. So `Texts` are any
texts, `Opens` those in which `resolveToken` finds a promise of every party, and
`Arrivals` the claims that pass the checks. A vector of promises that is sent as
round 0 is opened once the contract is resolved, a vector of round 1 that is too
short ends with an exception after `optimistic` was set to false, and both are in the
model. `claims` is `possiblyHonestClaims`
(each map is the set of its claims), `dishonest` is `dishonestClaims`. `answers`
is the set of broadcasts and `unanswered` the set of claims on which the method
ended with an exception, which nobody hears of. One action per way out of
`resolveT`:

| Action | Way out |
|---|---|
| `ShowOtherDishonest` | first loop, `honestyToken` |
| `ShowSelfDishonest`, `ShownDishonest` | second and third loop, `null`, told as "dishonest" |
| `Resolve` | "claim with promises, wins" |
| `Abort` | "triggers the piling up" |
| `FailToOpen` | an exception in `resolveToken`: ABORT, or too few promises, with `optimistic` false from then on |
| `Fail` | `get` and `add` out of bounds |

Two details of the code matter. Claims are compared with their sender by
reference (`!=` on strings that were just parsed), which is never equal: the
first and third loops stop at *any* claim they meet, including the sender's own.
And `indexOf` compares maps by content, so that it may find an earlier index than
the one at hand (`IsIndexOf`, which compares senders and texts: a map has no rounds).
The theorems hold for any `Arrivals`, so for any sender, honest or not.

### SigmaSign

`round`, `received`, `sigs` and `status` are the fields of the same meaning. What a
party holds is a set of senders, since a promise that fails its check is dropped
and an honest one never fails. A message is `[from, to, round]`; round N+2 is that
of the clear signatures. One delivery is one step, with all that the listener does
in it: store the promise, then the whole `while` loop (`StopsAt` tells the round
at which it ends, without recursion), the messages of each round it enters, the
clear signature, and `isFinalized`. `Withdraw` is the branch of `sendMessage` for
a user who no longer accepts, which comes after `round++`. `Start` stands for
`setListenerOnTrent` and `sign`, which one thread runs after the choice of Trent.

`Persistent` chooses between the two ways of sending: advertisements, which stay
and can be found again in any order (`uris` is null), and pipe messages, which are
delivered once and dropped when there is no listener.

`TrentCancels` and `TrentResolves` let Trent do anything but announce both
verdicts. `HearResolved` sets `ignoring`: checking the opened signatures leaves
the signer pointed at the last party, so that later answers of Trent fail their
check.

### SigmaExchange

Replaces these two actions by `TrentSolver` fed with the requests that parties
really send, any of them several times (`ClaimOf`). `Heard` is what `ProtocolResolve` reads in
the broadcasts.

### ChooseTrent

`step` holds the fields of the step of each party: the three arrays of `hasSent` as
sets of the indices that are not null, and their common length `size`, which is
N+1 at first and N after a restart. Index N+1 (`Done`) is the slot that marks a
round as over. The key of Trent, which may be null, is a set of at most one user.
`Start` is the button of the user, `Receive` the listener. What `sendContract`
sends reaches the listener of the sender before it returns, in the middle of the
handler that sends; the operators take this in: `Announce` is the
message of a drawn user together with what the own listener makes of it, which may
be to go on or to start again. Numbers are taken modulo `Cycle`, a multiple of the
lengths of the lists, which keeps every rank.

`Contracts.sign` gives no addresses of the parties, so that advertisements carry
everything. The sender of a message is taken from it; the lists are those of the
database when the step was built.

`Filter` is the loop of the code as it is: one iterator on the own list, moved on
inside the loop on the other. It compares the two lists place by place in pieces
of the length of the other, and ends with an exception when the last piece is too
short, after which the sender of the list is not marked.

### ContractRows

`rows` is the table of contracts: a function from the keys `<<contract, user>>` that
have a row. A request between its read and its commit is a place of `open`, with
the rows it read (`saw`) and its copies of them (`clone`). `Commit` writes the
fields in which these two differ on top of what the row has become (`Merge`),
which is what change tracking in the persistence layer does with a managed
entity; there are no locks and no versions in `AbstractSyncManager`.

| Action | Code |
|---|---|
| `Add`, `Delete` | `Contracts.add`, `delete`: read and commit taken in one step |
| `Edit`, `Cancel`, `SignContract` | `edit`, `cancel`, `sign`, up to their commit |
| `Commit` | `end` and `close` |
| `BeginsToSign`, `Finalizes` | what the establisher does in the request, and its effect on the copy |
| `Throws` | the draw of Trent ends with an exception in the request: no commit |
| `BeginsLater` | the same establisher once the request is over: its status goes nowhere |
| `List`, `Resume`, `SkipOrFail` | `get`, which signs again, one after the other, what was accepted |
| `Login`, `Logout`, `Restart` | sessions, and a node that stops and starts again |

`edit` finds the rows by the title and the user in the request, so that several
contracts of one title may be hit at once, and changes those that are still
neutral. `published` and `promised` are advertisements, which outlive the node.
Not in the model: what a validator refuses; a row written by an establisher after
its request (its manager is closed, `running` only says that it runs, and does not
tell a second establisher for the same user and terms from the first); a second
node, so that parties who never come to this one (those not in `Local`) sign nothing.
A user signs and cancels through his own rows, as the pages do. Contracts with a
single party are left out (`ConstantsAssumption`): as local listeners are notified
before `sendContract` returns, all that can be done for them takes place inside
`start`, before the commit.

### ItemSearch

Each search of a page is a number. `phase` is its stream at the page, `step` the
thread that serves it in the node (`Search.search`), `out` what it wrote and the page
has not read; `digest` holds the nodes that the page was notified of and has not
handled, as `$q` delivers notifications in a later turn. A stream tells the page its
first list only: oboe calls `done` for each list that is closed, so that
`angular-oboe.js` resolves the promise with the first, and `$q` drops the
notifications of a promise that is resolved (`notify` leaves the phase at
`resolved`). So when the node itself has what was typed, what its peers answer is lost
to the page. The action `search` is
the handler of the page: it aborts the stream that the page *knows*, which is the
one that started last. `onNode` is the notification handler of `search.js`, with
its exception when there is no stream to abort, before the spinner is put out.

`listener` is the one entry that all searches put under the same name: the page
sends no session with its searches. `currentSl` is the slot of `JxtaService` for
what the discovery tells: `discoveryEvent` sends the title of the search in that
slot, whoever asked. `Limit` stands for
1000, and a peer answers or not (`Lose`).

`rest` remembers the last search that was made when nothing else was going on, in
the page, in the node or between the nodes: it is what the properties compare with.

## 3. Runs

| Run | Instance | Distinct states | Shows |
|---|---|---|---|
| `trent_requests` | 3 parties, claims of rounds -1..2 with any text that passes, 3 different ones and a fourth, symmetry | 160,493 | Trent against any requests |
| `sign_adverts` | 3 parties, advertisements | 30,038 | all safety properties, agreement, and that all finish when nobody refuses |
| `sign_messages` | 3 parties, pipe messages | 100,279 | agreement, and what FINALIZED excludes, when messages can be lost |
| `exchange` | 3 parties and `TrentSolver`, at most 4 piled up | 41,324 | composition, and that whoever refuses early is settled |
| `choose_any` | 2 parties that know up to two of three users each, in any order | 180,972 | one Trent at most, drawn by both and known to both; with equal lists both go on |
| `contracts` | 2 users and a third who never comes, 2 contracts of one title, 2 requests open at a time, 2 asked for, 1 restart | 293,604 | the rows of a contract under overlapping requests, and what is taken up again |
| `search` | 2 searches of 2 titles, 1 peer, 2 results at most | 78,060 | the page while searches overlap |
| `trent_evidence` | 3 parties that send ABORT, or the promises of round 1 | violation | finding 1 |
| `sign_finalized` | 2 parties | violation | finding 2 |
| `exchange_timeliness` | 2 parties and `TrentSolver` | violation | finding 3 |
| `choose_lists` | 2 parties that know up to two users | violation | finding 4 |
| `contracts_declined` | 2 users, 1 contract, 1 request open at a time | violation | finding 5 |

*Bounds.* Three parties are the least for which a claim can be evidence against
somebody who is neither its sender nor the first to refuse, and for which a party
can be one round ahead of one and behind another. With three parties the rounds
are 1..4 and then 5; the solver's loops look at indices below N only, and rounds
-1..2 reach each of its ways out. In `trent_requests` a text is ABORT, a vector that
is too short, or the promises of all for round 1 or 2; in a behaviour three different
claims are found, in any order and each any number of times, and the properties
are checked on what a fourth does (`FewFound`). `MaxClaims` guards `Abort` alone and
is the only cap on a counter: in `exchange` each of three parties asks at most once, and
four leaves room for requests that are found again. Sets of messages, requests
and answers are bounded by the rounds. The parties of `MCTrentSolver` are
interchangeable, as the solver compares senders by identity alone; those of
`SigmaSign` are not, because `isFinalized` goes through them in the order of
their keys, and no symmetry is used there.

In `choose_any` the lists are any two of five: none, one user, two users in two
orders, and one that shares its first user only. They make the filter keep, drop
and fail, and the draws differ, so that parties start again; a number can come
before the list of its sender. Three parties whose draws differ are beyond what
TLC explores in minutes; the agreement of any number of parties is proved.

In `contracts` two requests can be between their read and their commit at the same
time (`MaxOpen`), which is what old copies need; users make two requests to edit,
sign, cancel or log out (`MaxAsked`), beside any number of logins, deletions and
lists of contracts; and the node stops once (`MaxCrashes`). Both contracts have the
same title, which is the hard case for `edit`, and the parties are one user and either
of two others, so that an edit can remove somebody; the third user has rows, but does
not come to the node (`Local`). There is one value for the clauses of a contract, so that
edits differ by the parties; that they may also differ by the clauses rests on the
proofs. In `search` two searches
(`MaxSearches`) are what it takes for one to disturb the next; two results (`Limit`)
are few enough for the page to stop a search for having enough, and more than the first
list of a stream holds.

*Deadlock* is not checked: the system stops when all contracts are settled, and
also when somebody waits for a promise that will not come. The runs of
`ContractRows` and `ItemSearch` end when the requests or searches that their bounds
allow are made.

*Fairness.* The parties start, find every message addressed to them and hear
every answer: an advertisement stays in the caches of the network, where the
periodic discovery finds it. In `SigmaExchange` so does Trent with the requests of
each party. In `ChooseTrent` all users press the button. Users need not refuse, nor, in `SigmaSign`, need Trent answer. With
pipe messages nothing is assumed, and no liveness is claimed: a promise that was
dropped is not sent again.

In `ContractRows` a request comes to its end (one thread of the server runs it), and
users come back: they log in after a restart and open their list of contracts, and
the loop of `get` goes on. They need not edit, sign or cancel, establishers need not
advance, and the node need not stop. In `ItemSearch` the page handles what it was
notified of, each thread of the node goes on to its end (it waits five seconds and
no answer), a request either starts a stream or fails, and the first list of a stream
is read; nothing is asked of the lists after it, which the page does not hear of. Of the network nothing is
assumed: answers may be lost or come after the end.

### Properties

For Trent: `ImplementsVerdict` (one verdict, for any requests), `ResolvedForGood`,
`AbortedIsAccountedFor`, `CancelNeedsAbort`, `FirstClaimsAreAnswered` and
`RoundOneOpens`. The last two describe what the indices of the list make of
the protocol: a claim of round 0 or 1 is left without an answer only when it does not
hold a promise of every party and the contract is resolved; and it takes a claim of
round 1 to have it resolved, while nothing that comes with a later round is opened.

For the parties: `RoundsInStep` (nobody gets two rounds ahead of another),
`RequestsAreHonest` (what is sent to Trent is complete and is the last word of its
sender), `ClearSignatureIsCovered` (once a clear signature is out everyone holds all
promises of round N), `NoWayBackOnceFinalized` (once a party is told FINALIZED nobody can
have the contract cancelled: Trent has resolved it, or all he is ever asked are claims
of the last round of promises, N+1), `ResolvedIsUsable` (the window of three rounds of `ProtocolResolve` is
enough), `NoRoundIsLeftComplete`, `ImplementsOutcome`, and the liveness property
`AllFinalized`.

For the whole: `ImplementsSign`, `OnlyLateClaimsFail`, `AccusedOfAbortOnly` (evidence holds an ABORT
against the accused, and only once the contract is cancelled) and the
liveness property `EarlyRefusalIsSettled`: whoever asks Trent with ABORT or with
the promises of round 1 is told an outcome.

For the choice of Trent: `ImplementsAgreement` (those who go on have the same Trent,
and keep him), `TrentIsKnownToAll`, `EveryoneDraws` (his rank is the sum of all numbers,
each counted once though it may be found again), `RestartNeverEnds` (new arrays
have no slot that marks a round as over: whoever starts again never goes on, so a
mismatch ends the attempt for good), and the liveness property `EveryoneGoesOn`.

For the contracts of a node: `NeutralRowsAgree` (as long as two parties have
neither accepted nor refused, they are shown the same clauses and parties, though
edits overlap), `RefusedIsSettled` and `NeverUnsettled` (no commit of an old copy
makes a contract that was refused or started one that can be signed),
`OnlyOldEditsChangeAccepted` (the terms of a user who accepted change only by
the commit of an edit that read his row before he did), and the liveness property
`AcceptedRunsAgain`: a contract that was accepted and not started is taken up again,
after a restart too, unless *another* contract of the same user ends his list each time;
whatever the state of the contract itself, its own establisher or a request that is
building one must be there again. `DeclinedSendsNothing` is violated (finding 5).

For the search: `ShownIsRecent` (what is shown was typed since nothing else was
going on), `NotFoundIsTrue` (the page does not deny what its own node has, when a
search was not disturbed), `SpinnerIsOwed` (no earlier search leaves the spinner on)
and the liveness property `SpinnerStops`.

### Findings

1. **Evidence that shows nothing** (`trent_evidence`). The wiki defines a dishonest
   claim as one shown together with a *later* claim. An ABORT that is found
   twice is piled up twice; the shifted copy then accuses somebody who sent nothing
   later.
2. **FINALIZED without the signatures** (`sign_finalized`). The comment on
   `isFinalized` promises that all parties have signed; the code is content with
   the first clear signature. `NoWayBackOnceFinalized` says what still holds; that the
   missing signatures come does not: with `TrentSolver` as it is, a claim of round
   N >= 2 that comes first is not answered (finding 3).
3. **No way out after round 2** (`exchange_timeliness`). The wiki promises that a
   party can leave at every point. A claim of round 2 or more that comes first
   ends in an `IndexOutOfBoundsException`, and nobody is ever answered.
4. **Lists that are not set up together** (`choose_lists`). A comment says that the
   list has been set up with the other peers once round 0 is over. Two
   parties that know the same two users in another order keep one each, and not
   the same.
5. **Promises after a refusal** (`contracts_declined`). A comment says that the wish
   of the user is checked each time a message is sent. `cancel` writes it to the row;
   the establisher that runs for the user looks at the copy his earlier request
   read, sends his promises when the other party signs, and never asks Trent to abort.

### Seen while modelling

Not stated as properties, since no text of the repository says otherwise:

* `contracts.js:66` and `:71` ask for the literal paths `/sign/:id` and
  `/cancel/:id`; the requests of `ContractRows` are those of the resource.
* Two edits that overlap can leave the clauses of one with the parties of the other
  in all rows: the rows still agree, on terms nobody proposed.
* After a cancellation of a contract in status SIGNING, the row says REFUSE and
  SIGNING for good.
* When the node itself has what is searched, the page never shows what peers have: the
  promise of the stream is resolved with the first list.
* A page can show, under one title, items of the search before it, when that was
  still going on (`ShownIsRecent` is as much as holds).

## 4. Proofs

`tlapm` checks the eight proof modules with no step left open. They assume what the
modules assume of their constants: a finite set of parties for `TrentSolver`, at
least two parties for `SigmaSign`, `SigmaExchange` and `ChooseTrent` (whose `Cycle` the
length of every list divides), any users and titles and any contracts of at least two
parties for `ContractRows`, any peers and any number of searches for
`ItemSearch`. Any N, any order and number of messages and
any claims are covered.

**TrentSolverProofs.** `IInv` strengthens the invariants of the run: the list is
empty and nobody accused once resolved; somebody is accused only while the list
has a map; a claim of round 0 was accepted if it has one; a cancellation was announced
only if it has one; and a claim of round 1 was found if the contract is resolved
(`OpenedByRoundOne`). None of the
conjuncts is inductive alone: that no contract is both resolved and cancelled
needs that a cancellation leaves a *map* behind (perhaps empty, since a claim may
be removed but its map stays), which keeps `Resolvable` false as long as
`optimistic` is true; and that `optimistic` only becomes false while the list is
empty. From it: `TypeCorrect`, `StaysResolved`, `PromisesNeverCancel`,
`RoundOneOpensOnly`, `FirstClaimsAnswered`, `AbortedAccounted`, and the refinement
`TrentSolverImplementsVerdict`.

**SigmaSignProofs.** Two invariants.

* `RoundInv`: what is on its way was sent in a round its sender entered
  (`SentInRound`), what is held was sent (`HeldWasSent`), and the rounds that a
  party left are complete (`PastIsComplete`). `RoundsInStep` is not inductive; it
  follows: if p is in round r, it left r-1 with the promise of q for r-1, so q
  is in round r-1 at least. The loop of the listener enters the proof once,
  as the lemma `PromiseStep`: whatever branch is taken, its effect on the rounds is
  a `PromiseEffect`.
* `IInv` adds that whoever asked Trent stopped one round after its claim and is out
  of the protocol (`RequestsAreLast`), that Trent answers what he was asked and
  one way only, and where each signature and outcome comes from (`Signing`).

The argument of the refinement `SigmaSignImplementsOutcome` is that of the
protocol's designers, made exact: a cancelled contract has a request of round 0,
whose sender stopped in round 1; a clear signature needs everyone in round N+1 at
least, and N+1 > 1; an opened one needs the other verdict. So a cancelled contract
has no signature anywhere (`CancelledHasNone`), and cannot be FINALIZED. Also
proved: `TypeCorrect`, `InStep`, `RequestsHonest`, `ClearIsCovered`,
`FinalizedLeavesNoWayBack`, `ResolvedUsable`, `NeverRestsOnComplete`. `FinalizedLeavesNoWayBack` takes one more
invariant, `ClaimantsAreSilent`: nobody holds a promise of a later round than its sender's
claim to Trent. A clear signature means that its sender holds the promises of all for
round N+1, so that every claim is one of that round. Thus every
safety property that the runs check on `TrentSolver` and `SigmaSign` holds for any
number of parties.

Three more theorems hold what the liveness property `AllFinalized` rests on. `OnlyForward`:
no step takes a party to an earlier round or loses a promise that it holds, though
`roundReceived` is written over when a round is entered; rounds are at most N+2, so that
nobody advances for ever. `NobodyIsLeft`: with advertisements, when nobody refuses
and every party has found what is there for it, all have the contract FINALIZED. Its
invariant `WillingInv` says that as long as nobody refuses Trent is not asked, that a
party has published and stored its own promise of each round that it entered, and
that the *first* party decides: with nothing opened, `isFinalized` comes down to its
clear signature. Then the slowest party would have found all the promises of its
round, which `NeverRestsOnComplete` excludes unless all are through.
`AnswerSettles`: the answer of Trent that a party looks at leaves it CANCELLED or
FINALIZED, in whatever round it is, since what he opened is always within its window.

**ChooseTrentProofs.** Agreement does not depend on the lists: whatever they are, a
party tells one user at most (`TellsOnce`: it tells only while its round of numbers is
open, which the message closes, and a restart leaves no slot to open it
again); whoever is marked has told the Trent of the party that marks him
(`MarkedHasTold`); and a party goes on when all are marked (`GoneIsOver`). Two that
have gone on have marked the same party, hence its only word. Each handler is
brought to an `Effect`, one of four: nothing, a user heard, the own user told, a
restart. `RestartIsForever` and `ChooseTrentImplementsAgreement` follow. Nothing is
used here about the filter, the sort and the sum.

**ChooseTrentDrawProofs.** What these three compute. The prover has no induction over
data, so that each fact is reached by a smallest counterexample: every finite set of
numbers has an order (`OrderExists`: a smallest set without one would have one with its
greatest number put last), so that `InOrder` lists it, each number once; a list that
was filtered or sorted holds only users that it held, and is no longer than it was; and
a sum over the parties changes by what one of them adds. `DrawInv` is the
invariant. For each party: the users it still has were in every list that it published
(`ListIsTold`); unless it has started again, its list is no longer filtered once its own
number is out or marked (`RoundsFollow`), `finalNumber` is the sum of its own number
and of those that are marked, modulo `Cycle` (`SumIsOfNumbers`, where `Counted` is zero for
who is not marked), and the user that it told is the one whom the numbers of all draw
from its list (`TrentIsDrawn`), which no longer changes. In the code `finalNumber` is a `BigInteger` without bound and
only its remainder by the length of the list is used: `Cycle` keeps that remainder
because every length divides it (`IsShort`, which filter and sort keep). Hence
`TypeCorrect`, `TrentOfAll` and `DrawnByAll`. The last two also need `IInv` of
`ChooseTrentProofs`: who goes on was told the same user by all.

**ChooseTrentProgressProofs.** What the liveness property `EveryoneGoesOn` rests on,
for any number of parties. When all start with the same list, the filter of a list by
itself drops nothing and throws nothing (`FilterBySame`), so that all sort the same
list, draw from it with the same numbers, and publish one user (`Favourite`).
`ListAgreed` says so, and that whoever is through with a round has its next message
out (`ListsAreOver`, `NumbersAreOver`, `TrentIsOut`, `TrentsAreOver`). Then no mark is
ever taken back (`NobodyStartsAgain`); a message that is handled is marked; and a
state in which no message changes anything any more is one where all have gone on
(`NobodyIsStuck`). What remains of `EveryoneGoesOn` is that messages are found, which
is its fairness. `SameListIsSetUp` says when the comment of finding 4 is right.

**SigmaExchangeProofs.** The composition, from the two invariants above. Three more
facts tie them together. `ClaimantsAreSilent` (of the parties, from
`SigmaSignProofs`): nobody holds a promise of a later round than its sender's claim to
Trent; so who asked with ABORT has sent none, nobody completes a round, and if one request
is an ABORT, all are (`AbortIsAlone`). `ClaimsWereAnswered` (of Trent): whatever is in the list, and
the first claim of any evidence, was answered. `AnswersWereRequested` (of both):
Trent answers requests only. `TrentIsAdmitted` is the heart of `ExchangeImplementsSign`:
after a step of `TrentSolver` only one verdict is announced, so the step is
`TrentCancels`, `TrentResolves` or nothing to the parties. With the refinement of
`SigmaSign` this gives `ExchangeImplementsOutcome`: with the code of `TrentSolver` no
party has the contract signed while another has it cancelled, for any number of parties.
`AccusedOfAbort` follows: evidence needs a list, a list needs an ABORT, and then there
are no other requests. `OnlyLateFail`: an ABORT fails only after a resolution, which
needs a promise. `EarlyIsSettled` is what `EarlyRefusalIsSettled` rests on. An answer
"dishonest" tells the parties nothing; but it is given only while the list has a map,
hence after an ABORT was accepted, whose answer everyone can hear
(`DishonestComesLater`). So for whatever Trent has found of ABORTs and claims of round
1 a verdict is out, and a sender to which it says nothing new is settled: a party that
no longer recognises the key of Trent has the contract FINALIZED (`IgnoringIsSettled`).

**ContractRowsProofs.** There are no locks, so the invariant is about old copies.
`Copy` says what the copies of a request can be: those of an edit are neutral and
were read so, those of other requests have the terms that were read, one that refuses
has left NOWHERE, and none goes back to NOWHERE; so a commit cannot take a row there
(`Unsettled`). `Settled` adds that a row which was read as settled is so still
(`RefusedSettled`). `Together` carries `NeutralRowsAgree` to the edits that are open:
of two rows that are neutral now, an edit read both or none, with the same terms
(`NeutralAgree`). `AcceptedKept` needs the types and `Copy` only.

**ItemSearchProofs.** `Unmade` says that a search not yet made has left no trace.
`Recency` (for `ShownRecent`) follows a title back from the page through the digest,
the streams, the messages and the discovery to the search it came from, which is
never before `rest`. `Spinning` (for `SpinnerOwed`) says that the spinner waits
for the last search, whose first list is still to be written, read or handled. `Finding`
(for `NotFoundTrue`) follows the items of the node itself: as long as the last search
is alone, the first list to come holds them.

*Only model-checked*: the five liveness properties, since the prover has no ENABLED and
no fairness. Of four of them the safety part is proved: of `AllFinalized`
(`OnlyForward`, `NobodyIsLeft`), `EarlyRefusalIsSettled` (`EarlyIsSettled`, `AnswerSettles`),
`EveryoneGoesOn` (`NobodyStartsAgain`, `NobodyIsStuck`) and `SpinnerStops` (`SpinnerOwed`).
`AcceptedRunsAgain` is not: which contract ends a list depends on the
order in which users, requests and restarts come, and the property itself is about
coming back again and again. All other properties of the passing runs are proved. The
properties that runs show to be violated are false of the code, and there is
nothing to prove about them but when they hold (`SameListIsSetUp`).

## 5. What is not modelled, and the plan

Abstracted in what is modelled: cryptography (a check of a promise, a signature or
a message from Trent succeeds exactly for what its sender made, and no party that
runs this code makes a wrong one), titles and encodings, logging, the content of
the clauses. In `SigmaSign` one delivery is handled at a time: two threads in the
same listener, which the code does not exclude, are the subject of a module to
come. Restoring an establisher from its saved data is left out: no code under
`src/main` calls that constructor.

Of the JavaScript, the page of the search is modelled, and the calls of the page of
the contracts as the requests they make. The other pages have no state beyond the
form they show. What is left is a library (`angular.js`, in two copies) and an old
copy of the pages, which are not the program's own logic; most of the project is
about the Java under `src/main/java`, where the protocol is.

Next, in this order:

1. `EstablisherService`: registry of listeners, notification while the registry is
   iterated, discovery against `listens`; what it promises is the two ways of
   delivery of `SigmaSign` and `ChooseTrent`.
2. `SignListener`: two threads in the listener of `ProtocolSign`, with its reads and
   writes of the round as separate steps.
3. `SyncManager` with the decorators: transactions, validation, watched entities,
   publication before or after the commit.
4. The search that gathers answers until a delay (`JxtaSyncSearch`), and `Session`
   (tokens, a change of password).
5. Save files (positions of entries) and a small-group model of the equations of
   the proofs, as operators checked against reference definitions.

Theorems to come: what keeps a contract on the list of its user, for
`AcceptedRunsAgain`; the composition of `ChooseTrent` with `SigmaSign`; and the
invariants of the registry and of the transactions.
