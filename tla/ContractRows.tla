---------------------------- MODULE ContractRows ----------------------------
(***************************************************************************)
(* The contracts of one node as its users handle them: the REST resource   *)
(* Contracts, the managers through which it reads and writes the database, *)
(* the establishers that it starts, the sessions, and a node that stops    *)
(* and starts again.                                                       *)
(*                                                                         *)
(* A contract is one row per party.  A request works on copies of the rows *)
(* it reads (its clones) and its commit writes the fields that differ from *)
(* what it read, whatever the rows have become: nothing is locked and no   *)
(* row has a version.  A request to sign also builds an establisher on its *)
(* clone.  What the establisher does before the commit goes to the row;    *)
(* what it does afterwards stays in the clone and is lost with the node.   *)
(***************************************************************************)
EXTENDS Integers

CONSTANTS
  Users, Contracts, Clauses,
  TitleOf,      \* the title of each contract: several can have the same
  PartySets,    \* the sets of parties that contracts are given
  None,         \* no request
  Local,        \* bound: the users who come to this node, the others are only named
  MaxOpen,      \* bound on the requests that are between their read and their commit
  MaxAsked,     \* bound on the requests that users make, lists not counted
  MaxCrashes    \* bound on how often the node stops

\* A contract with a single party is left out: no one else is waited for, and
\* all that is to be done for it takes place while its request starts it.
ASSUME ConstantsAssumption ==
  /\ PartySets \subseteq SUBSET Users
  /\ \A s \in PartySets : \E u, v \in s : u # v
  /\ Local \subseteq Users
  /\ MaxOpen \in Nat
  /\ MaxAsked \in Nat
  /\ MaxCrashes \in Nat

Wish == {"NEUTRAL", "ACCEPT", "REFUSE"}
Status == {"NOWHERE", "SIGNING", "CANCELLED", "FINALIZED"}
Row == [clauses : Clauses, parties : PartySets, wish : Wish, status : Status]
Terms == [clauses : Clauses, parties : PartySets]
Requests == 1..MaxOpen
Key == Contracts \X Users     \* the row of a contract for one of its parties

VARIABLES
  added,        \* the contracts that were ever added
  rows,         \* the rows in the database: a function on the keys they have
  open,         \* each request between its read and its commit
  running,      \* the establishers whose request is over, as users and terms
  published,    \* advertisements of users ready to sign; they outlive the node
  promised,     \* and those of their promises
  tokens,       \* the users who have a session
  todo,         \* contracts that a user's list of contracts has still to go through
  asked,        \* how many requests users have made
  crashes

dbVars == <<added, rows>>
vars == <<dbVars, open, running, published, promised, tokens, todo, asked, crashes>>

-----------------------------------------------------------------------------
TermsOf(row) == [clauses |-> row.clauses, parties |-> row.parties]

Establisher(rs, r) == [user |-> r[2], terms |-> TermsOf(rs[r])]

\* The fields that the clone changed, on top of what the row has become.
Merge(row, saw, clone) ==
  [clauses |-> IF clone.clauses # saw.clauses THEN clone.clauses ELSE row.clauses,
   parties |-> IF clone.parties # saw.parties THEN clone.parties ELSE row.parties,
   wish    |-> IF clone.wish # saw.wish THEN clone.wish ELSE row.wish,
   status  |-> IF clone.status # saw.status THEN clone.status ELSE row.status]

\* A request takes the first free place.
Read(q, kind, saw, clone) ==
  /\ open[q] = None
  /\ \A p \in 1..(q - 1) : open[p] # None
  /\ open' = [open EXCEPT ![q] = [kind |-> kind, saw |-> saw, clone |-> clone]]

IsSign(q) == open[q] # None /\ open[q].kind \in {"sign", "resume"}

\* Bounds the model, not the code.
Ask == asked < MaxAsked /\ asked' = asked + 1

\* What becomes of the establisher of q, if it has one, when q is over.
Detached(q) ==
  IF IsSign(q)
  THEN running \cup {Establisher(open[q].saw, r) : r \in DOMAIN open[q].saw}
  ELSE running

\* All the parties of the terms of e are among the users es.
AllIn(e, es) == \A v \in e.terms.parties : [e EXCEPT !.user = v] \in es

-----------------------------------------------------------------------------
\* add: the row of every party, in one commit.
Add(k, u, c, s) ==
  /\ u \in tokens
  /\ k \notin added
  /\ added' = added \cup {k}
  /\ rows' = [r \in DOMAIN rows \cup ({k} \X s) |->
                IF r \in DOMAIN rows THEN rows[r]
                ELSE [clauses |-> c, parties |-> s,
                      wish |-> "NEUTRAL", status |-> "NOWHERE"]]
  /\ UNCHANGED <<open, running, published, promised, tokens, todo, asked, crashes>>

\* Mutated forms of EditTargets: the row of the user alone, and whatever wish.
EditTargetsOwn(t, u) ==
  {r \in DOMAIN rows : /\ TitleOf[r[1]] = t
                       /\ u = r[2]
                       /\ rows[r].wish = "NEUTRAL"}
EditTargetsAnyWish(t, u) ==
  {r \in DOMAIN rows : /\ TitleOf[r[1]] = t
                       /\ u \in rows[r].parties}

\* The rows that an edit for user u under the title t changes.
EditTargets(t, u) ==
  {r \in DOMAIN rows : /\ TitleOf[r[1]] = t
                       /\ u \in rows[r].parties
                       /\ rows[r].wish = "NEUTRAL"}

\* edit, up to its commit.  The title is that of the request, so it selects
\* the rows and never changes them.
Edit(q, t, u, c, s) ==
  LET on == EditTargets(t, u) IN
  /\ Ask
  /\ on # {}
  /\ Read(q, "edit", [r \in on |-> rows[r]],
          [r \in on |-> [rows[r] EXCEPT !.clauses = c, !.parties = s]])
  /\ UNCHANGED <<dbVars, running, published, promised, tokens, todo, crashes>>

\* Mutated form of Cancel: the status stays.
CancelWish(q, r) ==
  /\ Ask
  /\ r \in DOMAIN rows
  /\ rows[r].status \in {"NOWHERE", "SIGNING"}
  /\ Read(q, "cancel", [x \in {r} |-> rows[x]],
          [x \in {r} |-> [rows[x] EXCEPT !.wish = "REFUSE"]])
  /\ UNCHANGED <<dbVars, running, published, promised, tokens, todo, crashes>>

\* cancel, up to its commit.
Cancel(q, r) ==
  /\ Ask
  /\ r \in DOMAIN rows
  /\ \/ /\ rows[r].status = "NOWHERE"
        /\ Read(q, "cancel", [x \in {r} |-> rows[x]],
                [x \in {r} |-> [rows[x] EXCEPT !.wish = "REFUSE",
                                              !.status = "CANCELLED"]])
     \/ /\ rows[r].status = "SIGNING"
        /\ Read(q, "cancel", [x \in {r} |-> rows[x]],
                [x \in {r} |-> [rows[x] EXCEPT !.wish = "REFUSE"]])
  /\ UNCHANGED <<dbVars, running, published, promised, tokens, todo, crashes>>

\* delete
Delete(r) ==
  /\ r \in DOMAIN rows
  /\ r[2] \in tokens
  /\ rows' = [x \in DOMAIN rows \ {r} |-> rows[x]]
  /\ UNCHANGED <<added, open, running, published, promised, tokens, todo, asked, crashes>>

-----------------------------------------------------------------------------
(***************************************************************************)
(* sign, up to its commit: accept on the clone, build the establisher and  *)
(* start it, which publishes that the user is ready.  The establisher is   *)
(* refused to a user who is not a party.                                   *)
(***************************************************************************)
CanSign(r) ==
  /\ rows[r].status = "NOWHERE"
  /\ r[2] \in tokens
  /\ r[2] \in rows[r].parties

\* Mutated form of Sign: the establisher is not started.
SignUnstarted(q, kind, r) ==
  /\ r \in DOMAIN rows
  /\ CanSign(r)
  /\ Read(q, kind, [x \in {r} |-> rows[x]],
          [x \in {r} |-> [rows[x] EXCEPT !.wish = "ACCEPT"]])
  /\ UNCHANGED published

Sign(q, kind, r) ==
  /\ r \in DOMAIN rows
  /\ CanSign(r)
  /\ Read(q, kind, [x \in {r} |-> rows[x]],
          [x \in {r} |-> [rows[x] EXCEPT !.wish = "ACCEPT"]])
  /\ published' = published \cup {Establisher(rows, r)}

SignContract(q, r) ==
  /\ Ask
  /\ Sign(q, "sign", r)
  /\ UNCHANGED <<dbVars, running, promised, tokens, todo, crashes>>

(***************************************************************************)
(* An establisher goes on: to the signing step, where it publishes its     *)
(* promises, when the lists of all the parties are there, and to the end   *)
(* with the promises of all.  It sets the status of the clone, which only  *)
(* matters as long as the request is open.                                 *)
(***************************************************************************)
SetStatus(q, r, s) == open' = [open EXCEPT ![q].clone[r].status = s]

BeginsToSign(q, r) ==
  LET e == Establisher(open[q].clone, r) IN
  /\ IsSign(q) /\ r \in DOMAIN open[q].clone
  /\ open[q].clone[r].status = "NOWHERE"
  /\ AllIn(e, published)
  /\ SetStatus(q, r, "SIGNING")
  /\ promised' = promised \cup {e}
  /\ UNCHANGED <<dbVars, running, published, tokens, todo, asked, crashes>>

Finalizes(q, r) ==
  /\ IsSign(q) /\ r \in DOMAIN open[q].clone
  /\ open[q].clone[r].status = "SIGNING"
  /\ AllIn(Establisher(open[q].clone, r), promised)
  /\ SetStatus(q, r, "FINALIZED")
  /\ UNCHANGED <<dbVars, running, published, promised, tokens, todo, asked, crashes>>

BeginsLater(e) ==
  /\ AllIn(e, published)
  /\ e \notin promised
  /\ promised' = promised \cup {e}
  /\ UNCHANGED <<dbVars, open, running, published, tokens, todo, asked, crashes>>

\* Mutated form of Written: the whole clone is written.
WrittenWhole(q) ==
  [r \in DOMAIN rows |->
     IF r \in DOMAIN open[q].saw THEN open[q].clone[r] ELSE rows[r]]

\* end: the commit of request q.
Written(q) ==
  [r \in DOMAIN rows |->
     IF r \in DOMAIN open[q].saw
     THEN Merge(rows[r], open[q].saw[r], open[q].clone[r])
     ELSE rows[r]]

Commit(q) ==
  /\ open[q] # None
  /\ rows' = Written(q)
  /\ open' = [open EXCEPT ![q] = None]
  /\ running' = Detached(q)
  /\ UNCHANGED <<added, published, promised, tokens, todo, asked, crashes>>

\* The draw of Trent throws in the request: there is no commit, and the list
\* that the request may belong to goes no further.  The listeners stay.
Throws(q, r) ==
  /\ IsSign(q) /\ r \in DOMAIN open[q].clone
  /\ open[q].clone[r].status = "NOWHERE"
  /\ AllIn(Establisher(open[q].clone, r), published)
  /\ todo' = IF open[q].kind = "resume" THEN [todo EXCEPT ![r[2]] = {}] ELSE todo
  /\ open' = [open EXCEPT ![q] = None]
  /\ running' = Detached(q)
  /\ UNCHANGED <<dbVars, published, promised, tokens, asked, crashes>>

-----------------------------------------------------------------------------
(***************************************************************************)
(* get: the user's list of contracts signs again, one after the other,     *)
(* those that he had accepted when it was read.                            *)
(***************************************************************************)
InList(u) ==
  \E q \in Requests : /\ open[q] # None
                      /\ open[q].kind = "resume"
                      /\ \E r \in DOMAIN open[q].saw : r[2] = u

\* Mutated form of Accepted: only what was seen to have started.
AcceptedStarted(u) ==
  {k \in Contracts : /\ <<k, u>> \in DOMAIN rows
                     /\ rows[<<k, u>>].wish = "ACCEPT"
                     /\ rows[<<k, u>>].status = "SIGNING"}

Accepted(u) ==
  {k \in Contracts : <<k, u>> \in DOMAIN rows /\ rows[<<k, u>>].wish = "ACCEPT"}

List(u) ==
  /\ u \in tokens
  /\ todo[u] = {} /\ ~InList(u)
  /\ Accepted(u) # {}
  /\ todo' = [todo EXCEPT ![u] = Accepted(u)]
  /\ UNCHANGED <<dbVars, open, running, published, promised, tokens, asked, crashes>>

Resume(q, u, k) ==
  /\ k \in todo[u]
  /\ ~InList(u)
  /\ Sign(q, "resume", <<k, u>>)
  /\ todo' = [todo EXCEPT ![u] = @ \ {k}]
  /\ UNCHANGED <<dbVars, running, promised, tokens, asked, crashes>>

\* Nothing is left to sign, or the list ends with an exception: the row is
\* gone, the session is over, or the user is no longer a party.
SkipOrFail(u, k) ==
  /\ k \in todo[u]
  /\ ~InList(u)
  /\ \/ /\ <<k, u>> \in DOMAIN rows
        /\ rows[<<k, u>>].status # "NOWHERE"
        /\ todo' = [todo EXCEPT ![u] = @ \ {k}]
     \/ /\ <<k, u>> \in DOMAIN rows =>
             rows[<<k, u>>].status = "NOWHERE" /\ ~CanSign(<<k, u>>)
        /\ todo' = [todo EXCEPT ![u] = {}]
  /\ UNCHANGED <<dbVars, open, running, published, promised, tokens, asked, crashes>>

-----------------------------------------------------------------------------
\* Sessions are kept in memory.
Login(u) ==
  /\ u \in Local \ tokens
  /\ tokens' = tokens \cup {u}
  /\ UNCHANGED <<dbVars, open, running, published, promised, todo, asked, crashes>>

Logout(u) ==
  /\ Ask
  /\ u \in tokens
  /\ tokens' = tokens \ {u}
  /\ UNCHANGED <<dbVars, open, running, published, promised, todo, crashes>>

\* The node stops and starts again.
Restart ==
  /\ crashes < MaxCrashes
  /\ crashes' = crashes + 1
  /\ open' = [q \in Requests |-> None]
  /\ running' = {}
  /\ tokens' = {}
  /\ todo' = [u \in Users |-> {}]
  /\ UNCHANGED <<dbVars, published, promised, asked>>

-----------------------------------------------------------------------------
Init ==
  /\ added = {}
  /\ rows = [r \in {} |-> {}]
  /\ open = [q \in Requests |-> None]
  /\ running = {}
  /\ published = {}
  /\ promised = {}
  /\ tokens = {}
  /\ todo = [u \in Users |-> {}]
  /\ asked = 0
  /\ crashes = 0

Next ==
  \/ \E k \in Contracts, u \in Users, c \in Clauses, s \in PartySets : Add(k, u, c, s)
  \/ \E q \in Requests, k \in Contracts, u \in Users, c \in Clauses, s \in PartySets :
       Edit(q, TitleOf[k], u, c, s)
  \/ \E q \in Requests, r \in Key : Cancel(q, r) \/ SignContract(q, r) \/ Throws(q, r)
  \/ \E r \in Key : Delete(r)
  \/ \E q \in Requests, r \in Key : BeginsToSign(q, r) \/ Finalizes(q, r)
  \/ \E e \in running : BeginsLater(e)
  \/ \E q \in Requests : Commit(q)
  \/ \E u \in Users : List(u) \/ Login(u) \/ Logout(u)
  \/ \E u \in Users, k \in Contracts : SkipOrFail(u, k)
  \/ \E q \in Requests, u \in Users, k \in Contracts : Resume(q, u, k)
  \/ Restart

Spec == Init /\ [][Next]_vars

(***************************************************************************)
(* A request comes to its end, and users come back: one who is logged out  *)
(* logs in, and one who comes back again and again looks at his list.      *)
(***************************************************************************)
Fairness ==
  /\ \A q \in Requests : WF_vars(Commit(q))
  /\ \A u \in Users :
       /\ WF_vars(Login(u))
       /\ WF_vars(List(u))
       /\ WF_vars(\E q \in Requests, k \in Contracts : Resume(q, u, k))
       /\ WF_vars(\E k \in Contracts : SkipOrFail(u, k))

FairSpec == Spec /\ Fairness

-----------------------------------------------------------------------------
TypeOK ==
  /\ added \subseteq Contracts
  /\ DOMAIN rows \subseteq added \X Users
  /\ rows \in [DOMAIN rows -> Row]
  /\ DOMAIN open = Requests
  /\ \A q \in Requests : open[q] # None =>
       /\ open[q].kind \in {"edit", "cancel", "sign", "resume"}
       /\ DOMAIN open[q].saw \subseteq added \X Users
       /\ open[q].saw \in [DOMAIN open[q].saw -> Row]
       /\ open[q].clone \in [DOMAIN open[q].saw -> Row]
  /\ running \subseteq published
  /\ published \subseteq [user : Users, terms : Terms]
  /\ promised \subseteq published
  /\ tokens \subseteq Users
  /\ todo \in [Users -> SUBSET Contracts]
  /\ asked \in 0..MaxAsked
  /\ crashes \in 0..MaxCrashes

(***************************************************************************)
(* Edits keep the rows of one contract together: as long as two parties    *)
(* have neither accepted nor refused, they are shown the same clauses and  *)
(* the same parties, although an edit finds the rows by a title and a user *)
(* that it is given, works on old copies, and writes field by field.       *)
(***************************************************************************)
NeutralRowsAgree ==
  \A r, s \in DOMAIN rows :
    /\ r[1] = s[1]
    /\ rows[r].wish = "NEUTRAL" /\ rows[s].wish = "NEUTRAL"
    => TermsOf(rows[r]) = TermsOf(rows[s])

\* A contract that was refused is not left to be signed: whatever the order in
\* which overlapping requests commit, its status shows that it is settled.
RefusedIsSettled ==
  \A r \in DOMAIN rows : rows[r].wish = "REFUSE" => rows[r].status # "NOWHERE"

\* No commit takes a row back to NOWHERE, from where it could be signed again:
\* the commits of old copies included.
NeverUnsettled ==
  [][\A r \in DOMAIN rows \cap DOMAIN rows' :
       rows[r].status # "NOWHERE" => rows'[r].status # "NOWHERE"]_vars

\* What a user has accepted changes under him only by the commit of an edit that
\* had read his row before he accepted it.
OnlyOldEditsChangeAccepted ==
  [][\A r \in DOMAIN rows \cap DOMAIN rows' :
       rows[r].wish = "ACCEPT" /\ TermsOf(rows'[r]) # TermsOf(rows[r]) =>
         \E q \in Requests : /\ open[q] # None /\ open'[q] = None
                             /\ open[q].kind = "edit"
                             /\ r \in DOMAIN open[q].saw
                             /\ open[q].saw[r].wish = "NEUTRAL"]_vars

\* Once a user has refused a contract, and no request about his rows is under
\* way, his promises for it are not sent: a party checks the wish of the user
\* each time it sends.
DeclinedSendsNothing ==
  [][\A e \in promised' \ promised :
       (\A q \in Requests : open[q] # None =>
          \A r \in DOMAIN open[q].saw : r[2] # e.user) =>
       ~\E k \in Contracts : /\ <<k, e.user>> \in DOMAIN rows
                             /\ TermsOf(rows[<<k, e.user>>]) = e.terms
                             /\ rows[<<k, e.user>>].wish = "REFUSE"]_vars

(***************************************************************************)
(* A contract that was accepted and whose row says that nothing was        *)
(* started is taken up again for its user, after a restart too, when all   *)
(* that is left of it is its row: an establisher runs for it, or a request *)
(* is building one.  Only another contract can stand in the way for ever,  *)
(* which ends his list before this one is reached: one from whose parties  *)
(* an old edit removed him after he had accepted, or one whose draw of     *)
(* Trent can throw.                                                        *)
(***************************************************************************)
Unstarted(k, u) ==
  /\ <<k, u>> \in DOMAIN rows
  /\ rows[<<k, u>>].wish = "ACCEPT"
  /\ rows[<<k, u>>].status = "NOWHERE"

Waiting(k, u) == Unstarted(k, u) /\ u \in rows[<<k, u>>].parties

TakenUp(k, u) ==
  \/ Establisher(rows, <<k, u>>) \in running
  \/ \E q \in Requests : IsSign(q) /\ <<k, u>> \in DOMAIN open[q].saw

EndsList(k, u) ==
  /\ Unstarted(k, u)
  /\ \/ u \notin rows[<<k, u>>].parties
     \/ AllIn(Establisher(rows, <<k, u>>), published)

AcceptedRunsAgain ==
  \A k \in Contracts, u \in Users :
    Waiting(k, u) ~> \/ ~Waiting(k, u)
                     \/ TakenUp(k, u)
                     \/ \E other \in Contracts \ {k} : EndsList(other, u)
=============================================================================
