------------------------ MODULE SigmaExchangeProofs ------------------------
(***************************************************************************)
(* Proofs about SigmaExchange, for any number of parties: the Trent of     *)
(* TrentSolver is one that SigmaSign admits, so that what is proved of the *)
(* parties holds of the whole exchange, and those who run this code are    *)
(* accused of nothing but an ABORT.                                        *)
(*                                                                         *)
(* The invariants of the two components are taken as they are.  What is    *)
(* added ties them together: whatever Trent answers was requested, and     *)
(* when one request is an ABORT all of them are.                           *)
(***************************************************************************)
EXTENDS SigmaExchange, FiniteSetTheorems, TLAPS

TP == INSTANCE TrentSolverProofs WITH
       Party <- 1..N,
       Texts <- 0..(N + 1),
       Opens <- 1..(N + 1),
       Arrivals <- HonestClaims,
       answers <- trentAnswers

SP == INSTANCE SigmaSignProofs WITH answers <- Heard

Requested(d) == \E c \in requests : d = ClaimOf(c)

AnswersWereRequested == \A a \in trentAnswers : Requested(a.claim)

FailedWereRequested == \A d \in unanswered : Requested(d)

IInv ==
  /\ SP!IInv /\ SP!ClaimantsAreSilent
  /\ TP!IInv /\ TP!ClaimsWereAnswered /\ TP!FirstClaimsAreAnswered
  /\ AnswersWereRequested
  /\ FailedWereRequested

-----------------------------------------------------------------------------
(***************************************************************************)
(* The two components, with their assumptions.                             *)
(***************************************************************************)
LEMMA CountOfParties == TP!IsFiniteSet(1..N) /\ TP!Cardinality(1..N) = N
<1>1. IsFiniteSet(1..N) /\ Cardinality(1..N) = N
  BY ConstantsAssumption, FS_Interval
<1>2. TP!IsFiniteSet(1..N) <=> IsFiniteSet(1..N)
  BY DEF TP!IsFiniteSet, IsFiniteSet
<1>3. TP!Cardinality(1..N) = Cardinality(1..N)
  BY DEF TP!Cardinality, Cardinality
<1> QED
  BY <1>1, <1>2, <1>3

LEMMA TrentAssumption == TP!ConstantsAssumption
<1>1. ASSUME NEW c \in [sender : 1..N, round : 0..(N + 1)]
      PROVE  ClaimOf(c) \in [sender : 1..N, round : Int, text : 0..(N + 1)]
  BY ConstantsAssumption DEF ClaimOf
<1>2. HonestClaims \subseteq [sender : 1..N, round : Int, text : 0..(N + 1)]
  BY <1>1 DEF HonestClaims
<1>3. 1..(N + 1) \subseteq 0..(N + 1)
  BY ConstantsAssumption
<1> QED
  BY <1>2, <1>3, ConstantsAssumption, CountOfParties DEF TP!ConstantsAssumption, TP!Claim

LEMMA SignAssumption == SP!ConstantsAssumption
  BY ConstantsAssumption DEF SP!ConstantsAssumption

LEMMA SameResolve ==
  ASSUME NEW c
  PROVE  T!resolve(c) <=> TP!resolve(c)
  BY DEF T!resolve, TP!resolve, T!ShowOtherDishonest, TP!ShowOtherDishonest,
         T!ShowSelfDishonest, TP!ShowSelfDishonest, T!ShownDishonest, TP!ShownDishonest,
         T!Resolve, TP!Resolve, T!Abort, TP!Abort, T!Fail, TP!Fail, T!FailToOpen, TP!FailToOpen,
         T!OutOfBounds, TP!OutOfBounds, T!Content, TP!Content,
         T!Held, TP!Held, T!Size, TP!Size, T!Remove, TP!Remove, T!Accuse, TP!Accuse,
         T!Broadcast, TP!Broadcast, T!FirstStop, TP!FirstStop, T!StopsBelow, TP!StopsBelow,
         T!OwnElsewhere, TP!OwnElsewhere, T!IsIndexOf, TP!IsIndexOf, T!StopsAbove, TP!StopsAbove,
         T!PossiblyHonest, TP!PossiblyHonest, T!Resolvable, TP!Resolvable, T!InsertAt, TP!InsertAt,
         T!PartyCount, TP!PartyCount, T!Cardinality, TP!Cardinality

LEMMA SamePartyStep == S!PartyStep <=> SP!PartyStep
  BY DEF S!PartyStep, SP!PartyStep, S!Starts, SP!Starts, S!Start, SP!Start,
         S!StartRefusing, SP!StartRefusing, S!Refuse, SP!Refuse, S!Receive, SP!Receive,
         S!ReceivePromise, SP!ReceivePromise, S!ReceiveClear, SP!ReceiveClear, S!Hear, SP!Hear,
         S!HearCancelled, SP!HearCancelled, S!HearResolved, SP!HearResolved, S!Drop, SP!Drop,
         S!Wait, SP!Wait, S!Withdraw, SP!Withdraw, S!GoOn, SP!GoOn, S!Holding, SP!Holding,
         S!RoundComplete, SP!RoundComplete, S!StopsAt, SP!StopsAt, S!isFinalized, SP!isFinalized,
         S!Copies, SP!Copies, S!Delivered, SP!Delivered, S!AskTrent, SP!AskTrent,
         S!InWindow, SP!InWindow, S!Party, SP!Party, S!Rounds, SP!Rounds, S!Last, SP!Last,
         S!partyVars, SP!partyVars

LEMMA SameTrentSteps ==
  /\ S!TrentCancels <=> SP!TrentCancels
  /\ \A c : S!TrentResolves(c) <=> SP!TrentResolves(c)
  BY DEF S!TrentCancels, SP!TrentCancels, S!TrentResolves, SP!TrentResolves, S!partyVars, SP!partyVars

LEMMA SameNext == (S!Next <=> SP!Next) /\ S!vars = SP!vars /\ S!vars' = SP!vars'
  BY SamePartyStep, SameTrentSteps DEF S!Next, SP!Next, S!vars, SP!vars, S!partyVars, SP!partyVars

LEMMA SameInit == S!Init <=> SP!Init
  BY DEF S!Init, SP!Init, S!Party, SP!Party, S!Rounds, SP!Rounds

LEMMA SameTrentInit == T!Init <=> TP!Init
  BY DEF T!Init, TP!Init, T!NoEvidence, TP!NoEvidence

-----------------------------------------------------------------------------
(***************************************************************************)
(* Steps.                                                                  *)
(***************************************************************************)
LEMMA SignStep ==
  ASSUME SP!IInv, SP!ClaimantsAreSilent, [SP!Next]_(SP!vars)
  PROVE  SP!IInv' /\ SP!ClaimantsAreSilent' /\ requests \subseteq requests'
<1>1. SP!TypeOK /\ SP!NotStarted
  BY DEF SP!IInv, SP!RoundInv
<1> QED
  BY <1>1, SignAssumption, SP!IInvStep, SP!SilentStep, SP!RequestStep DEF SP!ConstantsAssumption

LEMMA TrentStep ==
  ASSUME TP!IInv, TP!ClaimsWereAnswered, TP!FirstClaimsAreAnswered, [TP!Next]_(TP!vars)
  PROVE  TP!IInv' /\ TP!ClaimsWereAnswered' /\ TP!FirstClaimsAreAnswered'
  BY TrentAssumption, TP!IInvStep, TP!ClaimsWereAnsweredStep, TP!FirstClaimsStep
  DEF TP!ConstantsAssumption

LEMMA RequestsArrive ==
  ASSUME SP!IInv
  PROVE  requests \subseteq [sender : 1..N, round : 0..(N + 1)]
  BY DEF SP!IInv, SP!RoundInv, SP!TypeOK, SP!Requests, SP!Party

\* The claim of a request has its sender and its round, and can be opened unless it
\* is an ABORT.
LEMMA ClaimOfRequest ==
  ASSUME SP!IInv, NEW c \in requests
  PROVE  /\ ClaimOf(c) \in HonestClaims
         /\ ClaimOf(c).sender = c.sender /\ ClaimOf(c).round = c.round
         /\ c.round \in 0..(N + 1)
         /\ ClaimOf(c).text \in 1..(N + 1) <=> c.round > 0
<1>1. c \in [sender : 1..N, round : 0..(N + 1)]
  BY RequestsArrive
<1>2. ClaimOf(c) \in HonestClaims
  BY <1>1 DEF HonestClaims
<1> QED
  BY <1>1, <1>2, ConstantsAssumption DEF ClaimOf

\* What an answer of Trent tells the parties.
LEMMA HeardAfter ==
  ASSUME NEW kind, NEW c, trentAnswers' = trentAnswers \cup {[kind |-> kind, claim |-> c]}
  PROVE  /\ kind = "dishonest" => Heard' = Heard
         /\ kind # "dishonest" =>
              Heard' = Heard \cup {[verdict |-> T!VerdictOf(kind),
                                    round |-> IF kind = "resolved" THEN c.round ELSE 0]}
<1> DEFINE a == [kind |-> kind, claim |-> c]
           read(x) == [verdict |-> T!VerdictOf(x.kind),
                       round |-> IF x.kind = "resolved" THEN x.claim.round ELSE 0]
<1>1. a.kind = kind /\ a.claim = c /\ trentAnswers' = trentAnswers \cup {a}
  OBVIOUS
<1>2. Heard = {read(x) : x \in {b \in trentAnswers : b.kind # "dishonest"}}
  BY DEF Heard
<1>3. Heard' = {read(x) : x \in {b \in trentAnswers' : b.kind # "dishonest"}}
  BY DEF Heard, T!VerdictOf
<1>4. read(a) = [verdict |-> T!VerdictOf(kind), round |-> IF kind = "resolved" THEN c.round ELSE 0]
  BY <1>1
<1> HIDE DEF a, read
<1>5. CASE kind = "dishonest"
  <2>1. {b \in trentAnswers' : b.kind # "dishonest"} = {b \in trentAnswers : b.kind # "dishonest"}
    BY <1>1, <1>5
  <2> QED
    BY <1>2, <1>3, <1>5, <2>1
<1>6. CASE kind # "dishonest"
  <2>1. {b \in trentAnswers' : b.kind # "dishonest"}
          = {b \in trentAnswers : b.kind # "dishonest"} \cup {a}
    BY <1>1, <1>6
  <2>2. Heard' = Heard \cup {read(a)}
    BY <1>2, <1>3, <2>1
  <2> QED
    BY <1>4, <1>6, <2>2
<1> QED
  BY <1>5, <1>6

\* After a step too, Trent has announced one verdict only, the one they hear.
LEMMA HeardIsAnnouncedNext ==
  /\ \A a \in Heard' : a.verdict \in TP!Announced'
  /\ TP!Announced' \subseteq {"cancelled", "resolved"}
  BY DEF Heard, TP!Announced, T!VerdictOf, TP!VerdictOf

LEMMA OneVerdictNext ==
  ASSUME TP!IInv'
  PROVE  ~("cancelled" \in TP!Announced' /\ "resolved" \in TP!Announced')
  BY DEF TP!IInv, TP!ListIsEmptyOnceResolved, TP!CancelledMeansPiledUp, TP!ResolvedMeansOpened

\* How resolveT answers a claim.
LEMMA AnswerOf ==
  ASSUME NEW d, T!resolve(d)
  PROVE  \/ UNCHANGED trentAnswers
         \/ \E kind : /\ trentAnswers' = trentAnswers \cup {[kind |-> kind, claim |-> d]}
                      /\ kind \in {"aborted", "honestyToken", "resolved", "dishonest"}
                      /\ kind = "resolved" => d.text \in 1..(N + 1)
  BY DEF T!resolve, T!ShowOtherDishonest, T!ShowSelfDishonest, T!ShownDishonest, T!Resolve,
         T!Abort, T!FailToOpen, T!Fail, T!Broadcast

LEMMA TrentArrives ==
  ASSUME SP!IInv, NEW c \in requests, T!resolve(ClaimOf(c))
  PROVE  TP!Next
  BY ClaimOfRequest, SameResolve DEF TP!Next

LEMMA AnswersWereRequestedStep ==
  ASSUME IInv, NEW c \in requests, T!resolve(ClaimOf(c)), requests \subseteq requests'
  PROVE  AnswersWereRequested' /\ FailedWereRequested'
<1> DEFINE d == ClaimOf(c)
<1>1. Requested(d)' /\ \A x : Requested(x) => Requested(x)'
  BY DEF Requested, ClaimOf
<1>2. T!resolve(d)
  OBVIOUS
<1> HIDE DEF d
<1>3. AnswersWereRequested'
  BY <1>1, <1>2, AnswerOf DEF IInv, AnswersWereRequested
<1>4. unanswered' = unanswered \/ unanswered' = unanswered \cup {d}
  BY <1>2 DEF T!resolve, T!ShowOtherDishonest, T!ShowSelfDishonest, T!ShownDishonest, T!Resolve,
        T!Abort, T!FailToOpen, T!Fail
<1> QED
  BY <1>1, <1>3, <1>4 DEF IInv, FailedWereRequested

\* Trent cancels only when somebody asked with ABORT.
LEMMA CancelWasAskedNext ==
  ASSUME TP!IInv', AnswersWereRequested', "cancelled" \in TP!Announced'
  PROVE  \E c \in requests' : c.round = 0
<1>1. PICK a \in trentAnswers' : a.claim.round = 0
  BY DEF TP!IInv, TP!CancelledMeansPiledUp, TP!AbortOpensTheList
<1>2. PICK c \in requests' : a.claim = ClaimOf(c)
  BY DEF AnswersWereRequested, Requested, ClaimOf
<1> QED
  BY <1>1, <1>2 DEF ClaimOf

\* The Trent of TrentSolver does what the environment of SigmaSign may do.
LEMMA TrentIsAdmitted ==
  ASSUME IInv, NEW c \in requests, Trent(c)
  PROVE  [SP!Next]_(SP!vars)
<1>0. /\ T!resolve(ClaimOf(c)) /\ UNCHANGED partyVars
      /\ UNCHANGED <<SP!partyVars, net, requests>>
      /\ ClaimOf(c).round = c.round
  BY DEF Trent, partyVars, SP!partyVars, ClaimOf
<1>1. TP!IInv'
  BY <1>0, TrentArrives, TrentStep DEF IInv
<1>2. AnswersWereRequested' /\ requests' = requests
  BY <1>0, AnswersWereRequestedStep
<1>3. CASE UNCHANGED trentAnswers
  <2>1. Heard' = Heard
    BY <1>3 DEF Heard, T!VerdictOf
  <2> QED
    BY <1>0, <2>1 DEF SP!vars, SP!partyVars
<1>4. ASSUME NEW kind, trentAnswers' = trentAnswers \cup {[kind |-> kind, claim |-> ClaimOf(c)]},
             kind \in {"aborted", "honestyToken", "resolved", "dishonest"},
             kind = "resolved" => c.round > 0
      PROVE  [SP!Next]_(SP!vars)
  <2>1. CASE kind = "dishonest"
    <3>1. Heard' = Heard
      BY <1>4, <2>1, HeardAfter
    <3> QED
      BY <1>0, <3>1 DEF SP!vars, SP!partyVars
  <2>2. CASE kind = "resolved"
    <3>1. Heard' = Heard \cup {[verdict |-> "resolved", round |-> c.round]}
      BY <1>0, <1>4, <2>2, HeardAfter DEF T!VerdictOf
    <3>2. "resolved" \in TP!Announced'
      <4> DEFINE a == [verdict |-> "resolved", round |-> c.round]
      <4>1. a \in Heard' /\ a.verdict = "resolved"
        BY <3>1
      <4> QED
        BY <4>1, HeardIsAnnouncedNext
    <3>3. \A a \in Heard : a.verdict = "resolved"
      BY <1>1, <3>1, <3>2, HeardIsAnnouncedNext, OneVerdictNext
    <3>4. SP!TrentResolves(c)
      BY <1>0, <1>4, <2>2, <3>1, <3>3 DEF SP!TrentResolves
    <3> QED
      BY <3>4 DEF SP!Next
  <2>3. CASE kind \in {"aborted", "honestyToken"}
    <3>1. Heard' = Heard \cup {[verdict |-> "cancelled", round |-> 0]}
      BY <1>4, <2>3, HeardAfter DEF T!VerdictOf
    <3>2. "cancelled" \in TP!Announced'
      <4> DEFINE a == [verdict |-> "cancelled", round |-> 0]
      <4>1. a \in Heard' /\ a.verdict = "cancelled"
        BY <3>1
      <4> QED
        BY <4>1, HeardIsAnnouncedNext
    <3>3. \A a \in Heard : a.verdict = "cancelled"
      BY <1>1, <3>1, <3>2, HeardIsAnnouncedNext, OneVerdictNext
    <3>4. \E d \in requests : d.round = 0
      BY <1>1, <1>2, <3>2, CancelWasAskedNext
    <3>5. SP!TrentCancels
      BY <1>0, <3>1, <3>3, <3>4 DEF SP!TrentCancels
    <3> QED
      BY <3>5 DEF SP!Next
  <2> QED
    BY <1>4, <2>1, <2>2, <2>3
<1> QED
  <2>1. ClaimOf(c).text \in 1..(N + 1) => c.round > 0
    BY ClaimOfRequest DEF IInv
  <2> DEFINE d == ClaimOf(c)
  <2>2. T!resolve(d) /\ d = ClaimOf(c)
    BY <1>0
  <2> HIDE DEF d
  <2>3. \/ UNCHANGED trentAnswers
        \/ \E kind : /\ trentAnswers' = trentAnswers \cup {[kind |-> kind, claim |-> d]}
                     /\ kind \in {"aborted", "honestyToken", "resolved", "dishonest"}
                     /\ kind = "resolved" => d.text \in 1..(N + 1)
    BY <2>2, AnswerOf
  <2> QED
    BY <1>3, <1>4, <2>1, <2>2, <2>3

-----------------------------------------------------------------------------
(***************************************************************************)
(* The invariant.                                                          *)
(***************************************************************************)
LEMMA IInvInit ==
  ASSUME Init
  PROVE  IInv
<1>1. SP!Init /\ TP!Init
  BY SameInit, SameTrentInit DEF Init
<1>2. requests = {} /\ trentAnswers = {} /\ unanswered = {}
  BY <1>1 DEF SP!Init, TP!Init
<1>3. SP!IInv
  BY <1>1, SignAssumption, SP!IInvInit DEF SP!ConstantsAssumption
<1>4. SP!ClaimantsAreSilent
  BY <1>2 DEF SP!ClaimantsAreSilent
<1>5. TP!IInv /\ TP!ClaimsWereAnswered
  BY <1>1, TrentAssumption, TP!IInvInit, TP!ClaimsWereAnsweredInit DEF TP!ConstantsAssumption
<1>6. TP!FirstClaimsAreAnswered
  BY <1>2 DEF TP!FirstClaimsAreAnswered
<1> QED
  BY <1>2, <1>3, <1>4, <1>5, <1>6 DEF IInv, AnswersWereRequested, FailedWereRequested

LEMMA IInvStep ==
  ASSUME IInv, [Next]_vars
  PROVE  IInv' /\ [SP!Next]_(SP!vars)
<1>1. CASE Parties
  <2>1. SP!Next
    BY <1>1, SamePartyStep DEF Parties, SP!Next
  <2>2. SP!IInv' /\ SP!ClaimantsAreSilent' /\ requests \subseteq requests'
    BY <2>1, SignStep DEF IInv
  <2>3. UNCHANGED TP!vars
    BY <1>1 DEF Parties, trentVars, TP!vars
  <2>4. TP!IInv' /\ TP!ClaimsWereAnswered' /\ TP!FirstClaimsAreAnswered'
    BY <2>3, TrentStep DEF IInv
  <2>5. AnswersWereRequested' /\ FailedWereRequested'
    BY <1>1, <2>2 DEF IInv, AnswersWereRequested, FailedWereRequested, Requested, ClaimOf,
       Parties, trentVars
  <2> QED
    BY <2>1, <2>2, <2>4, <2>5 DEF IInv
<1>2. ASSUME NEW c \in requests, Trent(c)
      PROVE  IInv' /\ [SP!Next]_(SP!vars)
  <2>1. [SP!Next]_(SP!vars)
    BY <1>2, TrentIsAdmitted
  <2>2. SP!IInv' /\ SP!ClaimantsAreSilent' /\ requests \subseteq requests'
    BY <2>1, SignStep DEF IInv
  <2>3. T!resolve(ClaimOf(c))
    BY <1>2 DEF Trent
  <2>4. TP!IInv' /\ TP!ClaimsWereAnswered' /\ TP!FirstClaimsAreAnswered'
    BY <2>3, TrentArrives, TrentStep DEF IInv
  <2>5. AnswersWereRequested' /\ FailedWereRequested'
    BY <2>2, <2>3, AnswersWereRequestedStep
  <2> QED
    BY <2>1, <2>2, <2>4, <2>5 DEF IInv
<1>3. CASE UNCHANGED vars
  <2>1. UNCHANGED TP!vars /\ UNCHANGED <<SP!partyVars, net, requests>>
    BY <1>3 DEF vars, partyVars, trentVars, TP!vars, SP!partyVars
  <2>2. Heard' = Heard
    BY <1>3 DEF vars, trentVars, Heard, T!VerdictOf
  <2>3. UNCHANGED SP!vars
    BY <2>1, <2>2 DEF SP!vars
  <2>4. SP!IInv' /\ SP!ClaimantsAreSilent'
    BY <2>3, SignStep DEF IInv
  <2>5. TP!IInv' /\ TP!ClaimsWereAnswered' /\ TP!FirstClaimsAreAnswered'
    BY <2>1, TrentStep DEF IInv
  <2>6. AnswersWereRequested' /\ FailedWereRequested'
    BY <1>3 DEF IInv, AnswersWereRequested, FailedWereRequested, Requested, ClaimOf, vars,
       partyVars, trentVars
  <2> QED
    BY <2>3, <2>4, <2>5, <2>6 DEF IInv
<1> QED
  BY <1>1, <1>2, <1>3 DEF Next

-----------------------------------------------------------------------------
(***************************************************************************)
(* What the invariant says of those who are accused, and of the claims     *)
(* that resolveT leaves without an answer.                                 *)
(***************************************************************************)
\* When one of the answers is to an ABORT, every request is one.
LEMMA AbortIsAlone ==
  ASSUME IInv, NEW c \in requests, c.round = 0
  PROVE  \A d \in requests : d.round = 0
<1>1. SP!AbortStandsAlone
  BY SignAssumption, SP!AbortIsAlone DEF IInv, SP!ConstantsAssumption
<1> QED
  BY <1>1 DEF SP!AbortStandsAlone

\* While the list of claims is not empty, an ABORT was answered and everyone is told.
LEMMA AbortIsHeard ==
  ASSUME IInv, claims # <<>>
  PROVE  [verdict |-> "cancelled", round |-> 0] \in Heard
<1>1. PICK a \in trentAnswers : a.kind = "aborted"
  BY DEF IInv, TP!IInv, TP!AbortOpensTheList
<1>2. a \in {b \in trentAnswers : b.kind # "dishonest"}
  BY <1>1
<1> QED
  BY <1>1, <1>2 DEF Heard, T!VerdictOf

LEMMA AccusedInv ==
  ASSUME IInv
  PROVE  AccusedOfAbortOnly
<1> SUFFICES ASSUME NEW p \in Party, dishonest[p] # T!NoEvidence
             PROVE  /\ dishonest[p][1].round = 0
                    /\ [verdict |-> "cancelled", round |-> 0] \in Heard
  BY DEF AccusedOfAbortOnly
<1>1. p \in 1..N /\ dishonest[p] # TP!NoEvidence
  BY DEF Party, S!Party, T!NoEvidence, TP!NoEvidence
<1>2. claims # <<>>
  BY <1>1 DEF IInv, TP!IInv, TP!NobodyAccusedWhileEmpty
<1>3. PICK c \in requests : c.round = 0
  <2>1. PICK a \in trentAnswers : a.claim.round = 0
    BY <1>2 DEF IInv, TP!IInv, TP!AbortOpensTheList
  <2>2. PICK c \in requests : a.claim = ClaimOf(c)
    BY DEF IInv, AnswersWereRequested, Requested
  <2> QED
    BY <2>1, <2>2 DEF ClaimOf
<1>4. PICK d \in requests : dishonest[p][1] = ClaimOf(d)
  BY <1>1 DEF IInv, TP!ClaimsWereAnswered, TP!Answered, AnswersWereRequested, Requested
<1>5. ClaimOf(d).round = 0
  BY <1>3, AbortIsAlone DEF ClaimOf
<1> QED
  BY <1>2, <1>4, <1>5, AbortIsHeard

LEMMA OnlyLateInv ==
  ASSUME IInv
  PROVE  OnlyLateClaimsFail
<1> SUFFICES ASSUME NEW d \in unanswered, ~(d.round >= 2)
             PROVE  FALSE
  BY DEF OnlyLateClaimsFail
<1>1. PICK c \in requests : d = ClaimOf(c)
  BY DEF IInv, FailedWereRequested, Requested
<1>2. /\ d.round = c.round /\ c.round \in 0..(N + 1)
      /\ d.text \in 1..(N + 1) <=> c.round > 0
  BY <1>1, ClaimOfRequest DEF IInv
<1>3. c.round = 0 /\ ~optimistic
  <2>1. d.round \in {0, 1}
    BY <1>2, ConstantsAssumption
  <2> QED
    BY <1>2, <2>1 DEF IInv, TP!FirstClaimsAreAnswered
<1>4. PICK e \in TP!Found : e.round = 1
  BY <1>3 DEF IInv, TP!IInv, TP!OpenedByRoundOne
<1>5. PICK b \in requests : e = ClaimOf(b)
  BY DEF TP!Found, IInv, AnswersWereRequested, FailedWereRequested, Requested
<1>6. b.round = 1
  BY <1>4, <1>5 DEF ClaimOf
<1> QED
  BY <1>3, <1>6, AbortIsAlone

-----------------------------------------------------------------------------
(***************************************************************************)
(* Theorems.                                                               *)
(***************************************************************************)
LEMMA Invariant == Spec => []IInv
<1>1. Init => IInv
  BY IInvInit
<1>2. IInv /\ [Next]_vars => IInv'
  BY IInvStep
<1> QED
  BY <1>1, <1>2, PTL DEF Spec

\* What the evidence of resolveT holds against a party running this code is an ABORT,
\* and the cancellation has been told: however many parties there are and however
\* often Trent finds each request.
THEOREM AccusedOfAbort == Spec => []AccusedOfAbortOnly
  BY Invariant, AccusedInv, PTL

\* resolveT leaves no ABORT and no claim of round 1 without an answer.
THEOREM OnlyLateFail == Spec => []OnlyLateClaimsFail
  BY Invariant, OnlyLateInv, PTL

\* TrentSolver does no more than SigmaSign admits of Trent: what is proved of
\* the parties there holds when they turn to the code of TrentSolver.
THEOREM ExchangeImplementsSign == Spec => ImplementsSign
<1>1. Init => S!Init
  BY DEF Init
<1>2. IInv /\ [Next]_vars => [S!Next]_(S!vars)
  BY IInvStep, SameNext
<1> QED
  BY <1>1, <1>2, Invariant, PTL DEF Spec, ImplementsSign, S!Spec

\* So no party ends with the contract signed while another ends with the
\* contract cancelled, whatever Trent makes of the requests in whatever order.
THEOREM ExchangeImplementsOutcome == Spec => SP!ImplementsOutcome
<1>1. Init => SP!Init
  BY SameInit DEF Init
<1>2. IInv /\ [Next]_vars => [SP!Next]_(SP!vars)
  BY IInvStep
<1>3. Spec => SP!Spec
  BY <1>1, <1>2, Invariant, PTL DEF Spec, SP!Spec
<1>4. SP!Spec => SP!ImplementsOutcome
  BY SignAssumption, SP!SigmaSignImplementsOutcome DEF SP!ConstantsAssumption
<1> QED
  BY <1>3, <1>4
-----------------------------------------------------------------------------
(***************************************************************************)
(* What EarlyRefusalIsSettled rests on: Trent never takes an ABORT or a    *)
(* claim of round 1 without a verdict that settles the contract, even when *)
(* he answers "dishonest", which the parties only log.                     *)
(***************************************************************************)

\* The requests that Trent has found.
Found == {c \in requests : ClaimOf(c) \in TP!Found}

\* "dishonest" is said only of those who come after an ABORT.
DishonestComesLater == (\E a \in trentAnswers : a.kind = "dishonest") => Heard # {}

\* No broadcast of Trent would change the status of p, or its signatures.
NothingNew(p) ==
  round[p] > 0 /\ ~ignoring[p] =>
    \A a \in Heard : a.verdict = "cancelled" /\ status[p] = "CANCELLED"

EarlyIsNotLeft ==
  \A c \in Found : c.round <= 1 /\ NothingNew(c.sender) =>
    status[c.sender] \in {"CANCELLED", "FINALIZED"}

\* resolveT accuses a sender only on the word of another claim: somebody's ABORT was
\* accepted before.
LEMMA AnswerIsNew ==
  ASSUME NEW c, T!resolve(c), ~ UNCHANGED trentAnswers
  PROVE  \E kind : /\ trentAnswers' = trentAnswers \cup {[kind |-> kind, claim |-> c]}
                   /\ kind = "dishonest" => claims # <<>>
<1> DEFINE says(kind) == trentAnswers' = trentAnswers \cup {[kind |-> kind, claim |-> c]}
<1>1. CASE T!ShowOtherDishonest(c)
  <2>1. says("honestyToken")
    BY <1>1 DEF T!ShowOtherDishonest, T!Broadcast
  <2> QED
    BY <2>1
<1>2. CASE T!ShowSelfDishonest(c)
  <2>1. says("dishonest") /\ T!OwnElsewhere(c) # {}
    BY <1>2 DEF T!ShowSelfDishonest, T!Broadcast
  <2>2. claims # <<>>
    BY <2>1 DEF T!OwnElsewhere, T!Size
  <2> QED
    BY <2>1, <2>2
<1>3. CASE T!ShownDishonest(c)
  <2>1. says("dishonest") /\ T!StopsAbove(c) # {}
    BY <1>3 DEF T!ShownDishonest, T!Broadcast
  <2>2. claims # <<>>
    BY <2>1 DEF T!StopsAbove, T!Size
  <2> QED
    BY <2>1, <2>2
<1>4. CASE T!Resolve(c)
  <2>1. says("resolved")
    BY <1>4 DEF T!Resolve, T!Broadcast
  <2> QED
    BY <2>1
<1>5. CASE T!Abort(c)
  <2>1. says("aborted")
    BY <1>5 DEF T!Abort, T!Broadcast
  <2> QED
    BY <2>1
<1>6. CASE T!FailToOpen(c) \/ T!Fail(c)
  BY <1>6 DEF T!FailToOpen, T!Fail
<1> QED
  BY <1>1, <1>2, <1>3, <1>4, <1>5, <1>6 DEF T!resolve

LEMMA DishonestStep ==
  ASSUME IInv, DishonestComesLater, [Next]_vars
  PROVE  DishonestComesLater'
<1>1. CASE UNCHANGED trentAnswers
  <2>1. Heard' = Heard
    BY <1>1 DEF Heard, T!VerdictOf
  <2> QED
    BY <1>1, <2>1 DEF DishonestComesLater
<1>2. ASSUME NEW c \in requests, Trent(c), ~ UNCHANGED trentAnswers
      PROVE  DishonestComesLater'
  <2> DEFINE d == ClaimOf(c)
  <2>0. T!resolve(d)
    BY <1>2 DEF Trent
  <2> HIDE DEF d
  <2>1. PICK kind : /\ trentAnswers' = trentAnswers \cup {[kind |-> kind, claim |-> d]}
                    /\ kind = "dishonest" => claims # <<>>
    BY <1>2, <2>0, AnswerIsNew
  <2>2. CASE kind = "dishonest"
    BY <2>1, <2>2, AbortIsHeard, HeardAfter DEF DishonestComesLater
  <2>3. CASE kind # "dishonest"
    BY <2>1, <2>3, HeardAfter DEF DishonestComesLater
  <2> QED
    BY <2>2, <2>3
<1> QED
  BY <1>1, <1>2 DEF Next, Parties, trentVars, vars

\* Whatever Trent has made of a request of the first two kinds, a verdict is out.
LEMMA EarlyIsHeard ==
  ASSUME IInv, DishonestComesLater, NEW c \in Found, c.round <= 1
  PROVE  Heard # {} /\ c \in requests
<1> DEFINE d == ClaimOf(c)
<1>1. c \in requests /\ d \in TP!Found /\ d.round <= 1 /\ d.round \in Int
  <2>1. c \in requests /\ ClaimOf(c) \in TP!Found
    BY DEF Found
  <2>2. ClaimOf(c).round = c.round /\ c.round \in Int
    BY <2>1, ClaimOfRequest, ConstantsAssumption DEF IInv
  <2> QED
    BY <2>1, <2>2
<1> HIDE DEF d
<1>2. CASE d \in unanswered
  <2>1. d.round >= 2
    BY <1>2, OnlyLateInv DEF OnlyLateClaimsFail
  <2> QED
    BY <1>1, <2>1
<1>3. ASSUME NEW a \in trentAnswers, a.claim = d
      PROVE  Heard # {}
  <2>1. CASE a.kind = "dishonest"
    BY <2>1 DEF DishonestComesLater
  <2>2. CASE a.kind # "dishonest"
    <3>1. a \in {b \in trentAnswers : b.kind # "dishonest"}
      BY <2>2
    <3> QED
      BY <3>1 DEF Heard
  <2> QED
    BY <2>1, <2>2
<1> QED
  BY <1>1, <1>2, <1>3 DEF TP!Found

\* A party whose ABORT or claim of round 1 Trent has found, and to which his broadcasts
\* say nothing new, has the contract CANCELLED or FINALIZED: EarlyRefusalIsSettled
\* only asks that requests and broadcasts are found.
THEOREM EarlyIsSettled == Spec => []EarlyIsNotLeft
<1> DEFINE Inv == IInv /\ DishonestComesLater /\ SP!IgnoringIsSettled
<1>1. Init => Inv
  <2> SUFFICES ASSUME Init PROVE Inv
    OBVIOUS
  <2>1. SP!Init /\ TP!Init
    BY SameInit, SameTrentInit DEF Init
  <2>2. trentAnswers = {} /\ \A p \in SP!Party : ~ignoring[p]
    BY <2>1 DEF SP!Init, TP!Init
  <2> QED
    BY <2>2, IInvInit DEF DishonestComesLater, SP!IgnoringIsSettled
<1>2. Inv /\ [Next]_vars => Inv'
  <2> SUFFICES ASSUME Inv, [Next]_vars PROVE Inv'
    OBVIOUS
  <2>1. IInv' /\ [SP!Next]_(SP!vars)
    BY IInvStep
  <2>2. SP!IgnoringIsSettled'
    BY <2>1, SignAssumption, SP!IgnoringStep DEF IInv, SP!ConstantsAssumption
  <2> QED
    BY <2>1, <2>2, DishonestStep
<1>3. ASSUME Inv PROVE EarlyIsNotLeft
  <2> SUFFICES ASSUME NEW c \in Found, c.round <= 1, NothingNew(c.sender)
               PROVE  status[c.sender] \in {"CANCELLED", "FINALIZED"}
    BY DEF EarlyIsNotLeft
  <2>1. Heard # {} /\ c \in requests
    BY <1>3, EarlyIsHeard
  <2>2. c.sender \in SP!Party /\ c.round \in 0..(N + 1)
    BY <1>3, <2>1, RequestsArrive DEF IInv, SP!Party
  <2>3. round[c.sender] = c.round + 1
    BY <1>3, <2>1 DEF IInv, SP!IInv, SP!RequestsAreLast
  <2>4. round[c.sender] > 0
    BY <2>2, <2>3, ConstantsAssumption
  <2>5. CASE ignoring[c.sender]
    BY <1>3, <2>2, <2>5 DEF SP!IgnoringIsSettled
  <2>6. CASE ~ignoring[c.sender]
    BY <2>1, <2>4, <2>6 DEF NothingNew
  <2> QED
    BY <2>5, <2>6
<1>4. Inv => EarlyIsNotLeft
  BY <1>3
<1> HIDE DEF Inv
<1>5. Spec => []Inv
  BY <1>1, <1>2, PTL DEF Spec
<1> QED
  BY <1>4, <1>5, PTL
=============================================================================
