------------------------- MODULE ContractRowsProofs -------------------------
(***************************************************************************)
(* Proofs about ContractRows, for any users, contracts, titles and terms,  *)
(* and any number of overlapping requests and restarts.                    *)
(*                                                                         *)
(* Nothing is locked, so what keeps the rows right is what a request may   *)
(* have done to its own copies (Copy), whatever the rows have become, and  *)
(* what the rows cannot have become since it read them (Settled,           *)
(* Together).                                                              *)
(***************************************************************************)
EXTENDS ContractRows, TLAPS

Kinds == {"edit", "cancel", "sign", "resume"}

\* An open request o and its copies of the row r.
Shape(o) ==
  /\ o = [kind |-> o.kind, saw |-> o.saw, clone |-> o.clone]
  /\ o.kind \in Kinds
  /\ DOMAIN o.saw \subseteq added \X Users
  /\ o.saw \in [DOMAIN o.saw -> Row]
  /\ o.clone \in [DOMAIN o.saw -> Row]

Copy(o, r) ==
  /\ o.kind = "edit" => o.saw[r].wish = "NEUTRAL" /\ o.clone[r].wish = "NEUTRAL"
  /\ o.kind # "edit" => TermsOf(o.clone[r]) = TermsOf(o.saw[r])
  /\ o.clone[r].wish = "NEUTRAL" => o.saw[r].wish = "NEUTRAL"
  /\ o.clone[r].wish = "REFUSE" => o.clone[r].status # "NOWHERE"
  /\ o.clone[r].status = "NOWHERE" => o.saw[r].status = "NOWHERE"
  /\ o.kind \in {"sign", "resume"} => Establisher(o.saw, r) \in published

Held(o) == Shape(o) /\ \A r \in DOMAIN o.saw : Copy(o, r)

Types == TypeOK /\ \A q \in Requests : open[q] # None => Held(open[q])

-----------------------------------------------------------------------------
LEMMA RowFields ==
  ASSUME NEW row \in Row
  PROVE  /\ row.clauses \in Clauses /\ row.parties \in PartySets
         /\ row.wish \in Wish /\ row.status \in Status
         /\ row.parties \subseteq Users
         /\ TermsOf(row) \in Terms
  BY ConstantsAssumption DEF Row, Terms, TermsOf

LEMMA ChangedTerms ==
  ASSUME NEW row \in Row, NEW c \in Clauses, NEW s \in PartySets, NEW new,
         new = [row EXCEPT !.clauses = c, !.parties = s]
  PROVE  /\ new \in Row /\ new.wish = row.wish /\ new.status = row.status
         /\ TermsOf(new) = [clauses |-> c, parties |-> s]
  BY DEF Row, TermsOf

LEMMA ChangedWish ==
  ASSUME NEW row \in Row, NEW w \in Wish, NEW new, new = [row EXCEPT !.wish = w]
  PROVE  /\ new \in Row /\ new.wish = w /\ new.status = row.status
         /\ TermsOf(new) = TermsOf(row)
  BY DEF Row, TermsOf

LEMMA ChangedBoth ==
  ASSUME NEW row \in Row, NEW w \in Wish, NEW st \in Status, NEW new,
         new = [row EXCEPT !.wish = w, !.status = st]
  PROVE  /\ new \in Row /\ new.wish = w /\ new.status = st
         /\ TermsOf(new) = TermsOf(row)
  BY DEF Row, TermsOf

LEMMA Merged ==
  ASSUME NEW row \in Row, NEW saw \in Row, NEW clone \in Row
  PROVE  LET new == Merge(row, saw, clone) IN
         /\ new \in Row
         /\ new.wish = IF clone.wish # saw.wish THEN clone.wish ELSE row.wish
         /\ new.status = IF clone.status # saw.status THEN clone.status ELSE row.status
         /\ new.clauses = IF clone.clauses # saw.clauses THEN clone.clauses ELSE row.clauses
         /\ new.parties = IF clone.parties # saw.parties THEN clone.parties ELSE row.parties
  BY DEF Row, Merge

LEMMA KeyOfRow ==
  ASSUME Types, NEW r \in DOMAIN rows
  PROVE  /\ r \in added \X Users /\ r[1] \in added /\ r[2] \in Users
         /\ rows[r] \in Row
  BY DEF Types, TypeOK

LEMMA ReadEffect ==
  ASSUME Types, NEW q \in Requests, NEW kind, NEW saw, NEW clone, Read(q, kind, saw, clone)
  PROVE  /\ open[q] = None /\ DOMAIN open' = Requests
         /\ open'[q] = [kind |-> kind, saw |-> saw, clone |-> clone]
         /\ \A p \in Requests : p # q => open'[p] = open[p]
  BY DEF Types, TypeOK, Read

\* A request goes on as long as contracts are only added, and nothing that was
\* published is taken back.
LEMMA HeldKeeps ==
  ASSUME NEW o, Held(o), added \subseteq added', published \subseteq published'
  PROVE  Held(o)'
  BY DEF Held, Shape, Copy, Establisher

LEMMA TypesInit == Init => Types
<1> SUFFICES ASSUME Init PROVE Types
  OBVIOUS
<1>1. TypeOK
  BY ConstantsAssumption DEF Init, TypeOK
<1> QED
  BY <1>1 DEF Init, Types

\* Types from its parts.
OpenIsHeld == \A q \in Requests : open[q] # None => Held(open[q])

RowsAreRows ==
  /\ added \subseteq Contracts
  /\ DOMAIN rows \subseteq added \X Users
  /\ rows \in [DOMAIN rows -> Row]

TellsOfPublished ==
  /\ running \subseteq published
  /\ published \subseteq [user : Users, terms : Terms]
  /\ promised \subseteq published

RestIsTyped ==
  /\ tokens \subseteq Users
  /\ todo \in [Users -> SUBSET Contracts]
  /\ asked \in 0..MaxAsked
  /\ crashes \in 0..MaxCrashes

LEMMA TypesParts ==
  Types <=> DOMAIN open = Requests /\ OpenIsHeld /\ RowsAreRows /\ TellsOfPublished /\ RestIsTyped
  BY DEF Types, TypeOK, OpenIsHeld, Held, Shape, Kinds, RowsAreRows, TellsOfPublished, RestIsTyped

LEMMA SetStatusEffect ==
  ASSUME Types, NEW q \in Requests, open[q] # None, NEW r \in DOMAIN open[q].clone,
         NEW s \in Status, SetStatus(q, r, s)
  PROVE  /\ DOMAIN open' = Requests
         /\ \A p \in Requests : p # q => open'[p] = open[p]
         /\ open'[q].kind = open[q].kind /\ open'[q].saw = open[q].saw
         /\ DOMAIN open'[q].clone = DOMAIN open[q].clone
         /\ open'[q].clone[r] = [open[q].clone[r] EXCEPT !.status = s]
         /\ \A x \in DOMAIN open[q].clone : x # r => open'[q].clone[x] = open[q].clone[x]
         /\ open'[q].clone \in [DOMAIN open[q].saw -> Row]
         /\ open'[q] = [kind |-> open'[q].kind, saw |-> open'[q].saw, clone |-> open'[q].clone]
<1>1. /\ Shape(open[q]) /\ DOMAIN open = Requests
  BY DEF Types, TypeOK, Held
<1> DEFINE old == open[q]
           new == [old EXCEPT !.clone[r].status = s]
<1>2. open' = [open EXCEPT ![q] = new]
  BY DEF SetStatus
<1>3. /\ old = [kind |-> old.kind, saw |-> old.saw, clone |-> old.clone]
      /\ old.clone \in [DOMAIN old.saw -> Row] /\ r \in DOMAIN old.saw
  BY <1>1 DEF Shape
<1>4. new = [kind |-> old.kind, saw |-> old.saw,
             clone |-> [old.clone EXCEPT ![r] = [@ EXCEPT !.status = s]]]
  BY <1>3
<1> HIDE DEF new
<1>5. [old.clone[r] EXCEPT !.status = s] \in Row
  BY <1>3 DEF Row
<1>6. /\ open'[q] = new /\ DOMAIN open' = Requests
      /\ \A p \in Requests : p # q => open'[p] = open[p]
  BY <1>1, <1>2
<1>7. /\ new.kind = old.kind /\ new.saw = old.saw
      /\ new.clone = [old.clone EXCEPT ![r] = [@ EXCEPT !.status = s]]
  BY <1>4
<1>8. /\ DOMAIN new.clone = DOMAIN old.clone
      /\ new.clone[r] = [old.clone[r] EXCEPT !.status = s]
      /\ \A x \in DOMAIN old.clone : x # r => new.clone[x] = old.clone[x]
      /\ new.clone \in [DOMAIN old.saw -> Row]
  BY <1>3, <1>5, <1>7
<1> QED
  BY <1>4, <1>6, <1>7, <1>8

LEMMA SetStatusHolds ==
  ASSUME Types, NEW q \in Requests, IsSign(q), NEW r \in DOMAIN open[q].clone,
         NEW s \in Status \ {"NOWHERE"}, SetStatus(q, r, s),
         added' = added, published' = published
  PROVE  DOMAIN open' = Requests /\ OpenIsHeld'
<1>0. open[q] # None /\ open[q].kind \in {"sign", "resume"} /\ s \in Status /\ s # "NOWHERE"
  BY DEF IsSign
<1>1. Held(open[q])
  BY <1>0 DEF Types
<1>2. /\ DOMAIN open' = Requests
      /\ \A p \in Requests : p # q => open'[p] = open[p]
      /\ open'[q].kind = open[q].kind /\ open'[q].saw = open[q].saw
      /\ open'[q].clone[r] = [open[q].clone[r] EXCEPT !.status = s]
      /\ \A x \in DOMAIN open[q].clone : x # r => open'[q].clone[x] = open[q].clone[x]
      /\ open'[q].clone \in [DOMAIN open[q].saw -> Row]
      /\ open'[q] = [kind |-> open'[q].kind, saw |-> open'[q].saw, clone |-> open'[q].clone]
  BY <1>0, SetStatusEffect
<1>3. Shape(open'[q])
  BY <1>1, <1>2 DEF Held, Shape
<1>4. ASSUME NEW x \in DOMAIN open[q].saw PROVE Copy(open'[q], x)
  <2>1. Copy(open[q], x) /\ open[q].clone[x] \in Row /\ x \in DOMAIN open[q].clone
    BY <1>1, <1>4 DEF Held, Shape
  <2>2. CASE x # r
    <3>1. open'[q].clone[x] = open[q].clone[x]
      BY <1>2, <2>1, <2>2
    <3> QED
      BY <1>2, <2>1, <3>1 DEF Copy
  <2>3. CASE x = r
    <3>1. /\ open'[q].clone[r].wish = open[q].clone[r].wish /\ open'[q].clone[r].status = s
          /\ TermsOf(open'[q].clone[r]) = TermsOf(open[q].clone[r])
      BY <1>2, <2>1, <2>3 DEF Row, TermsOf
    <3> QED
      BY <1>0, <1>2, <2>1, <2>3, <3>1 DEF Copy
  <2> QED
    BY <2>2, <2>3
<1>5. Held(open'[q])
  BY <1>2, <1>3, <1>4 DEF Held
<1>6. \A p \in Requests : open'[p] # None => Held(open'[p])
  BY <1>2, <1>5 DEF Types
<1> QED
  BY <1>2, <1>6, HeldKeeps DEF OpenIsHeld


\* A request that was just read is held.
LEMMA ReadHolds ==
  ASSUME Types, NEW q \in Requests, NEW kind, NEW saw, NEW clone, Read(q, kind, saw, clone),
         added' = added, published \subseteq published',
         Held([kind |-> kind, saw |-> saw, clone |-> clone])'
  PROVE  DOMAIN open' = Requests /\ OpenIsHeld'
<1>1. \A p \in Requests : \A o : o = open'[p] /\ o # None => Held(o)'
  BY ReadEffect, HeldKeeps DEF Types
<1> QED
  BY <1>1, ReadEffect DEF OpenIsHeld

\* So it is when all its copies are.
LEMMA CopiesHold ==
  ASSUME Types, NEW kind \in Kinds, NEW saw, NEW clone,
         DOMAIN saw \subseteq DOMAIN rows, \A r \in DOMAIN saw : saw[r] = rows[r],
         saw = [r \in DOMAIN saw |-> saw[r]],
         clone \in [DOMAIN saw -> Row], added' = added,
         \A r \in DOMAIN saw : Copy([kind |-> kind, saw |-> saw, clone |-> clone], r)'
  PROVE  Held([kind |-> kind, saw |-> saw, clone |-> clone])'
<1>1. \A r \in DOMAIN saw : r \in added \X Users /\ saw[r] \in Row
  BY KeyOfRow
<1> DEFINE o == [kind |-> kind, saw |-> saw, clone |-> clone]
<1>2. o.kind = kind /\ o.saw = saw /\ o.clone = clone /\ o = [kind |-> o.kind, saw |-> o.saw, clone |-> o.clone]
  OBVIOUS
<1> HIDE DEF o
<1>3. Shape(o)'
  BY <1>1, <1>2 DEF Shape
<1>4. Held(o)'
  BY <1>2, <1>3 DEF Held, o
<1> QED
  BY <1>4 DEF o

LEMMA OneCopyHolds ==
  ASSUME Types, NEW kind \in Kinds \ {"edit"}, NEW r \in DOMAIN rows, NEW row \in Row,
         TermsOf(row) = TermsOf(rows[r]), added' = added,
         row.wish = "REFUSE" => row.status # "NOWHERE",
         row.wish = "NEUTRAL" => rows[r].wish = "NEUTRAL",
         row.status = "NOWHERE" => rows[r].status = "NOWHERE",
         kind \in {"sign", "resume"} => Establisher(rows, r) \in published',
         NEW saw, saw = [x \in {r} |-> rows[x]],
         NEW clone, clone = [x \in {r} |-> row]
  PROVE  Held([kind |-> kind, saw |-> saw, clone |-> clone])'
<1> DEFINE o == [kind |-> kind, saw |-> saw, clone |-> clone]
<1>1. /\ DOMAIN saw = {r} /\ DOMAIN clone = {r} /\ saw[r] = rows[r] /\ clone[r] = row
      /\ clone \in [{r} -> Row] /\ saw = [x \in DOMAIN saw |-> saw[x]]
      /\ o.kind = kind /\ o.saw = saw /\ o.clone = clone
  OBVIOUS
<1>2. Establisher(saw, r) = Establisher(rows, r)
  BY <1>1 DEF Establisher
<1> HIDE DEF o
<1>3. Copy(o, r)'
  BY <1>1, <1>2 DEF Copy
<1>4. /\ kind \in Kinds /\ DOMAIN saw \subseteq DOMAIN rows
      /\ \A x \in DOMAIN saw : saw[x] = rows[x] /\ x = r
      /\ clone \in [DOMAIN saw -> Row]
  BY <1>1
<1>5. \A x \in DOMAIN saw : Copy([kind |-> kind, saw |-> saw, clone |-> clone], x)'
  BY <1>3, <1>4 DEF o
<1> QED
  BY <1>1, <1>4, <1>5, CopiesHold

\* The copies of an edit.
EditCopies(on, clone) ==
  /\ clone \in [on -> Row]
  /\ \A r \in on : clone[r].wish = rows[r].wish /\ clone[r].status = rows[r].status

AllHave(on, clone, terms) == \A r \in on : TermsOf(clone[r]) = terms

LEMMA EditHolds ==
  ASSUME Types, NEW on, on \subseteq DOMAIN rows, \A r \in on : rows[r].wish = "NEUTRAL",
         added' = added, NEW saw, saw = [r \in on |-> rows[r]],
         NEW clone, EditCopies(on, clone)
  PROVE  Held([kind |-> "edit", saw |-> saw, clone |-> clone])'
<1> DEFINE o == [kind |-> "edit", saw |-> saw, clone |-> clone]
<1>1. /\ DOMAIN saw = on /\ saw = [x \in DOMAIN saw |-> saw[x]]
      /\ \A r \in on : saw[r] = rows[r]
      /\ o.kind = "edit" /\ o.saw = saw /\ o.clone = clone
  OBVIOUS
<1> HIDE DEF o
<1>2. ASSUME NEW r \in on PROVE Copy(o, r)'
  BY <1>1 DEF Copy, EditCopies
<1>3. clone \in [DOMAIN saw -> Row] /\ DOMAIN saw \subseteq DOMAIN rows
  BY <1>1 DEF EditCopies
<1>4. \A r \in DOMAIN saw : Copy([kind |-> "edit", saw |-> saw, clone |-> clone], r)'
  BY <1>1, <1>2 DEF o
<1>5. "edit" \in Kinds
  BY DEF Kinds
<1> QED
  BY <1>1, <1>3, <1>4, <1>5, CopiesHold

LEMMA EditIsEditCopies ==
  ASSUME Types, NEW on, on \subseteq DOMAIN rows, NEW c \in Clauses, NEW s \in PartySets,
         NEW clone, clone = [r \in on |-> [rows[r] EXCEPT !.clauses = c, !.parties = s]]
  PROVE  EditCopies(on, clone) /\ AllHave(on, clone, [clauses |-> c, parties |-> s])
<1> DEFINE new(row) == [row EXCEPT !.clauses = c, !.parties = s]
<1>1. \A row \in Row : /\ new(row) \in Row /\ new(row).wish = row.wish /\ new(row).status = row.status
                      /\ TermsOf(new(row)) = [clauses |-> c, parties |-> s]
  BY ChangedTerms
<1>2. clone = [r \in on |-> new(rows[r])]
  OBVIOUS
<1>3. \A r \in on : rows[r] \in Row
  BY KeyOfRow
<1> HIDE DEF new
<1>4. \A r \in on : new(rows[r]) \in Row
  BY <1>1, <1>3
<1>5. clone \in [on -> Row]
  BY <1>2, <1>4
<1>6. \A r \in on : clone[r] = new(rows[r])
  BY <1>2
<1>7. ASSUME NEW r \in on
      PROVE  /\ clone[r].wish = rows[r].wish /\ clone[r].status = rows[r].status
             /\ TermsOf(clone[r]) = [clauses |-> c, parties |-> s]
  <2>1. clone[r] = new(rows[r]) /\ rows[r] \in Row
    BY <1>3, <1>6
  <2>2. /\ new(rows[r]).wish = rows[r].wish /\ new(rows[r]).status = rows[r].status
        /\ TermsOf(new(rows[r])) = [clauses |-> c, parties |-> s]
    BY <1>1, <2>1
  <2> QED
    BY <2>1, <2>2
<1> QED
  BY <1>5, <1>7 DEF EditCopies, AllHave


\* What sign and cancel read and make of it.
LEMMA CancelReads ==
  ASSUME Types, NEW q \in Requests, NEW r, Cancel(q, r)
  PROVE  /\ r \in DOMAIN rows
         /\ \E row \in Row : \E saw, clone :
              /\ Read(q, "cancel", saw, clone)
              /\ saw = [x \in {r} |-> rows[x]] /\ clone = [x \in {r} |-> row]
              /\ TermsOf(row) = TermsOf(rows[r])
              /\ row.wish = "REFUSE" /\ row.status # "NOWHERE"
<1>0. r \in DOMAIN rows /\ rows[r] \in Row
  BY KeyOfRow DEF Cancel
<1>1. CASE /\ rows[r].status = "NOWHERE"
           /\ Read(q, "cancel", [x \in {r} |-> rows[x]],
                   [x \in {r} |-> [rows[x] EXCEPT !.wish = "REFUSE", !.status = "CANCELLED"]])
  <2> DEFINE row == [rows[r] EXCEPT !.wish = "REFUSE", !.status = "CANCELLED"]
  <2>0. "REFUSE" \in Wish /\ "CANCELLED" \in Status
    BY DEF Wish, Status
  <2>1. /\ row \in Row /\ row.wish = "REFUSE" /\ row.status = "CANCELLED"
        /\ TermsOf(row) = TermsOf(rows[r])
    BY <1>0, <2>0 DEF Row, TermsOf
  <2>2. [x \in {r} |-> [rows[x] EXCEPT !.wish = "REFUSE", !.status = "CANCELLED"]] = [x \in {r} |-> row]
    BY Zenon
  <2> HIDE DEF row
  <2>3. Read(q, "cancel", [x \in {r} |-> rows[x]], [x \in {r} |-> row])
    BY <1>1, <2>2
  <2> QED
    BY <1>0, <2>1, <2>3
<1>2. CASE /\ rows[r].status = "SIGNING"
           /\ Read(q, "cancel", [x \in {r} |-> rows[x]],
                   [x \in {r} |-> [rows[x] EXCEPT !.wish = "REFUSE"]])
  <2> DEFINE row == [rows[r] EXCEPT !.wish = "REFUSE"]
  <2>0. "REFUSE" \in Wish
    BY DEF Wish
  <2>1. /\ row \in Row /\ row.wish = "REFUSE" /\ row.status = "SIGNING"
        /\ TermsOf(row) = TermsOf(rows[r])
    BY <1>0, <1>2, <2>0, ChangedWish
  <2>2. [x \in {r} |-> [rows[x] EXCEPT !.wish = "REFUSE"]] = [x \in {r} |-> row]
    OBVIOUS
  <2> HIDE DEF row
  <2>3. Read(q, "cancel", [x \in {r} |-> rows[x]], [x \in {r} |-> row])
    BY <1>2, <2>2
  <2> QED
    BY <1>0, <2>1, <2>3
<1> QED
  BY <1>0, <1>1, <1>2 DEF Cancel

LEMMA SignReads ==
  ASSUME Types, NEW q \in Requests, NEW kind, NEW r, Sign(q, kind, r)
  PROVE  /\ r \in DOMAIN rows
         /\ \E row \in Row : \E saw, clone :
              /\ Read(q, kind, saw, clone)
              /\ saw = [x \in {r} |-> rows[x]] /\ clone = [x \in {r} |-> row]
              /\ TermsOf(row) = TermsOf(rows[r])
              /\ row.wish = "ACCEPT" /\ row.status = rows[r].status
<1>0. r \in DOMAIN rows /\ rows[r] \in Row
  BY KeyOfRow DEF Sign
<1> DEFINE row == [rows[r] EXCEPT !.wish = "ACCEPT"]
<1>1. "ACCEPT" \in Wish
  BY DEF Wish
<1>2. /\ row \in Row /\ row.wish = "ACCEPT" /\ row.status = rows[r].status
      /\ TermsOf(row) = TermsOf(rows[r])
  BY <1>0, <1>1, ChangedWish
<1>3. [x \in {r} |-> [rows[x] EXCEPT !.wish = "ACCEPT"]] = [x \in {r} |-> row]
  OBVIOUS
<1> HIDE DEF row
<1>4. Read(q, kind, [x \in {r} |-> rows[x]], [x \in {r} |-> row])
  BY <1>3 DEF Sign
<1> QED
  BY <1>0, <1>2, <1>4

\* What a commit may make of a row.
LEMMA WrittenRow ==
  ASSUME Types, NEW q \in Requests, open[q] # None, NEW r \in DOMAIN rows
  PROVE  /\ Written(q)[r] \in Row
         /\ r \notin DOMAIN open[q].saw => Written(q)[r] = rows[r]
         /\ r \in DOMAIN open[q].saw => Written(q)[r] = Merge(rows[r], open[q].saw[r], open[q].clone[r])
         /\ Written(q)[r].status = "NOWHERE" => rows[r].status = "NOWHERE"
         /\ Written(q)[r].wish = "NEUTRAL" => rows[r].wish = "NEUTRAL"
         /\ TermsOf(Written(q)[r]) # TermsOf(rows[r]) =>
              r \in DOMAIN open[q].saw /\ open[q].kind = "edit"
<1> DEFINE o == open[q]
<1>0. rows[r] \in Row /\ Held(o)
  BY KeyOfRow DEF Types
<1>1. CASE r \notin DOMAIN o.saw
  <2>1. Written(q)[r] = rows[r]
    BY <1>1 DEF Written
  <2> QED
    BY <1>0, <1>1, <2>1
<1>2. CASE r \in DOMAIN o.saw
  <2>1. Written(q)[r] = Merge(rows[r], o.saw[r], o.clone[r])
    BY <1>2 DEF Written
  <2>2. o.saw[r] \in Row /\ o.clone[r] \in Row /\ Copy(o, r)
    BY <1>0, <1>2 DEF Held, Shape
  <2>3. LET new == Written(q)[r] IN
         /\ new \in Row
         /\ new.wish = IF o.clone[r].wish # o.saw[r].wish THEN o.clone[r].wish ELSE rows[r].wish
         /\ new.status = IF o.clone[r].status # o.saw[r].status THEN o.clone[r].status ELSE rows[r].status
         /\ new.clauses = IF o.clone[r].clauses # o.saw[r].clauses THEN o.clone[r].clauses ELSE rows[r].clauses
         /\ new.parties = IF o.clone[r].parties # o.saw[r].parties THEN o.clone[r].parties ELSE rows[r].parties
    BY <1>0, <2>1, <2>2, Merged
  <2>4. o.kind # "edit" => o.clone[r].clauses = o.saw[r].clauses /\ o.clone[r].parties = o.saw[r].parties
    BY <2>2 DEF Copy, TermsOf
  <2>5. o.kind # "edit" => TermsOf(Written(q)[r]) = TermsOf(rows[r])
    BY <2>3, <2>4 DEF TermsOf
  <2> HIDE DEF o
  <2>6. /\ Written(q)[r].status = "NOWHERE" => rows[r].status = "NOWHERE"
        /\ Written(q)[r].wish = "NEUTRAL" => rows[r].wish = "NEUTRAL"
    BY <2>2, <2>3 DEF Copy
  <2> QED
    BY <1>2, <2>1, <2>3, <2>5, <2>6 DEF o
<1> QED
  BY <1>1, <1>2

-----------------------------------------------------------------------------
\* Steps that leave the open requests alone, or end one of them.
LEMMA OpenSame ==
  ASSUME Types, open' = open, added \subseteq added', published \subseteq published'
  PROVE  DOMAIN open' = Requests /\ OpenIsHeld'
<1>1. \A p \in Requests : \A o : o = open[p] /\ o # None => Held(o)'
  BY HeldKeeps DEF Types
<1> QED
  BY <1>1 DEF OpenIsHeld, Types, TypeOK

LEMMA OpenEnds ==
  ASSUME Types, NEW q \in Requests, open' = [open EXCEPT ![q] = None],
         added' = added, published' = published
  PROVE  DOMAIN open' = Requests /\ OpenIsHeld'
<1>1. DOMAIN open' = Requests /\ \A p \in Requests : open'[p] # None => open'[p] = open[p]
  BY DEF Types, TypeOK
<1>2. \A p \in Requests : \A o : o = open'[p] /\ o # None => Held(o)'
  BY <1>1, HeldKeeps DEF Types
<1> QED
  BY <1>1, <1>2 DEF OpenIsHeld

\* The establisher of a request that is over was published.
LEMMA DetachedIsPublished ==
  ASSUME Types, NEW q \in Requests
  PROVE  Detached(q) \subseteq published
<1>1. running \subseteq published
  BY DEF Types, TypeOK
<1>2. IsSign(q) => \A r \in DOMAIN open[q].saw : Establisher(open[q].saw, r) \in published
  BY DEF IsSign, Types, Held, Copy
<1> QED
  BY <1>1, <1>2 DEF Detached

\* An establisher has the terms that were read, which were published.
LEMMA CloneIsPublished ==
  ASSUME Types, NEW q \in Requests, IsSign(q), NEW r \in DOMAIN open[q].clone
  PROVE  Establisher(open[q].clone, r) \in published
<1>1. /\ Held(open[q]) /\ open[q].kind \in {"sign", "resume"}
  BY DEF IsSign, Types
<1>2. r \in DOMAIN open[q].saw
  BY <1>1 DEF Held, Shape
<1>3. TermsOf(open[q].clone[r]) = TermsOf(open[q].saw[r]) /\ Establisher(open[q].saw, r) \in published
  BY <1>1, <1>2 DEF Held, Copy
<1> QED
  BY <1>3 DEF Establisher

LEMMA PublishedSigns ==
  ASSUME Types, NEW r \in DOMAIN rows
  PROVE  Establisher(rows, r) \in [user : Users, terms : Terms]
  BY KeyOfRow, RowFields DEF Establisher

LEMMA TypesStep == Types /\ [Next]_vars => Types'
<1> SUFFICES ASSUME Types, [Next]_vars PROVE Types'
  OBVIOUS
<1>0. OpenIsHeld /\ RowsAreRows /\ TellsOfPublished /\ RestIsTyped
  BY TypesParts
<1>a. ASSUME UNCHANGED dbVars PROVE added' = added /\ rows' = rows /\ RowsAreRows'
  BY <1>0, <1>a DEF dbVars, RowsAreRows
<1>b. ASSUME UNCHANGED <<running, published, promised>> PROVE TellsOfPublished'
  BY <1>0, <1>b DEF TellsOfPublished
<1>c. ASSUME DOMAIN open' = Requests, OpenIsHeld', RowsAreRows', TellsOfPublished', RestIsTyped'
      PROVE  Types'
  BY <1>c DEF Types, TypeOK, OpenIsHeld, Held, Shape, Kinds, RowsAreRows, TellsOfPublished, RestIsTyped
<1>d. ASSUME UNCHANGED <<tokens, todo, asked, crashes>> PROVE RestIsTyped'
  BY <1>0, <1>d DEF RestIsTyped
<1>1. ASSUME NEW k \in Contracts, NEW u \in Users, NEW c \in Clauses, NEW s \in PartySets, Add(k, u, c, s)
      PROVE  Types'
  <2>1. /\ added' = added \cup {k} /\ s \subseteq Users /\ open' = open
        /\ DOMAIN rows' = DOMAIN rows \cup ({k} \X s)
        /\ UNCHANGED <<running, published, promised, tokens, todo, asked, crashes>>
    BY <1>1, ConstantsAssumption DEF Add
  <2>2. \A r \in DOMAIN rows' :
          rows'[r] = IF r \in DOMAIN rows THEN rows[r]
                     ELSE [clauses |-> c, parties |-> s, wish |-> "NEUTRAL", status |-> "NOWHERE"]
    BY <1>1 DEF Add
  <2>3. [clauses |-> c, parties |-> s, wish |-> "NEUTRAL", status |-> "NOWHERE"] \in Row
    BY DEF Row, Wish, Status
  <2>4. DOMAIN rows' \subseteq added' \X Users /\ rows' = [r \in DOMAIN rows' |-> rows'[r]]
    BY <1>0, <1>1, <2>1 DEF RowsAreRows, Add
  <2>5. RowsAreRows'
    BY <1>0, <2>1, <2>2, <2>3, <2>4 DEF RowsAreRows
  <2> QED
    BY <1>0, <1>b, <2>1, <2>5, OpenSame, <1>c, <1>d
<1>2. ASSUME NEW q \in Requests, NEW t, NEW u \in Users, NEW c \in Clauses, NEW s \in PartySets,
             Edit(q, t, u, c, s)
      PROVE  Types'
  <2> DEFINE on == EditTargets(t, u)
  <2>1. on \subseteq DOMAIN rows /\ \A r \in on : rows[r].wish = "NEUTRAL"
    BY DEF EditTargets
  <2> HIDE DEF on
  <2>2. /\ UNCHANGED dbVars /\ UNCHANGED <<running, published, promised>>
        /\ UNCHANGED <<tokens, todo, crashes>> /\ Ask
        /\ \E saw, clone : /\ Read(q, "edit", saw, clone)
                          /\ saw = [r \in on |-> rows[r]]
                          /\ EditCopies(on, clone)
    <3> DEFINE saw == [r \in on |-> rows[r]]
               clone == [r \in on |-> [rows[r] EXCEPT !.clauses = c, !.parties = s]]
    <3>1. EditCopies(on, clone)
      BY <2>1, EditIsEditCopies
    <3>2. Read(q, "edit", saw, clone)
      BY <1>2 DEF Edit, on
    <3> HIDE DEF clone
    <3> QED
      BY <1>2, <3>1, <3>2 DEF Edit
  <2>3. PICK saw, clone : /\ Read(q, "edit", saw, clone)
                          /\ saw = [r \in on |-> rows[r]]
                          /\ EditCopies(on, clone)
    BY <2>2
  <2>4. Held([kind |-> "edit", saw |-> saw, clone |-> clone])'
    BY <1>a, <2>1, <2>2, <2>3, EditHolds
  <2>5. DOMAIN open' = Requests /\ OpenIsHeld'
    BY <1>a, <2>2, <2>3, <2>4, ReadHolds
  <2>6. RestIsTyped'
    BY <1>0, <2>2, ConstantsAssumption DEF Ask, RestIsTyped
  <2> QED
    BY <1>a, <1>b, <2>2, <2>5, <2>6, <1>c
<1>3. ASSUME NEW q \in Requests, NEW r \in Key, Cancel(q, r) PROVE Types'
  <2>1. /\ UNCHANGED dbVars /\ UNCHANGED <<running, published, promised>>
        /\ UNCHANGED <<tokens, todo, crashes>> /\ Ask
    BY <1>3 DEF Cancel
  <2>2. /\ r \in DOMAIN rows
        /\ \E row \in Row : \E saw, clone :
              /\ Read(q, "cancel", saw, clone)
              /\ saw = [x \in {r} |-> rows[x]] /\ clone = [x \in {r} |-> row]
              /\ TermsOf(row) = TermsOf(rows[r])
              /\ row.wish = "REFUSE" /\ row.status # "NOWHERE"
    BY <1>3, CancelReads
  <2>3. PICK row \in Row : \E saw, clone :
              /\ Read(q, "cancel", saw, clone)
              /\ saw = [x \in {r} |-> rows[x]] /\ clone = [x \in {r} |-> row]
              /\ TermsOf(row) = TermsOf(rows[r])
              /\ row.wish = "REFUSE" /\ row.status # "NOWHERE"
    BY <2>2
  <2>4. PICK saw, clone :
              /\ Read(q, "cancel", saw, clone)
              /\ saw = [x \in {r} |-> rows[x]] /\ clone = [x \in {r} |-> row]
    BY <2>3
  <2>5. "cancel" \in Kinds \ {"edit"} /\ "cancel" \notin {"sign", "resume"}
    BY DEF Kinds
  <2>6. Held([kind |-> "cancel", saw |-> saw, clone |-> clone])'
    BY <1>a, <2>1, <2>2, <2>3, <2>4, <2>5, OneCopyHolds
  <2>7. DOMAIN open' = Requests /\ OpenIsHeld'
    BY <1>a, <2>1, <2>4, <2>6, ReadHolds
  <2>8. RestIsTyped'
    BY <1>0, <2>1, ConstantsAssumption DEF Ask, RestIsTyped
  <2> QED
    BY <1>a, <1>b, <2>1, <2>7, <2>8, <1>c
<1>4. ASSUME NEW r \in Key, Delete(r) PROVE Types'
  <2>1. /\ DOMAIN rows' \subseteq DOMAIN rows /\ rows' = [x \in DOMAIN rows' |-> rows'[x]]
        /\ \A x \in DOMAIN rows' : rows'[x] = rows[x]
        /\ UNCHANGED <<added, open, running, published, promised, tokens, todo, asked, crashes>>
    BY <1>4 DEF Delete
  <2>2. RowsAreRows'
    BY <1>0, <2>1 DEF RowsAreRows
  <2> QED
    BY <1>0, <1>b, <2>1, <2>2, OpenSame, <1>c, <1>d
<1>5. ASSUME NEW q \in Requests, NEW kind \in {"sign", "resume"}, NEW r, Sign(q, kind, r),
             UNCHANGED dbVars, UNCHANGED <<running, promised>>, RestIsTyped'
      PROVE  Types'
  <2>1. /\ r \in DOMAIN rows
        /\ \E row \in Row : \E saw, clone :
              /\ Read(q, kind, saw, clone)
              /\ saw = [x \in {r} |-> rows[x]] /\ clone = [x \in {r} |-> row]
              /\ TermsOf(row) = TermsOf(rows[r])
              /\ row.wish = "ACCEPT" /\ row.status = rows[r].status
    BY <1>5, SignReads
  <2>2. PICK row \in Row : \E saw, clone :
              /\ Read(q, kind, saw, clone)
              /\ saw = [x \in {r} |-> rows[x]] /\ clone = [x \in {r} |-> row]
              /\ TermsOf(row) = TermsOf(rows[r])
              /\ row.wish = "ACCEPT" /\ row.status = rows[r].status
    BY <2>1
  <2>3. PICK saw, clone :
              /\ Read(q, kind, saw, clone)
              /\ saw = [x \in {r} |-> rows[x]] /\ clone = [x \in {r} |-> row]
    BY <2>2
  <2>4. kind \in Kinds \ {"edit"}
    BY DEF Kinds
  <2>5. published' = published \cup {Establisher(rows, r)}
    BY <1>5 DEF Sign
  <2>6. Held([kind |-> kind, saw |-> saw, clone |-> clone])'
    BY <1>a, <1>5, <2>1, <2>2, <2>3, <2>4, <2>5, OneCopyHolds
  <2>7. DOMAIN open' = Requests /\ OpenIsHeld'
    BY <1>a, <1>5, <2>3, <2>5, <2>6, ReadHolds
  <2>8. TellsOfPublished'
    BY <1>0, <1>5, <2>1, <2>5, PublishedSigns DEF TellsOfPublished
  <2> QED
    BY <1>a, <1>5, <2>7, <2>8, <1>c
<1>6. ASSUME NEW q \in Requests, NEW r \in Key, SignContract(q, r) PROVE Types'
  <2>1. Sign(q, "sign", r) /\ UNCHANGED dbVars /\ UNCHANGED <<running, promised>>
    BY <1>6 DEF SignContract
  <2>2. RestIsTyped'
    BY <1>0, <1>6, ConstantsAssumption DEF SignContract, Ask, RestIsTyped
  <2> QED
    BY <1>5, <2>1, <2>2
<1>7. ASSUME NEW q \in Requests, NEW u \in Users, NEW k \in Contracts, Resume(q, u, k) PROVE Types'
  <2>1. Sign(q, "resume", <<k, u>>) /\ UNCHANGED dbVars /\ UNCHANGED <<running, promised>>
    BY <1>7 DEF Resume
  <2>2. RestIsTyped'
    BY <1>0, <1>7 DEF Resume, RestIsTyped
  <2> QED
    BY <1>5, <2>1, <2>2
<1>8. ASSUME NEW q \in Requests, NEW r \in Key, BeginsToSign(q, r) PROVE Types'
  <2>1. /\ IsSign(q) /\ r \in DOMAIN open[q].clone /\ SetStatus(q, r, "SIGNING")
        /\ promised' = promised \cup {Establisher(open[q].clone, r)}
        /\ UNCHANGED dbVars /\ UNCHANGED <<running, published, tokens, todo, asked, crashes>>
    BY <1>8 DEF BeginsToSign
  <2>2. "SIGNING" \in Status \ {"NOWHERE"}
    BY DEF Status
  <2>3. DOMAIN open' = Requests /\ OpenIsHeld'
    BY <1>a, <2>1, <2>2, SetStatusHolds
  <2>4. TellsOfPublished'
    BY <1>0, <2>1, CloneIsPublished DEF TellsOfPublished
  <2> QED
    BY <1>0, <1>a, <2>1, <2>3, <2>4, <1>c, <1>d
<1>9. ASSUME NEW q \in Requests, NEW r \in Key, Finalizes(q, r) PROVE Types'
  <2>1. /\ IsSign(q) /\ r \in DOMAIN open[q].clone /\ SetStatus(q, r, "FINALIZED")
        /\ UNCHANGED dbVars /\ UNCHANGED <<running, published, promised>>
        /\ UNCHANGED <<tokens, todo, asked, crashes>>
    BY <1>9 DEF Finalizes
  <2>2. "FINALIZED" \in Status \ {"NOWHERE"}
    BY DEF Status
  <2>3. DOMAIN open' = Requests /\ OpenIsHeld'
    BY <1>a, <2>1, <2>2, SetStatusHolds
  <2> QED
    BY <1>0, <1>a, <1>b, <2>1, <2>3, <1>c, <1>d
<1>10. ASSUME NEW e \in running, BeginsLater(e) PROVE Types'
  <2>1. /\ promised' = promised \cup {e} /\ open' = open
        /\ UNCHANGED dbVars /\ UNCHANGED <<running, published, tokens, todo, asked, crashes>>
    BY <1>10 DEF BeginsLater
  <2>2. TellsOfPublished'
    BY <1>0, <2>1 DEF TellsOfPublished
  <2> QED
    BY <1>0, <1>a, <2>1, <2>2, OpenSame, <1>c, <1>d
<1>11. ASSUME NEW q \in Requests, Commit(q) PROVE Types'
  <2>1. /\ open[q] # None /\ rows' = Written(q) /\ open' = [open EXCEPT ![q] = None]
        /\ running' = Detached(q) /\ added' = added /\ published' = published
        /\ UNCHANGED <<promised, tokens, todo, asked, crashes>>
    BY <1>11 DEF Commit
  <2>2. DOMAIN rows' = DOMAIN rows /\ rows' = [r \in DOMAIN rows' |-> rows'[r]]
    BY <2>1 DEF Written
  <2>3. \A r \in DOMAIN rows' : rows'[r] \in Row
    BY <2>1, <2>2, WrittenRow
  <2>4. RowsAreRows'
    BY <1>0, <2>1, <2>2, <2>3 DEF RowsAreRows
  <2>5. TellsOfPublished'
    BY <1>0, <2>1, DetachedIsPublished DEF TellsOfPublished
  <2> QED
    BY <1>0, <2>1, <2>4, <2>5, OpenEnds, <1>c, <1>d
<1>12. ASSUME NEW q \in Requests, NEW r \in Key, Throws(q, r) PROVE Types'
  <2>1. /\ open' = [open EXCEPT ![q] = None] /\ running' = Detached(q)
        /\ UNCHANGED dbVars /\ published' = published
        /\ UNCHANGED <<promised, tokens, asked, crashes>>
        /\ todo' = (IF open[q].kind = "resume" THEN [todo EXCEPT ![r[2]] = {}] ELSE todo)
    BY <1>12 DEF Throws
  <2>2. TellsOfPublished'
    BY <1>0, <2>1, DetachedIsPublished DEF TellsOfPublished
  <2>3. RestIsTyped'
    BY <1>0, <2>1 DEF RestIsTyped
  <2> QED
    BY <1>0, <1>a, <2>1, <2>2, <2>3, OpenEnds, <1>c
<1>13. ASSUME NEW u \in Users, List(u) \/ Login(u) \/ Logout(u) \/ (\E k \in Contracts : SkipOrFail(u, k))
       PROVE  Types'
  <2>1. /\ open' = open /\ UNCHANGED dbVars /\ UNCHANGED <<running, published, promised>>
    BY <1>13 DEF List, Login, Logout, SkipOrFail
  <2>2. RestIsTyped'
    <3>1. CASE List(u)
      BY <1>0, <3>1 DEF List, Accepted, RestIsTyped
    <3>2. CASE Login(u)
      BY <1>0, <3>2 DEF Login, RestIsTyped
    <3>3. CASE Logout(u)
      BY <1>0, <3>3, ConstantsAssumption DEF Logout, Ask, RestIsTyped
    <3>4. CASE \E k \in Contracts : SkipOrFail(u, k)
      BY <1>0, <3>4 DEF SkipOrFail, RestIsTyped
    <3> QED
      BY <1>13, <3>1, <3>2, <3>3, <3>4
  <2> QED
    BY <1>a, <1>b, <2>1, <2>2, OpenSame, <1>c
<1>14. CASE Restart
  <2>1. /\ open' = [q \in Requests |-> None] /\ running' = {} /\ tokens' = {}
        /\ todo' = [u \in Users |-> {}] /\ UNCHANGED dbVars /\ UNCHANGED <<published, promised, asked>>
    BY <1>14 DEF Restart
  <2>2. DOMAIN open' = Requests /\ OpenIsHeld'
    BY <2>1 DEF OpenIsHeld
  <2>3. TellsOfPublished'
    BY <1>0, <2>1 DEF TellsOfPublished
  <2>4. RestIsTyped'
    BY <1>0, <1>14, <2>1, ConstantsAssumption DEF Restart, RestIsTyped
  <2> QED
    BY <1>a, <2>1, <2>2, <2>3, <2>4, <1>c
<1>15. CASE UNCHANGED vars
  <2>1. /\ open' = open /\ UNCHANGED dbVars /\ UNCHANGED <<running, published, promised>>
        /\ UNCHANGED <<tokens, todo, asked, crashes>>
    BY <1>15 DEF vars
  <2> QED
    BY <1>0, <1>a, <1>b, <2>1, OpenSame, <1>c, <1>d
<1> QED
  BY <1>1, <1>2, <1>3, <1>4, <1>6, <1>7, <1>8, <1>9, <1>10, <1>11, <1>12, <1>13, <1>14, <1>15 DEF Next

\* Rows, copies, establishers and advertisements keep their types, and whoever
\* runs or has promised has published that he is ready.
THEOREM TypeCorrect == Spec => []TypeOK
<1>1. Types => TypeOK
  BY DEF Types
<1> QED
  BY TypesInit, TypesStep, <1>1, PTL DEF Spec

-----------------------------------------------------------------------------
\* A row changes only by a commit; the rows that are added are of a contract
\* that no request has read.
LEMMA RowsStep ==
  ASSUME Types, [Next]_vars
  PROVE  \/ rows' = rows
         \/ \E k \in Contracts, u \in Users, c \in Clauses, s \in PartySets : Add(k, u, c, s)
         \/ \E r \in Key : Delete(r)
         \/ \E q \in Requests : Commit(q)
<1>1. ASSUME NEW q \in Requests, NEW t, NEW u \in Users, NEW c \in Clauses, NEW s \in PartySets,
             Edit(q, t, u, c, s)
      PROVE  rows' = rows
  BY <1>1, Zenon DEF Edit, dbVars
<1>2. ASSUME NEW q \in Requests, NEW r \in Key, Cancel(q, r) \/ SignContract(q, r) \/ Throws(q, r)
      PROVE  rows' = rows
  BY <1>2, Zenon DEF Cancel, SignContract, Throws, dbVars
<1>3. ASSUME NEW q \in Requests, NEW r \in Key, BeginsToSign(q, r) \/ Finalizes(q, r)
      PROVE  rows' = rows
  BY <1>3, Zenon DEF BeginsToSign, Finalizes, dbVars
<1>4. ASSUME NEW e \in running, BeginsLater(e) PROVE rows' = rows
  BY <1>4 DEF BeginsLater, dbVars
<1>5. ASSUME NEW u \in Users, List(u) \/ Login(u) \/ Logout(u) \/ (\E k \in Contracts : SkipOrFail(u, k))
      PROVE  rows' = rows
  BY <1>5, Zenon DEF List, Login, Logout, SkipOrFail, dbVars
<1>6. ASSUME NEW q \in Requests, NEW u \in Users, NEW k \in Contracts, Resume(q, u, k)
      PROVE  rows' = rows
  BY <1>6 DEF Resume, dbVars
<1>7. Restart \/ UNCHANGED vars => rows' = rows
  BY DEF Restart, vars, dbVars
<1> QED
  BY <1>1, <1>2, <1>3, <1>4, <1>5, <1>6, <1>7 DEF Next

LEMMA AddedRow ==
  ASSUME Types, NEW k \in Contracts, NEW u, NEW c, NEW s, Add(k, u, c, s), NEW r \in DOMAIN rows'
  PROVE  /\ r \in DOMAIN rows => rows'[r] = rows[r] /\ r[1] # k
         /\ r \notin DOMAIN rows =>
              /\ r[1] = k
              /\ rows'[r] = [clauses |-> c, parties |-> s, wish |-> "NEUTRAL", status |-> "NOWHERE"]
         /\ \A q \in Requests : open[q] # None /\ r \in DOMAIN open[q].saw => r[1] # k
<1>1. k \notin added
  BY DEF Add
<1>2. \A q \in Requests : open[q] # None => DOMAIN open[q].saw \subseteq added \X Users
  BY DEF Types, Held, Shape
<1> QED
  BY <1>1, <1>2, KeyOfRow DEF Add

LEMMA RowStep ==
  ASSUME Types, [Next]_vars, NEW r \in DOMAIN rows \cap DOMAIN rows'
  PROVE  \/ rows'[r] = rows[r]
         \/ \E q \in Requests : open[q] # None /\ Commit(q) /\ rows'[r] = Written(q)[r]
<1>1. ASSUME NEW k \in Contracts, NEW u \in Users, NEW c \in Clauses, NEW s \in PartySets, Add(k, u, c, s)
      PROVE  rows'[r] = rows[r]
  BY <1>1, AddedRow
<1>2. ASSUME NEW x \in Key, Delete(x) PROVE rows'[r] = rows[r]
  BY <1>2 DEF Delete
<1>3. ASSUME NEW q \in Requests, Commit(q) PROVE open[q] # None /\ rows'[r] = Written(q)[r]
  BY <1>3 DEF Commit
<1> QED
  BY <1>1, <1>2, <1>3, RowsStep

LEMMA StatusStep ==
  ASSUME Types, [Next]_vars, NEW r \in DOMAIN rows \cap DOMAIN rows'
  PROVE  /\ rows'[r].status = "NOWHERE" => rows[r].status = "NOWHERE"
         /\ rows'[r].wish = "NEUTRAL" => rows[r].wish = "NEUTRAL"
  BY RowStep, WrittenRow

LEMMA TypesAlways == Spec => []Types
  BY TypesInit, TypesStep, PTL DEF Spec

\* No commit takes a row back to NOWHERE: a copy is never taken back, so the
\* field is written only when the copy has left NOWHERE.
THEOREM Unsettled == Spec => NeverUnsettled
<1>1. Types /\ [Next]_vars =>
        [\A r \in DOMAIN rows \cap DOMAIN rows' :
           rows[r].status # "NOWHERE" => rows'[r].status # "NOWHERE"]_vars
  BY StatusStep
<1> QED
  BY <1>1, TypesAlways, PTL DEF Spec, NeverUnsettled

\* What a user has accepted changes only by the commit of an edit that had read
\* his row before.
THEOREM AcceptedKept == Spec => OnlyOldEditsChangeAccepted
<1>1. ASSUME Types, [Next]_vars, NEW r \in DOMAIN rows \cap DOMAIN rows',
             TermsOf(rows'[r]) # TermsOf(rows[r])
      PROVE  \E q \in Requests : /\ open[q] # None /\ open'[q] = None
                                 /\ open[q].kind = "edit"
                                 /\ r \in DOMAIN open[q].saw
                                 /\ open[q].saw[r].wish = "NEUTRAL"
  <2>1. PICK q \in Requests : open[q] # None /\ Commit(q) /\ rows'[r] = Written(q)[r]
    BY <1>1, RowStep
  <2>2. r \in DOMAIN open[q].saw /\ open[q].kind = "edit"
    BY <1>1, <2>1, WrittenRow
  <2>3. open[q].saw[r].wish = "NEUTRAL"
    BY <1>1, <2>1, <2>2 DEF Types, Held, Copy
  <2>4. open'[q] = None
    BY <1>1, <2>1 DEF Commit, Types, TypeOK
  <2> QED
    BY <2>1, <2>2, <2>3, <2>4
<1>2. Types /\ [Next]_vars =>
        [\A r \in DOMAIN rows \cap DOMAIN rows' :
           rows[r].wish = "ACCEPT" /\ TermsOf(rows'[r]) # TermsOf(rows[r]) =>
             \E q \in Requests : /\ open[q] # None /\ open'[q] = None
                                 /\ open[q].kind = "edit"
                                 /\ r \in DOMAIN open[q].saw
                                 /\ open[q].saw[r].wish = "NEUTRAL"]_vars
  BY <1>1
<1> QED
  BY <1>2, TypesAlways, PTL DEF Spec, OnlyOldEditsChangeAccepted

-----------------------------------------------------------------------------
\* What a step leaves of the copies of a request that goes on.
GoesOn(q) ==
  /\ open[q] # None
  /\ open'[q].kind = open[q].kind /\ open'[q].saw = open[q].saw
  /\ \A r \in DOMAIN open[q].saw : TermsOf(open'[q].clone[r]) = TermsOf(open[q].clone[r])

\* What a request that begins has read, and an edit made of it.
Begins(q) ==
  /\ rows' = rows
  /\ DOMAIN open'[q].saw \subseteq DOMAIN rows
  /\ \A r \in DOMAIN open'[q].saw : open'[q].saw[r] = rows[r]
  /\ open'[q].kind = "edit" =>
       /\ \E t, u : DOMAIN open'[q].saw = EditTargets(t, u)
       /\ \A r, s \in DOMAIN open'[q].saw :
            TermsOf(open'[q].clone[r]) = TermsOf(open'[q].clone[s])

LEMMA StatusGoesOn ==
  ASSUME Types, NEW q \in Requests, NEW r \in DOMAIN open[q].clone, NEW s \in Status,
         IsSign(q), SetStatus(q, r, s), NEW g \in Requests, open'[g] # None
  PROVE  GoesOn(g)
<1>0. open[q] # None
  BY DEF IsSign
<1>1. /\ DOMAIN open' = Requests
      /\ \A p \in Requests : p # q => open'[p] = open[p]
      /\ open'[q].kind = open[q].kind /\ open'[q].saw = open[q].saw
      /\ open'[q].clone[r] = [open[q].clone[r] EXCEPT !.status = s]
      /\ \A x \in DOMAIN open[q].clone : x # r => open'[q].clone[x] = open[q].clone[x]
      /\ open'[q].clone \in [DOMAIN open[q].saw -> Row]
      /\ open'[q] = [kind |-> open'[q].kind, saw |-> open'[q].saw, clone |-> open'[q].clone]
  BY <1>0, SetStatusEffect
<1>2. DOMAIN open[q].clone = DOMAIN open[q].saw /\ open[q].clone[r] \in Row
  BY <1>0 DEF Types, Held, Shape
<1>3. TermsOf(open'[q].clone[r]) = TermsOf(open[q].clone[r])
  BY <1>1, <1>2 DEF Row, TermsOf
<1>4. CASE g = q
  BY <1>0, <1>1, <1>2, <1>3, <1>4 DEF GoesOn
<1>5. CASE g # q
  BY <1>1, <1>5 DEF GoesOn
<1> QED
  BY <1>4, <1>5

LEMMA SameGoesOn ==
  ASSUME Types, NEW q \in Requests, open'[q] = open[q], open'[q] # None
  PROVE  GoesOn(q)
  BY DEF GoesOn

LEMMA OneBegins ==
  ASSUME Types, rows' = rows, NEW q \in Requests, NEW kind, kind # "edit", NEW r \in DOMAIN rows,
         NEW saw, NEW clone, Read(q, kind, saw, clone), saw = [x \in {r} |-> rows[x]],
         NEW p \in Requests, open'[p] # None
  PROVE  GoesOn(p) \/ Begins(p)
<1>1. /\ open'[q] = [kind |-> kind, saw |-> saw, clone |-> clone]
      /\ \A x \in Requests : x # q => open'[x] = open[x]
  BY ReadEffect
<1>2. CASE p = q
  BY <1>1, <1>2 DEF Begins
<1>3. CASE p # q
  BY <1>1, <1>3, SameGoesOn
<1> QED
  BY <1>2, <1>3

LEMMA EditBegins ==
  ASSUME Types, NEW q \in Requests, NEW t, NEW u \in Users, NEW c \in Clauses, NEW s \in PartySets,
         Edit(q, t, u, c, s), NEW p \in Requests, open'[p] # None
  PROVE  GoesOn(p) \/ Begins(p)
<1> DEFINE on == EditTargets(t, u)
           saw == [r \in on |-> rows[r]]
           clone == [r \in on |-> [rows[r] EXCEPT !.clauses = c, !.parties = s]]
<1>0. on \subseteq DOMAIN rows
  BY DEF EditTargets
<1>1. Read(q, "edit", saw, clone) /\ rows' = rows
  BY Zenon DEF Edit, dbVars
<1> HIDE DEF on
<1>2. AllHave(on, clone, [clauses |-> c, parties |-> s])
  BY <1>0, EditIsEditCopies
<1>3. DOMAIN saw = on /\ \A r \in on : saw[r] = rows[r]
  OBVIOUS
<1> HIDE DEF saw, clone
<1>4. /\ open'[q] = [kind |-> "edit", saw |-> saw, clone |-> clone]
      /\ \A x \in Requests : x # q => open'[x] = open[x]
  BY <1>1, ReadEffect
<1>5. CASE p = q
  <2>1. open'[p].kind = "edit" /\ open'[p].saw = saw /\ open'[p].clone = clone
    BY <1>4, <1>5
  <2>2. \E x, v : DOMAIN open'[p].saw = EditTargets(x, v)
    BY <1>3, <2>1 DEF on
  <2>3. \A r, x \in DOMAIN open'[p].saw : TermsOf(open'[p].clone[r]) = TermsOf(open'[p].clone[x])
    BY <1>2, <1>3, <2>1 DEF AllHave
  <2> QED
    BY <1>0, <1>1, <1>3, <2>1, <2>2, <2>3 DEF Begins
<1>6. CASE p # q
  BY <1>4, <1>6, SameGoesOn
<1> QED
  BY <1>5, <1>6

LEMMA OpenStep ==
  ASSUME Types, [Next]_vars, NEW p \in Requests, open'[p] # None
  PROVE  GoesOn(p) \/ Begins(p)
<1>0. ASSUME open' = open PROVE GoesOn(p)
  BY <1>0, SameGoesOn
<1>e. ASSUME NEW q \in Requests, open' = [open EXCEPT ![q] = None] PROVE GoesOn(p)
  <2>1. open'[p] = open[p]
    BY <1>e DEF Types, TypeOK
  <2> QED
    BY <2>1, SameGoesOn
<1>s. ASSUME NEW q \in Requests, NEW kind \in {"sign", "resume"}, NEW r, Sign(q, kind, r), rows' = rows
      PROVE  GoesOn(p) \/ Begins(p)
  <2>1. r \in DOMAIN rows
    BY <1>s DEF Sign
  <2>2. PICK row \in Row : \E saw, clone :
              /\ Read(q, kind, saw, clone)
              /\ saw = [x \in {r} |-> rows[x]] /\ clone = [x \in {r} |-> row]
              /\ TermsOf(row) = TermsOf(rows[r])
              /\ row.wish = "ACCEPT" /\ row.status = rows[r].status
    BY <1>s, SignReads
  <2>3. PICK saw, clone : Read(q, kind, saw, clone) /\ saw = [x \in {r} |-> rows[x]]
    BY <2>2
  <2>4. kind # "edit"
    OBVIOUS
  <2> QED
    BY <1>s, <2>1, <2>3, <2>4, OneBegins
<1>1. ASSUME NEW k \in Contracts, NEW u \in Users, NEW c \in Clauses, NEW s \in PartySets, Add(k, u, c, s)
      PROVE  GoesOn(p)
  BY <1>0, <1>1 DEF Add
<1>2. ASSUME NEW q \in Requests, NEW t, NEW u \in Users, NEW c \in Clauses, NEW s \in PartySets,
             Edit(q, t, u, c, s)
      PROVE  GoesOn(p) \/ Begins(p)
  BY <1>2, EditBegins
<1>3. ASSUME NEW q \in Requests, NEW r \in Key, Cancel(q, r) PROVE GoesOn(p) \/ Begins(p)
  <2>1. r \in DOMAIN rows
    BY <1>3 DEF Cancel
  <2>2. PICK row \in Row : \E saw, clone :
           Read(q, "cancel", saw, clone) /\ saw = [x \in {r} |-> rows[x]]
    BY <1>3, CancelReads
  <2>3. PICK saw, clone : Read(q, "cancel", saw, clone) /\ saw = [x \in {r} |-> rows[x]]
    BY <2>2
  <2>4. rows' = rows
    BY <1>3, Zenon DEF Cancel, dbVars
  <2> QED
    BY <2>1, <2>3, <2>4, OneBegins
<1>4. ASSUME NEW q \in Requests, NEW r \in Key, SignContract(q, r) PROVE GoesOn(p) \/ Begins(p)
  BY <1>4, <1>s DEF SignContract, dbVars
<1>5. ASSUME NEW q \in Requests, NEW u \in Users, NEW k \in Contracts, Resume(q, u, k)
      PROVE  GoesOn(p) \/ Begins(p)
  BY <1>5, <1>s DEF Resume, dbVars
<1>6. ASSUME NEW q \in Requests, NEW r \in Key, BeginsToSign(q, r) \/ Finalizes(q, r) PROVE GoesOn(p)
  <2>1. "SIGNING" \in Status /\ "FINALIZED" \in Status
    BY DEF Status
  <2>2. /\ IsSign(q) /\ r \in DOMAIN open[q].clone
        /\ SetStatus(q, r, "SIGNING") \/ SetStatus(q, r, "FINALIZED")
    BY <1>6, Zenon DEF BeginsToSign, Finalizes
  <2> QED
    BY <2>1, <2>2, StatusGoesOn
<1>7. ASSUME NEW q \in Requests, NEW r \in Key, Throws(q, r) PROVE GoesOn(p)
  BY <1>7, <1>e DEF Throws
<1>8. ASSUME NEW q \in Requests, Commit(q) PROVE GoesOn(p)
  BY <1>8, <1>e DEF Commit
<1>9. ASSUME NEW r \in Key, Delete(r) PROVE GoesOn(p)
  BY <1>9, <1>0 DEF Delete
<1>10. ASSUME NEW e \in running, BeginsLater(e) PROVE GoesOn(p)
  BY <1>10, <1>0 DEF BeginsLater
<1>11. ASSUME NEW u \in Users, List(u) \/ Login(u) \/ Logout(u) \/ (\E k \in Contracts : SkipOrFail(u, k))
       PROVE  GoesOn(p)
  <2>1. open' = open
    BY <1>11, Zenon DEF List, Login, Logout, SkipOrFail
  <2> QED
    BY <2>1, <1>0
<1>12. CASE Restart
  BY <1>12 DEF Restart
<1>13. CASE UNCHANGED vars
  BY <1>13, <1>0 DEF vars
<1> QED
  BY <1>1, <1>2, <1>3, <1>4, <1>5, <1>6, <1>7, <1>8, <1>9, <1>10, <1>11, <1>12, <1>13 DEF Next

-----------------------------------------------------------------------------
\* No row that a request has read as settled has become unsettled since.
Settled ==
  /\ RefusedIsSettled
  /\ \A q \in Requests : open[q] # None =>
       \A r \in DOMAIN open[q].saw \cap DOMAIN rows :
         rows[r].status = "NOWHERE" => open[q].saw[r].status = "NOWHERE"

LEMMA SettledInit == Init => Settled
  BY DEF Init, Settled, RefusedIsSettled

\* A row that comes is not one of those that a request has read.
LEMMA ReadBefore ==
  ASSUME Types, [Next]_vars, NEW q \in Requests, open[q] # None,
         NEW r \in DOMAIN open[q].saw \cap DOMAIN rows'
  PROVE  r \in DOMAIN rows
<1>1. ASSUME NEW k \in Contracts, NEW u \in Users, NEW c \in Clauses, NEW s \in PartySets, Add(k, u, c, s)
      PROVE  r \in DOMAIN rows
  BY <1>1, AddedRow
<1>2. ASSUME NEW x \in Key, Delete(x) PROVE r \in DOMAIN rows
  BY <1>2 DEF Delete
<1>3. ASSUME NEW p \in Requests, Commit(p) PROVE r \in DOMAIN rows
  BY <1>3 DEF Commit, Written
<1> QED
  BY <1>1, <1>2, <1>3, RowsStep

\* A row that comes is neutral.
LEMMA RowBefore ==
  ASSUME Types, [Next]_vars, NEW r \in DOMAIN rows', rows'[r].wish # "NEUTRAL"
  PROVE  r \in DOMAIN rows
<1>1. ASSUME NEW k \in Contracts, NEW u \in Users, NEW c \in Clauses, NEW s \in PartySets, Add(k, u, c, s)
      PROVE  r \in DOMAIN rows
  BY <1>1, AddedRow
<1>2. ASSUME NEW x \in Key, Delete(x) PROVE r \in DOMAIN rows
  BY <1>2 DEF Delete
<1>3. ASSUME NEW p \in Requests, Commit(p) PROVE r \in DOMAIN rows
  BY <1>3 DEF Commit, Written
<1> QED
  BY <1>1, <1>2, <1>3, RowsStep

LEMMA WrittenIsSettled ==
  ASSUME Types, Settled, NEW q \in Requests, open[q] # None, NEW r \in DOMAIN rows,
         Written(q)[r].wish = "REFUSE"
  PROVE  Written(q)[r].status # "NOWHERE"
<1>1. CASE r \notin DOMAIN open[q].saw
  BY <1>1, WrittenRow DEF Settled, RefusedIsSettled
<1>2. CASE r \in DOMAIN open[q].saw
  <2> DEFINE saw == open[q].saw[r]
             clone == open[q].clone[r]
  <2>1. saw \in Row /\ clone \in Row /\ Copy(open[q], r)
    BY <1>2 DEF Types, Held, Shape
  <2>2. /\ clone.wish = "REFUSE" => clone.status # "NOWHERE"
        /\ rows[r].status = "NOWHERE" => saw.status = "NOWHERE"
        /\ rows[r].wish = "REFUSE" => rows[r].status # "NOWHERE"
    BY <1>2, <2>1 DEF Copy, Settled, RefusedIsSettled
  <2> HIDE DEF saw, clone
  <2>3. Written(q)[r] = Merge(rows[r], saw, clone)
    BY <1>2, WrittenRow DEF saw, clone
  <2>4. /\ Written(q)[r].wish = IF clone.wish # saw.wish THEN clone.wish ELSE rows[r].wish
        /\ Written(q)[r].status = IF clone.status # saw.status THEN clone.status ELSE rows[r].status
    BY <2>1, <2>3, KeyOfRow, Merged
  <2>5. Written(q)[r].status = "NOWHERE" => rows[r].status = "NOWHERE"
    BY WrittenRow
  <2> QED
    BY <2>2, <2>4, <2>5
<1> QED
  BY <1>1, <1>2

LEMMA SettledStep == Types /\ Types' /\ Settled /\ [Next]_vars => Settled'
<1> SUFFICES ASSUME Types, Types', Settled, [Next]_vars PROVE Settled'
  OBVIOUS
<1>1. ASSUME NEW r \in DOMAIN rows', rows'[r].wish = "REFUSE" PROVE rows'[r].status # "NOWHERE"
  <2>1. r \in DOMAIN rows
    BY <1>1, RowBefore
  <2>2. CASE rows'[r] = rows[r]
    BY <1>1, <2>1, <2>2 DEF Settled, RefusedIsSettled
  <2>3. CASE \E q \in Requests : open[q] # None /\ Commit(q) /\ rows'[r] = Written(q)[r]
    BY <1>1, <2>1, <2>3, WrittenIsSettled
  <2> QED
    BY <2>1, <2>2, <2>3, RowStep
<1>2. ASSUME NEW q \in Requests, open'[q] # None, NEW r \in DOMAIN open'[q].saw \cap DOMAIN rows',
             rows'[r].status = "NOWHERE"
      PROVE  open'[q].saw[r].status = "NOWHERE"
  <2>1. CASE GoesOn(q)
    <3>1. open[q] # None /\ r \in DOMAIN open[q].saw /\ open'[q].saw = open[q].saw
      BY <1>2, <2>1 DEF GoesOn
    <3>2. r \in DOMAIN rows
      BY <1>2, <3>1, ReadBefore
    <3>3. rows[r].status = "NOWHERE"
      BY <1>2, <3>2, StatusStep
    <3> QED
      BY <3>1, <3>2, <3>3 DEF Settled
  <2>2. CASE Begins(q)
    BY <1>2, <2>2 DEF Begins
  <2> QED
    BY <1>2, <2>1, <2>2, OpenStep
<1> QED
  BY <1>1, <1>2 DEF Settled, RefusedIsSettled

\* What was refused is settled: a copy that refuses has left NOWHERE, and when
\* it had left NOWHERE before it was read, so has its row, which stays so.
THEOREM RefusedSettled == Spec => []RefusedIsSettled
<1>1. Settled => RefusedIsSettled
  BY DEF Settled
<1> QED
  BY <1>1, SettledInit, SettledStep, TypesAlways, PTL DEF Spec

-----------------------------------------------------------------------------
\* An edit that is open has read both of two rows that are still neutral, or
\* neither, and does the same to both.
BothNeutral(r, s) ==
  /\ r[1] = s[1]
  /\ rows[r].wish = "NEUTRAL" /\ rows[s].wish = "NEUTRAL"

Twins(o, r, s) ==
  /\ r \in DOMAIN o.saw => s \in DOMAIN o.saw
  /\ r \in DOMAIN o.saw => /\ TermsOf(o.saw[r]) = TermsOf(o.saw[s])
                           /\ TermsOf(o.clone[r]) = TermsOf(o.clone[s])

Together ==
  /\ NeutralRowsAgree
  /\ \A q \in Requests : open[q] # None /\ open[q].kind = "edit" =>
       \A r, s \in DOMAIN rows : BothNeutral(r, s) => Twins(open[q], r, s)

LEMMA TogetherInit == Init => Together
  BY DEF Init, Together, NeutralRowsAgree

\* Two rows that are neutral were so before the step, or both have just come.
LEMMA NeutralBefore ==
  ASSUME Types, [Next]_vars, NEW r \in DOMAIN rows', NEW s \in DOMAIN rows', BothNeutral(r, s)'
  PROVE  \/ r \in DOMAIN rows /\ s \in DOMAIN rows /\ BothNeutral(r, s)
         \/ /\ TermsOf(rows'[r]) = TermsOf(rows'[s])
            /\ r \notin DOMAIN rows /\ s \notin DOMAIN rows
<1>1. CASE r \in DOMAIN rows /\ s \in DOMAIN rows
  BY <1>1, StatusStep DEF BothNeutral
<1>2. CASE ~(r \in DOMAIN rows /\ s \in DOMAIN rows)
  <2>1. PICK k \in Contracts, u \in Users, c \in Clauses, x \in PartySets : Add(k, u, c, x)
    <3>1. ASSUME NEW y \in Key, Delete(y) PROVE FALSE
      BY <1>2, <3>1 DEF Delete
    <3>2. ASSUME NEW p \in Requests, Commit(p) PROVE FALSE
      BY <1>2, <3>2 DEF Commit, Written
    <3> QED
      BY <1>2, <3>1, <3>2, RowsStep
  <2>2. r[1] = s[1]
    BY DEF BothNeutral
  <2>3. r \notin DOMAIN rows /\ s \notin DOMAIN rows
    BY <1>2, <2>1, <2>2, AddedRow
  <2>4. rows'[r] = rows'[s]
    BY <2>1, <2>3, AddedRow
  <2> QED
    BY <2>3, <2>4
<1> QED
  BY <1>1, <1>2

LEMMA WrittenTogether ==
  ASSUME Types, Together, NEW q \in Requests, open[q] # None,
         NEW r \in DOMAIN rows, NEW s \in DOMAIN rows, BothNeutral(r, s)
  PROVE  TermsOf(Written(q)[r]) = TermsOf(Written(q)[s])
<1>0. TermsOf(rows[r]) = TermsOf(rows[s])
  BY DEF Together, NeutralRowsAgree, BothNeutral
<1>1. CASE open[q].kind # "edit"
  BY <1>0, <1>1, WrittenRow
<1>2. CASE open[q].kind = "edit"
  <2>1. Twins(open[q], r, s) /\ Twins(open[q], s, r)
    BY <1>2 DEF Together, BothNeutral
  <2>2. CASE r \notin DOMAIN open[q].saw
    <3>1. s \notin DOMAIN open[q].saw
      BY <2>1, <2>2 DEF Twins
    <3> QED
      BY <1>0, <2>2, <3>1, WrittenRow
  <2>3. CASE r \in DOMAIN open[q].saw
    <3>1. /\ s \in DOMAIN open[q].saw
          /\ TermsOf(open[q].saw[r]) = TermsOf(open[q].saw[s])
          /\ TermsOf(open[q].clone[r]) = TermsOf(open[q].clone[s])
      BY <2>1, <2>3 DEF Twins
    <3>2. \A x \in {r, s} : /\ open[q].saw[x] \in Row /\ open[q].clone[x] \in Row /\ rows[x] \in Row
                            /\ Written(q)[x] = Merge(rows[x], open[q].saw[x], open[q].clone[x])
      <4>1. DOMAIN open[q].saw = DOMAIN open[q].clone
            /\ \A x \in DOMAIN open[q].saw : open[q].saw[x] \in Row /\ open[q].clone[x] \in Row
        BY DEF Types, Held, Shape
      <4>2. \A x \in {r, s} : x \in DOMAIN open[q].saw /\ x \in DOMAIN rows
        BY <2>3, <3>1
      <4>3. \A x \in DOMAIN rows : rows[x] \in Row
        BY KeyOfRow
      <4>4. \A x \in DOMAIN rows : x \in DOMAIN open[q].saw =>
              Written(q)[x] = Merge(rows[x], open[q].saw[x], open[q].clone[x])
        BY WrittenRow
      <4> QED
        BY <4>1, <4>2, <4>3, <4>4
    <3> QED
      BY <1>0, <3>1, <3>2 DEF TermsOf, Merge, Row
  <2> QED
    BY <2>2, <2>3
<1> QED
  BY <1>1, <1>2

LEMMA TogetherStep == Types /\ Types' /\ Together /\ [Next]_vars => Together'
<1> SUFFICES ASSUME Types, Types', Together, [Next]_vars PROVE Together'
  OBVIOUS
<1>1. ASSUME NEW r \in DOMAIN rows', NEW s \in DOMAIN rows', BothNeutral(r, s)'
      PROVE  TermsOf(rows'[r]) = TermsOf(rows'[s])
  <2>1. CASE r \in DOMAIN rows /\ s \in DOMAIN rows /\ BothNeutral(r, s)
    <3>1. TermsOf(rows[r]) = TermsOf(rows[s])
      BY <2>1 DEF Together, NeutralRowsAgree, BothNeutral
    <3>2. ASSUME NEW q \in Requests, Commit(q) PROVE TermsOf(rows'[r]) = TermsOf(rows'[s])
      <4>1. rows' = Written(q) /\ open[q] # None
        BY <3>2 DEF Commit
      <4> QED
        BY <2>1, <4>1, WrittenTogether
    <3>3. CASE ~ \E q \in Requests : Commit(q)
      <4>1. rows'[r] = rows[r] /\ rows'[s] = rows[s]
        BY <2>1, <3>3, RowStep
      <4> QED
        BY <3>1, <4>1
    <3> QED
      BY <3>2, <3>3
  <2> QED
    BY <1>1, <2>1, NeutralBefore
<1>2. ASSUME NEW q \in Requests, open'[q] # None, open'[q].kind = "edit",
             NEW r \in DOMAIN rows', NEW s \in DOMAIN rows', BothNeutral(r, s)'
      PROVE  Twins(open'[q], r, s)
  <2>1. CASE GoesOn(q)
    <3>1. /\ open[q] # None /\ open[q].kind = "edit" /\ open'[q].saw = open[q].saw
          /\ \A x \in DOMAIN open[q].saw : TermsOf(open'[q].clone[x]) = TermsOf(open[q].clone[x])
      BY <1>2, <2>1 DEF GoesOn
    <3>2. CASE r \in DOMAIN rows /\ s \in DOMAIN rows /\ BothNeutral(r, s)
      <4>1. Twins(open[q], r, s)
        BY <3>1, <3>2 DEF Together
      <4> QED
        BY <3>1, <4>1 DEF Twins
    <3>3. CASE r \notin DOMAIN rows
      <4>1. r \notin DOMAIN open'[q].saw
        BY <3>1, <3>3, ReadBefore
      <4> QED
        BY <4>1 DEF Twins
    <3> QED
      BY <1>2, <3>2, <3>3, NeutralBefore
  <2>2. CASE Begins(q)
    <3>1. /\ rows' = rows /\ r \in DOMAIN rows /\ s \in DOMAIN rows
          /\ \A x \in DOMAIN open'[q].saw : open'[q].saw[x] = rows[x]
          /\ \A x, y \in DOMAIN open'[q].saw :
               TermsOf(open'[q].clone[x]) = TermsOf(open'[q].clone[y])
      BY <1>2, <2>2 DEF Begins
    <3>2. r[1] = s[1] /\ rows[r].wish = "NEUTRAL" /\ rows[s].wish = "NEUTRAL"
      BY <1>2, <3>1 DEF BothNeutral
    <3>3. TermsOf(rows[r]) = TermsOf(rows[s])
      BY <3>1, <3>2 DEF Together, NeutralRowsAgree
    <3>4. PICK t, u : DOMAIN open'[q].saw = EditTargets(t, u)
      BY <1>2, <2>2 DEF Begins
    <3>5. rows[r].parties = rows[s].parties
      BY <3>3 DEF TermsOf
    <3>6. r \in DOMAIN open'[q].saw => s \in DOMAIN open'[q].saw
      BY <3>1, <3>2, <3>4, <3>5 DEF EditTargets
    <3> QED
      BY <3>1, <3>3, <3>6 DEF Twins
  <2> QED
    BY <1>2, <2>1, <2>2, OpenStep
<1>3. NeutralRowsAgree'
  BY <1>1 DEF NeutralRowsAgree, BothNeutral
<1> QED
  BY <1>2, <1>3 DEF Together

\* The neutral rows of one contract show the same terms: an edit finds them
\* together, because they agree, and whatever has become of them since, those
\* that are still neutral were neutral when it read them.
THEOREM NeutralAgree == Spec => []NeutralRowsAgree
<1>1. Together => NeutralRowsAgree
  BY DEF Together
<1> QED
  BY <1>1, TogetherInit, TogetherStep, TypesAlways, PTL DEF Spec
=============================================================================
