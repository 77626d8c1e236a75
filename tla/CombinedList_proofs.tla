------------------------ MODULE CombinedList_proofs -------------------------
(***************************************************************************)
(* Proofs about the combined list, for any finite sets of works and        *)
(* services, any batches, any number of requests at once and any bounds.   *)
(*                                                                         *)
(* LedgerInv ties the rows, the ledger and the undos in progress: ids are  *)
(* used once, what a batch made is on record while the batch is applied,   *)
(* and an undo that can still be written names all of it.  GroupInv does   *)
(* the same for removal groups and their undos.  ScopeInv, where no match  *)
(* is fixed, ties a group, and a close that has read, to its batch.        *)
(***************************************************************************)
EXTENDS CombinedList, FiniteSetTheorems, SequenceTheorems, WellFoundedInduction, TLAPS

\* A set of numbers up to n has a greatest one: the CHOOSE of Latest finds it.
LEMMA Greatest ==
  ASSUME NEW n \in Nat, NEW S \in SUBSET (1..n), S # {}
  PROVE  \E x \in S : \A y \in S : y <= x
<1> DEFINE Above(x) == {y \in S : y > x}
           T == {Above(x) : x \in S}
<1>n. S \subseteq Nat
  OBVIOUS
<1>1. IsFiniteSet(S)
  <2>1. IsFiniteSet(1..n)
    BY FS_Interval, 1 \in Int, n \in Int
  <2> QED
    BY <2>1, FS_Subset
<1>2. IsWellFoundedOn(StrictSubsetOrdering(S), SUBSET S)
  BY <1>1, FS_FiniteSubsetsOfFinite, FS_StrictSubsetOrderingWellFounded
<1>3. T \subseteq SUBSET S /\ T # {}
  OBVIOUS
<1> HIDE DEF T
<1>4. PICK t \in T : \A u \in T : ~(<<u, t>> \in StrictSubsetOrdering(S))
  BY <1>2, <1>3, WFMin
<1>5. PICK x \in S : t = Above(x)
  BY <1>4 DEF T
<1>6. ASSUME NEW y \in S, y > x
      PROVE  FALSE
  <2>1. Above(y) \in T
    BY DEF T
  <2>2. x \in Nat /\ y \in Nat /\ x < y /\ (\A z \in S : z \in Nat /\ (z > y => z > x))
    BY <1>n, <1>6
  <2>3. Above(y) \subseteq Above(x) /\ y \in Above(x)
    BY <2>2
  <2>4. y \notin Above(y)
    BY <2>2
  <2>5. <<Above(y), t>> \in StrictSubsetOrdering(S)
    BY <1>5, <2>3, <2>4 DEF StrictSubsetOrdering
  <2> QED
    BY <1>4, <2>1, <2>5
<1> QED
  BY <1>n, <1>6

\* A predecessor is a batch, or none.
LEMMA LatestType ==
  ASSUME TypeOK, NEW s, NEW b
  PROVE  Latest(s, b) \in Batches \cup {None}
<1> DEFINE others == {i \in DOMAIN history : history[i] \in AppliedTo(s) \ {b}}
<1>1. CASE others = {}
  BY <1>1 DEF Latest
<1>2. CASE others # {}
  <2>1. others \in SUBSET (1..Len(history)) /\ Len(history) \in Nat
    BY DEF TypeOK
  <2>2. \E i \in others : \A j \in others : j <= i
    BY <1>2, <2>1, Greatest
  <2>3. (CHOOSE i \in others : \A j \in others : j <= i) \in others
    BY <2>2
  <2>4. \A i \in others : history[i] \in Batches
    BY DEF AppliedTo
  <2> HIDE DEF others
  <2> QED
    BY <1>2, <2>3, <2>4 DEF Latest, others
<1> QED
  BY <1>1, <1>2

\* What a request in progress holds.
LEMMA RequestFacts ==
  ASSUME NEW r \in Request
  PROVE  /\ r.op = "close" => /\ r.batch \in Batches /\ r.works \subseteq Works
                              /\ r.ticked \subseteq Ids /\ r.removes \in BOOLEAN
                              /\ r.after \subseteq Batches
         /\ r.op = "undo" => /\ r.batch \in Batches /\ r.titles \subseteq Ids
                             /\ r.listings \subseteq Ids /\ r.survivors \subseteq Ids
                             /\ r.previous \in Batches \cup {None}
         /\ r.op = "undoGroup" => r.group \in Batches /\ r.restoring \subseteq Ids
         /\ r.op = "restore" => r.listing \in Ids /\ r.title \in Ids /\ r.duplicate \in BOOLEAN
         /\ r.op = "restored" => r.title \in Ids /\ r.duplicate \in BOOLEAN
         /\ r.op = "derived" => r.title \in Ids /\ r.state \in RowStates /\ r.duplicate \in BOOLEAN
         /\ r.op = "add" => r.work \in Works /\ r.services \subseteq Services
         /\ r.op = "remove" => r.title \in Ids /\ r.listings \subseteq Ids
         /\ r.op = "badge" => r.title \in Ids /\ r.service \in Services
         /\ r.op = "fix" => /\ r.title \in Ids /\ r.from \in Works /\ r.to \in Works
                            /\ r.duplicate \in BOOLEAN /\ r.carried \in BOOLEAN
  BY DEF Request, Idle

\* The ids a transaction is handed are new, and each is handed once.
LEMMA NumberingFacts ==
  ASSUME TypeOK, NEW S, IsFiniteSet(S), ~(rows + Cardinality(S) > MaxRows),
         NEW number \in Bijection(S, (rows + 1)..(rows + Cardinality(S)))
  PROVE  /\ DOMAIN number = S
         /\ \A x \in S : number[x] \in Ids /\ number[x] > rows /\ number[x] <= rows + Cardinality(S)
         /\ \A x, y \in S : number[x] = number[y] => x = y
         /\ rows + Cardinality(S) \in 0..MaxRows
<1>1. Cardinality(S) \in Nat
  BY FS_CardinalityType
<1>2. number \in [S -> (rows + 1)..(rows + Cardinality(S))] /\ IsInjective(number)
  BY DEF Bijection, Injection
<1>3. rows \in Nat /\ MaxRows \in Nat
  BY BoundsAssumption DEF TypeOK
<1>4. \A x, y \in S : number[x] = number[y] => x = y
  BY <1>2 DEF IsInjective
<1> QED
  BY <1>1, <1>2, <1>3, <1>4 DEF Ids

\* Bringing titles up to date leaves them titles.
LEMMA RederiveType ==
  ASSUME NEW ts \in SUBSET Titles, NEW ls, NEW ids
  PROVE  Rederive(ts, ls, ids) \subseteq Titles
<1>1. \A id : Derived(ls, id) \in RowStates
  BY DEF Derived, RowStates
<1> QED
  BY <1>1 DEF Rederive, Titles

\* The title a listing is added to has an id.
LEMMA HomeIdType ==
  ASSUME TypeOK, NEW w, NEW new \in Ids
  PROVE  HomeId(w, new) \in Ids
  BY DEF TypeOK, HomeId, Home, Newest, TitlesOf, Titles

\* A request that starts only remembers what it has read.
LEMMA AskKeepsTypes ==
  ASSUME TypeOK, NEW h \in Handlers, NEW r \in Request, Ask(h, r)
  PROVE  TypeOK'
  BY DEF TypeOK, Ask, list, ledger, HasStatus

\* An answered handler is idle.
LEMMA AnswerType ==
  ASSUME TypeOK, NEW h \in Handlers, Answer(h)
  PROVE  handler' \in [Handlers -> Request]
<1>1. Idle \in Request
  BY DEF Request
<1> QED
  BY <1>1 DEF TypeOK, Answer

\* A completion goes anywhere into the history.
LEMMA InsertType ==
  ASSUME NEW s \in Seq(Batches), NEW i \in 1..(Len(s) + 1), NEW e \in Batches
  PROVE  InsertAt(s, i, e) \in Seq(Batches)
<1>1. Len(s) \in Nat /\ i - 1 \in Int /\ i \in Int
  OBVIOUS
<1>2. SubSeq(s, 1, i - 1) \in Seq(Batches)
  BY <1>1, SubSeqProperties
<1>3. SubSeq(s, i, Len(s)) \in Seq(Batches)
  BY <1>1, SubSeqProperties
<1> QED
  BY <1>2, <1>3 DEF InsertAt

\* What a close records are ledger rows.
LEMMA ChangeRowsType ==
  ASSUME NEW b \in Batches, NEW made \in SUBSET Titles, NEW added \in SUBSET Listings,
         NEW removed \in SUBSET Listings
  PROVE  ChangeRows(b, made, added, removed) \subseteq Changes
<1>1. \A kind \in Kinds, title \in {0} \cup Ids, listing \in {0} \cup Ids :
        Change(b, kind, title, listing) \in Changes
  BY DEF Change, Changes
<1>2. \A t \in made : t.id \in Ids
  BY DEF Titles
<1>3. \A l \in added \cup removed : l.id \in Ids /\ l.title \in Ids
  BY DEF Listings
<1> QED
  BY <1>1, <1>2, <1>3 DEF ChangeRows, Kinds

\* A move of a batch: its reading stays, and so do the other batches.
LEMMA MoveFacts ==
  ASSUME TypeOK, NEW b \in Batches, NEW from \in {"in-review", "applied"},
         NEW to \in {"applied", "undone"}, NEW works \in SUBSET Works,
         MoveBatch(b, from, to, works)
  PROVE  /\ batch[b] \in Reading /\ HasStatus(b, from)
         /\ batch' \in [Batches -> Reading \cup {Unread}]
         /\ batch'[b] = [batch[b] EXCEPT !.status = to, !.confirmed = works]
         /\ \A c \in Batches : c # b => batch'[c] = batch[c]
<1>1. batch \in [Batches -> Reading \cup {Unread}] /\ batch[b].status = from
  BY DEF TypeOK, MoveBatch
<1>2. batch[b] \in Reading /\ batch[b] # Unread
  BY <1>1 DEF Unread, Reading
<1>3. batch' = [batch EXCEPT ![b] = [batch[b] EXCEPT !.status = to, !.confirmed = works]]
  BY DEF MoveBatch
<1>4. [batch[b] EXCEPT !.status = to, !.confirmed = works] \in Reading
  BY <1>2 DEF Reading
<1> QED
  BY <1>1, <1>2, <1>3, <1>4 DEF HasStatus

----------------------------------------------------------------------------
(* Types                                                                   *)

\* A close makes rows of their types.
LEMMA CloseTypes ==
  ASSUME TypeOK, NEW h \in Handlers, NEW number \in Numberings(h), CloseWrite(h, number)
  PROVE  TypeOK'
<1> DEFINE request == handler[h]
           b       == request.batch
           listed  == Listed(request)
           made    == {[id |-> number[w], work |-> w, state |-> "active", ack |-> 0, by |-> b] :
                         w \in {v \in listed : Home(v) = {}}}
           added   == {[id |-> number[w], title |-> HomeId(w, number[w]),
                        service |-> batch[b].service, state |-> "active", by |-> b,
                        group |-> None] : w \in listed}
           removed == {l \in Active(listings) : l.id \in request.ticked}
           ls      == (listings \ removed) \cup added
                        \cup {[l EXCEPT !.state = "removed", !.group = b] : l \in removed}
<1>1. request \in Request /\ request.op = "close" /\ b \in Batches /\ request.works \subseteq Works
  BY RequestFacts DEF TypeOK, CloseWrite, Doing
<1>2. listed \subseteq Works /\ IsFiniteSet(listed)
  BY <1>1, FiniteAssumption, FS_Subset DEF Listed
<1>3. /\ ~(rows + Cardinality(listed) > MaxRows)
      /\ number \in Bijection(listed, (rows + 1)..(rows + Cardinality(listed)))
  BY DEF Numberings
<1>4. /\ DOMAIN number = listed
      /\ \A w \in listed : number[w] \in Ids
      /\ rows + Cardinality(listed) \in 0..MaxRows
  BY <1>2, <1>3, NumberingFacts
<1>5. /\ MoveBatch(b, "in-review", "applied", request.works)
      /\ Store(Rederive(titles \cup made, ls, {l.title : l \in removed}), ls)
      /\ rows' = rows + Cardinality(listed)
      /\ changes' = changes \cup ChangeRows(b, made, added, removed)
      /\ groups' = [groups EXCEPT ![b] = IF request.removes THEN "confirmed" ELSE @]
      /\ serviceState' = [serviceState EXCEPT ![batch[b].service] = b]
      /\ \E i \in 1..(Len(history) + 1) : history' = InsertAt(history, i, b)
      /\ Answer(h)
      /\ UNCHANGED <<suppressed, faults>>
  BY <1>4 DEF CloseWrite
<1> HIDE DEF request, b, listed, made, added, removed, ls
<1>6. /\ batch[b].service \in Services
      /\ batch' \in [Batches -> Reading \cup {Unread}]
  BY <1>1, <1>5, MoveFacts DEF Reading
<1>7. made \subseteq Titles
  BY <1>1, <1>2, <1>4 DEF made, Titles, RowStates
<1>8. added \subseteq Listings
  BY <1>1, <1>2, <1>4, <1>6, HomeIdType DEF added, Listings, RowStates
<1>9. removed \subseteq Listings
  BY DEF removed, TypeOK, Active
<1>10. {[l EXCEPT !.state = "removed", !.group = b] : l \in removed} \subseteq Listings
  BY <1>1, <1>9 DEF Listings, RowStates
<1>11. titles' \subseteq Titles /\ listings' \subseteq Listings
  <2>1. titles \cup made \subseteq Titles
    BY <1>7 DEF TypeOK
  <2> QED
    BY <1>5, <1>8, <1>10, <2>1, RederiveType DEF Store, TypeOK, ls
<1>12. changes' \subseteq Changes
  BY <1>1, <1>5, <1>7, <1>8, <1>9, ChangeRowsType DEF TypeOK
<1>14. history' \in Seq(Batches)
  BY <1>1, <1>5, InsertType DEF TypeOK
<1>15. groups' \in [Batches -> {"none", "confirmed", "undone"}]
  BY <1>1, <1>5 DEF TypeOK
<1>16. serviceState' \in [Services -> Batches \cup {None}]
  BY <1>1, <1>5, <1>6 DEF TypeOK
<1>17. handler' \in [Handlers -> Request]
  BY <1>5, AnswerType
<1> QED
  BY <1>4, <1>5, <1>11, <1>12, <1>6, <1>14, <1>15, <1>16, <1>17 DEF TypeOK

\* An undo clears references to 0 and puts back a batch, or none, as the last one.
LEMMA UndoTypes ==
  ASSUME TypeOK, NEW h \in Handlers, UndoWrite(h)
  PROVE  TypeOK'
<1> DEFINE request == handler[h]
           b       == request.batch
           under   == {l \in listings : l.title \in request.titles}
           gone    == under \cup {l \in listings : l.id \in request.listings}
           ls      == listings \ gone
           ts      == {t \in titles : t.id \notin request.titles}
           lost    == {l.id : l \in under} \cup request.listings
<1>1. request \in Request /\ request.op = "undo" /\ b \in Batches
      /\ request.previous \in Batches \cup {None}
  BY RequestFacts DEF TypeOK, UndoWrite, Doing
<1>2. /\ MoveBatch(b, "applied", "undone", batch[b].confirmed)
      /\ changes' = {Detach(c, request.titles, lost) : c \in changes}
      /\ Store(Rederive(ts, ls, request.survivors), ls)
      /\ serviceState' = [serviceState EXCEPT ![batch[b].service] = request.previous]
      /\ Answer(h)
      /\ UNCHANGED <<suppressed, rows, history, groups, faults>>
  BY DEF UndoWrite
<1> HIDE DEF request, b, lost, ls, ts
<1>3. /\ batch[b].service \in Services
      /\ batch' \in [Batches -> Reading \cup {Unread}]
  <2>1. batch[b].confirmed \subseteq Works
    BY <1>1, <1>2 DEF MoveBatch, TypeOK, Unread, Reading
  <2> QED
    BY <1>1, <1>2, <2>1, MoveFacts DEF Reading
<1>4. titles' \subseteq Titles /\ listings' \subseteq Listings
  BY <1>2, RederiveType DEF Store, TypeOK, ls, ts
<1>5. changes' \subseteq Changes
  BY <1>2 DEF Detach, Changes, TypeOK
<1>7. serviceState' \in [Services -> Batches \cup {None}]
  BY <1>1, <1>2, <1>3 DEF TypeOK
<1>8. handler' \in [Handlers -> Request]
  BY <1>2, AnswerType
<1> QED
  BY <1>2, <1>4, <1>3, <1>5, <1>7, <1>8 DEF TypeOK

\* An add makes rows of their types.
LEMMA AddTypes ==
  ASSUME TypeOK, NEW h \in Handlers, NEW number \in AddNumberings(h), AddWrite(h, number)
  PROVE  TypeOK'
<1> DEFINE request == handler[h]
           id      == HomeId(request.work, rows + 1)
           made    == IF Home(request.work) = {}
                        THEN {[id |-> id, work |-> request.work, state |-> "active", ack |-> 0,
                               by |-> None]}
                        ELSE {}
           added   == {[id |-> number[s], title |-> id, service |-> s, state |-> "active",
                        by |-> None, group |-> None] : s \in DOMAIN number}
<1>1. request \in Request /\ request.work \in Works /\ request.services \subseteq Services
  BY RequestFacts DEF TypeOK, AddWrite, Doing
<1>2. /\ Wanted(request) \subseteq Services /\ IsFiniteSet(Wanted(request))
      /\ Wanted(request) # {}
  BY <1>1, FiniteAssumption, FS_Subset DEF Wanted, AddWrite
<1>3. /\ ~(rows + Cardinality(Wanted(request)) > MaxRows)
      /\ number \in Bijection(Wanted(request), (rows + 1)..(rows + Cardinality(Wanted(request))))
  BY DEF AddNumberings
<1>4. /\ DOMAIN number = Wanted(request)
      /\ \A s \in Wanted(request) : number[s] \in Ids
      /\ rows + Cardinality(Wanted(request)) \in 0..MaxRows
      /\ rows + 1 \in Ids
  <2>1. Cardinality(Wanted(request)) \in Nat /\ Cardinality(Wanted(request)) # 0
    BY <1>2, FS_CardinalityType, FS_EmptySet
  <2>2. rows + 1 \in Ids
    BY <1>3, <2>1, BoundsAssumption DEF TypeOK, Ids
  <2> QED
    BY <1>2, <1>3, <2>2, NumberingFacts
<1>5. /\ Store(titles \cup made, listings \cup added)
      /\ rows' = rows + Cardinality(DOMAIN number)
      /\ Answer(h)
      /\ UNCHANGED <<suppressed, ledger, faults>>
  BY DEF AddWrite
<1> HIDE DEF request, made, added
<1>6. id \in Ids
  BY <1>4, HomeIdType
<1> HIDE DEF id
<1>7. made \subseteq Titles
  BY <1>1, <1>6 DEF made, Titles, RowStates
<1>8. added \subseteq Listings
  BY <1>2, <1>4, <1>6 DEF added, Listings, RowStates
<1>9. handler' \in [Handlers -> Request]
  BY <1>5, AnswerType
<1> QED
  BY <1>4, <1>5, <1>7, <1>8, <1>9 DEF TypeOK, Store, ledger

\* A listing that comes back is a listing.
LEMMA ReturnedType ==
  ASSUME NEW S \in SUBSET Listings
  PROVE  {[l EXCEPT !.state = "active", !.group = None] : l \in S} \subseteq Listings
  BY DEF Listings, RowStates

\* Requests that bring listings back or take them away.
LEMMA GroupTypes ==
  ASSUME TypeOK, NEW h \in Handlers, UndoGroupWrite(h)
  PROVE  TypeOK'
<1> DEFINE request == handler[h]
           back    == {l \in listings : l.id \in request.restoring /\ l.state = "removed"}
           returned == {[l EXCEPT !.state = "active", !.group = None] : l \in back}
           ls      == (listings \ back) \cup returned
<1>1. /\ Store(Rederive(titles, ls, {l.title : l \in back}), ls)
      /\ groups' = [groups EXCEPT ![request.group] = "undone"]
      /\ Answer(h)
      /\ UNCHANGED <<rows, suppressed, batch, history, changes, serviceState, faults>>
  BY DEF UndoGroupWrite
<1>2. returned \subseteq Listings
  <2>1. back \subseteq Listings
    BY DEF TypeOK
  <2> HIDE DEF back
  <2> QED
    BY <2>1, ReturnedType
<1>3. ls \subseteq Listings
  BY <1>2 DEF TypeOK
<1> HIDE DEF request, back, returned, ls
<1>4. titles' \subseteq Titles /\ listings' \subseteq Listings
  BY <1>1, <1>3, RederiveType DEF Store, TypeOK
<1>5. groups' \in [Batches -> {"none", "confirmed", "undone"}]
  BY <1>1 DEF TypeOK
<1>6. handler' \in [Handlers -> Request]
  BY <1>1, AnswerType
<1> QED
  BY <1>1, <1>4, <1>5, <1>6 DEF TypeOK

\* A removal by hand only changes states.
LEMMA RemoveTypes ==
  ASSUME TypeOK, NEW h \in Handlers, RemoveWrite(h)
  PROVE  TypeOK'
<1> DEFINE request == handler[h]
           gone    == {l \in Active(listings) : l.id \in request.listings}
           off     == {[l EXCEPT !.state = "removed"] : l \in gone}
           ls      == (listings \ gone) \cup off
<1>1. /\ Store(Rederive(titles, ls, {request.title}), ls)
      /\ Answer(h)
      /\ UNCHANGED <<rows, suppressed, ledger, faults>>
  BY DEF RemoveWrite
<1>2. off \subseteq Listings
  BY DEF TypeOK, Listings, RowStates, Active
<1>3. ls \subseteq Listings
  BY <1>2 DEF TypeOK
<1> HIDE DEF request, gone, off, ls
<1>4. titles' \subseteq Titles /\ listings' \subseteq Listings
  BY <1>1, <1>3, RederiveType DEF Store, TypeOK
<1>5. handler' \in [Handlers -> Request]
  BY <1>1, AnswerType
<1> QED
  BY <1>1, <1>4, <1>5 DEF TypeOK, ledger

\* So does a restore, statement by statement.
LEMMA RestoreTypes ==
  ASSUME TypeOK, NEW h \in Handlers,
         RestoreListing(h) \/ RestoreDerive(h) \/ RestoreTitle(h)
  PROVE  TypeOK'
<1> DEFINE request == handler[h]
<1>1. CASE RestoreListing(h)
  <2> DEFINE back == {l \in listings : l.id = request.listing /\ l.state = "removed"}
             returned == {[l EXCEPT !.state = "active", !.group = None] : l \in back}
             next == [op |-> "restored", title |-> request.title, duplicate |-> request.duplicate]
  <2>1. /\ titles' = titles /\ listings' = (listings \ back) \cup returned
        /\ handler' = [handler EXCEPT ![h] = next]
        /\ UNCHANGED <<rows, suppressed, ledger, faults>>
    BY <1>1 DEF RestoreListing, Store
  <2>2. returned \subseteq Listings
    <3>1. back \subseteq Listings
      BY DEF TypeOK
    <3> HIDE DEF back
    <3> QED
      BY <3>1, ReturnedType
  <2>3. next \in Request
    <3>1. request \in Request /\ request.op = "restore"
      BY <1>1 DEF RestoreListing, Doing, TypeOK
    <3>2. request.title \in Ids /\ request.duplicate \in BOOLEAN
      BY <3>1, RequestFacts
    <3> QED
      BY <3>2 DEF Request
  <2> HIDE DEF request, back, returned, next
  <2> QED
    BY <2>1, <2>2, <2>3 DEF TypeOK, ledger
<1>2. CASE RestoreDerive(h)
  <2> DEFINE next == [op |-> "derived", title |-> request.title,
                      state |-> Derived(listings, request.title),
                      duplicate |-> request.duplicate]
  <2>1. /\ handler' = [handler EXCEPT ![h] = next]
        /\ UNCHANGED <<list, suppressed, ledger, faults>>
    BY <1>2 DEF RestoreDerive
  <2>2. next \in Request
    <3>1. request \in Request /\ request.op = "restored"
      BY <1>2 DEF RestoreDerive, Doing, TypeOK
    <3>2. request.title \in Ids /\ request.duplicate \in BOOLEAN
      BY <3>1, RequestFacts
    <3>3. Derived(listings, request.title) \in RowStates
      BY DEF Derived, RowStates
    <3> QED
      BY <3>2, <3>3 DEF Request
  <2> HIDE DEF request, next
  <2> QED
    BY <2>1, <2>2 DEF TypeOK, list, ledger
<1>3. CASE RestoreTitle(h)
  <2>1. /\ Store(Retitled(request), listings) /\ Answer(h)
        /\ UNCHANGED <<rows, suppressed, ledger, faults>>
    BY <1>3 DEF RestoreTitle
  <2>2. request \in Request /\ request.op = "derived"
    BY <1>3 DEF RestoreTitle, Doing, TypeOK
  <2>3. request.title \in Ids /\ request.state \in RowStates
    BY <2>2, RequestFacts
  <2> HIDE DEF request
  <2>4. Retitled(request) \subseteq Titles
    BY <2>3 DEF Retitled, TypeOK, Titles
  <2>5. handler' \in [Handlers -> Request]
    BY <2>1, AnswerType
  <2> QED
    BY <2>1, <2>4, <2>5 DEF TypeOK, Store, ledger
<1> QED
  BY <1>1, <1>2, <1>3

\* A badge is a listing of its title.
LEMMA BadgeTypes ==
  ASSUME TypeOK, NEW h \in Handlers, BadgeWrite(h)
  PROVE  TypeOK'
<1>1. handler[h] \in Request /\ handler[h].title \in Ids /\ handler[h].service \in Services
  BY RequestFacts DEF TypeOK, BadgeWrite, Doing
<1>2. rows + 1 \in Ids /\ rows + 1 \in 0..MaxRows
  BY BoundsAssumption DEF TypeOK, BadgeWrite, Ids
<1>3. [id |-> rows + 1, title |-> handler[h].title, service |-> handler[h].service,
       state |-> "active", by |-> None, group |-> None] \in Listings
  BY <1>1, <1>2 DEF Listings, RowStates
<1>4. handler' \in [Handlers -> Request]
  BY AnswerType DEF BadgeWrite
<1> QED
  BY <1>2, <1>3, <1>4 DEF BadgeWrite, TypeOK, Store, ledger

\* A fix gives a title a work, and carries a suppression along.
LEMMA FixTypes ==
  ASSUME TypeOK, NEW h \in Handlers, FixWrite(h)
  PROVE  TypeOK'
<1> DEFINE request == handler[h]
           fixed   == {t \in titles : t.id = request.title /\ t.work = request.from}
           moved   == {[t EXCEPT !.work = request.to, !.ack = IF request.duplicate THEN t.id ELSE @] :
                         t \in fixed}
<1>1. request \in Request /\ request.from \in Works /\ request.to \in Works
  BY RequestFacts DEF TypeOK, FixWrite, Doing
<1>2. /\ Store((titles \ fixed) \cup moved, listings)
      /\ suppressed' \subseteq suppressed \cup {request.to}
      /\ Answer(h)
      /\ UNCHANGED <<rows, ledger, faults>>
  BY DEF FixWrite
<1>3. fixed \subseteq Titles
  BY DEF TypeOK
<1> HIDE DEF request, fixed
<1>4. moved \subseteq Titles
  BY <1>1, <1>3 DEF Titles
<1> HIDE DEF moved
<1>5. handler' \in [Handlers -> Request]
  BY <1>2, AnswerType
<1> QED
  BY <1>1, <1>2, <1>4, <1>5 DEF TypeOK, Store, ledger

\* A purge deletes rows and clears references.
LEMMA PurgeTypes ==
  ASSUME TypeOK, NEW h \in Handlers, NEW ls, Purge(h, ls)
  PROVE  TypeOK'
<1>1. /\ titles' \subseteq titles /\ listings' \subseteq listings
      /\ UNCHANGED <<rows, suppressed, batch, history, groups, serviceState, handler, faults>>
  BY DEF Purge, Store
<1>2. PICK ids, dropped : changes' = Forgotten(Purged(changes, ids), dropped)
  BY DEF Purge
<1>3. Purged(changes, ids) \subseteq Changes
  BY DEF Purged, TypeOK, Changes
<1>4. changes' \subseteq Changes
  <2> DEFINE marked == Purged(changes, ids)
  <2>1. marked \subseteq Changes
    BY <1>3
  <2> HIDE DEF marked
  <2>2. Forgotten(marked, dropped) \subseteq Changes
    BY <2>1 DEF Forgotten, Changes
  <2> QED
    BY <1>2, <2>2 DEF marked
<1> QED
  BY <1>1, <1>4 DEF TypeOK

\* What the requests about batches and groups read is of its type.
LEMMA ImportReadTypes ==
  ASSUME TypeOK, NEW h \in Handlers, NEW b \in Batches,
         \/ \E works \in SUBSET Works, ticked \in SUBSET {l.id : l \in listings} :
              CloseRead(h, b, works, ticked)
         \/ UndoRead(h, b)
         \/ UndoGroupRead(h, b)
  PROVE  TypeOK'
<1>1. ASSUME NEW works \in SUBSET Works, NEW ticked \in SUBSET {l.id : l \in listings},
             CloseRead(h, b, works, ticked)
      PROVE  TypeOK'
  <2> DEFINE r == [op |-> "close", batch |-> b, works |-> works, ticked |-> ticked,
                   removes |-> batch[b].removes /\ Proposed(b) # {},
                   after |-> {history[i] : i \in DOMAIN history}]
  <2>1. ticked \subseteq Ids
    BY DEF TypeOK, Listings
  <2>2. {history[i] : i \in DOMAIN history} \subseteq Batches
    BY DEF TypeOK
  <2>3. (batch[b].removes /\ Proposed(b) # {}) \in BOOLEAN
    OBVIOUS
  <2>4. r \in Request
    BY <2>1, <2>2, <2>3 DEF Request
  <2>5. Ask(h, r)
    BY <1>1 DEF CloseRead
  <2> HIDE DEF r
  <2> QED
    BY <2>4, <2>5, AskKeepsTypes
<1>2. ASSUME UndoRead(h, b)
      PROVE  TypeOK'
  <2> DEFINE r == [op |-> "undo", batch |-> b, titles |-> CreatedTitles(b),
                   listings |-> {c.listing : c \in AddedElsewhere(b)},
                   survivors |-> {c.title : c \in AddedElsewhere(b)},
                   previous |-> Latest(batch[b].service, b)]
  <2>1. CreatedTitles(b) \subseteq Ids
    BY DEF CreatedTitles, Recorded, TypeOK, Changes
  <2>2. /\ {c.listing : c \in AddedElsewhere(b)} \subseteq Ids
        /\ {c.title : c \in AddedElsewhere(b)} \subseteq Ids
    BY DEF AddedElsewhere, Recorded, TypeOK, Changes
  <2>3. Latest(batch[b].service, b) \in Batches \cup {None}
    BY LatestType
  <2>4. r \in Request
    BY <2>1, <2>2, <2>3 DEF Request
  <2>5. Ask(h, r)
    BY <1>2 DEF UndoRead
  <2> HIDE DEF r
  <2> QED
    BY <2>4, <2>5, AskKeepsTypes
<1>3. ASSUME UndoGroupRead(h, b)
      PROVE  TypeOK'
  <2> DEFINE members == {l \in listings : l.group = b}
             held    == {l \in members : WorkOf(l.title) \in suppressed}
             r       == [op |-> "undoGroup", group |-> b,
                         restoring |-> {l.id : l \in members \ held},
                         held |-> {l.id : l \in held}]
  <2>1. {l.id : l \in members \ held} \subseteq Ids /\ {l.id : l \in held} \subseteq Ids
    BY DEF TypeOK, Listings
  <2>2. r \in Request
    BY <2>1 DEF Request
  <2>3. Ask(h, r)
    BY <1>3 DEF UndoGroupRead
  <2> HIDE DEF r
  <2> QED
    BY <2>2, <2>3, AskKeepsTypes
<1> QED
  BY <1>1, <1>2, <1>3

\* So is what the requests about titles and listings read.
LEMMA EditReadTypes ==
  ASSUME TypeOK, NEW h \in Handlers,
         \/ \E l \in listings, confirmDuplicate \in BOOLEAN : RestoreRead(h, l, confirmDuplicate)
         \/ \E w \in Works, services \in SUBSET Services : AddRead(h, w, services)
         \/ \E t \in titles :
              \/ RemoveRead(h, t)
              \/ \E s \in Services : BadgeRead(h, t, s)
              \/ \E w \in Works, confirmDuplicate \in BOOLEAN : FixRead(h, t, w, confirmDuplicate)
         \/ \E l \in listings : DropRead(h, l)
  PROVE  TypeOK'
<1>n. /\ \A l \in listings : l.id \in Ids /\ l.title \in Ids
      /\ \A t \in titles : t.id \in Ids /\ t.work \in Works
  BY DEF TypeOK, Listings, Titles
<1>1. ASSUME NEW l \in listings, NEW confirmDuplicate \in BOOLEAN,
             RestoreRead(h, l, confirmDuplicate)
      PROVE  TypeOK'
  <2>1. Ask(h, [op |-> "restore", listing |-> l.id, title |-> l.title,
                duplicate |-> OldestActive(WorkOf(l.title)) # {}])
    BY <1>1 DEF RestoreRead
  <2>2. [op |-> "restore", listing |-> l.id, title |-> l.title,
         duplicate |-> OldestActive(WorkOf(l.title)) # {}] \in Request
    BY <1>n DEF Request
  <2> QED
    BY <2>1, <2>2, AskKeepsTypes
<1>2. ASSUME NEW w \in Works, NEW services \in SUBSET Services, AddRead(h, w, services)
      PROVE  TypeOK'
  <2>1. [op |-> "add", work |-> w, services |-> services] \in Request
    BY DEF Request
  <2> QED
    BY <1>2, <2>1, AskKeepsTypes DEF AddRead
<1>3. ASSUME NEW t \in titles, RemoveRead(h, t)
      PROVE  TypeOK'
  <2> DEFINE ids == {l.id : l \in Active(ListingsOf(listings, t.id))}
  <2>1. ids \subseteq Ids
    BY <1>n DEF Active, ListingsOf
  <2>2. Ask(h, [op |-> "remove", title |-> t.id, listings |-> ids])
    BY <1>3 DEF RemoveRead
  <2> HIDE DEF ids
  <2>3. [op |-> "remove", title |-> t.id, listings |-> ids] \in Request
    BY <1>n, <2>1 DEF Request
  <2> QED
    BY <2>2, <2>3, AskKeepsTypes
<1>4. ASSUME NEW t \in titles, NEW s \in Services, BadgeRead(h, t, s)
      PROVE  TypeOK'
  <2>1. [op |-> "badge", title |-> t.id, service |-> s] \in Request
    BY <1>n DEF Request
  <2> QED
    BY <1>4, <2>1, AskKeepsTypes DEF BadgeRead
<1>5. ASSUME NEW t \in titles, NEW w \in Works, NEW confirmDuplicate \in BOOLEAN,
             FixRead(h, t, w, confirmDuplicate)
      PROVE  TypeOK'
  <2>1. [op |-> "fix", title |-> t.id, from |-> t.work, to |-> w,
         duplicate |-> OldestActive(w) # {}, carried |-> t.work \in suppressed] \in Request
    BY <1>n DEF Request
  <2> QED
    BY <1>5, <2>1, AskKeepsTypes DEF FixRead
<1>6. ASSUME NEW l \in listings, DropRead(h, l)
      PROVE  TypeOK'
  <2>1. [op |-> "remove", title |-> l.title, listings |-> {l.id}] \in Request
    BY <1>n DEF Request
  <2> QED
    BY <1>6, <2>1, AskKeepsTypes DEF DropRead
<1> QED
  BY <1>1, <1>2, <1>3, <1>4, <1>5, <1>6

\* A batch reaches review with a reading.
LEMMA ReviewTypes ==
  ASSUME TypeOK, NEW b \in Batches, NEW s \in Services, NEW removes \in BOOLEAN,
         NEW found \in SUBSET Works, Review(b, s, removes, found)
  PROVE  TypeOK'
<1>1. [status |-> "in-review", service |-> s, removes |-> removes, found |-> found,
       confirmed |-> {}] \in Reading
  BY DEF Reading
<1> QED
  BY <1>1 DEF Review, TypeOK, list

\* A step that only ends a request, or sets or lifts a suppression.
LEMMA SmallTypes ==
  ASSUME TypeOK, NEW h \in Handlers,
         \/ RestoreRejected(h) \/ RestoreInterrupted(h) \/ Refuse(h)
         \/ \E w \in Works : Suppress(h, w) \/ Unsuppress(h, w)
  PROVE  TypeOK'
<1>1. CASE RestoreRejected(h) \/ RestoreInterrupted(h) \/ Refuse(h)
  <2>1. handler' \in [Handlers -> Request]
    BY <1>1, AnswerType DEF RestoreRejected, RestoreInterrupted, Refuse
  <2>2. faults' \in 0..MaxFaults
    BY <1>1, BoundsAssumption DEF TypeOK, RestoreRejected, RestoreInterrupted, Refuse
  <2> QED
    BY <1>1, <2>1, <2>2
       DEF TypeOK, RestoreRejected, RestoreInterrupted, Refuse, list, ledger
<1>2. CASE \E w \in Works : Suppress(h, w) \/ Unsuppress(h, w)
  BY <1>2 DEF TypeOK, Suppress, Unsuppress, list, ledger
<1> QED
  BY <1>1, <1>2

\* The rows and requests stay in their types: every reference that is not cleared
\* is an id the store has handed out, and every request holds what its route reads.
THEOREM TypesHold == Spec => []TypeOK
<1>1. Init => TypeOK
  BY NoneAssumption, BoundsAssumption DEF Init, TypeOK, Request, Unread, Idle
<1>2. TypeOK /\ [Next]_vars => TypeOK'
  <2> SUFFICES ASSUME TypeOK, [Next]_vars
               PROVE  TypeOK'
    OBVIOUS
  <2>1. CASE \E b \in Batches, s \in Services, removes \in BOOLEAN, found \in SUBSET Works :
               Review(b, s, removes, found)
    BY <2>1, ReviewTypes
  <2>2. ASSUME NEW h \in Handlers, Import(h)
        PROVE  TypeOK'
    BY <2>2, ImportReadTypes, CloseTypes, UndoTypes, GroupTypes DEF Import
  <2>3. ASSUME NEW h \in Handlers, Edit(h)
        PROVE  TypeOK'
    BY <2>3, EditReadTypes, RestoreTypes, AddTypes, RemoveTypes, BadgeTypes, FixTypes, PurgeTypes,
       SmallTypes DEF Edit
  <2>4. ASSUME NEW h \in Handlers, Refuse(h)
        PROVE  TypeOK'
    BY <2>4, SmallTypes
  <2>5. CASE UNCHANGED vars
    BY <2>5 DEF TypeOK, vars, list, ledger
  <2> QED
    BY <2>1, <2>2, <2>3, <2>4, <2>5 DEF Next
<1> QED
  BY <1>1, <1>2, PTL DEF Spec

----------------------------------------------------------------------------
(* The ledger and the references                                           *)

\* Ids are never used again, and a listing's title exists.
UniqueIds ==
  /\ \A t, u \in titles : t.id = u.id => t = u
  /\ \A l, m \in listings : l.id = m.id => l = m
  /\ \A x \in titles \cup listings : x.id <= rows
  /\ \A l \in listings : l.title \in TitleIds

\* A row made by a batch is there only while that batch is applied, and is on
\* record under it with its title.
OnRecord ==
  /\ \A t \in titles : t.by # None =>
       /\ HasStatus(t.by, "applied")
       /\ \E c \in changes : c.batch = t.by /\ c.kind = "title_created" /\ c.title = t.id
  /\ \A l \in listings : l.by # None =>
       /\ HasStatus(l.by, "applied")
       /\ \E c \in changes : /\ c.batch = l.by /\ c.kind = "listing_added"
                             /\ c.title = l.title /\ c.listing = l.id

\* An undo is of a batch that has been applied; while it can still be written it
\* takes everything the batch made that is there.
UndoTakesAll(request) ==
  request.op = "undo" =>
    \/ HasStatus(request.batch, "undone")
    \/ /\ HasStatus(request.batch, "applied")
       /\ \A t \in titles : t.by = request.batch => t.id \in request.titles
       /\ \A l \in listings : l.by = request.batch =>
            l.title \in request.titles \/ l.id \in request.listings

LedgerInv ==
  /\ UniqueIds
  /\ ReferencesHold
  /\ OnRecord
  /\ \A h \in Handlers : UndoTakesAll(handler[h])

\* The rows ts, or ls, are those of the table but for what they say of themselves:
\* no row comes or goes.
KeepsTitles(ts) ==
  /\ \A u \in ts : \E t \in titles : u.id = t.id /\ u.by = t.by
  /\ \A t \in titles : \E u \in ts : u.id = t.id
  /\ \A t, u \in ts : t.id = u.id => t = u
KeepsListings(ls) ==
  /\ \A m \in ls : \E l \in listings : m.id = l.id /\ m.title = l.title /\ m.by = l.by
  /\ \A l \in listings : \E m \in ls : m.id = l.id
  /\ \A l, m \in ls : l.id = m.id => l = m

\* Bringing titles up to date changes nothing but their states.
LEMMA RederiveRows ==
  ASSUME NEW ts \in SUBSET Titles, NEW ls, NEW ids,
         \A t, u \in ts : t.id = u.id => t = u
  PROVE  /\ \A u \in Rederive(ts, ls, ids) : \E t \in ts : u.id = t.id /\ u.by = t.by /\ u.work = t.work
         /\ \A t \in ts : \E u \in Rederive(ts, ls, ids) : u.id = t.id /\ u.by = t.by /\ u.work = t.work
         /\ \A t, u \in Rederive(ts, ls, ids) : t.id = u.id => t = u
<1> DEFINE f(t) == IF t.id \in ids THEN [t EXCEPT !.state = Derived(ls, t.id)] ELSE t
<1>1. Rederive(ts, ls, ids) = {f(t) : t \in ts}
  BY DEF Rederive
<1>2. \A t \in ts : f(t).id = t.id /\ f(t).by = t.by /\ f(t).work = t.work
  BY DEF Titles
<1> HIDE DEF f
<1> QED
  BY <1>1, <1>2

\* In particular no title comes or goes.
LEMMA RederiveKeeps ==
  ASSUME TypeOK, UniqueIds, NEW ls, NEW ids
  PROVE  KeepsTitles(Rederive(titles, ls, ids))
  BY RederiveRows DEF KeepsTitles, UniqueIds, TypeOK

\* Listings that come back were there.
LEMMA ReturnedKeeps ==
  ASSUME TypeOK, UniqueIds, NEW back \in SUBSET listings
  PROVE  KeepsListings((listings \ back)
                         \cup {[l EXCEPT !.state = "active", !.group = None] : l \in back})
<1> DEFINE f(l) == [l EXCEPT !.state = "active", !.group = None]
<1>1. \A l \in listings : f(l).id = l.id /\ f(l).title = l.title /\ f(l).by = l.by
  BY DEF TypeOK, Listings
<1> HIDE DEF f
<1>2. KeepsListings((listings \ back) \cup {f(l) : l \in back})
  BY <1>1 DEF KeepsListings, UniqueIds
<1> QED
  BY <1>2 DEF f

\* A step that keeps the rows, the ledger and the batches, and starts no undo.
LEMMA KeptRows ==
  ASSUME TypeOK, LedgerInv,
         KeepsTitles(titles'), KeepsListings(listings'),
         UNCHANGED <<rows, batch, changes>>,
         \A h \in Handlers : handler'[h] = handler[h] \/ handler'[h].op # "undo"
  PROVE  LedgerInv'
<1>1. UniqueIds'
  BY DEF LedgerInv, UniqueIds, KeepsTitles, KeepsListings, TitleIds
<1>2. ReferencesHold'
  BY DEF LedgerInv, ReferencesHold, KeepsTitles, KeepsListings, TitleIds
<1>3. OnRecord'
  BY DEF LedgerInv, OnRecord, KeepsTitles, KeepsListings, HasStatus
<1>4. \A h \in Handlers : UndoTakesAll(handler[h])'
  <2> SUFFICES ASSUME NEW h \in Handlers, handler'[h].op = "undo"
               PROVE  UndoTakesAll(handler[h])'
    BY DEF UndoTakesAll
  <2>1. handler'[h] = handler[h] /\ UndoTakesAll(handler[h])
    BY DEF LedgerInv
  <2> QED
    BY <2>1 DEF UndoTakesAll, KeepsTitles, KeepsListings, HasStatus
<1> QED
  BY <1>1, <1>2, <1>3, <1>4 DEF LedgerInv

\* The same for a step that only makes rows by hand, under ids not handed out yet.
LEMMA GrownRows ==
  ASSUME TypeOK, LedgerInv, NEW made, NEW added, NEW n \in Nat,
         titles' = titles \cup made, listings' = listings \cup added, rows' = rows + n,
         \A t \in made : t.by = None /\ t.id > rows /\ t.id <= rows + n,
         \A l \in added : /\ l.by = None /\ l.id > rows /\ l.id <= rows + n
                          /\ l.title \in {t.id : t \in titles \cup made},
         \A t, u \in made : t.id = u.id => t = u,
         \A l, m \in added : l.id = m.id => l = m,
         UNCHANGED <<batch, changes>>,
         \A h \in Handlers : handler'[h] = handler[h] \/ handler'[h].op # "undo"
  PROVE  LedgerInv'
<1>n. /\ rows \in Nat
      /\ \A t \in titles : t.id \in Nat /\ t.id <= rows
      /\ \A l \in listings : l.id \in Nat /\ l.id <= rows
  BY DEF TypeOK, Titles, Listings, Ids, LedgerInv, UniqueIds
<1>1. UniqueIds'
  <2>1. \A t, u \in titles' : t.id = u.id => t = u
    BY <1>n DEF LedgerInv, UniqueIds
  <2>2. \A l, m \in listings' : l.id = m.id => l = m
    BY <1>n DEF LedgerInv, UniqueIds
  <2>3. \A x \in titles' \cup listings' : x.id <= rows'
    BY <1>n
  <2>4. \A l \in listings' : l.title \in TitleIds'
    BY DEF LedgerInv, UniqueIds, TitleIds
  <2> QED
    BY <2>1, <2>2, <2>3, <2>4 DEF UniqueIds
<1>2. ReferencesHold'
  BY DEF LedgerInv, ReferencesHold, TitleIds
<1>3. OnRecord'
  BY DEF LedgerInv, OnRecord, HasStatus
<1>4. \A h \in Handlers : UndoTakesAll(handler[h])'
  <2> SUFFICES ASSUME NEW h \in Handlers, handler'[h].op = "undo"
               PROVE  UndoTakesAll(handler[h])'
    BY DEF UndoTakesAll
  <2>1. handler'[h] = handler[h] /\ UndoTakesAll(handler[h])
    BY DEF LedgerInv
  <2>2. handler[h].batch \in Batches
    BY <2>1, RequestFacts DEF TypeOK
  <2> QED
    BY <2>1, <2>2, NoneAssumption DEF UndoTakesAll, HasStatus
<1> QED
  BY <1>1, <1>2, <1>3, <1>4 DEF LedgerInv

\* A step that leaves the rows alone.
LEMMA SameRows ==
  ASSUME TypeOK, LedgerInv, UNCHANGED <<titles, listings, rows, batch, changes>>,
         \A h \in Handlers : handler'[h] = handler[h] \/ handler'[h].op # "undo"
  PROVE  LedgerInv'
<1>1. KeepsTitles(titles') /\ KeepsListings(listings')
  BY DEF KeepsTitles, KeepsListings, LedgerInv, UniqueIds
<1> QED
  BY <1>1, KeptRows

\* A handler that is answered is idle, and the others are as they were.
LEMMA AnswerLeaves ==
  ASSUME TypeOK, NEW h \in Handlers, Answer(h)
  PROVE  \A g \in Handlers : handler'[g] = handler[g] \/ handler'[g].op # "undo"
  BY DEF TypeOK, Answer, Idle

\* A request that starts, other than an undo, changes no row.
LEMMA LedgerAsk ==
  ASSUME TypeOK, LedgerInv, NEW h \in Handlers, NEW r, Ask(h, r), r.op # "undo"
  PROVE  LedgerInv'
<1>1. UNCHANGED <<titles, listings, rows, batch, changes>>
  BY DEF Ask, list, ledger
<1>2. \A g \in Handlers : handler'[g] = handler[g] \/ handler'[g].op # "undo"
  BY DEF Ask, TypeOK
<1> QED
  BY <1>1, <1>2, SameRows

\* All reads but that of an undo are such requests.
LEMMA LedgerReads ==
  ASSUME TypeOK, LedgerInv, NEW h \in Handlers,
         \/ \E b \in Batches :
              \/ \E works \in SUBSET Works, ticked \in SUBSET {l.id : l \in listings} :
                   CloseRead(h, b, works, ticked)
              \/ UndoGroupRead(h, b)
         \/ \E l \in listings, confirmDuplicate \in BOOLEAN : RestoreRead(h, l, confirmDuplicate)
         \/ \E w \in Works, services \in SUBSET Services : AddRead(h, w, services)
         \/ \E t \in titles :
              \/ RemoveRead(h, t)
              \/ \E s \in Services : BadgeRead(h, t, s)
              \/ \E w \in Works, confirmDuplicate \in BOOLEAN : FixRead(h, t, w, confirmDuplicate)
         \/ \E l \in listings : DropRead(h, l)
  PROVE  LedgerInv'
<1>1. \E r : Ask(h, r) /\ r.op # "undo"
  <2>1. ASSUME NEW b \in Batches, NEW works, NEW ticked, CloseRead(h, b, works, ticked)
        PROVE  \E r : Ask(h, r) /\ r.op # "undo"
    BY <2>1 DEF CloseRead
  <2>2. ASSUME NEW b \in Batches, UndoGroupRead(h, b)
        PROVE  \E r : Ask(h, r) /\ r.op # "undo"
    BY <2>2 DEF UndoGroupRead
  <2>3. ASSUME NEW l, NEW confirmDuplicate, RestoreRead(h, l, confirmDuplicate)
        PROVE  \E r : Ask(h, r) /\ r.op # "undo"
    BY <2>3 DEF RestoreRead
  <2>4. ASSUME NEW w, NEW services, AddRead(h, w, services)
        PROVE  \E r : Ask(h, r) /\ r.op # "undo"
    BY <2>4 DEF AddRead
  <2>5. ASSUME NEW t, RemoveRead(h, t)
        PROVE  \E r : Ask(h, r) /\ r.op # "undo"
    BY <2>5 DEF RemoveRead
  <2>6. ASSUME NEW t, NEW s, BadgeRead(h, t, s)
        PROVE  \E r : Ask(h, r) /\ r.op # "undo"
    BY <2>6 DEF BadgeRead
  <2>7. ASSUME NEW t, NEW w, NEW confirmDuplicate, FixRead(h, t, w, confirmDuplicate)
        PROVE  \E r : Ask(h, r) /\ r.op # "undo"
    BY <2>7 DEF FixRead
  <2>8. ASSUME NEW l, DropRead(h, l)
        PROVE  \E r : Ask(h, r) /\ r.op # "undo"
    BY <2>8 DEF DropRead
  <2> QED
    BY <2>1, <2>2, <2>3, <2>4, <2>5, <2>6, <2>7, <2>8
<1> QED
  BY <1>1, LedgerAsk

\* Requests that change rows in place: no row comes or goes.
LEMMA LedgerKept ==
  ASSUME TypeOK, LedgerInv, NEW h \in Handlers,
         \/ UndoGroupWrite(h) \/ RemoveWrite(h) \/ FixWrite(h)
         \/ RestoreListing(h) \/ RestoreDerive(h) \/ RestoreTitle(h)
  PROVE  LedgerInv'
<1>u. UniqueIds
  BY DEF LedgerInv
<1>1. CASE UndoGroupWrite(h)
  <2> DEFINE back == {l \in listings : l.id \in handler[h].restoring /\ l.state = "removed"}
             ls   == (listings \ back)
                       \cup {[l EXCEPT !.state = "active", !.group = None] : l \in back}
             ids  == {l.title : l \in back}
  <2>1. /\ Store(Rederive(titles, ls, ids), ls) /\ Answer(h)
        /\ UNCHANGED <<rows, batch, changes>>
    BY <1>1 DEF UndoGroupWrite
  <2>2. KeepsListings(ls)
    BY <1>u, ReturnedKeeps
  <2> HIDE DEF ls, ids
  <2>3. KeepsTitles(titles') /\ KeepsListings(listings')
    BY <1>u, <2>1, <2>2, RederiveKeeps DEF Store
  <2> QED
    BY <2>1, <2>3, AnswerLeaves, KeptRows
<1>2. CASE RemoveWrite(h)
  <2> DEFINE gone == {l \in Active(listings) : l.id \in handler[h].listings}
             f(l) == [l EXCEPT !.state = "removed"]
             ls   == (listings \ gone) \cup {f(l) : l \in gone}
             ids  == {handler[h].title}
  <2>1. /\ Store(Rederive(titles, ls, ids), ls) /\ Answer(h)
        /\ UNCHANGED <<rows, batch, changes>>
    BY <1>2 DEF RemoveWrite, ledger
  <2>2. \A l \in listings : f(l).id = l.id /\ f(l).title = l.title /\ f(l).by = l.by
    BY DEF TypeOK, Listings
  <2>3. gone \subseteq listings
    BY DEF Active
  <2> HIDE DEF f, gone
  <2>4. KeepsListings(ls)
    BY <1>u, <2>2, <2>3 DEF KeepsListings, UniqueIds
  <2> HIDE DEF ls, ids
  <2>5. KeepsTitles(titles') /\ KeepsListings(listings')
    BY <1>u, <2>1, <2>4, RederiveKeeps DEF Store
  <2> QED
    BY <2>1, <2>5, AnswerLeaves, KeptRows
<1>3. CASE FixWrite(h)
  <2> DEFINE fixed == {t \in titles : t.id = handler[h].title /\ t.work = handler[h].from}
             f(t)  == [t EXCEPT !.work = handler[h].to,
                                !.ack = IF handler[h].duplicate THEN t.id ELSE @]
             ts    == (titles \ fixed) \cup {f(t) : t \in fixed}
  <2>1. /\ Store(ts, listings) /\ Answer(h)
        /\ UNCHANGED <<rows, batch, changes>>
    BY <1>3 DEF FixWrite, ledger
  <2>2. \A t \in titles : f(t).id = t.id /\ f(t).by = t.by
    BY DEF TypeOK, Titles
  <2>3. fixed \subseteq titles
    OBVIOUS
  <2> HIDE DEF f, fixed
  <2>4. KeepsTitles(ts) /\ KeepsListings(listings)
    BY <1>u, <2>2, <2>3 DEF KeepsTitles, KeepsListings, UniqueIds
  <2> QED
    BY <2>1, <2>4, AnswerLeaves, KeptRows DEF Store
<1>4. CASE RestoreListing(h)
  <2> DEFINE back == {l \in listings : l.id = handler[h].listing /\ l.state = "removed"}
             ls   == (listings \ back)
                       \cup {[l EXCEPT !.state = "active", !.group = None] : l \in back}
  <2>1. /\ Store(titles, ls)
        /\ UNCHANGED <<rows, batch, changes>>
        /\ \A g \in Handlers : handler'[g] = handler[g] \/ handler'[g].op # "undo"
    BY <1>4 DEF RestoreListing, ledger, TypeOK
  <2>2. KeepsListings(ls)
    BY <1>u, ReturnedKeeps
  <2>3. KeepsTitles(titles)
    BY <1>u DEF KeepsTitles, UniqueIds
  <2> HIDE DEF ls
  <2> QED
    BY <2>1, <2>2, <2>3, KeptRows DEF Store
<1>5. CASE RestoreDerive(h)
  <2>1. /\ UNCHANGED <<titles, listings, rows, batch, changes>>
        /\ \A g \in Handlers : handler'[g] = handler[g] \/ handler'[g].op # "undo"
    BY <1>5 DEF RestoreDerive, list, ledger, TypeOK
  <2> QED
    BY <2>1, SameRows
<1>6. CASE RestoreTitle(h)
  <2> DEFINE r    == handler[h]
             f(t) == IF t.id = r.title
                       THEN [t EXCEPT !.state = r.state,
                                      !.ack = IF r.duplicate THEN t.id ELSE @]
                       ELSE t
  <2>1. /\ Store(Retitled(r), listings) /\ Answer(h)
        /\ UNCHANGED <<rows, batch, changes>>
    BY <1>6 DEF RestoreTitle, ledger
  <2>2. Retitled(r) = {f(t) : t \in titles}
    BY DEF Retitled
  <2>3. \A t \in titles : f(t).id = t.id /\ f(t).by = t.by
    BY DEF TypeOK, Titles
  <2> HIDE DEF f
  <2>4. KeepsTitles(Retitled(r)) /\ KeepsListings(listings)
    BY <1>u, <2>2, <2>3 DEF KeepsTitles, KeepsListings, UniqueIds
  <2> QED
    BY <2>1, <2>4, AnswerLeaves, KeptRows DEF Store
<1> QED
  BY <1>1, <1>2, <1>3, <1>4, <1>5, <1>6

\* Rows made by hand: they are on no batch's record and need none.
LEMMA LedgerAdd ==
  ASSUME TypeOK, LedgerInv, NEW h \in Handlers, NEW number \in AddNumberings(h),
         AddWrite(h, number)
  PROVE  LedgerInv'
<1> DEFINE request == handler[h]
           wanted  == Wanted(request)
           id      == HomeId(request.work, rows + 1)
           made    == IF Home(request.work) = {}
                        THEN {[id |-> id, work |-> request.work, state |-> "active", ack |-> 0,
                               by |-> None]}
                        ELSE {}
           added   == {[id |-> number[s], title |-> id, service |-> s, state |-> "active",
                        by |-> None, group |-> None] : s \in DOMAIN number}
           n       == Cardinality(DOMAIN number)
<1>1. request \in Request /\ request.work \in Works /\ request.services \subseteq Services
  BY RequestFacts DEF TypeOK, AddWrite, Doing
<1>2. wanted \subseteq Services /\ IsFiniteSet(wanted) /\ wanted # {}
  BY <1>1, FiniteAssumption, FS_Subset DEF Wanted, AddWrite
<1>3. /\ ~(rows + Cardinality(wanted) > MaxRows)
      /\ number \in Bijection(wanted, (rows + 1)..(rows + Cardinality(wanted)))
  BY DEF AddNumberings
<1>4. /\ DOMAIN number = wanted
      /\ \A s \in wanted : number[s] > rows /\ number[s] <= rows + n
      /\ \A s, t \in wanted : number[s] = number[t] => s = t
  BY <1>2, <1>3, NumberingFacts
<1>5. n \in Nat /\ 1 <= n /\ rows \in Nat
  BY <1>2, <1>4, FS_CardinalityType, FS_EmptySet DEF TypeOK
<1>6. /\ titles' = titles \cup made /\ listings' = listings \cup added /\ rows' = rows + n
      /\ Answer(h) /\ UNCHANGED <<batch, changes>>
  BY DEF AddWrite, Store, ledger
<1>7. Home(request.work) = {} => id = rows + 1
  BY DEF HomeId
<1>8. Home(request.work) # {} => id \in {t.id : t \in titles}
  BY DEF HomeId, Home, Newest, TitlesOf
<1> HIDE DEF request, wanted, id, n
<1>9. /\ \A t \in made : t.by = None /\ t.id > rows /\ t.id <= rows + n
      /\ \A t, u \in made : t.id = u.id => t = u
  BY <1>5, <1>7
<1>10. id \in {t.id : t \in titles \cup made}
  <2>1. CASE Home(request.work) = {}
    <3>1. PICK t \in made : t.id = id
      BY <2>1
    <3> QED
      BY <3>1
  <2>2. CASE Home(request.work) # {}
    BY <1>8, <2>2
  <2> QED
    BY <2>1, <2>2
<1> HIDE DEF made
<1>11. /\ \A l \in added : /\ l.by = None /\ l.id > rows /\ l.id <= rows + n
                           /\ l.title \in {t.id : t \in titles \cup made}
       /\ \A l, m \in added : l.id = m.id => l = m
  BY <1>4, <1>10
<1> HIDE DEF added
<1>12. \A g \in Handlers : handler'[g] = handler[g] \/ handler'[g].op # "undo"
  BY <1>6, AnswerLeaves
<1> QED
  BY <1>5, <1>6, <1>9, <1>11, <1>12, GrownRows

\* A badge is a listing made by hand of a title that exists.
LEMMA LedgerBadge ==
  ASSUME TypeOK, LedgerInv, NEW h \in Handlers, BadgeWrite(h)
  PROVE  LedgerInv'
<1> DEFINE new == [id |-> rows + 1, title |-> handler[h].title, service |-> handler[h].service,
                   state |-> "active", by |-> None, group |-> None]
<1>1. /\ titles' = titles \cup {} /\ listings' = listings \cup {new} /\ rows' = rows + 1
      /\ handler[h].title \in TitleIds /\ Answer(h) /\ UNCHANGED <<batch, changes>>
  BY DEF BadgeWrite, Store, ledger
<1>2. rows \in Nat
  BY DEF TypeOK
<1>3. new.by = None /\ new.id > rows /\ new.id <= rows + 1 /\ new.title \in {t.id : t \in titles \cup {}}
  BY <1>1, <1>2 DEF TitleIds
<1> HIDE DEF new
<1> DEFINE made == {}
           added == {new}
<1>5. /\ titles' = titles \cup made /\ listings' = listings \cup added
      /\ \A t \in made : t.by = None /\ t.id > rows /\ t.id <= rows + 1
      /\ \A l \in added : /\ l.by = None /\ l.id > rows /\ l.id <= rows + 1
                          /\ l.title \in {t.id : t \in titles \cup made}
      /\ \A t, u \in made : t.id = u.id => t = u
      /\ \A l, m \in added : l.id = m.id => l = m
  BY <1>1, <1>3
<1> HIDE DEF made, added
<1>4. \A g \in Handlers : handler'[g] = handler[g] \/ handler'[g].op # "undo"
  BY <1>1, AnswerLeaves
<1> QED
  BY <1>1, <1>4, <1>5, 1 \in Nat, GrownRows

\* What a close makes, adds and removes.
MadeBy(h, number) ==
  {[id |-> number[w], work |-> w, state |-> "active", ack |-> 0, by |-> handler[h].batch] :
     w \in {v \in Listed(handler[h]) : Home(v) = {}}}
AddedBy(h, number) ==
  {[id |-> number[w], title |-> HomeId(w, number[w]), service |-> batch[handler[h].batch].service,
    state |-> "active", by |-> handler[h].batch, group |-> None] : w \in Listed(handler[h])}
RemovedBy(h) == {l \in Active(listings) : l.id \in handler[h].ticked}

SameTitle(u, t) == u.id = t.id /\ u.work = t.work /\ u.by = t.by

\* A close in terms of these: new rows under new ids, the removed listings marked
\* with the batch, the rest as it was, and a ledger row for each.
Closed(h, number, b, listed, made, added, removed) ==
  /\ b \in Batches /\ HasStatus(b, "in-review") /\ batch[b] \in Reading
  /\ batch'[b] = [batch[b] EXCEPT !.status = "applied", !.confirmed = handler[h].works]
  /\ \A c \in Batches : c # b => batch'[c] = batch[c]
  /\ Answer(h)
  /\ rows \in Nat /\ rows' \in Nat /\ rows <= rows'
  /\ \A w \in listed : number[w] > rows
  /\ \A v, w \in listed : number[v] = number[w] => v = w
  /\ \A t \in made : t.by = b /\ t.id > rows /\ t.id <= rows'
  /\ \A l \in added : /\ l.by = b /\ l.group = None /\ l.id > rows /\ l.id <= rows'
                      /\ \E t \in titles \cup made : t.id = l.title
  /\ \A l \in added : \E w \in listed :
       l.id = number[w] /\ \E t \in titles \cup made : t.id = l.title /\ t.work = w
  /\ removed \subseteq listings
  /\ \A t \in titles : t.id \in Nat /\ t.id <= rows
  /\ \A l \in listings : l.id \in Nat /\ l.id <= rows
  /\ \A u \in titles' : \E t \in titles \cup made : SameTitle(u, t)
  /\ \A t \in titles \cup made : \E u \in titles' : SameTitle(u, t)
  /\ \A t, u \in titles' : t.id = u.id => t = u
  /\ \A m \in listings' :
       \/ m \in (listings \ removed) \cup added
       \/ \E l \in removed : /\ m.id = l.id /\ m.title = l.title /\ m.service = l.service
                             /\ m.by = l.by /\ m.state = "removed" /\ m.group = b
  /\ \A l \in listings \cup added : \E m \in listings' : m.id = l.id
  /\ \A l, m \in listings' : l.id = m.id => l = m
  /\ changes' = changes \cup ChangeRows(b, made, added, removed)

\* That is what a close does.
LEMMA CloseFacts ==
  ASSUME TypeOK, LedgerInv, NEW h \in Handlers, NEW number \in Numberings(h),
         CloseWrite(h, number)
  PROVE  \E b, listed, made, added, removed :
           /\ b = handler[h].batch
           /\ listed = Listed(handler[h])
           /\ made = MadeBy(h, number)
           /\ added = AddedBy(h, number)
           /\ removed = RemovedBy(h)
           /\ Closed(h, number, b, listed, made, added, removed)
<1> SUFFICES ASSUME NEW b, b = handler[h].batch, NEW listed, listed = Listed(handler[h]),
                    NEW made, made = MadeBy(h, number), NEW added, added = AddedBy(h, number),
                    NEW removed, removed = RemovedBy(h)
             PROVE  Closed(h, number, b, listed, made, added, removed)
  OBVIOUS
<1> DEFINE request == handler[h]
           n       == Cardinality(listed)
           f(l)    == [l EXCEPT !.state = "removed", !.group = b]
           ls      == (listings \ removed) \cup added \cup {f(l) : l \in removed}
           ids     == {l.title : l \in removed}
<1>1. request \in Request /\ request.op = "close" /\ b \in Batches /\ request.works \subseteq Works
  BY RequestFacts DEF TypeOK, CloseWrite, Doing
<1>2. listed \subseteq Works /\ IsFiniteSet(listed)
  BY <1>1, FiniteAssumption, FS_Subset DEF Listed
<1>3. /\ ~(rows + Cardinality(listed) > MaxRows)
      /\ number \in Bijection(listed, (rows + 1)..(rows + Cardinality(listed)))
  BY DEF Numberings
<1>4. /\ DOMAIN number = listed
      /\ \A w \in listed : number[w] \in Ids /\ number[w] > rows /\ number[w] <= rows + n
      /\ \A v, w \in listed : number[v] = number[w] => v = w
  BY <1>2, <1>3, NumberingFacts
<1>5. /\ MoveBatch(b, "in-review", "applied", request.works)
      /\ titles' = Rederive(titles \cup made, ls, ids)
      /\ listings' = ls
      /\ rows' = rows + n
      /\ changes' = changes \cup ChangeRows(b, made, added, removed)
      /\ Answer(h)
  BY <1>4 DEF CloseWrite, Store, MadeBy, AddedBy, RemovedBy
<1>7. n \in Nat /\ rows \in Nat
  BY <1>2, FS_CardinalityType DEF TypeOK
<1>h. \A w \in listed :
        /\ Home(w) = {} => HomeId(w, number[w]) = number[w]
        /\ Home(w) # {} => \E t \in titles : t.id = HomeId(w, number[w]) /\ t.work = w
  BY DEF HomeId, Home, Newest, TitlesOf
<1>f. \A l \in listings : /\ f(l).id = l.id /\ f(l).title = l.title /\ f(l).service = l.service
                          /\ f(l).by = l.by /\ f(l).state = "removed" /\ f(l).group = b
  BY DEF TypeOK, Listings
<1>r. removed \subseteq listings
  BY DEF Active, RemovedBy
<1> HIDE DEF request, n, f, ids
<1>8. /\ HasStatus(b, "in-review") /\ batch[b] \in Reading
      /\ batch'[b] = [batch[b] EXCEPT !.status = "applied", !.confirmed = request.works]
      /\ \A c \in Batches : c # b => batch'[c] = batch[c]
  <2>1. /\ batch[b].status = "in-review"
        /\ batch' = [batch EXCEPT ![b] = [batch[b] EXCEPT !.status = "applied",
                                                        !.confirmed = request.works]]
    BY <1>5 DEF MoveBatch
  <2>2. batch \in [Batches -> Reading \cup {Unread}]
    BY DEF TypeOK
  <2>3. batch[b] \in Reading /\ batch[b] # Unread
    BY <1>1, <2>1, <2>2 DEF Reading, Unread
  <2> QED
    BY <1>1, <2>1, <2>2, <2>3 DEF HasStatus
<1>10. made \subseteq Titles
  BY <1>1, <1>2, <1>4 DEF MadeBy, Titles, RowStates
<1>11. /\ \A t \in made : t.by = b /\ t.id > rows /\ t.id <= rows + n
       /\ \A t, u \in made : t.id = u.id => t = u
       /\ \A w \in listed : Home(w) = {} => \E t \in made : t.id = number[w] /\ t.work = w
  <2> DEFINE r(w) == [id |-> number[w], work |-> w, state |-> "active", ack |-> 0, by |-> b]
             new  == {v \in listed : Home(v) = {}}
  <2>1. made = {r(w) : w \in new}
    BY DEF MadeBy
  <2>2. \A w \in listed : r(w).id = number[w] /\ r(w).work = w /\ r(w).by = b
    OBVIOUS
  <2>3. new \subseteq listed /\ \A w \in listed : Home(w) = {} => w \in new
    OBVIOUS
  <2> HIDE DEF r, new
  <2> QED
    BY <1>4, <2>1, <2>2, <2>3
<1>12. /\ \A l \in added : /\ l.by = b /\ l.group = None /\ l.id > rows /\ l.id <= rows + n
                           /\ \E t \in titles \cup made : t.id = l.title
       /\ \A l, m \in added : l.id = m.id => l = m
       /\ \A l \in added : \E w \in listed :
            l.id = number[w] /\ \E t \in titles \cup made : t.id = l.title /\ t.work = w
  <2>1. \A w \in listed : \E t \in titles \cup made : t.id = HomeId(w, number[w]) /\ t.work = w
    BY <1>h, <1>11
  <2> DEFINE r(w) == [id |-> number[w], title |-> HomeId(w, number[w]),
                      service |-> batch[b].service, state |-> "active", by |-> b,
                      group |-> None]
  <2>2. added = {r(w) : w \in listed}
    BY DEF AddedBy
  <2>3. \A w \in listed : /\ r(w).id = number[w] /\ r(w).by = b /\ r(w).group = None
                          /\ r(w).title = HomeId(w, number[w])
    OBVIOUS
  <2> HIDE DEF r
  <2> QED
    BY <1>4, <2>1, <2>2, <2>3
<1>13. /\ \A t \in titles : t.id \in Nat /\ t.id <= rows
       /\ \A l \in listings : l.id \in Nat /\ l.id <= rows
  BY DEF TypeOK, Titles, Listings, Ids, LedgerInv, UniqueIds
<1>14. /\ \A u \in titles' : \E t \in titles \cup made : SameTitle(u, t)
       /\ \A t \in titles \cup made : \E u \in titles' : SameTitle(u, t)
       /\ \A t, u \in titles' : t.id = u.id => t = u
  <2>1. titles \cup made \subseteq Titles
    BY <1>10 DEF TypeOK
  <2>2. \A t, u \in titles \cup made : t.id = u.id => t = u
    BY <1>7, <1>11, <1>13 DEF LedgerInv, UniqueIds
  <2> DEFINE ts == titles \cup made
             us == Rederive(ts, ls, ids)
  <2>3. titles' = us /\ ts \in SUBSET Titles /\ \A t, u \in ts : t.id = u.id => t = u
    BY <1>5, <2>1, <2>2
  <2> HIDE DEF ts, ls
  <2>4. /\ \A u \in us : \E t \in ts : u.id = t.id /\ u.by = t.by /\ u.work = t.work
        /\ \A t \in ts : \E u \in us : u.id = t.id /\ u.by = t.by /\ u.work = t.work
        /\ \A t, u \in us : t.id = u.id => t = u
    BY <2>3, RederiveRows
  <2> HIDE DEF us
  <2> QED
    BY <2>3, <2>4 DEF ts, SameTitle
<1>15. \A l, m \in ls : l.id = m.id => l = m
  <2> DEFINE g(l) == IF l \in removed THEN f(l) ELSE l
             old  == {g(l) : l \in listings}
  <2>1. ls \subseteq old \cup added
    BY <1>r
  <2>2. \A l \in listings : g(l).id = l.id
    BY <1>f
  <2> HIDE DEF g
  <2>3. /\ \A l, m \in old : l.id = m.id => l = m
        /\ \A l \in old, m \in added : l.id # m.id
    BY <1>7, <1>12, <1>13, <2>2 DEF LedgerInv, UniqueIds
  <2> HIDE DEF ls, old
  <2> QED
    BY <1>12, <2>1, <2>3
<1>16. \A m \in ls :
         \/ m \in (listings \ removed) \cup added
         \/ \E l \in removed : /\ m.id = l.id /\ m.title = l.title /\ m.service = l.service
                               /\ m.by = l.by /\ m.state = "removed" /\ m.group = b
  BY <1>f, <1>r
<1>17. \A l \in listings \cup added : \E m \in ls : m.id = l.id
  BY <1>f, <1>r
<1> HIDE DEF ls
<1>18. rows' \in Nat /\ rows <= rows'
  BY <1>5, <1>7
<1> QED
  BY <1>1, <1>4, <1>5, <1>7, <1>8, <1>11, <1>12, <1>r, <1>13, <1>14, <1>15, <1>16, <1>17, <1>18
     DEF request, Closed

\* A close: every row it makes is put on record, under a batch no row is by yet.
LEMMA LedgerClose ==
  ASSUME TypeOK, LedgerInv, NEW h \in Handlers, NEW number \in Numberings(h),
         CloseWrite(h, number)
  PROVE  LedgerInv'
<1>0. PICK b, listed, made, added, removed : Closed(h, number, b, listed, made, added, removed)
  BY CloseFacts
<1>1. /\ b \in Batches
      /\ rows \in Nat /\ rows' \in Nat /\ rows <= rows'
      /\ changes' = changes \cup ChangeRows(b, made, added, removed)
      /\ Answer(h) /\ removed \subseteq listings
  BY <1>0 DEF Closed
<1>8. /\ HasStatus(b, "in-review") /\ batch'[b] # Unread /\ batch'[b].status = "applied"
      /\ \A c \in Batches : c # b => batch'[c] = batch[c]
  <2>1. /\ batch[b] \in Reading /\ HasStatus(b, "in-review")
        /\ batch'[b] = [batch[b] EXCEPT !.status = "applied", !.confirmed = handler[h].works]
        /\ \A c \in Batches : c # b => batch'[c] = batch[c]
    BY <1>0 DEF Closed
  <2> QED
    BY <2>1 DEF Reading, Unread
<1>9. \A x \in titles \cup listings : x.by # b
  BY <1>1, <1>8, NoneAssumption DEF LedgerInv, OnRecord, HasStatus
<1>11. \A t \in made : t.by = b /\ t.id > rows /\ t.id <= rows'
  BY <1>0 DEF Closed
<1>12. \A l \in added : /\ l.by = b /\ l.id > rows /\ l.id <= rows'
                        /\ \E t \in titles \cup made : t.id = l.title
  BY <1>0 DEF Closed
<1>13. /\ \A t \in titles : t.id \in Nat /\ t.id <= rows
       /\ \A l \in listings : l.id \in Nat /\ l.id <= rows
  BY <1>0 DEF Closed
<1>14. /\ \A u \in titles' : \E t \in titles \cup made : u.id = t.id /\ u.by = t.by
       /\ \A t \in titles \cup made : \E u \in titles' : u.id = t.id /\ u.by = t.by
       /\ \A t, u \in titles' : t.id = u.id => t = u
  BY <1>0 DEF Closed, SameTitle
<1>15. /\ \A m \in listings' : \E l \in listings \cup added : m.id = l.id /\ m.title = l.title /\ m.by = l.by
       /\ \A l \in listings \cup added : \E m \in listings' : m.id = l.id
       /\ \A l, m \in listings' : l.id = m.id => l = m
  BY <1>0 DEF Closed
<1>16. UniqueIds'
  <2>1. \A x \in titles' \cup listings' : x.id <= rows'
    <3>1. \A t \in titles \cup made : t.id <= rows'
      BY <1>1, <1>11, <1>13
    <3>2. \A l \in listings \cup added : l.id <= rows'
      BY <1>1, <1>12, <1>13
    <3> QED
      BY <1>14, <1>15, <3>1, <3>2
  <2>2. \A l \in listings' : l.title \in TitleIds'
    <3>1. \A l \in listings : l.title \in TitleIds
      BY DEF LedgerInv, UniqueIds
    <3>2. \A l \in listings \cup added : \E t \in titles \cup made : t.id = l.title
      BY <1>12, <3>1 DEF TitleIds
    <3> QED
      BY <1>14, <1>15, <3>2 DEF TitleIds
  <2> QED
    BY <1>14, <1>15, <2>1, <2>2 DEF UniqueIds
<1>17. /\ \A c \in changes' :
            \/ c \in changes
            \/ \E t \in made : c.title = t.id /\ c.listing = 0
            \/ \E l \in added \cup removed : c.title = l.title /\ c.listing = l.id
       /\ changes \subseteq changes'
       /\ \A t \in made : \E c \in changes' :
            c.batch = b /\ c.kind = "title_created" /\ c.title = t.id
       /\ \A l \in added : \E c \in changes' :
            c.batch = b /\ c.kind = "listing_added" /\ c.title = l.title /\ c.listing = l.id
  <2>1. \A kind, title, listing :
          LET c == Change(b, kind, title, listing) IN
          c.batch = b /\ c.kind = kind /\ c.title = title /\ c.listing = listing
    BY DEF Change
  <2> QED
    BY <1>1, <2>1 DEF ChangeRows
<1>18. ReferencesHold'
  <2>1. \A t \in titles \cup made : t.id \in TitleIds'
    BY <1>14 DEF TitleIds
  <2>2. \A l \in listings \cup added : l.title \in TitleIds' /\ \E m \in listings' : m.id = l.id
    BY <1>12, <1>15, <2>1 DEF LedgerInv, UniqueIds, TitleIds
  <2>3. \A c \in changes : /\ c.title # 0 => \E t \in titles : t.id = c.title
                           /\ c.listing # 0 => \E l \in listings : l.id = c.listing
    BY DEF LedgerInv, ReferencesHold, TitleIds
  <2> QED
    BY <1>1, <1>17, <2>1, <2>2, <2>3 DEF ReferencesHold
<1>19. OnRecord'
  <2>1. \A c \in Batches : HasStatus(c, "applied") \/ c = b => HasStatus(c, "applied")'
    BY <1>8 DEF HasStatus
  <2>2. \A t \in titles \cup made : t.by # None =>
          /\ t.by \in Batches
          /\ HasStatus(t.by, "applied") \/ t.by = b
          /\ \E c \in changes' : c.batch = t.by /\ c.kind = "title_created" /\ c.title = t.id
    <3>1. \A t \in titles : t.by \in Batches \cup {None}
      BY DEF TypeOK, Titles
    <3> QED
      BY <1>1, <1>11, <1>17, <3>1 DEF LedgerInv, OnRecord
  <2>3. \A l \in listings \cup added : l.by # None =>
          /\ l.by \in Batches
          /\ HasStatus(l.by, "applied") \/ l.by = b
          /\ \E c \in changes' : /\ c.batch = l.by /\ c.kind = "listing_added"
                                 /\ c.title = l.title /\ c.listing = l.id
    <3>1. \A l \in listings : l.by \in Batches \cup {None}
      BY DEF TypeOK, Listings
    <3> QED
      BY <1>1, <1>12, <1>17, <3>1 DEF LedgerInv, OnRecord
  <2>4. \A u \in titles' : u.by # None =>
          /\ HasStatus(u.by, "applied")'
          /\ \E c \in changes' : c.batch = u.by /\ c.kind = "title_created" /\ c.title = u.id
    <3> SUFFICES ASSUME NEW u \in titles', u.by # None
                 PROVE  /\ HasStatus(u.by, "applied")'
                        /\ \E c \in changes' : /\ c.batch = u.by /\ c.kind = "title_created"
                                               /\ c.title = u.id
      OBVIOUS
    <3>1. PICK t \in titles \cup made : u.id = t.id /\ u.by = t.by
      BY <1>14
    <3> QED
      BY <2>1, <2>2, <3>1
  <2>5. \A m \in listings' : m.by # None =>
          /\ HasStatus(m.by, "applied")'
          /\ \E c \in changes' : /\ c.batch = m.by /\ c.kind = "listing_added"
                                 /\ c.title = m.title /\ c.listing = m.id
    <3> SUFFICES ASSUME NEW m \in listings', m.by # None
                 PROVE  /\ HasStatus(m.by, "applied")'
                        /\ \E c \in changes' : /\ c.batch = m.by /\ c.kind = "listing_added"
                                               /\ c.title = m.title /\ c.listing = m.id
      OBVIOUS
    <3>1. PICK l \in listings \cup added : m.id = l.id /\ m.title = l.title /\ m.by = l.by
      BY <1>15
    <3> QED
      BY <2>1, <2>3, <3>1
  <2> QED
    BY <2>4, <2>5 DEF OnRecord
<1>20. \A g \in Handlers : UndoTakesAll(handler[g])'
  <2> SUFFICES ASSUME NEW g \in Handlers, handler'[g].op = "undo"
               PROVE  UndoTakesAll(handler[g])'
    BY DEF UndoTakesAll
  <2>1. handler'[g] = handler[g] /\ UndoTakesAll(handler[g])
    BY <1>1, AnswerLeaves DEF LedgerInv
  <2>2. handler[g].batch \in Batches
    BY <2>1, RequestFacts DEF TypeOK
  <2>3. handler[g].batch # b
    BY <1>8, <2>1 DEF UndoTakesAll, HasStatus
  <2>4. batch'[handler[g].batch] = batch[handler[g].batch]
    BY <1>8, <2>2, <2>3
  <2>5. /\ \A u \in titles' : u.by = handler[g].batch => \E t \in titles : t.id = u.id /\ t.by = u.by
        /\ \A m \in listings' : m.by = handler[g].batch =>
             \E l \in listings : l.id = m.id /\ l.title = m.title /\ l.by = m.by
    BY <1>11, <1>12, <1>14, <1>15, <2>3
  <2> QED
    BY <2>1, <2>4, <2>5 DEF UndoTakesAll, HasStatus
<1> QED
  BY <1>16, <1>18, <1>19, <1>20 DEF LedgerInv

\* An undo that has passed its checks: the record names everything it made.
LEMMA LedgerUndoRead ==
  ASSUME TypeOK, LedgerInv, NEW h \in Handlers, NEW b \in Batches, UndoRead(h, b)
  PROVE  LedgerInv'
<1> DEFINE r == [op |-> "undo", batch |-> b, titles |-> CreatedTitles(b),
                 listings |-> {c.listing : c \in AddedElsewhere(b)},
                 survivors |-> {c.title : c \in AddedElsewhere(b)},
                 previous |-> Latest(batch[b].service, b)]
<1>1. /\ Ask(h, r) /\ HasStatus(b, "applied")
      /\ r.op = "undo" /\ r.batch = b /\ r.titles = CreatedTitles(b)
      /\ r.listings = {c.listing : c \in AddedElsewhere(b)}
  BY DEF UndoRead
<1> HIDE DEF r
<1>2. /\ UNCHANGED <<titles, listings, rows, batch, changes>>
      /\ handler' = [handler EXCEPT ![h] = r]
  BY <1>1 DEF Ask, list, ledger
<1>3. /\ \A t \in titles : t.by = b => t.id \in CreatedTitles(b)
      /\ \A l \in listings : l.by = b =>
           \/ l.title \in CreatedTitles(b)
           \/ l.id \in {c.listing : c \in AddedElsewhere(b)}
  <2>1. /\ \A t \in titles : t.id # 0
        /\ \A l \in listings : l.id # 0 /\ l.title # 0
    BY DEF TypeOK, Titles, Listings, Ids
  <2> QED
    BY <2>1, NoneAssumption
       DEF LedgerInv, OnRecord, CreatedTitles, AddedElsewhere, Recorded
<1>4. UndoTakesAll(r)
  BY <1>1, <1>3 DEF UndoTakesAll
<1>5. \A g \in Handlers : UndoTakesAll(handler[g])'
  <2> SUFFICES ASSUME NEW g \in Handlers
               PROVE  UndoTakesAll(handler[g])'
    OBVIOUS
  <2>1. handler'[g] = r \/ handler'[g] = handler[g]
    BY <1>2 DEF TypeOK
  <2>2. UndoTakesAll(handler'[g])
    BY <1>4, <2>1 DEF LedgerInv
  <2> QED
    BY <1>2, <2>2 DEF UndoTakesAll, HasStatus
<1> QED
  BY <1>2, <1>5 DEF LedgerInv, UniqueIds, ReferencesHold, OnRecord, TitleIds, HasStatus

\* An undo deletes: what is left is as it was, and what named the rest is cleared.
LEMMA LedgerUndo ==
  ASSUME TypeOK, LedgerInv, NEW h \in Handlers, UndoWrite(h)
  PROVE  LedgerInv'
<1> DEFINE request == handler[h]
           b       == request.batch
           under   == {l \in listings : l.title \in request.titles}
           ls      == listings \ (under \cup {l \in listings : l.id \in request.listings})
           ts      == {t \in titles : t.id \notin request.titles}
           us      == Rederive(ts, ls, request.survivors)
           lost    == {l.id : l \in under} \cup request.listings
<1>1. request \in Request /\ request.op = "undo" /\ b \in Batches /\ UndoTakesAll(request)
  BY RequestFacts DEF TypeOK, UndoWrite, Doing, LedgerInv
<1>2. /\ MoveBatch(b, "applied", "undone", batch[b].confirmed)
      /\ changes' = {Detach(c, request.titles, lost) : c \in changes}
      /\ titles' = us /\ listings' = ls /\ UNCHANGED rows
      /\ Answer(h)
  BY DEF UndoWrite, Store
<1>3. /\ HasStatus(b, "applied") /\ batch'[b].status = "undone"
      /\ \A c \in Batches : c # b => batch'[c] = batch[c]
  <2>1. batch[b].confirmed \subseteq Works
    BY <1>1, <1>2 DEF MoveBatch, TypeOK, Unread, Reading
  <2>2. /\ batch[b] \in Reading /\ HasStatus(b, "applied")
        /\ batch'[b] = [batch[b] EXCEPT !.status = "undone", !.confirmed = batch[b].confirmed]
        /\ \A c \in Batches : c # b => batch'[c] = batch[c]
    BY <1>1, <1>2, <2>1, MoveFacts
  <2> QED
    BY <2>2 DEF Reading
<1>4. /\ ls \subseteq listings
      /\ \A l \in ls : l.title \notin request.titles /\ l.id \notin lost
      /\ \A l \in listings : l.id \notin lost => l \in ls
  BY DEF LedgerInv, UniqueIds
<1>5. /\ ts \subseteq titles /\ \A t \in titles : t.id \notin request.titles => t \in ts
      /\ \A t \in ts : t.id \notin request.titles
  OBVIOUS
<1>6. /\ \A t \in ts : t.by # b
      /\ \A l \in ls : l.by # b
  BY <1>1, <1>3 DEF UndoTakesAll, HasStatus
<1>7. /\ \A u \in us : \E t \in ts : u.id = t.id /\ u.by = t.by
      /\ \A t \in ts : \E u \in us : u.id = t.id
      /\ \A t, u \in us : t.id = u.id => t = u
  <2>1. ts \in SUBSET Titles /\ \A t, u \in ts : t.id = u.id => t = u
    BY <1>5 DEF TypeOK, LedgerInv, UniqueIds
  <2> HIDE DEF ts, ls
  <2> QED
    BY <2>1, RederiveRows
<1> HIDE DEF request, b, ls, ts, us, lost
<1>8. UniqueIds'
  <2>1. \A l \in ls : \E t \in ts : t.id = l.title
    BY <1>4, <1>5 DEF LedgerInv, UniqueIds, TitleIds
  <2>2. \A x \in us \cup ls : x.id <= rows
    BY <1>4, <1>5, <1>7 DEF LedgerInv, UniqueIds
  <2>3. \A l \in ls : \E u \in us : u.id = l.title
    BY <1>7, <2>1
  <2> QED
    BY <1>2, <1>4, <1>7, <2>2, <2>3 DEF LedgerInv, UniqueIds, TitleIds
<1>9. \A c \in changes : LET d == Detach(c, request.titles, lost) IN
        /\ d.batch = c.batch /\ d.kind = c.kind
        /\ d.title = IF c.title \in request.titles THEN 0 ELSE c.title
        /\ d.listing = IF c.listing \in lost THEN 0 ELSE c.listing
  BY DEF Detach, TypeOK, Changes
<1>10. ReferencesHold'
  <2> SUFFICES ASSUME NEW d \in changes'
               PROVE  /\ d.title # 0 => \E t \in titles' : t.id = d.title
                      /\ d.listing # 0 => \E l \in listings' : l.id = d.listing
    BY DEF ReferencesHold, TitleIds
  <2>1. PICK c \in changes : d = Detach(c, request.titles, lost)
    BY <1>2
  <2>2. /\ d.title # 0 => d.title = c.title /\ c.title \notin request.titles
        /\ d.listing # 0 => d.listing = c.listing /\ c.listing \notin lost
    BY <1>9, <2>1
  <2>3. /\ c.title # 0 => \E t \in titles : t.id = c.title
        /\ c.listing # 0 => \E l \in listings : l.id = c.listing
    BY DEF LedgerInv, ReferencesHold, TitleIds
  <2>4. d.title # 0 => \E t \in ts : t.id = d.title
    BY <1>5, <2>2, <2>3
  <2>5. d.listing # 0 => \E l \in ls : l.id = d.listing
    BY <1>4, <2>2, <2>3
  <2> QED
    BY <1>2, <1>7, <2>4, <2>5
<1>11. OnRecord'
  <2>1. \A c \in Batches : c # b /\ HasStatus(c, "applied") => HasStatus(c, "applied")'
    BY <1>3 DEF HasStatus
  <2>2. \A u \in titles' : u.by # None =>
          /\ HasStatus(u.by, "applied")'
          /\ \E c \in changes' : c.batch = u.by /\ c.kind = "title_created" /\ c.title = u.id
    <3> SUFFICES ASSUME NEW u \in titles', u.by # None
                 PROVE  /\ HasStatus(u.by, "applied")'
                        /\ \E c \in changes' : /\ c.batch = u.by /\ c.kind = "title_created"
                                               /\ c.title = u.id
      OBVIOUS
    <3>1. PICK t \in ts : u.id = t.id /\ u.by = t.by
      BY <1>2, <1>7
    <3>2. t \in titles /\ t.by \in Batches /\ t.id \notin request.titles /\ t.by # b
      BY <1>5, <1>6, <3>1 DEF TypeOK, Titles
    <3>3. PICK c \in changes : c.batch = t.by /\ c.kind = "title_created" /\ c.title = t.id
      BY <3>1, <3>2 DEF LedgerInv, OnRecord
    <3>4. HasStatus(t.by, "applied")
      BY <3>1, <3>2 DEF LedgerInv, OnRecord
    <3>5. Detach(c, request.titles, lost) \in changes'
      BY <1>2
    <3> QED
      BY <1>9, <2>1, <3>1, <3>2, <3>3, <3>4, <3>5
  <2>3. \A m \in listings' : m.by # None =>
          /\ HasStatus(m.by, "applied")'
          /\ \E c \in changes' : /\ c.batch = m.by /\ c.kind = "listing_added"
                                 /\ c.title = m.title /\ c.listing = m.id
    <3> SUFFICES ASSUME NEW m \in ls, m.by # None
                 PROVE  /\ HasStatus(m.by, "applied")'
                        /\ \E c \in changes' : /\ c.batch = m.by /\ c.kind = "listing_added"
                                               /\ c.title = m.title /\ c.listing = m.id
      BY <1>2
    <3>1. /\ m \in listings /\ m.by \in Batches /\ m.by # b
          /\ m.title \notin request.titles /\ m.id \notin lost
      BY <1>4, <1>6 DEF TypeOK, Listings
    <3>2. HasStatus(m.by, "applied")
      BY <3>1 DEF LedgerInv, OnRecord
    <3>3. PICK c \in changes : /\ c.batch = m.by /\ c.kind = "listing_added"
                               /\ c.title = m.title /\ c.listing = m.id
      BY <3>1 DEF LedgerInv, OnRecord
    <3>4. Detach(c, request.titles, lost) \in changes'
      BY <1>2
    <3> QED
      BY <1>9, <2>1, <3>1, <3>2, <3>3, <3>4
  <2> QED
    BY <2>2, <2>3 DEF OnRecord
<1>12. \A g \in Handlers : UndoTakesAll(handler[g])'
  <2> SUFFICES ASSUME NEW g \in Handlers, handler'[g].op = "undo"
               PROVE  UndoTakesAll(handler[g])'
    BY DEF UndoTakesAll
  <2>1. handler'[g] = handler[g] /\ UndoTakesAll(handler[g])
    BY <1>2, AnswerLeaves DEF LedgerInv
  <2>2. handler[g].batch \in Batches
    BY <2>1, RequestFacts DEF TypeOK
  <2>3. CASE handler[g].batch = b
    <3>1. batch'[b] # Unread
      BY <1>3 DEF Unread
    <3> QED
      BY <1>3, <2>1, <2>3, <3>1 DEF UndoTakesAll, HasStatus
  <2>4. CASE handler[g].batch # b
    <3>1. /\ \A u \in titles' : u.by = handler[g].batch => \E t \in titles : t.id = u.id /\ t.by = u.by
          /\ \A m \in listings' : m \in listings
      BY <1>2, <1>4, <1>5, <1>7
    <3>2. batch'[handler[g].batch] = batch[handler[g].batch]
      BY <1>3, <2>2, <2>4
    <3> QED
      BY <2>1, <3>1, <3>2 DEF UndoTakesAll, HasStatus
  <2> QED
    BY <2>3, <2>4
<1> QED
  BY <1>8, <1>10, <1>11, <1>12 DEF LedgerInv

\* A purge deletes removed listings and the titles left with none.
LEMMA LedgerPurge ==
  ASSUME TypeOK, LedgerInv, NEW h \in Handlers, NEW ls \in SUBSET listings, Purge(h, ls)
  PROVE  LedgerInv'
<1> DEFINE ids     == {l.id : l \in ls}
           marked  == Purged(changes, ids)
           dropped == {id \in {l.title : l \in ls} :
                         ListingsOf(listings \ ls, id) = {} /\ ~Linked(marked, id)}
           rest    == listings \ ls
           ts      == {t \in titles : t.id \notin dropped}
           f(c)    == IF c.listing \in ids THEN [c EXCEPT !.listing = 0, !.purged = TRUE] ELSE c
           g(c)    == IF c.title \in dropped
                        THEN [c EXCEPT !.title = 0, !.listing = 0, !.purged = TRUE] ELSE c
<1>1. /\ titles' = ts /\ listings' = rest /\ changes' = Forgotten(marked, dropped)
      /\ UNCHANGED <<rows, batch, handler>>
  BY DEF Purge, Store
<1>2. marked = {f(c) : c \in changes} /\ Forgotten(marked, dropped) = {g(c) : c \in marked}
  BY DEF Purged, Forgotten
<1>3. \A c \in changes : LET d == f(c) IN
        /\ d \in Changes /\ d.batch = c.batch /\ d.kind = c.kind /\ d.title = c.title
        /\ d.listing = IF c.listing \in ids THEN 0 ELSE c.listing
  BY DEF TypeOK, Changes
<1>4. \A c \in Changes : LET d == g(c) IN
        /\ d.batch = c.batch /\ d.kind = c.kind
        /\ d.title = IF c.title \in dropped THEN 0 ELSE c.title
        /\ d.listing = IF c.title \in dropped THEN 0 ELSE c.listing
  BY DEF Changes
<1>5. /\ rest \subseteq listings
      /\ \A l \in rest : l.id \notin ids /\ l.title \notin dropped
      /\ \A l \in listings : l.id \notin ids => l \in rest
  <2>1. \A l \in rest : l.title \notin dropped
    BY DEF ListingsOf
  <2>2. \A l \in rest : l.id \notin ids
    BY DEF LedgerInv, UniqueIds
  <2> QED
    BY <2>1, <2>2
<1>6. ts \subseteq titles /\ \A t \in ts : t.id \notin dropped
  OBVIOUS
<1>7. \A t \in titles : t.id \notin dropped => t \in ts
  OBVIOUS
<1> HIDE DEF f, g, ids, dropped, ts, rest, marked
<1>8. \A c \in changes : g(f(c)) \in changes'
  BY <1>1, <1>2
<1>9. \A d \in changes' : \E c \in changes : d = g(f(c))
  BY <1>1, <1>2
<1>10. \A c \in changes : LET d == g(f(c)) IN
         /\ d.batch = c.batch /\ d.kind = c.kind
         /\ d.title = IF c.title \in dropped THEN 0 ELSE c.title
         /\ d.listing = IF c.title \in dropped \/ c.listing \in ids THEN 0 ELSE c.listing
  BY <1>3, <1>4
<1> HIDE DEF f, g
<1>11. UniqueIds'
  BY <1>1, <1>5, <1>6, <1>7 DEF LedgerInv, UniqueIds, TitleIds
<1>12. ReferencesHold'
  <2> SUFFICES ASSUME NEW d \in changes'
               PROVE  /\ d.title # 0 => \E t \in titles' : t.id = d.title
                      /\ d.listing # 0 => \E l \in listings' : l.id = d.listing
    BY DEF ReferencesHold, TitleIds
  <2>1. PICK c \in changes : d = g(f(c))
    BY <1>9
  <2>2. /\ d.title # 0 => d.title = c.title /\ c.title \notin dropped
        /\ d.listing # 0 => d.listing = c.listing /\ c.listing \notin ids
    BY <1>10, <2>1
  <2>3. /\ c.title # 0 => \E t \in titles : t.id = c.title
        /\ c.listing # 0 => \E l \in listings : l.id = c.listing
    BY DEF LedgerInv, ReferencesHold, TitleIds
  <2> QED
    BY <1>1, <1>5, <1>7, <2>2, <2>3
<1>13. OnRecord'
  <2>1. ASSUME NEW t \in ts, t.by # None
        PROVE  /\ HasStatus(t.by, "applied")
               /\ \E c \in changes' : c.batch = t.by /\ c.kind = "title_created" /\ c.title = t.id
    <3>1. t \in titles /\ t.id \notin dropped
      BY <1>6
    <3>2. PICK c \in changes : c.batch = t.by /\ c.kind = "title_created" /\ c.title = t.id
      BY <2>1, <3>1 DEF LedgerInv, OnRecord
    <3> QED
      BY <1>8, <1>10, <2>1, <3>1, <3>2 DEF LedgerInv, OnRecord
  <2>2. ASSUME NEW l \in rest, l.by # None
        PROVE  /\ HasStatus(l.by, "applied")
               /\ \E c \in changes' : /\ c.batch = l.by /\ c.kind = "listing_added"
                                      /\ c.title = l.title /\ c.listing = l.id
    <3>1. l \in listings /\ l.id \notin ids /\ l.title \notin dropped
      BY <1>5
    <3>2. PICK c \in changes : /\ c.batch = l.by /\ c.kind = "listing_added"
                               /\ c.title = l.title /\ c.listing = l.id
      BY <2>2, <3>1 DEF LedgerInv, OnRecord
    <3> QED
      BY <1>8, <1>10, <2>2, <3>1, <3>2 DEF LedgerInv, OnRecord
  <2> QED
    BY <1>1, <2>1, <2>2 DEF OnRecord, HasStatus
<1>14. \A k \in Handlers : UndoTakesAll(handler[k])'
  BY <1>1, <1>5, <1>6 DEF LedgerInv, UndoTakesAll, HasStatus
<1> QED
  BY <1>11, <1>12, <1>13, <1>14 DEF LedgerInv

\* No row is by a batch that reaches review, and no undo is of it.
LEMMA LedgerReview ==
  ASSUME TypeOK, LedgerInv, NEW b \in Batches, NEW s \in Services, NEW removes \in BOOLEAN,
         NEW found \in SUBSET Works, Review(b, s, removes, found)
  PROVE  LedgerInv'
<1>1. /\ UNCHANGED <<titles, listings, rows, changes, handler>>
      /\ batch[b] = Unread
      /\ \A c \in Batches : c # b => batch'[c] = batch[c]
  BY DEF Review, list, TypeOK
<1>2. \A c, status : c \in Batches /\ HasStatus(c, status) => HasStatus(c, status)'
  BY <1>1 DEF HasStatus
<1>3. /\ \A t \in titles : t.by \in Batches \cup {None}
      /\ \A l \in listings : l.by \in Batches \cup {None}
  BY DEF TypeOK, Titles, Listings
<1>4. OnRecord'
  BY <1>1, <1>2, <1>3 DEF LedgerInv, OnRecord
<1>5. \A h \in Handlers : UndoTakesAll(handler[h])'
  <2> SUFFICES ASSUME NEW h \in Handlers, handler[h].op = "undo"
               PROVE  UndoTakesAll(handler[h])'
    BY <1>1 DEF UndoTakesAll
  <2>1. handler[h].batch \in Batches /\ UndoTakesAll(handler[h])
    BY RequestFacts DEF TypeOK, LedgerInv
  <2> QED
    BY <1>1, <1>2, <2>1 DEF UndoTakesAll
<1> QED
  BY <1>1, <1>4, <1>5 DEF LedgerInv, UniqueIds, ReferencesHold, TitleIds

\* A step that only ends a request, or sets or lifts a suppression.
LEMMA LedgerSmall ==
  ASSUME TypeOK, LedgerInv, NEW h \in Handlers,
         \/ RestoreRejected(h) \/ RestoreInterrupted(h) \/ Refuse(h)
         \/ \E w \in Works : Suppress(h, w) \/ Unsuppress(h, w)
  PROVE  LedgerInv'
<1>1. CASE RestoreRejected(h) \/ RestoreInterrupted(h) \/ Refuse(h)
  <2>1. Answer(h) /\ UNCHANGED <<titles, listings, rows, batch, changes>>
    BY <1>1 DEF RestoreRejected, RestoreInterrupted, Refuse, list, ledger
  <2> QED
    BY <2>1, AnswerLeaves, SameRows
<1>2. CASE \E w \in Works : Suppress(h, w) \/ Unsuppress(h, w)
  <2>1. UNCHANGED <<titles, listings, rows, batch, changes, handler>>
    BY <1>2 DEF Suppress, Unsuppress, list, ledger
  <2> QED
    BY <2>1, SameRows
<1> QED
  BY <1>1, <1>2

\* The invariant of the ledger holds in every reachable state.
LEMMA LedgerInvHolds == Spec => [](TypeOK /\ LedgerInv)
<1>1. Init => LedgerInv
  BY DEF Init, LedgerInv, UniqueIds, ReferencesHold, OnRecord, UndoTakesAll, Idle
<1>2. TypeOK /\ LedgerInv /\ [Next]_vars => LedgerInv'
  <2> SUFFICES ASSUME TypeOK, LedgerInv, [Next]_vars
               PROVE  LedgerInv'
    OBVIOUS
  <2>1. CASE \E b \in Batches, s \in Services, removes \in BOOLEAN, found \in SUBSET Works :
               Review(b, s, removes, found)
    BY <2>1, LedgerReview
  <2>2. ASSUME NEW h \in Handlers, Import(h)
        PROVE  LedgerInv'
    BY <2>2, LedgerReads, LedgerUndoRead, LedgerClose, LedgerUndo, LedgerKept DEF Import
  <2>3. ASSUME NEW h \in Handlers, Edit(h)
        PROVE  LedgerInv'
    <3>1. \A w : HistoryOf(w) \in SUBSET listings
      BY DEF HistoryOf
    <3>2. \A l \in listings : {l} \in SUBSET listings
      OBVIOUS
    <3> QED
      BY <2>3, <3>1, <3>2, LedgerReads, LedgerKept, LedgerAdd, LedgerBadge, LedgerPurge,
         LedgerSmall DEF Edit
  <2>4. ASSUME NEW h \in Handlers, Refuse(h)
        PROVE  LedgerInv'
    BY <2>4, LedgerSmall
  <2>5. CASE UNCHANGED vars
    <3>1. UNCHANGED <<titles, listings, rows, batch, changes, handler>>
      BY <2>5 DEF vars, list, ledger
    <3> QED
      BY <3>1, SameRows
  <2> QED
    BY <2>1, <2>2, <2>3, <2>4, <2>5 DEF Next
<1> QED
  BY <1>1, <1>2, TypesHold, PTL DEF Spec

\* The foreign keys of batch_change hold, whichever titles and listings closes,
\* undos and purges have made and deleted, in whatever order.
THEOREM ForeignKeys == Spec => []ReferencesHold
  BY LedgerInvHolds, PTL DEF LedgerInv

\* While a batch is applied, what undo works from is complete: every title and
\* listing the close made, and that is still there, is on record under it.
THEOREM CompleteLedger == Spec => []LedgerIsComplete
<1>1. TypeOK /\ LedgerInv => LedgerIsComplete
  <2>1. TypeOK => /\ \A t \in titles : t.id # 0
                  /\ \A l \in listings : l.title # 0
    BY DEF TypeOK, Titles, Listings, Ids
  <2> QED
    BY <2>1, NoneAssumption
       DEF LedgerInv, OnRecord, LedgerIsComplete, CreatedTitles, Recorded
<1> QED
  BY <1>1, LedgerInvHolds, PTL

\* Undo leaves nothing a batch made, whatever other closes, undos, corrections and
\* purges have come between its read and its write.
THEOREM UndoIsComplete == Spec => []UndoneLeavesNothing
<1>1. LedgerInv => UndoneLeavesNothing
  BY NoneAssumption DEF LedgerInv, OnRecord, UndoneLeavesNothing, HasStatus
<1> QED
  BY <1>1, LedgerInvHolds, PTL

----------------------------------------------------------------------------
(* Removal groups, and what a batch may touch                              *)

\* A listing is what it was, but that it may leave its group.
Carried(m, l) ==
  /\ m.id = l.id /\ m.title = l.title /\ m.service = l.service /\ m.by = l.by
  /\ m.group # None => m.group = l.group /\ m.state = l.state

\* The title u is the row t, whatever it says of itself.
SameRow(u, t) == u.id = t.id /\ u.by = t.by

\* The ledger row d is c, or what a deletion has left of it.
Remains(d, c) ==
  /\ d.batch = c.batch /\ d.kind = c.kind
  /\ d.title \in {0, c.title} /\ d.listing \in {0, c.listing}

\* What a step of handler h other than a close or a read may do.
Others(h) ==
  /\ rows' \in Nat /\ rows <= rows'
  /\ \A m \in listings' :
       \/ \E l \in listings : Carried(m, l)
       \/ m.id > rows /\ m.by = None /\ m.group = None
  /\ handler[h].op # "fix" =>
       \A u \in titles' : u.id > rows \/ \E t \in titles : SameTitle(u, t)
  /\ \A u \in titles' : u.id > rows \/ \E t \in titles : SameRow(u, t)
  /\ \A d \in changes' : \E c \in changes : Remains(d, c)
  /\ \A b \in Batches :
       \/ batch'[b] = batch[b]
       \/ /\ handler[h].op = "undo" /\ handler[h].batch = b /\ UndoWrite(h)
          /\ batch'[b] = [batch[b] EXCEPT !.status = "undone"]
          /\ HasStatus(b, "applied") /\ batch[b] \in Reading
  /\ \A c \in changes : \A m \in listings' :
       c.listing = m.id /\ c.title = m.title /\ m.id <= rows =>
         \E d \in changes' : /\ d.batch = c.batch /\ d.kind = c.kind
                             /\ d.listing = c.listing /\ d.title = c.title
  /\ \A g \in Batches :
       \/ groups'[g] = groups[g]
       \/ groups[g] = "confirmed" /\ UndoGroupWrite(h) /\ handler[h].group = g
  /\ \A k \in Handlers :
       handler'[k] = handler[k] \/ handler'[k].op \in {"none", "restored", "derived"}

\* An answered handler is idle, the others are as they were.
LEMMA AnswerEnds ==
  ASSUME TypeOK, NEW h \in Handlers, Answer(h)
  PROVE  \A k \in Handlers :
           handler'[k] = handler[k] \/ handler'[k].op \in {"none", "restored", "derived"}
  BY DEF TypeOK, Answer, Idle

\* Steps that leave the batches, the groups and the ledger alone.
LEMMA OthersApart ==
  ASSUME TypeOK, NEW h \in Handlers,
         UNCHANGED <<batch, changes, groups>>, rows' \in Nat, rows <= rows',
         \A m \in listings' :
           \/ \E l \in listings : Carried(m, l)
           \/ m.id > rows /\ m.by = None /\ m.group = None,
         handler[h].op # "fix" =>
           \A u \in titles' : u.id > rows \/ \E t \in titles : SameTitle(u, t),
         \A u \in titles' : u.id > rows \/ \E t \in titles : SameRow(u, t),
         \A k \in Handlers :
           handler'[k] = handler[k] \/ handler'[k].op \in {"none", "restored", "derived"}
  PROVE  Others(h)
<1>1. \A c \in changes : Remains(c, c)
  BY DEF Remains
<1> QED
  BY <1>1 DEF Others

\* Those that leave the rows alone too.
LEMMA OthersSmall ==
  ASSUME TypeOK, NEW h \in Handlers,
         \/ RestoreDerive(h) \/ RestoreRejected(h) \/ RestoreInterrupted(h) \/ Refuse(h)
         \/ \E w \in Works : Suppress(h, w) \/ Unsuppress(h, w)
  PROVE  Others(h)
<1>1. UNCHANGED <<titles, listings, rows, batch, changes, groups>>
  BY DEF RestoreDerive, RestoreRejected, RestoreInterrupted, Refuse, Suppress, Unsuppress, list,
         ledger
<1>2. /\ rows \in Nat /\ \A l \in listings : Carried(l, l)
      /\ \A t \in titles : SameTitle(t, t) /\ SameRow(t, t)
  BY DEF TypeOK, Carried, SameTitle, SameRow
<1>3. \A k \in Handlers :
        handler'[k] = handler[k] \/ handler'[k].op \in {"none", "restored", "derived"}
  <2>1. CASE RestoreDerive(h)
    BY <2>1 DEF RestoreDerive, TypeOK
  <2>2. CASE RestoreRejected(h) \/ RestoreInterrupted(h) \/ Refuse(h)
    BY <2>2, AnswerEnds DEF RestoreRejected, RestoreInterrupted, Refuse
  <2>3. CASE \E w \in Works : Suppress(h, w) \/ Unsuppress(h, w)
    BY <2>3 DEF Suppress, Unsuppress
  <2> QED
    BY <2>1, <2>2, <2>3
<1> QED
  BY <1>1, <1>2, <1>3, OthersApart

\* Titles brought up to date are the same titles.
LEMMA RederiveSame ==
  ASSUME TypeOK, UniqueIds, NEW ls, NEW ids, NEW ts \in SUBSET titles
  PROVE  \A u \in Rederive(ts, ls, ids) : \E t \in titles : SameTitle(u, t)
<1>1. ts \in SUBSET Titles /\ \A t, u \in ts : t.id = u.id => t = u
  BY DEF TypeOK, UniqueIds
<1>2. \A u \in Rederive(ts, ls, ids) : \E t \in ts : u.id = t.id /\ u.by = t.by /\ u.work = t.work
  BY <1>1, RederiveRows
<1> QED
  BY <1>2 DEF SameTitle

\* Listings that come back leave their groups.
LEMMA ReturnedCarried ==
  ASSUME TypeOK, NEW back \in SUBSET listings
  PROVE  \A m \in (listings \ back)
                    \cup {[l EXCEPT !.state = "active", !.group = None] : l \in back} :
           \E l \in listings : Carried(m, l)
<1> DEFINE f(l) == [l EXCEPT !.state = "active", !.group = None]
<1>1. \A l \in listings : Carried(f(l), l) /\ Carried(l, l)
  BY DEF TypeOK, Listings, Carried
<1> HIDE DEF f
<1>2. \A m \in (listings \ back) \cup {f(l) : l \in back} : \E l \in listings : Carried(m, l)
  BY <1>1
<1> QED
  BY <1>2 DEF f

\* Listings that come back, one by one or as a group.
LEMMA OthersReturn ==
  ASSUME TypeOK, LedgerInv, NEW h \in Handlers,
         UndoGroupWrite(h) \/ RestoreListing(h)
  PROVE  Others(h)
<1>t. /\ rows \in Nat /\ \A t \in titles : SameTitle(t, t)
      /\ \A u, t : SameTitle(u, t) => SameRow(u, t)
      /\ \A c \in changes : Remains(c, c)
  BY DEF TypeOK, SameTitle, SameRow, Remains
<1>1. CASE UndoGroupWrite(h)
  <2> DEFINE back == {l \in listings : l.id \in handler[h].restoring /\ l.state = "removed"}
             ls   == (listings \ back)
                       \cup {[l EXCEPT !.state = "active", !.group = None] : l \in back}
             ids  == {l.title : l \in back}
  <2>1. /\ titles' = Rederive(titles, ls, ids) /\ listings' = ls /\ Answer(h)
        /\ UNCHANGED <<rows, batch, changes>>
        /\ groups[handler[h].group] = "confirmed"
        /\ groups' = [groups EXCEPT ![handler[h].group] = "undone"]
    BY <1>1 DEF UndoGroupWrite, Store
  <2>2. \A m \in ls : \E l \in listings : Carried(m, l)
    BY ReturnedCarried
  <2> HIDE DEF ls, ids
  <2>3. \A u \in titles' : \E t \in titles : SameTitle(u, t)
    BY <2>1, RederiveSame DEF LedgerInv
  <2>4. \A g \in Batches : groups'[g] = groups[g] \/ (groups[g] = "confirmed" /\ handler[h].group = g)
    <3>1. groups \in [Batches -> {"none", "confirmed", "undone"}]
      BY DEF TypeOK
    <3>2. ASSUME NEW g \in Batches, handler[h].group # g
          PROVE  groups'[g] = groups[g]
      BY <2>1, <3>1, <3>2
    <3>3. ASSUME NEW g \in Batches, handler[h].group = g
          PROVE  groups[g] = "confirmed"
      BY <2>1, <3>3
    <3> QED
      BY <3>2, <3>3
  <2>5. \A k \in Handlers :
          handler'[k] = handler[k] \/ handler'[k].op \in {"none", "restored", "derived"}
    BY <2>1, AnswerEnds
  <2> QED
    BY <1>1, <1>t, <2>1, <2>2, <2>3, <2>4, <2>5 DEF Others
<1>2. CASE RestoreListing(h)
  <2> DEFINE back == {l \in listings : l.id = handler[h].listing /\ l.state = "removed"}
             ls   == (listings \ back)
                       \cup {[l EXCEPT !.state = "active", !.group = None] : l \in back}
  <2>1. /\ listings' = ls
        /\ UNCHANGED <<titles, rows, batch, changes, groups>>
        /\ \A k \in Handlers :
             handler'[k] = handler[k] \/ handler'[k].op \in {"none", "restored", "derived"}
    BY <1>2 DEF RestoreListing, Store, ledger, TypeOK
  <2>2. \A m \in ls : \E l \in listings : Carried(m, l)
    BY ReturnedCarried
  <2> HIDE DEF ls
  <2> QED
    BY <1>t, <2>1, <2>2, OthersApart
<1> QED
  BY <1>1, <1>2

\* Changes by hand: removals, restored titles, corrections.
LEMMA OthersEdit ==
  ASSUME TypeOK, LedgerInv, NEW h \in Handlers,
         \A l \in listings : l.group # None => l.state = "removed",
         RemoveWrite(h) \/ RestoreTitle(h) \/ FixWrite(h)
  PROVE  Others(h)
<1>t. /\ rows \in Nat /\ \A t \in titles : SameTitle(t, t)
      /\ \A u, t : SameTitle(u, t) => SameRow(u, t)
      /\ \A l \in listings : Carried(l, l)
  BY DEF TypeOK, SameTitle, SameRow, Carried
<1>1. CASE RemoveWrite(h)
  <2> DEFINE gone == {l \in Active(listings) : l.id \in handler[h].listings}
             f(l) == [l EXCEPT !.state = "removed"]
             ls   == (listings \ gone) \cup {f(l) : l \in gone}
             ids  == {handler[h].title}
  <2>1. /\ titles' = Rederive(titles, ls, ids) /\ listings' = ls /\ Answer(h)
        /\ UNCHANGED <<rows, batch, changes, groups>>
    BY <1>1 DEF RemoveWrite, Store, ledger
  <2>2. \A l \in gone : l \in listings /\ l.state = "active" /\ Carried(f(l), l)
    BY DEF TypeOK, Listings, Active, Carried
  <2> HIDE DEF f, gone
  <2>3. \A m \in ls : \E l \in listings : Carried(m, l)
    BY <1>t, <2>2
  <2> HIDE DEF ls, ids
  <2>4. \A u \in titles' : \E t \in titles : SameTitle(u, t)
    BY <2>1, RederiveSame DEF LedgerInv
  <2>5. \A k \in Handlers :
          handler'[k] = handler[k] \/ handler'[k].op \in {"none", "restored", "derived"}
    BY <2>1, AnswerEnds
  <2> QED
    BY <1>t, <2>1, <2>3, <2>4, <2>5, OthersApart
<1>2. CASE RestoreTitle(h)
  <2> DEFINE r    == handler[h]
             f(t) == IF t.id = r.title
                       THEN [t EXCEPT !.state = r.state,
                                      !.ack = IF r.duplicate THEN t.id ELSE @]
                       ELSE t
  <2>1. /\ titles' = {f(t) : t \in titles} /\ Answer(h)
        /\ UNCHANGED <<listings, rows, batch, changes, groups>>
    BY <1>2 DEF RestoreTitle, Retitled, Store, ledger
  <2>2. \A t \in titles : SameTitle(f(t), t)
    BY DEF TypeOK, Titles, SameTitle
  <2> HIDE DEF f
  <2>3. \A u \in titles' : \E t \in titles : SameTitle(u, t)
    BY <2>1, <2>2
  <2>4. \A k \in Handlers :
          handler'[k] = handler[k] \/ handler'[k].op \in {"none", "restored", "derived"}
    BY <2>1, AnswerEnds
  <2> QED
    BY <1>t, <2>1, <2>3, <2>4, OthersApart
<1>3. CASE FixWrite(h)
  <2> DEFINE fixed == {t \in titles : t.id = handler[h].title /\ t.work = handler[h].from}
             f(t)  == [t EXCEPT !.work = handler[h].to,
                                !.ack = IF handler[h].duplicate THEN t.id ELSE @]
  <2>1. /\ UNCHANGED <<listings, rows, batch, changes, groups>> /\ Answer(h)
        /\ handler[h].op = "fix"
        /\ titles' = (titles \ fixed) \cup {f(t) : t \in fixed}
    BY <1>3 DEF FixWrite, Store, ledger, Doing
  <2>3. \A t \in titles : SameRow(f(t), t) /\ SameRow(t, t)
    BY DEF TypeOK, Titles, SameRow
  <2>4. fixed \subseteq titles
    OBVIOUS
  <2> HIDE DEF f, fixed
  <2>5. \A u \in titles' : \E t \in titles : SameRow(u, t)
    BY <2>1, <2>3, <2>4
  <2>2. \A k \in Handlers :
          handler'[k] = handler[k] \/ handler'[k].op \in {"none", "restored", "derived"}
    BY <2>1, AnswerEnds
  <2> QED
    BY <1>t, <2>1, <2>2, <2>5, OthersApart
<1> QED
  BY <1>1, <1>2, <1>3

\* Rows made by hand are in no group.
LEMMA OthersGrow ==
  ASSUME TypeOK, LedgerInv, NEW h \in Handlers,
         BadgeWrite(h) \/ \E number \in AddNumberings(h) : AddWrite(h, number)
  PROVE  Others(h)
<1>t. /\ rows \in Nat /\ \A t \in titles : SameTitle(t, t)
      /\ \A u, t : SameTitle(u, t) => SameRow(u, t)
      /\ \A l \in listings : Carried(l, l)
  BY DEF TypeOK, SameTitle, SameRow, Carried
<1>1. CASE BadgeWrite(h)
  <2> DEFINE new == [id |-> rows + 1, title |-> handler[h].title, service |-> handler[h].service,
                     state |-> "active", by |-> None, group |-> None]
  <2>1. /\ listings' = listings \cup {new} /\ rows' = rows + 1 /\ Answer(h)
        /\ UNCHANGED <<titles, batch, changes, groups>>
    BY <1>1 DEF BadgeWrite, Store, ledger
  <2>2. new.id > rows /\ new.by = None /\ new.group = None
    BY <1>t
  <2> HIDE DEF new
  <2>3. \A k \in Handlers :
          handler'[k] = handler[k] \/ handler'[k].op \in {"none", "restored", "derived"}
    BY <2>1, AnswerEnds
  <2> QED
    BY <1>t, <2>1, <2>2, <2>3, OthersApart
<1>2. ASSUME NEW number \in AddNumberings(h), AddWrite(h, number)
      PROVE  Others(h)
  <2> DEFINE request == handler[h]
             wanted  == Wanted(request)
             id      == HomeId(request.work, rows + 1)
             made    == IF Home(request.work) = {}
                          THEN {[id |-> id, work |-> request.work, state |-> "active", ack |-> 0,
                                 by |-> None]}
                          ELSE {}
             added   == {[id |-> number[s], title |-> id, service |-> s, state |-> "active",
                          by |-> None, group |-> None] : s \in DOMAIN number}
  <2>1. request \in Request /\ request.work \in Works /\ request.services \subseteq Services
    BY <1>2, RequestFacts DEF TypeOK, AddWrite, Doing
  <2>2. wanted \subseteq Services /\ IsFiniteSet(wanted)
    BY <2>1, FiniteAssumption, FS_Subset DEF Wanted
  <2>3. /\ ~(rows + Cardinality(wanted) > MaxRows)
        /\ number \in Bijection(wanted, (rows + 1)..(rows + Cardinality(wanted)))
    BY DEF AddNumberings
  <2>4. /\ DOMAIN number = wanted /\ \A s \in wanted : number[s] > rows
        /\ rows + Cardinality(wanted) \in Nat /\ rows <= rows + Cardinality(wanted)
    BY <1>t, <2>2, <2>3, NumberingFacts, FS_CardinalityType
  <2>5. /\ titles' = titles \cup made /\ listings' = listings \cup added
        /\ rows' = rows + Cardinality(wanted) /\ Answer(h)
        /\ UNCHANGED <<batch, changes, groups>>
    BY <1>2, <2>4 DEF AddWrite, Store, ledger
  <2>6. \A t \in made : t.id > rows
    BY <1>t DEF HomeId
  <2>7. \A l \in added : l.id > rows /\ l.by = None /\ l.group = None
    <3> HIDE DEF wanted, id
    <3> QED
      BY <2>4
  <2> HIDE DEF made, added, wanted
  <2>8. \A k \in Handlers :
          handler'[k] = handler[k] \/ handler'[k].op \in {"none", "restored", "derived"}
    BY <2>5, AnswerEnds
  <2> QED
    BY <1>t, <2>4, <2>5, <2>6, <2>7, <2>8, OthersApart
<1> QED
  BY <1>1, <1>2

\* Rows deleted: those that stay keep what the ledger says of them.
LEMMA OthersUndo ==
  ASSUME TypeOK, LedgerInv, NEW h \in Handlers, UndoWrite(h)
  PROVE  Others(h)
<1> DEFINE request == handler[h]
           b       == request.batch
           under   == {l \in listings : l.title \in request.titles}
           ls      == listings \ (under \cup {l \in listings : l.id \in request.listings})
           ts      == {t \in titles : t.id \notin request.titles}
           lost    == {l.id : l \in under} \cup request.listings
<1>1. request \in Request /\ request.op = "undo" /\ b \in Batches
  BY RequestFacts DEF TypeOK, UndoWrite, Doing
<1>2. /\ MoveBatch(b, "applied", "undone", batch[b].confirmed)
      /\ changes' = {Detach(c, request.titles, lost) : c \in changes}
      /\ titles' = Rederive(ts, ls, request.survivors) /\ listings' = ls
      /\ UNCHANGED <<rows, groups>> /\ Answer(h)
  BY DEF UndoWrite, Store
<1>3. /\ HasStatus(b, "applied") /\ batch[b] \in Reading
      /\ batch'[b] = [batch[b] EXCEPT !.status = "undone"]
      /\ \A c \in Batches : c # b => batch'[c] = batch[c]
  <2>1. batch[b].confirmed \subseteq Works
    BY <1>1, <1>2 DEF MoveBatch, TypeOK, Unread, Reading
  <2>2. /\ batch[b] \in Reading /\ HasStatus(b, "applied")
        /\ batch'[b] = [batch[b] EXCEPT !.status = "undone", !.confirmed = batch[b].confirmed]
        /\ \A c \in Batches : c # b => batch'[c] = batch[c]
    BY <1>1, <1>2, <2>1, MoveFacts
  <2> QED
    BY <2>2 DEF Reading
<1>4. ls \subseteq listings /\ \A l \in ls : l.title \notin request.titles /\ l.id \notin lost
  BY DEF LedgerInv, UniqueIds
<1>5. /\ rows \in Nat
      /\ \A l \in listings : Carried(l, l) /\ l.id # 0 /\ l.title # 0
  BY DEF TypeOK, Carried, Listings, Ids
<1>6. \A u \in titles' : \E t \in titles : SameTitle(u, t)
  <2>1. ts \in SUBSET titles
    OBVIOUS
  <2> HIDE DEF ts, ls
  <2> QED
    BY <1>2, <2>1, RederiveSame DEF LedgerInv
<1>7. \A c \in changes : LET d == Detach(c, request.titles, lost) IN
        /\ d.batch = c.batch /\ d.kind = c.kind
        /\ d.title = IF c.title \in request.titles THEN 0 ELSE c.title
        /\ d.listing = IF c.listing \in lost THEN 0 ELSE c.listing
  BY DEF Detach, TypeOK, Changes
<1> HIDE DEF ls, ts, lost
<1>8. \A c \in changes : \A m \in ls :
        c.listing = m.id /\ c.title = m.title =>
          \E d \in changes' : /\ d.batch = c.batch /\ d.kind = c.kind
                              /\ d.listing = c.listing /\ d.title = c.title
  <2> SUFFICES ASSUME NEW c \in changes, NEW m \in ls, c.listing = m.id, c.title = m.title
               PROVE  \E d \in changes' : /\ d.batch = c.batch /\ d.kind = c.kind
                                          /\ d.listing = c.listing /\ d.title = c.title
    OBVIOUS
  <2>1. Detach(c, request.titles, lost) \in changes'
    BY <1>2
  <2> QED
    BY <1>4, <1>7, <2>1
<1>9. /\ \A d \in changes' : \E c \in changes : Remains(d, c)
      /\ \A u \in titles' : \E t \in titles : SameRow(u, t)
  BY <1>2, <1>6, <1>7 DEF Remains, SameTitle, SameRow
<1>10. \A k \in Handlers :
         handler'[k] = handler[k] \/ handler'[k].op \in {"none", "restored", "derived"}
  BY <1>2, AnswerEnds
<1>11. \A c \in Batches :
         \/ batch'[c] = batch[c]
         \/ /\ handler[h].op = "undo" /\ handler[h].batch = c /\ UndoWrite(h)
            /\ batch'[c] = [batch[c] EXCEPT !.status = "undone"]
            /\ HasStatus(c, "applied") /\ batch[c] \in Reading
  BY <1>1, <1>3
<1> HIDE DEF request, b
<1>12. /\ \A m \in listings' : \E l \in listings : Carried(m, l)
       /\ rows' \in Nat /\ rows <= rows' /\ \A g \in Batches : groups'[g] = groups[g]
  BY <1>2, <1>4, <1>5
<1>13. \A c \in changes : \A m \in listings' :
         c.listing = m.id /\ c.title = m.title =>
           \E d \in changes' : /\ d.batch = c.batch /\ d.kind = c.kind
                               /\ d.listing = c.listing /\ d.title = c.title
  BY <1>2, <1>8
<1> QED
  BY <1>6, <1>9, <1>10, <1>11, <1>12, <1>13 DEF Others

\* The same for a purge.
LEMMA OthersPurge ==
  ASSUME TypeOK, LedgerInv, NEW h \in Handlers, NEW ls \in SUBSET listings, Purge(h, ls)
  PROVE  Others(h)
<1> DEFINE ids     == {l.id : l \in ls}
           marked  == Purged(changes, ids)
           dropped == {id \in {l.title : l \in ls} :
                         ListingsOf(listings \ ls, id) = {} /\ ~Linked(marked, id)}
           rest    == listings \ ls
           f(c)    == IF c.listing \in ids THEN [c EXCEPT !.listing = 0, !.purged = TRUE] ELSE c
           g(c)    == IF c.title \in dropped
                        THEN [c EXCEPT !.title = 0, !.listing = 0, !.purged = TRUE] ELSE c
<1>1. /\ titles' \subseteq titles /\ listings' = rest /\ changes' = Forgotten(marked, dropped)
      /\ UNCHANGED <<rows, batch, groups, handler>>
  BY DEF Purge, Store
<1>2. marked = {f(c) : c \in changes} /\ Forgotten(marked, dropped) = {g(c) : c \in marked}
  BY DEF Purged, Forgotten
<1>3. /\ rest \subseteq listings
      /\ \A l \in rest : l.id \notin ids /\ l.title \notin dropped
  <2>1. \A l \in rest : l.title \notin dropped
    BY DEF ListingsOf
  <2>2. \A l \in rest : l.id \notin ids
    BY DEF LedgerInv, UniqueIds
  <2> QED
    BY <2>1, <2>2
<1>4. \A c \in changes : c.listing \notin ids /\ c.title \notin dropped => g(f(c)) = c
  OBVIOUS
<1>7. \A c \in changes : Remains(g(f(c)), c)
  <2>1. \A c \in changes : f(c) \in Changes /\ Remains(f(c), c)
    BY DEF TypeOK, Changes, Remains
  <2>2. \A c \in Changes : Remains(g(c), c)
    BY DEF Changes, Remains
  <2> HIDE DEF f, g
  <2> QED
    BY <2>1, <2>2 DEF Remains
<1> HIDE DEF f, g, ids, dropped, rest, marked
<1>5. \A c \in changes : c.listing \notin ids /\ c.title \notin dropped => c \in changes'
  <2>1. \A c \in changes : g(f(c)) \in changes'
    BY <1>1, <1>2
  <2> QED
    BY <1>4, <2>1
<1>6. /\ rows \in Nat /\ \A t \in titles : SameTitle(t, t) /\ SameRow(t, t)
      /\ \A l \in listings : Carried(l, l)
  BY DEF TypeOK, SameTitle, SameRow, Carried
<1>8. \A d \in changes' : \E c \in changes : Remains(d, c)
  BY <1>1, <1>2, <1>7
<1> QED
  BY <1>1, <1>3, <1>5, <1>6, <1>8 DEF Others

----------------------------------------------------------------------------
\* A read that is not about a batch or a group.
OtherRead(h) ==
  \E r : Ask(h, r) /\ r.op \in {"restore", "add", "remove", "badge", "fix"}

\* The reads of listings and titles.
LEMMA OtherReads ==
  ASSUME NEW h \in Handlers,
         \/ \E l \in listings, confirmDuplicate \in BOOLEAN : RestoreRead(h, l, confirmDuplicate)
         \/ \E w \in Works, services \in SUBSET Services : AddRead(h, w, services)
         \/ \E t \in titles :
              \/ RemoveRead(h, t)
              \/ \E s \in Services : BadgeRead(h, t, s)
              \/ \E w \in Works, confirmDuplicate \in BOOLEAN : FixRead(h, t, w, confirmDuplicate)
         \/ \E l \in listings : DropRead(h, l)
  PROVE  OtherRead(h)
<1>1. ASSUME NEW l, NEW confirmDuplicate, RestoreRead(h, l, confirmDuplicate)
      PROVE  OtherRead(h)
  BY <1>1 DEF RestoreRead, OtherRead
<1>2. ASSUME NEW w, NEW services, AddRead(h, w, services)
      PROVE  OtherRead(h)
  BY <1>2 DEF AddRead, OtherRead
<1>3. ASSUME NEW t, RemoveRead(h, t)
      PROVE  OtherRead(h)
  BY <1>3 DEF RemoveRead, OtherRead
<1>4. ASSUME NEW t, NEW s, BadgeRead(h, t, s)
      PROVE  OtherRead(h)
  BY <1>4 DEF BadgeRead, OtherRead
<1>5. ASSUME NEW t, NEW w, NEW confirmDuplicate, FixRead(h, t, w, confirmDuplicate)
      PROVE  OtherRead(h)
  BY <1>5 DEF FixRead, OtherRead
<1>6. ASSUME NEW l, DropRead(h, l)
      PROVE  OtherRead(h)
  BY <1>6 DEF DropRead, OtherRead
<1> QED
  BY <1>1, <1>2, <1>3, <1>4, <1>5, <1>6

\* Listings in a group are removed; a group is of a batch that was applied; and the
\* undo of a group holds all its members, those it holds back included.
Past(b) == HasStatus(b, "applied") \/ HasStatus(b, "undone")

GroupInv ==
  /\ \A l \in listings : l.group # None => l.state = "removed"
  /\ \A b \in Batches : groups[b] # "none" => Past(b)
  /\ \A h \in Handlers : handler[h].op = "undoGroup" =>
       /\ Past(handler[h].group)
       /\ \A l \in listings :
            l.group = handler[h].group => l.id \in handler[h].restoring \cup handler[h].held

\* Every step is one of these.
LEMMA StepKinds ==
  ASSUME TypeOK, LedgerInv, GroupInv, [Next]_vars
  PROVE  \/ \E h \in Handlers : \E number \in Numberings(h) : CloseWrite(h, number)
         \/ \E h \in Handlers : Others(h)
         \/ \E h \in Handlers, b \in Batches :
              \/ \E works \in SUBSET Works, ticked \in SUBSET {l.id : l \in listings} :
                   CloseRead(h, b, works, ticked)
              \/ UndoRead(h, b)
              \/ UndoGroupRead(h, b)
         \/ \E h \in Handlers : OtherRead(h)
         \/ \E b \in Batches, s \in Services, removes \in BOOLEAN, found \in SUBSET Works :
              Review(b, s, removes, found)
         \/ UNCHANGED vars
<1>1. ASSUME NEW h \in Handlers, Edit(h)
      PROVE  Others(h) \/ OtherRead(h)
  <2>1. \A w : HistoryOf(w) \in SUBSET listings
    BY DEF HistoryOf
  <2>2. \A l \in listings : {l} \in SUBSET listings
    OBVIOUS
  <2>3. \A l \in listings : l.group # None => l.state = "removed"
    BY DEF GroupInv
  <2> QED
    BY <1>1, <2>1, <2>2, <2>3, OtherReads, OthersReturn, OthersSmall, OthersEdit, OthersGrow,
       OthersPurge DEF Edit
<1>2. ASSUME NEW h \in Handlers, Refuse(h)
      PROVE  Others(h)
  BY <1>2, OthersSmall
<1>3. ASSUME NEW h \in Handlers, UndoWrite(h) \/ UndoGroupWrite(h)
      PROVE  Others(h)
  BY <1>3, OthersUndo, OthersReturn
<1> QED
  BY <1>1, <1>2, <1>3 DEF Next, Import

\* Steps other than closes and reads keep the groups.
LEMMA GroupOthers ==
  ASSUME TypeOK, GroupInv, NEW h \in Handlers, Others(h)
  PROVE  GroupInv'
<1>1. \A b \in Batches : Past(b) => Past(b)'
  <2> SUFFICES ASSUME NEW b \in Batches, Past(b)
               PROVE  Past(b)'
    OBVIOUS
  <2>1. CASE batch'[b] = batch[b]
    BY <2>1 DEF Past, HasStatus
  <2>2. CASE batch'[b] = [batch[b] EXCEPT !.status = "undone"] /\ batch[b] \in Reading
    <3>1. batch'[b].status = "undone"
      BY <2>2 DEF Reading
    <3> QED
      BY <3>1 DEF Past, HasStatus, Unread
  <2> QED
    BY <2>1, <2>2 DEF Others
<1>2. \A m \in listings' : m.group # None =>
        \E l \in listings : m.id = l.id /\ m.group = l.group /\ m.state = l.state
  BY DEF Others, Carried
<1>3. \A m \in listings' : m.group # None => m.state = "removed"
  BY <1>2 DEF GroupInv
<1>4. \A b \in Batches : groups'[b] # "none" => Past(b)'
  <2>1. \A b \in Batches : groups'[b] # "none" => groups[b] # "none"
    BY DEF Others
  <2> QED
    BY <1>1, <2>1 DEF GroupInv
<1>5. ASSUME NEW k \in Handlers, handler'[k].op = "undoGroup"
      PROVE  /\ Past(handler[k].group)'
             /\ \A m \in listings' : m.group = handler'[k].group =>
                  m.id \in handler'[k].restoring \cup handler'[k].held
  <2>1. handler'[k] = handler[k]
    BY <1>5 DEF Others
  <2>2. handler[k].group \in Batches
    BY <1>5, <2>1, RequestFacts DEF TypeOK
  <2>3. Past(handler[k].group) /\ \A l \in listings :
          l.group = handler[k].group => l.id \in handler[k].restoring \cup handler[k].held
    BY <1>5, <2>1 DEF GroupInv
  <2>4. Past(handler[k].group)'
    BY <1>1, <2>1, <2>2, <2>3 DEF Past, HasStatus
  <2> QED
    BY <1>2, <2>1, <2>2, <2>3, <2>4, NoneAssumption
<1> QED
  BY <1>3, <1>4, <1>5 DEF GroupInv

\* No undo is of the group a close makes.
LEMMA GroupClose ==
  ASSUME TypeOK, LedgerInv, GroupInv, NEW h \in Handlers, NEW number \in Numberings(h),
         CloseWrite(h, number)
  PROVE  GroupInv'
<1>0. PICK b, listed, made, added, removed :
        b = handler[h].batch /\ Closed(h, number, b, listed, made, added, removed)
  BY CloseFacts
<1>1. /\ b \in Batches /\ HasStatus(b, "in-review") /\ batch[b] \in Reading
      /\ batch'[b] = [batch[b] EXCEPT !.status = "applied", !.confirmed = handler[h].works]
      /\ \A c \in Batches : c # b => batch'[c] = batch[c]
      /\ Answer(h)
  BY <1>0 DEF Closed
<1>2. batch'[b] # Unread /\ batch'[b].status = "applied"
  BY <1>1 DEF Reading, Unread
<1>3. ~Past(b) /\ \A c \in Batches : Past(c) \/ c = b => Past(c)'
  BY <1>1, <1>2 DEF Past, HasStatus
<1>4. \A m \in listings' : m.group # None =>
        \/ m.group = b /\ m.state = "removed"
        \/ m \in listings
  BY <1>0 DEF Closed
<1>5. \A c \in Batches : groups'[c] # "none" => groups[c] # "none" \/ c = b
  <2>1. groups \in [Batches -> {"none", "confirmed", "undone"}]
    BY DEF TypeOK
  <2>2. groups' = [groups EXCEPT ![b] = IF handler[h].removes THEN "confirmed" ELSE @]
    BY <1>0 DEF CloseWrite
  <2> QED
    BY <2>1, <2>2
<1>6. ASSUME NEW k \in Handlers, handler'[k].op = "undoGroup"
      PROVE  /\ Past(handler[k].group)'
             /\ \A m \in listings' : m.group = handler'[k].group =>
                  m.id \in handler'[k].restoring \cup handler'[k].held
  <2>1. handler'[k] = handler[k]
    BY <1>1, <1>6, AnswerEnds
  <2>2. handler[k].group \in Batches
    BY <1>6, <2>1, RequestFacts DEF TypeOK
  <2>3. Past(handler[k].group) /\ \A l \in listings :
          l.group = handler[k].group => l.id \in handler[k].restoring \cup handler[k].held
    BY <1>6, <2>1 DEF GroupInv
  <2>4. Past(handler[k].group)'
    BY <1>3, <2>1, <2>2, <2>3 DEF Past, HasStatus
  <2> QED
    BY <1>3, <1>4, <2>1, <2>2, <2>3, <2>4, NoneAssumption
<1> QED
  BY <1>3, <1>4, <1>5, <1>6 DEF GroupInv

\* A read changes no row; that of a group's undo holds all its members.
LEMMA GroupReads ==
  ASSUME TypeOK, GroupInv, NEW h \in Handlers,
         \/ \E b \in Batches :
              \/ \E works \in SUBSET Works, ticked \in SUBSET {l.id : l \in listings} :
                   CloseRead(h, b, works, ticked)
              \/ UndoRead(h, b)
              \/ UndoGroupRead(h, b)
         \/ OtherRead(h)
  PROVE  GroupInv'
<1>1. ASSUME NEW r, Ask(h, r), r.op # "undoGroup"
      PROVE  GroupInv'
  <2>1. /\ UNCHANGED <<listings, batch, groups>>
        /\ handler' = [handler EXCEPT ![h] = r]
    BY <1>1 DEF Ask, list, ledger
  <2>2. \A k \in Handlers : handler'[k] = handler[k] \/ handler'[k].op # "undoGroup"
    BY <1>1, <2>1 DEF TypeOK
  <2> QED
    BY <2>1, <2>2 DEF GroupInv, Past, HasStatus
<1>2. ASSUME NEW g \in Batches, UndoGroupRead(h, g)
      PROVE  GroupInv'
  <2> DEFINE members == {l \in listings : l.group = g}
             held    == {l \in members : WorkOf(l.title) \in suppressed}
             r       == [op |-> "undoGroup", group |-> g,
                         restoring |-> {l.id : l \in members \ held},
                         held |-> {l.id : l \in held}]
  <2>1. Ask(h, r) /\ groups[g] = "confirmed"
    BY <1>2 DEF UndoGroupRead
  <2>2. r.group = g /\ \A l \in listings : l.group = g => l.id \in r.restoring \cup r.held
    OBVIOUS
  <2> HIDE DEF r
  <2>3. /\ UNCHANGED <<listings, batch, groups>>
        /\ \A k \in Handlers : handler'[k] = handler[k] \/ handler'[k] = r
    BY <2>1 DEF Ask, list, ledger, TypeOK
  <2>4. Past(g)
    BY <2>1 DEF GroupInv
  <2> QED
    BY <2>2, <2>3, <2>4 DEF GroupInv, Past, HasStatus
<1>3. ASSUME NEW b \in Batches, NEW works, NEW ticked, CloseRead(h, b, works, ticked)
      PROVE  \E r : Ask(h, r) /\ r.op # "undoGroup"
  BY <1>3 DEF CloseRead
<1>4. ASSUME NEW b \in Batches, UndoRead(h, b)
      PROVE  \E r : Ask(h, r) /\ r.op # "undoGroup"
  BY <1>4 DEF UndoRead
<1>5. ASSUME OtherRead(h)
      PROVE  \E r : Ask(h, r) /\ r.op # "undoGroup"
  BY <1>5 DEF OtherRead
<1> QED
  BY <1>1, <1>2, <1>3, <1>4, <1>5

\* Nor has a batch that reaches review a group.
LEMMA GroupReview ==
  ASSUME TypeOK, GroupInv, NEW b \in Batches, NEW s \in Services, NEW removes \in BOOLEAN,
         NEW found \in SUBSET Works, Review(b, s, removes, found)
  PROVE  GroupInv'
<1>1. /\ UNCHANGED <<listings, groups, handler>> /\ batch[b] = Unread
      /\ \A c \in Batches : c # b => batch'[c] = batch[c]
  BY DEF Review, list, TypeOK
<1>2. \A c \in Batches : Past(c) => Past(c)'
  BY <1>1 DEF Past, HasStatus
<1>3. \A h \in Handlers : handler[h].op = "undoGroup" => handler[h].group \in Batches
  BY RequestFacts DEF TypeOK
<1> QED
  BY <1>1, <1>2, <1>3 DEF GroupInv

\* The groups are sound in every reachable state.
LEMMA GroupInvHolds == Spec => [](TypeOK /\ LedgerInv /\ GroupInv)
<1>1. Init => GroupInv
  BY DEF Init, GroupInv, Idle
<1>2. TypeOK /\ LedgerInv /\ GroupInv /\ [Next]_vars => GroupInv'
  <2> SUFFICES ASSUME TypeOK, LedgerInv, GroupInv, [Next]_vars
               PROVE  GroupInv'
    OBVIOUS
  <2>1. CASE UNCHANGED vars
    BY <2>1 DEF GroupInv, Past, HasStatus, vars, list, ledger
  <2> QED
    BY <2>1, StepKinds, GroupClose, GroupOthers, GroupReads, GroupReview
<1> QED
  BY <1>1, <1>2, LedgerInvHolds, PTL DEF Spec

\* A title has the work its row says.
LEMMA WorkOfTitle ==
  ASSUME UniqueIds, NEW t \in titles
  PROVE  WorkOf(t.id) = t.work
  BY DEF UniqueIds, WorkOf

\* A close lists each work under the title of that work.
LEMMA ListedWork ==
  ASSUME TypeOK, LedgerInv, NEW h \in Handlers, NEW number \in Numberings(h),
         NEW b, NEW listed, NEW made, NEW added, NEW removed,
         Closed(h, number, b, listed, made, added, removed), NEW l \in added
  PROVE  \E w \in listed : l.id = number[w] /\ WorkOf(l.title)' = w
<1>1. PICK w \in listed :
        l.id = number[w] /\ \E t \in titles \cup made : t.id = l.title /\ t.work = w
  BY DEF Closed
<1>2. PICK u \in titles' : u.id = l.title /\ u.work = w
  BY <1>1 DEF Closed, SameTitle
<1>3. \A t, v \in titles' : t.id = v.id => t = v
  BY DEF Closed
<1>4. WorkOf(l.title)' = w
  BY <1>2, <1>3 DEF WorkOf
<1> QED
  BY <1>1, <1>4

\* Steps that read, reach review or stutter leave the rows and the groups alone.
LEMMA StillSteps ==
  ASSUME TypeOK,
         \/ \E h \in Handlers, b \in Batches :
              \/ \E works \in SUBSET Works, ticked \in SUBSET {l.id : l \in listings} :
                   CloseRead(h, b, works, ticked)
              \/ UndoRead(h, b)
              \/ UndoGroupRead(h, b)
         \/ \E h \in Handlers : OtherRead(h)
         \/ \E b \in Batches, s \in Services, removes \in BOOLEAN, found \in SUBSET Works :
              Review(b, s, removes, found)
         \/ UNCHANGED vars
  PROVE  UNCHANGED <<titles, listings, rows, changes, groups>>
<1>1. \A h, r : Ask(h, r) => UNCHANGED <<titles, listings, rows, changes, groups>>
  BY DEF Ask, list, ledger
<1>2. ASSUME NEW h \in Handlers, NEW b \in Batches, NEW works, NEW ticked,
             CloseRead(h, b, works, ticked)
      PROVE  UNCHANGED <<titles, listings, rows, changes, groups>>
  BY <1>1, <1>2 DEF CloseRead
<1>3. ASSUME NEW h \in Handlers, NEW b \in Batches, UndoRead(h, b) \/ UndoGroupRead(h, b)
      PROVE  UNCHANGED <<titles, listings, rows, changes, groups>>
  BY <1>1, <1>3 DEF UndoRead, UndoGroupRead
<1>4. ASSUME NEW h \in Handlers, OtherRead(h)
      PROVE  UNCHANGED <<titles, listings, rows, changes, groups>>
  BY <1>1, <1>4 DEF OtherRead
<1>5. ASSUME NEW b \in Batches, NEW s, NEW removes, NEW found, Review(b, s, removes, found)
      PROVE  UNCHANGED <<titles, listings, rows, changes, groups>>
  BY <1>5 DEF Review, list
<1>6. CASE UNCHANGED vars
  BY <1>6 DEF vars, list, ledger
<1> QED
  BY <1>2, <1>3, <1>4, <1>5, <1>6

----------------------------------------------------------------------------
(* What an undo takes                                                      *)

\* The titles in ids, and the listings, are rows that batch b made, those of them that
\* are left.
TitlesBy(ids, b) == \A id \in ids : id <= rows /\ \A t \in titles : t.id = id => t.by = b
ListingsBy(ids, b) == \A id \in ids : id <= rows /\ \A l \in listings : l.id = id => l.by = b

\* What the ledger says a batch made, it made; and so for what an undo holds.
OwnInv ==
  /\ \A c \in changes :
       /\ c.kind = "title_created" => TitlesBy({c.title} \ {0}, c.batch)
       /\ c.kind = "listing_added" => ListingsBy({c.listing} \ {0}, c.batch)
  /\ \A h \in Handlers : handler[h].op = "undo" =>
       /\ TitlesBy(handler[h].titles, handler[h].batch)
       /\ ListingsBy(handler[h].listings, handler[h].batch)

\* Rows are not made again under an id that was handed out.
LEMMA OwnRows ==
  ASSUME TypeOK, rows' \in Nat, rows <= rows',
         \A u \in titles' : u.id > rows \/ \E t \in titles : SameRow(u, t),
         \A m \in listings' : m.id > rows \/ \E l \in listings : m.id = l.id /\ m.by = l.by,
         NEW ids \in SUBSET Nat, NEW b
  PROVE  /\ TitlesBy(ids, b) => TitlesBy(ids, b)'
         /\ ListingsBy(ids, b) => ListingsBy(ids, b)'
<1>1. rows \in Nat /\ \A id \in ids : id \in Nat
  BY DEF TypeOK
<1>2. \A id \in ids : id <= rows => id <= rows' /\ ~(id > rows)
  BY <1>1
<1>3. ASSUME TitlesBy(ids, b) PROVE TitlesBy(ids, b)'
  BY <1>2, <1>3 DEF TitlesBy, SameRow
<1>4. ASSUME ListingsBy(ids, b) PROVE ListingsBy(ids, b)'
  BY <1>2, <1>4 DEF ListingsBy
<1> QED
  BY <1>3, <1>4

\* Steps other than closes and reads keep it.
LEMMA OwnOthers ==
  ASSUME TypeOK, OwnInv, NEW h \in Handlers, Others(h)
  PROVE  OwnInv'
<1>1. /\ rows' \in Nat /\ rows <= rows'
      /\ \A u \in titles' : u.id > rows \/ \E t \in titles : SameRow(u, t)
      /\ \A m \in listings' : m.id > rows \/ \E l \in listings : m.id = l.id /\ m.by = l.by
  BY DEF Others, Carried
<1>2. ASSUME NEW d \in changes'
      PROVE  /\ d.kind = "title_created" => TitlesBy({d.title} \ {0}, d.batch)'
             /\ d.kind = "listing_added" => ListingsBy({d.listing} \ {0}, d.batch)'
  <2>1. PICK c \in changes : Remains(d, c)
    BY DEF Others
  <2>2. /\ {c.title} \ {0} \in SUBSET Nat /\ {c.listing} \ {0} \in SUBSET Nat
        /\ {d.title} \ {0} \subseteq {c.title} \ {0} /\ {d.listing} \ {0} \subseteq {c.listing} \ {0}
        /\ d.kind = c.kind /\ d.batch = c.batch
    BY <2>1 DEF TypeOK, Changes, Ids, Remains
  <2>3. /\ c.kind = "title_created" => TitlesBy({c.title} \ {0}, c.batch)'
        /\ c.kind = "listing_added" => ListingsBy({c.listing} \ {0}, c.batch)'
    BY <1>1, <2>2, OwnRows DEF OwnInv
  <2> QED
    BY <2>2, <2>3 DEF TitlesBy, ListingsBy
<1>3. ASSUME NEW k \in Handlers, handler'[k].op = "undo"
      PROVE  /\ TitlesBy(handler[k].titles, handler[k].batch)'
             /\ ListingsBy(handler[k].listings, handler[k].batch)'
  <2>1. handler'[k] = handler[k] /\ handler[k] \in Request
    BY <1>3 DEF Others, TypeOK
  <2>2. handler[k].titles \in SUBSET Nat /\ handler[k].listings \in SUBSET Nat
    BY <1>3, <2>1, RequestFacts DEF Ids
  <2>3. /\ TitlesBy(handler[k].titles, handler[k].batch)
        /\ ListingsBy(handler[k].listings, handler[k].batch)
    BY <1>3, <2>1 DEF OwnInv
  <2> DEFINE r == handler[k]
  <2>4. ASSUME NEW ts, ts = r.titles, NEW ls, ls = r.listings, NEW b, b = r.batch
        PROVE  TitlesBy(ts, b)' /\ ListingsBy(ls, b)'
    BY <1>1, <2>2, <2>3, <2>4, OwnRows
  <2> QED
    BY <2>1, <2>4 DEF TitlesBy, ListingsBy
<1> QED
  BY <1>2, <1>3 DEF OwnInv

\* A close puts on record what it makes.
LEMMA OwnClose ==
  ASSUME TypeOK, LedgerInv, OwnInv, NEW h \in Handlers, NEW number \in Numberings(h),
         CloseWrite(h, number)
  PROVE  OwnInv'
<1>1. PICK b, listed, made, added, removed : Closed(h, number, b, listed, made, added, removed)
  BY CloseFacts
<1>2. /\ rows \in Nat /\ rows' \in Nat /\ rows <= rows' /\ Answer(h)
      /\ \A t \in made : t.by = b /\ t.id > rows /\ t.id <= rows'
      /\ \A l \in added : l.by = b /\ l.id > rows /\ l.id <= rows'
      /\ \A t \in titles : t.id <= rows
      /\ \A l \in listings : l.id <= rows
      /\ \A u \in titles' : \E t \in titles \cup made : SameRow(u, t)
      /\ \A m \in listings' : \E l \in listings \cup added : m.id = l.id /\ m.by = l.by
      /\ changes' = changes \cup ChangeRows(b, made, added, removed)
  <2>1. removed \subseteq listings
    BY <1>1 DEF Closed
  <2>2. \A m \in listings' : \E l \in listings \cup added : m.id = l.id /\ m.by = l.by
    BY <1>1, <2>1 DEF Closed
  <2>3. \A u \in titles' : \E t \in titles \cup made : SameRow(u, t)
    BY <1>1 DEF Closed, SameTitle, SameRow
  <2> QED
    BY <1>1, <2>2, <2>3 DEF Closed
<1>3. /\ \A u \in titles' : u.id > rows \/ \E t \in titles : SameRow(u, t)
      /\ \A m \in listings' : m.id > rows \/ \E l \in listings : m.id = l.id /\ m.by = l.by
  BY <1>2 DEF SameRow
<1>4. /\ \A t \in titles : t.id \in Nat
      /\ \A l \in listings : l.id \in Nat
  BY DEF TypeOK, Titles, Listings, Ids
<1>5. ASSUME NEW t \in made PROVE TitlesBy({t.id}, b)'
  BY <1>2, <1>4 DEF TitlesBy, SameRow
<1>6. ASSUME NEW l \in added PROVE ListingsBy({l.id}, b)'
  BY <1>2, <1>4 DEF ListingsBy
<1>7. ASSUME NEW c \in changes'
      PROVE  /\ c.kind = "title_created" => TitlesBy({c.title} \ {0}, c.batch)'
             /\ c.kind = "listing_added" => ListingsBy({c.listing} \ {0}, c.batch)'
  <2>1. CASE c \in changes
    <3>1. {c.title} \ {0} \in SUBSET Nat /\ {c.listing} \ {0} \in SUBSET Nat
      BY <2>1 DEF TypeOK, Changes, Ids
    <3> QED
      BY <1>2, <1>3, <2>1, <3>1, OwnRows DEF OwnInv
  <2>2. CASE \E t \in made : c = Change(b, "title_created", t.id, 0)
    <3>1. PICK t \in made : c = Change(b, "title_created", t.id, 0)
      BY <2>2
    <3> QED
      BY <1>5, <3>1 DEF Change, TitlesBy
  <2>3. CASE \E l \in added : c = Change(b, "listing_added", l.title, l.id)
    <3>1. PICK l \in added : c = Change(b, "listing_added", l.title, l.id)
      BY <2>3
    <3> QED
      BY <1>6, <3>1 DEF Change, ListingsBy
  <2>4. CASE \E l \in removed : c = Change(b, "listing_removed", l.title, l.id)
    BY <2>4 DEF Change
  <2> QED
    BY <1>2, <2>1, <2>2, <2>3, <2>4 DEF ChangeRows
<1>8. ASSUME NEW k \in Handlers, handler'[k].op = "undo"
      PROVE  /\ TitlesBy(handler[k].titles, handler[k].batch)'
             /\ ListingsBy(handler[k].listings, handler[k].batch)'
  <2>1. handler'[k] = handler[k] /\ handler[k] \in Request
    BY <1>2, <1>8, AnswerLeaves DEF TypeOK
  <2>2. handler[k].titles \in SUBSET Nat /\ handler[k].listings \in SUBSET Nat
    BY <1>8, <2>1, RequestFacts DEF Ids
  <2>3. /\ TitlesBy(handler[k].titles, handler[k].batch)
        /\ ListingsBy(handler[k].listings, handler[k].batch)
    BY <1>8, <2>1 DEF OwnInv
  <2>4. ASSUME NEW ts, ts = handler[k].titles, NEW ls, ls = handler[k].listings,
               NEW c, c = handler[k].batch
        PROVE  TitlesBy(ts, c)' /\ ListingsBy(ls, c)'
    BY <1>2, <1>3, <2>2, <2>3, <2>4, OwnRows
  <2> QED
    BY <2>1, <2>4 DEF TitlesBy, ListingsBy
<1> QED
  BY <1>7, <1>8 DEF OwnInv

\* An undo takes what it holds from the ledger.
LEMMA OwnUndoRead ==
  ASSUME TypeOK, OwnInv, NEW h \in Handlers, NEW b \in Batches, UndoRead(h, b)
  PROVE  OwnInv'
<1> DEFINE r == [op |-> "undo", batch |-> b, titles |-> CreatedTitles(b),
                 listings |-> {c.listing : c \in AddedElsewhere(b)},
                 survivors |-> {c.title : c \in AddedElsewhere(b)},
                 previous |-> Latest(batch[b].service, b)]
<1>1. /\ Ask(h, r)
      /\ r.op = "undo" /\ r.batch = b /\ r.titles = CreatedTitles(b)
      /\ r.listings = {c.listing : c \in AddedElsewhere(b)}
  BY DEF UndoRead
<1> HIDE DEF r
<1>2. /\ UNCHANGED <<titles, listings, rows, changes>>
      /\ handler' = [handler EXCEPT ![h] = r]
  BY <1>1 DEF Ask, list, ledger
<1>3. TitlesBy(r.titles, b)
  <2>1. ASSUME NEW id \in r.titles
        PROVE  id <= rows /\ \A t \in titles : t.id = id => t.by = b
    <3>1. PICK c \in changes : c.batch = b /\ c.kind = "title_created" /\ c.title # 0
                              /\ id = c.title
      BY <1>1, <2>1 DEF CreatedTitles, Recorded
    <3>2. TitlesBy({c.title} \ {0}, b)
      BY <3>1 DEF OwnInv
    <3> QED
      BY <3>1, <3>2 DEF TitlesBy
  <2> QED
    BY <2>1 DEF TitlesBy
<1>4. ListingsBy(r.listings, b)
  <2>1. ASSUME NEW id \in r.listings
        PROVE  id <= rows /\ \A l \in listings : l.id = id => l.by = b
    <3>1. PICK c \in changes : c.batch = b /\ c.kind = "listing_added"
                              /\ c.listing # 0 /\ id = c.listing
      BY <1>1, <2>1 DEF AddedElsewhere, Recorded
    <3>2. ListingsBy({c.listing} \ {0}, b)
      BY <3>1 DEF OwnInv
    <3> QED
      BY <3>1, <3>2 DEF ListingsBy
  <2> QED
    BY <2>1 DEF ListingsBy
<1>5. \A k \in Handlers : handler'[k] = IF k = h THEN r ELSE handler[k]
  BY <1>2 DEF TypeOK
<1>6. ASSUME NEW k \in Handlers, handler'[k].op = "undo"
      PROVE  TitlesBy(handler'[k].titles, handler'[k].batch)
             /\ ListingsBy(handler'[k].listings, handler'[k].batch)
  BY <1>1, <1>3, <1>4, <1>5, <1>6 DEF OwnInv
<1> QED
  BY <1>2, <1>6 DEF OwnInv, TitlesBy, ListingsBy

\* Other reads, a batch reaching review and a stutter change nothing it speaks of.
LEMMA OwnStill ==
  ASSUME TypeOK, OwnInv, UNCHANGED <<titles, listings, rows, changes>>,
         \A h \in Handlers : handler'[h] = handler[h] \/ handler'[h].op # "undo"
  PROVE  OwnInv'
<1>1. ASSUME NEW h \in Handlers, handler'[h].op = "undo"
      PROVE  /\ handler'[h] = handler[h]
             /\ TitlesBy(handler[h].titles, handler[h].batch)
             /\ ListingsBy(handler[h].listings, handler[h].batch)
  BY <1>1 DEF OwnInv
<1> QED
  BY <1>1 DEF OwnInv, TitlesBy, ListingsBy

\* It holds in every reachable state.
LEMMA OwnInvHolds == Spec => [](TypeOK /\ LedgerInv /\ GroupInv /\ OwnInv)
<1>1. Init => OwnInv
  BY DEF Init, OwnInv, Idle
<1>2. TypeOK /\ LedgerInv /\ GroupInv /\ OwnInv /\ [Next]_vars => OwnInv'
  <2> SUFFICES ASSUME TypeOK, LedgerInv, GroupInv, OwnInv, [Next]_vars
               PROVE  OwnInv'
    OBVIOUS
  <2>1. \A h \in Handlers : \A r : Ask(h, r) /\ r.op # "undo" =>
          /\ UNCHANGED <<titles, listings, rows, changes>>
          /\ \A g \in Handlers : handler'[g] = handler[g] \/ handler'[g].op # "undo"
    BY DEF Ask, list, ledger, TypeOK
  <2>2. ASSUME NEW h \in Handlers, NEW b \in Batches, NEW works, NEW ticked,
               CloseRead(h, b, works, ticked) \/ UndoGroupRead(h, b) \/ OtherRead(h)
        PROVE  OwnInv'
    <3>1. \E r : Ask(h, r) /\ r.op # "undo"
      BY <2>2 DEF CloseRead, UndoGroupRead, OtherRead
    <3> QED
      BY <2>1, <3>1, OwnStill
  <2>3. ASSUME NEW b \in Batches, NEW s, NEW removes, NEW found, Review(b, s, removes, found)
        PROVE  OwnInv'
    <3>1. UNCHANGED <<titles, listings, rows, changes, handler>>
      BY <2>3 DEF Review, list
    <3> QED
      BY <3>1, OwnStill
  <2>4. CASE UNCHANGED vars
    <3>1. UNCHANGED <<titles, listings, rows, changes, handler>>
      BY <2>4 DEF vars, list, ledger
    <3> QED
      BY <3>1, OwnStill
  <2>5. ASSUME NEW h \in Handlers, OtherRead(h)
        PROVE  OwnInv'
    <3>1. \E r : Ask(h, r) /\ r.op # "undo"
      BY <2>5 DEF OtherRead
    <3> QED
      BY <2>1, <3>1, OwnStill
  <2> QED
    BY <2>2, <2>3, <2>4, <2>5, StepKinds, OwnClose, OwnOthers, OwnUndoRead
<1> QED
  BY <1>1, <1>2, GroupInvHolds, PTL DEF Spec

\* UndoTakesItsOwn for every instance: whatever other closes, undos, corrections and
\* purges have come between the read of an undo and its write.
THEOREM UndoIsItsOwn == Spec => UndoTakesItsOwn
<1> DEFINE Taken(b) == /\ \A t \in titles :
                            t.by = b \/ \E u \in titles' : u = [t EXCEPT !.state = u.state]
                       /\ \A l \in listings :
                            \/ l.by = b
                            \/ \E t \in titles : t.id = l.title /\ t.by = b
                            \/ l \in listings'
           A == \A b \in Batches : HasStatus(b, "applied") /\ HasStatus(b, "undone")' => Taken(b)
<1>1. ASSUME TypeOK, LedgerInv, OwnInv, NEW h \in Handlers, UndoWrite(h), NEW b,
             handler[h].batch = b
      PROVE  Taken(b)
  <2> DEFINE request == handler[h]
             under   == {l \in listings : l.title \in request.titles}
             ls      == listings \ (under \cup {l \in listings : l.id \in request.listings})
             ts      == {t \in titles : t.id \notin request.titles}
             f(t)    == IF t.id \in request.survivors
                          THEN [t EXCEPT !.state = Derived(ls, t.id)] ELSE t
  <2>1. /\ titles' = Rederive(ts, ls, request.survivors) /\ listings' = ls
        /\ request.op = "undo"
    BY <1>1 DEF UndoWrite, Store, Doing
  <2>2. titles' = {f(t) : t \in ts}
    BY <2>1 DEF Rederive
  <2>3. TitlesBy(request.titles, b) /\ ListingsBy(request.listings, b)
    BY <1>1, <2>1 DEF OwnInv
  <2>4. ASSUME NEW t \in titles, t.id \notin request.titles
        PROVE  \E u \in titles' : u = [t EXCEPT !.state = u.state]
    <3>1. f(t) \in titles'
      BY <2>2, <2>4
    <3>2. f(t) = [t EXCEPT !.state = f(t).state]
      BY <1>1 DEF TypeOK, Titles
    <3> QED
      BY <3>1, <3>2
  <2>5. ASSUME NEW l \in listings, l.title \in request.titles
        PROVE  \E t \in titles : t.id = l.title /\ t.by = b
    BY <1>1, <2>3, <2>5 DEF TitlesBy, LedgerInv, UniqueIds, TitleIds
  <2> QED
    BY <2>1, <2>3, <2>4, <2>5 DEF TitlesBy, ListingsBy
<1>2. TypeOK /\ LedgerInv /\ GroupInv /\ OwnInv /\ [Next]_vars => A
  <2> SUFFICES ASSUME TypeOK, LedgerInv, GroupInv, OwnInv, [Next]_vars,
                      NEW b \in Batches, HasStatus(b, "applied"), HasStatus(b, "undone")'
               PROVE  \E h \in Handlers : UndoWrite(h) /\ handler[h].batch = b
    BY <1>1
  <2>1. batch'[b] # batch[b]
    BY DEF HasStatus
  <2>2. ASSUME NEW h \in Handlers, NEW number \in Numberings(h), CloseWrite(h, number)
        PROVE  FALSE
    <3>1. PICK c, listed, made, added, removed : Closed(h, number, c, listed, made, added, removed)
      BY <2>2, CloseFacts
    <3> QED
      BY <2>1, <3>1 DEF Closed, HasStatus
  <2>3. ASSUME NEW h \in Handlers, Others(h)
        PROVE  UndoWrite(h) /\ handler[h].batch = b
    BY <2>1, <2>3 DEF Others
  <2>4. \A h, r : Ask(h, r) => batch' = batch
    BY DEF Ask, ledger
  <2>5. ASSUME NEW h \in Handlers, NEW c \in Batches, NEW works, NEW ticked,
               CloseRead(h, c, works, ticked) \/ UndoRead(h, c) \/ UndoGroupRead(h, c)
        PROVE  FALSE
    BY <2>1, <2>4, <2>5 DEF CloseRead, UndoRead, UndoGroupRead
  <2>6. ASSUME NEW h \in Handlers, OtherRead(h)
        PROVE  FALSE
    BY <2>1, <2>4, <2>6 DEF OtherRead
  <2>7. ASSUME NEW c \in Batches, NEW s, NEW removes, NEW found, Review(c, s, removes, found)
        PROVE  FALSE
    BY <2>1, <2>7 DEF Review, HasStatus, TypeOK
  <2>8. ~UNCHANGED vars
    BY <2>1 DEF vars, ledger
  <2> QED
    BY <2>2, <2>3, <2>5, <2>6, <2>7, <2>8, StepKinds
<1>3. TypeOK /\ LedgerInv /\ GroupInv /\ OwnInv /\ [Next]_vars => [A]_vars
  BY <1>2
<1> QED
  BY <1>3, OwnInvHolds, PTL DEF Spec, UndoTakesItsOwn

\* No close lists a work that is suppressed when it writes, whatever was suppressed,
\* and by whom, since the review was read.
THEOREM ClosesAreGated == Spec => CloseGatesSuppressed
<1> DEFINE Gated == \A l \in listings' \ listings :
                      l.state = "active" /\ l.by # None /\ ~(\E m \in listings : m.id = l.id)
                        => WorkOf(l.title)' \notin suppressed
<1>1. TypeOK /\ LedgerInv /\ GroupInv /\ [Next]_vars => Gated
  <2> SUFFICES ASSUME TypeOK, LedgerInv, GroupInv, [Next]_vars
               PROVE  Gated
    OBVIOUS
  <2>1. ASSUME NEW h \in Handlers, NEW number \in Numberings(h), CloseWrite(h, number)
        PROVE  Gated
    <3>1. PICK b, listed, made, added, removed :
            listed = Listed(handler[h]) /\ Closed(h, number, b, listed, made, added, removed)
      BY <2>1, CloseFacts
    <3>2. listed \cap suppressed = {}
      BY <3>1 DEF Listed
    <3>3. \A l \in listings' :
            l \in added \/ (\E m \in listings : m.id = l.id)
      BY <3>1 DEF Closed
    <3>4. \A l \in added : WorkOf(l.title)' \in listed
      BY <3>1, ListedWork
    <3> QED
      BY <3>2, <3>3, <3>4
  <2>2. ASSUME NEW h \in Handlers, Others(h)
        PROVE  Gated
    BY <2>2 DEF Others, Carried
  <2>3. CASE UNCHANGED listings
    BY <2>3
  <2> HIDE DEF Gated
  <2> QED
    BY <2>1, <2>2, <2>3, StepKinds, StillSteps
<1>2. TypeOK /\ LedgerInv /\ GroupInv /\ [Next]_vars => [Gated]_vars
  BY <1>1
<1> QED
  BY <1>2, GroupInvHolds, PTL DEF Spec, CloseGatesSuppressed

\* A group is undone as a whole however many requests are in progress: what its
\* undo restores and what it holds back are, when it writes, all of its members.
THEOREM GroupsAreUndoneWhole == Spec => GroupUndoneWhole
<1> DEFINE Whole == \A g \in Batches :
                      groups[g] = "confirmed" /\ groups'[g] = "undone" =>
                        \E h \in Handlers :
                          /\ handler[h].op = "undoGroup" /\ handler[h].group = g
                          /\ \A l \in listings' : l.group = g => l.id \in handler[h].held
<1>1. TypeOK /\ LedgerInv /\ GroupInv /\ [Next]_vars => Whole
  <2> SUFFICES ASSUME TypeOK, LedgerInv, GroupInv, [Next]_vars
               PROVE  Whole
    OBVIOUS
  <2>1. ASSUME NEW h \in Handlers, NEW number \in Numberings(h), CloseWrite(h, number)
        PROVE  Whole
    <3>1. groups' = [groups EXCEPT ![handler[h].batch] = IF handler[h].removes THEN "confirmed"
                                                                              ELSE @]
      BY <2>1 DEF CloseWrite
    <3>2. groups \in [Batches -> {"none", "confirmed", "undone"}]
      BY DEF TypeOK
    <3>3. \A g \in Batches : groups'[g] = groups[g] \/ groups'[g] = "confirmed"
      BY <3>1, <3>2
    <3> QED
      BY <3>3
  <2>2. ASSUME NEW h \in Handlers, Others(h)
        PROVE  Whole
    <3> SUFFICES ASSUME NEW g \in Batches, groups[g] = "confirmed", groups'[g] = "undone"
                 PROVE  /\ handler[h].op = "undoGroup" /\ handler[h].group = g
                        /\ \A l \in listings' : l.group = g => l.id \in handler[h].held
      BY <2>2
    <3>1. UndoGroupWrite(h) /\ handler[h].group = g
      BY <2>2 DEF Others
    <3> DEFINE back == {l \in listings : l.id \in handler[h].restoring /\ l.state = "removed"}
               f(l) == [l EXCEPT !.state = "active", !.group = None]
    <3>2. /\ handler[h].op = "undoGroup" /\ handler[h].restoring = {l.id : l \in back}
          /\ listings' = (listings \ back) \cup {f(l) : l \in back}
      BY <3>1 DEF UndoGroupWrite, Doing, Store
    <3>3. \A l \in listings : f(l).group = None
      BY DEF TypeOK, Listings
    <3>4. back \subseteq listings
      OBVIOUS
    <3>5. \A l \in listings : l.group = g => l.id \in handler[h].restoring \cup handler[h].held
      BY <3>1, <3>2 DEF GroupInv
    <3> HIDE DEF f, back
    <3>6. \A l \in listings' : l.group = g => l \in listings \ back
      BY <3>2, <3>3, <3>4, NoneAssumption
    <3>7. \A l \in listings \ back : l.id \notin handler[h].restoring
      BY <3>2, <3>4 DEF LedgerInv, UniqueIds
    <3> QED
      BY <3>1, <3>2, <3>5, <3>6, <3>7
  <2>3. CASE UNCHANGED groups
    BY <2>3
  <2> HIDE DEF Whole
  <2> QED
    BY <2>1, <2>2, <2>3, StepKinds, StillSteps
<1>2. TypeOK /\ LedgerInv /\ GroupInv /\ [Next]_vars => [Whole]_vars
  BY <1>1
<1> QED
  BY <1>2, GroupInvHolds, PTL DEF Spec, GroupUndoneWhole

----------------------------------------------------------------------------
(* What a batch may touch, where no match is fixed: a corrected match gives *)
(* a listing a work the batch that removed it never looked at.              *)

InScope(l, b) ==
  /\ batch[b].removes /\ l.service = batch[b].service
  /\ WorkOf(l.title) \notin batch[b].found

\* A listing in a group is on the record of its batch, which is applied; a close
\* holds listings of its scope; an undo that can still be written is of a batch
\* with no group left.
ScopeInv ==
  /\ \A h \in Handlers : handler[h].op # "fix"
  /\ \A l \in listings : l.group # None =>
       /\ HasStatus(l.group, "applied") /\ InScope(l, l.group)
       /\ \E c \in changes : /\ c.batch = l.group /\ c.kind = "listing_removed"
                             /\ c.listing = l.id /\ c.title = l.title
  /\ \A h \in Handlers : handler[h].op = "close" =>
       /\ batch[handler[h].batch] # Unread
       /\ \A i \in handler[h].ticked : i <= rows
       /\ \A l \in listings : l.id \in handler[h].ticked => InScope(l, handler[h].batch)
  /\ \A h \in Handlers : handler[h].op = "undo" /\ HasStatus(handler[h].batch, "applied") =>
       \A l \in listings : l.group # handler[h].batch
  /\ AppliedOnce

\* A title that was there has the work it had.
LEMMA WorksStay ==
  ASSUME TypeOK, LedgerInv, LedgerInv',
         \A u \in titles' : u.id > rows \/ \E t \in titles : SameTitle(u, t)
  PROVE  \A id \in TitleIds \cap TitleIds' : WorkOf(id)' = WorkOf(id)
<1> SUFFICES ASSUME NEW id \in TitleIds \cap TitleIds'
             PROVE  WorkOf(id)' = WorkOf(id)
  OBVIOUS
<1>1. PICK u \in titles' : u.id = id
  BY DEF TitleIds
<1>2. PICK v \in titles : v.id = id
  BY DEF TitleIds
<1>3. v.id <= rows /\ v.id \in Nat /\ rows \in Nat
  BY DEF LedgerInv, UniqueIds, TypeOK, Titles, Ids
<1>4. PICK t \in titles : SameTitle(u, t)
  BY <1>1, <1>2, <1>3
<1>5. t.id = id /\ t.work = u.work
  BY <1>1, <1>4 DEF SameTitle
<1>6. WorkOf(id) = t.work
  BY <1>5, WorkOfTitle DEF LedgerInv
<1>7. \A x, y \in titles' : x.id = y.id => x = y
  BY DEF LedgerInv, UniqueIds
<1>8. WorkOf(id)' = u.work
  BY <1>1, <1>7 DEF WorkOf
<1> QED
  BY <1>5, <1>6, <1>8

\* Steps other than closes and reads keep what is in scope in scope.
LEMMA ScopeOthers ==
  ASSUME TypeOK, TypeOK', LedgerInv, LedgerInv', ScopeInv, NEW h \in Handlers, Others(h)
  PROVE  ScopeInv'
<1>n. /\ rows \in Nat /\ rows' \in Nat /\ rows <= rows'
      /\ \A l \in listings : /\ l.id <= rows /\ l.id \in Nat /\ l.title \in TitleIds
                             /\ l.group \in Batches \cup {None} /\ l.by \in Batches \cup {None}
      /\ \A m \in listings' : m.title \in TitleIds' /\ m.id \in Nat
  BY DEF Others, LedgerInv, UniqueIds, TypeOK, Listings, Ids
<1>w. \A id \in TitleIds \cap TitleIds' : WorkOf(id)' = WorkOf(id)
  BY WorksStay DEF Others, ScopeInv
<1>b. \A b \in Batches : batch[b] # Unread =>
        /\ batch'[b] # Unread
        /\ batch'[b].removes = batch[b].removes /\ batch'[b].service = batch[b].service
        /\ batch'[b].found = batch[b].found
  <2> SUFFICES ASSUME NEW b \in Batches, batch[b] # Unread
               PROVE  /\ batch'[b] # Unread
                      /\ batch'[b].removes = batch[b].removes
                      /\ batch'[b].service = batch[b].service
                      /\ batch'[b].found = batch[b].found
    OBVIOUS
  <2>1. CASE batch'[b] = batch[b]
    BY <2>1
  <2>2. CASE batch'[b] = [batch[b] EXCEPT !.status = "undone"] /\ batch[b] \in Reading
    BY <2>2 DEF Reading, Unread
  <2> QED
    BY <2>1, <2>2 DEF Others
<1>l. \A m \in listings' : m.id <= rows \/ m.by # None \/ m.group # None =>
        \E l \in listings : Carried(m, l)
  BY <1>n DEF Others
<1>s. ASSUME NEW b \in Batches, batch[b] # Unread, NEW m \in listings', NEW l \in listings,
             Carried(m, l), InScope(l, b)
      PROVE  InScope(m, b)'
  <2>1. m.service = l.service /\ m.title = l.title
    BY <1>s DEF Carried
  <2>2. WorkOf(m.title)' = WorkOf(l.title)
    BY <1>n, <1>w, <2>1
  <2> QED
    BY <1>s, <1>b, <2>1, <2>2 DEF InScope
<1>1. \A k \in Handlers : handler'[k].op # "fix"
  BY DEF Others, ScopeInv
<1>2. ASSUME NEW m \in listings', m.group # None
      PROVE  /\ HasStatus(m.group, "applied")' /\ InScope(m, m.group)'
             /\ \E c \in changes' : /\ c.batch = m.group /\ c.kind = "listing_removed"
                                    /\ c.listing = m.id /\ c.title = m.title
  <2>1. PICK l \in listings : Carried(m, l)
    BY <1>l, <1>2
  <2>2. /\ m.group = l.group /\ m.id = l.id /\ m.title = l.title /\ m.group \in Batches
        /\ HasStatus(l.group, "applied") /\ InScope(l, l.group)
    BY <1>2, <1>n, <2>1 DEF Carried, ScopeInv
  <2>3. HasStatus(m.group, "applied")'
    <3>1. ~(handler[h].op = "undo" /\ handler[h].batch = m.group)
      BY <2>2 DEF ScopeInv
    <3>2. batch'[m.group] = batch[m.group]
      BY <2>2, <3>1 DEF Others
    <3> QED
      BY <2>2, <3>2 DEF HasStatus
  <2>4. InScope(m, m.group)'
    BY <1>s, <2>1, <2>2 DEF HasStatus
  <2>5. PICK c \in changes : /\ c.batch = l.group /\ c.kind = "listing_removed"
                             /\ c.listing = l.id /\ c.title = l.title
    BY <1>2, <2>2 DEF ScopeInv
  <2>6. \E d \in changes' : /\ d.batch = c.batch /\ d.kind = c.kind
                            /\ d.listing = c.listing /\ d.title = c.title
    BY <1>n, <2>2, <2>5 DEF Others
  <2> QED
    BY <2>2, <2>3, <2>4, <2>5, <2>6
<1>3. ASSUME NEW k \in Handlers, handler'[k].op = "close"
      PROVE  /\ batch'[handler'[k].batch] # Unread
             /\ \A i \in handler'[k].ticked : i <= rows'
             /\ \A m \in listings' :
                  m.id \in handler'[k].ticked => InScope(m, handler[k].batch)'
  <2>1. handler'[k] = handler[k]
    BY <1>3 DEF Others
  <2>2. /\ handler[k].batch \in Batches /\ batch[handler[k].batch] # Unread
        /\ \A i \in handler[k].ticked : i <= rows /\ i \in Nat
        /\ \A l \in listings : l.id \in handler[k].ticked => InScope(l, handler[k].batch)
    BY <1>3, <2>1, RequestFacts DEF TypeOK, ScopeInv, Ids
  <2>3. \A m \in listings' : m.id \in handler[k].ticked => InScope(m, handler[k].batch)'
    <3> SUFFICES ASSUME NEW m \in listings', m.id \in handler[k].ticked
                 PROVE  InScope(m, handler[k].batch)'
      OBVIOUS
    <3>1. PICK l \in listings : Carried(m, l)
      BY <1>l, <2>2
    <3>2. InScope(l, handler[k].batch)
      BY <2>2, <3>1 DEF Carried
    <3> DEFINE IsScope(b) == InScope(m, b)'
    <3>3. \A b \in Batches : batch[b] # Unread /\ InScope(l, b) => InScope(m, b)'
      BY <1>s, <3>1
    <3> QED
      BY <2>1, <2>2, <3>2, <3>3 DEF InScope
  <2> QED
    BY <1>b, <1>n, <2>1, <2>2, <2>3
<1>4. ASSUME NEW k \in Handlers, handler'[k].op = "undo", HasStatus(handler[k].batch, "applied")'
      PROVE  \A m \in listings' : m.group # handler'[k].batch
  <2>1. handler'[k] = handler[k] /\ handler[k].batch \in Batches
    BY <1>4, RequestFacts DEF Others, TypeOK
  <2>2. HasStatus(handler[k].batch, "applied")
    <3>1. batch'[handler[k].batch].status = "applied"
      BY <1>4, <2>1 DEF HasStatus
    <3>2. batch'[handler[k].batch] = batch[handler[k].batch]
      BY <2>1, <3>1 DEF Others, Reading
    <3> QED
      BY <1>4, <2>1, <3>2 DEF HasStatus
  <2>3. \A l \in listings : l.group # handler[k].batch
    BY <1>4, <2>1, <2>2 DEF ScopeInv
  <2> QED
    BY <1>l, <2>1, <2>3, NoneAssumption DEF Carried
<1>5. AppliedOnce'
  <2> SUFFICES ASSUME NEW m \in listings', NEW o \in listings', m.by # None, m.by = o.by,
                      WorkOf(m.title)' = WorkOf(o.title)'
               PROVE  m = o
    BY DEF AppliedOnce
  <2>1. PICK l \in listings, k \in listings : Carried(m, l) /\ Carried(o, k)
    BY <1>l
  <2>2. WorkOf(l.title) = WorkOf(k.title) /\ l.by # None /\ l.by = k.by
    BY <1>n, <1>w, <2>1 DEF Carried
  <2>3. l = k
    BY <2>2 DEF ScopeInv, AppliedOnce
  <2> QED
    BY <2>1, <2>3 DEF Carried, LedgerInv, UniqueIds
<1> QED
  BY <1>1, <1>2, <1>3, <1>4, <1>5 DEF ScopeInv

\* A close removes listings of its scope and lists every work once.
LEMMA ScopeClose ==
  ASSUME TypeOK, TypeOK', LedgerInv, LedgerInv', ScopeInv,
         NEW h \in Handlers, NEW number \in Numberings(h), CloseWrite(h, number)
  PROVE  ScopeInv'
<1>0. PICK b, listed, made, added, removed :
        /\ b = handler[h].batch /\ removed = RemovedBy(h)
        /\ Closed(h, number, b, listed, made, added, removed)
  BY CloseFacts
<1>1. /\ b \in Batches /\ HasStatus(b, "in-review") /\ batch[b] \in Reading
      /\ batch'[b] = [batch[b] EXCEPT !.status = "applied", !.confirmed = handler[h].works]
      /\ \A c \in Batches : c # b => batch'[c] = batch[c]
      /\ Answer(h) /\ removed \subseteq listings
      /\ \A l \in removed : l.id \in handler[h].ticked
  BY <1>0 DEF Closed, RemovedBy
<1>2. /\ batch'[b] # Unread /\ batch'[b].status = "applied"
      /\ batch'[b].removes = batch[b].removes /\ batch'[b].service = batch[b].service
      /\ batch'[b].found = batch[b].found
  BY <1>1 DEF Reading, Unread
<1>b. \A c \in Batches : batch[c] # Unread =>
        /\ batch'[c] # Unread
        /\ batch'[c].removes = batch[c].removes /\ batch'[c].service = batch[c].service
        /\ batch'[c].found = batch[c].found
  BY <1>1, <1>2
<1>n. /\ rows \in Nat /\ rows' \in Nat /\ rows <= rows'
      /\ \A l \in listings : /\ l.id <= rows /\ l.id \in Nat /\ l.title \in TitleIds
                             /\ l.group \in Batches \cup {None} /\ l.by \in Batches \cup {None}
      /\ \A m \in listings' : m.title \in TitleIds' /\ m.id \in Nat
      /\ \A l \in added : l.id > rows /\ l.group = None /\ l.by = b
  BY <1>0 DEF Closed, LedgerInv, UniqueIds, TypeOK, Listings, Ids
<1>w. \A id \in TitleIds \cap TitleIds' : WorkOf(id)' = WorkOf(id)
  <2>1. \A u \in titles' : u.id > rows \/ \E t \in titles : SameTitle(u, t)
    BY <1>0 DEF Closed, SameTitle
  <2> QED
    BY <2>1, WorksStay
<1>l. \A m \in listings' :
        \/ m \in listings
        \/ m \in added
        \/ \E l \in removed : /\ m.id = l.id /\ m.title = l.title /\ m.service = l.service
                              /\ m.by = l.by /\ m.group = b
  BY <1>0 DEF Closed
<1>s. ASSUME NEW c \in Batches, batch[c] # Unread, NEW m \in listings', NEW l \in listings,
             m.service = l.service, m.title = l.title, InScope(l, c)
      PROVE  InScope(m, c)'
  <2>1. WorkOf(m.title)' = WorkOf(l.title)
    BY <1>n, <1>w, <1>s
  <2> QED
    BY <1>s, <1>b, <2>1 DEF InScope
<1>c. handler[h].op = "close" /\ \A l \in removed : InScope(l, b)
  BY <1>0, <1>1 DEF CloseWrite, Doing, ScopeInv
<1>3. \A k \in Handlers : handler'[k].op # "fix"
  BY <1>1, AnswerEnds DEF ScopeInv
<1>4. ASSUME NEW m \in listings', m.group # None
      PROVE  /\ HasStatus(m.group, "applied")' /\ InScope(m, m.group)'
             /\ \E c \in changes' : /\ c.batch = m.group /\ c.kind = "listing_removed"
                                    /\ c.listing = m.id /\ c.title = m.title
  <2>1. CASE m \in listings
    <3>1. /\ m.group \in Batches /\ HasStatus(m.group, "applied") /\ InScope(m, m.group)
          /\ \E c \in changes : /\ c.batch = m.group /\ c.kind = "listing_removed"
                                /\ c.listing = m.id /\ c.title = m.title
      BY <1>4, <1>n, <2>1 DEF ScopeInv
    <3>2. m.group # b
      BY <1>1, <3>1 DEF HasStatus
    <3>3. HasStatus(m.group, "applied")'
      BY <1>1, <3>1, <3>2 DEF HasStatus
    <3>4. InScope(m, m.group)'
      BY <1>s, <2>1, <3>1 DEF HasStatus
    <3>5. changes \subseteq changes'
      BY <1>0 DEF Closed
    <3> QED
      BY <3>1, <3>3, <3>4, <3>5
  <2>2. ASSUME NEW l \in removed, m.id = l.id, m.title = l.title, m.service = l.service,
               m.group = b
        PROVE  /\ HasStatus(m.group, "applied")' /\ InScope(m, m.group)'
               /\ \E c \in changes' : /\ c.batch = m.group /\ c.kind = "listing_removed"
                                      /\ c.listing = m.id /\ c.title = m.title
    <3>1. HasStatus(b, "applied")'
      BY <1>2 DEF HasStatus
    <3>2. InScope(m, b)'
      BY <1>1, <1>s, <1>c, <2>2 DEF HasStatus
    <3>3. Change(b, "listing_removed", l.title, l.id) \in changes'
      BY <1>0 DEF Closed, ChangeRows
    <3>4. LET c == Change(b, "listing_removed", l.title, l.id) IN
          /\ c.batch = b /\ c.kind = "listing_removed" /\ c.listing = l.id /\ c.title = l.title
      BY DEF Change
    <3> QED
      BY <2>2, <3>1, <3>2, <3>3, <3>4
  <2> QED
    BY <1>4, <1>l, <1>n, <2>1, <2>2
<1>5. ASSUME NEW k \in Handlers, handler'[k].op = "close"
      PROVE  /\ batch'[handler'[k].batch] # Unread
             /\ \A i \in handler'[k].ticked : i <= rows'
             /\ \A m \in listings' :
                  m.id \in handler'[k].ticked => InScope(m, handler[k].batch)'
  <2>1. handler'[k] = handler[k]
    BY <1>1, <1>5, AnswerEnds
  <2>2. /\ handler[k].batch \in Batches /\ batch[handler[k].batch] # Unread
        /\ \A i \in handler[k].ticked : i <= rows /\ i \in Nat
        /\ \A l \in listings : l.id \in handler[k].ticked => InScope(l, handler[k].batch)
    BY <1>5, <2>1, RequestFacts DEF TypeOK, ScopeInv, Ids
  <2>3. \A m \in listings' : m.id \in handler[k].ticked => InScope(m, handler[k].batch)'
    <3> SUFFICES ASSUME NEW m \in listings', m.id \in handler[k].ticked
                 PROVE  InScope(m, handler[k].batch)'
      OBVIOUS
    <3>1. PICK l \in listings : m.id = l.id /\ m.title = l.title /\ m.service = l.service
      BY <1>1, <1>l, <1>n, <2>2
    <3>2. InScope(l, handler[k].batch)
      BY <2>2, <3>1
    <3>3. \A c \in Batches : batch[c] # Unread /\ InScope(l, c) => InScope(m, c)'
      BY <1>s, <3>1
    <3> QED
      BY <2>1, <2>2, <3>2, <3>3 DEF InScope
  <2> QED
    BY <1>b, <1>n, <2>1, <2>2, <2>3
<1>6. ASSUME NEW k \in Handlers, handler'[k].op = "undo", HasStatus(handler[k].batch, "applied")'
      PROVE  \A m \in listings' : m.group # handler'[k].batch
  <2>1. handler'[k] = handler[k] /\ handler[k].batch \in Batches
    BY <1>1, <1>6, AnswerEnds, RequestFacts DEF TypeOK
  <2>2. handler[k].batch # b
    BY <1>1, <1>6, <2>1 DEF LedgerInv, UndoTakesAll, HasStatus
  <2>3. HasStatus(handler[k].batch, "applied")
    BY <1>1, <1>6, <2>1, <2>2 DEF HasStatus
  <2>4. \A l \in listings : l.group # handler[k].batch
    BY <1>6, <2>1, <2>3 DEF ScopeInv
  <2> QED
    BY <1>l, <1>n, <2>1, <2>2, <2>4, NoneAssumption
<1>7. AppliedOnce'
  <2> SUFFICES ASSUME NEW m \in listings', NEW o \in listings', m.by # None, m.by = o.by,
                      WorkOf(m.title)' = WorkOf(o.title)'
               PROVE  m = o
    BY DEF AppliedOnce
  <2>1. \A l \in listings : l.by # b
    BY <1>1, NoneAssumption DEF LedgerInv, OnRecord, HasStatus
  <2>2. m.id = o.id
    <3>1. CASE m.by = b
      <4>1. m \in added /\ o \in added
        <5>1. \A x \in listings' : x.by = b => x \in added
          BY <1>1, <1>l, <2>1
        <5> QED
          BY <3>1, <5>1
      <4>2. PICK v \in listed : m.id = number[v] /\ WorkOf(m.title)' = v
        BY <1>0, <4>1, ListedWork
      <4>3. PICK w \in listed : o.id = number[w] /\ WorkOf(o.title)' = w
        BY <1>0, <4>1, ListedWork
      <4> QED
        BY <4>2, <4>3
    <3>2. CASE m.by # b
      <4>1. PICK l \in listings : m.id = l.id /\ m.title = l.title /\ m.by = l.by
        BY <1>1, <1>l, <1>n, <3>2
      <4>2. PICK k \in listings : o.id = k.id /\ o.title = k.title /\ o.by = k.by
        BY <1>1, <1>l, <1>n, <3>2
      <4>3. WorkOf(l.title) = WorkOf(k.title) /\ l.by # None /\ l.by = k.by
        BY <1>n, <1>w, <4>1, <4>2
      <4>4. l = k
        BY <4>3 DEF ScopeInv, AppliedOnce
      <4> QED
        BY <4>1, <4>2, <4>4
    <3> QED
      BY <3>1, <3>2
  <2> QED
    BY <2>2 DEF LedgerInv, UniqueIds
<1> QED
  BY <1>3, <1>4, <1>5, <1>6, <1>7 DEF ScopeInv

\* A close reads listings of its scope; an undo is of a batch that has no group: a
\* batch that removed something is not undone.
LEMMA ScopeReads ==
  ASSUME TypeOK, LedgerInv, ScopeInv, "fix" \notin Asked, NEW h \in Handlers,
         \/ \E b \in Batches :
              \/ \E works \in SUBSET Works, ticked \in SUBSET {l.id : l \in listings} :
                   CloseRead(h, b, works, ticked)
              \/ UndoRead(h, b)
              \/ UndoGroupRead(h, b)
         \/ OtherRead(h)
  PROVE  ScopeInv'
<1>1. ASSUME NEW r, Ask(h, r),
             r.op = "close" =>
               /\ batch[r.batch] # Unread
               /\ \A i \in r.ticked : i <= rows
               /\ \A l \in listings : l.id \in r.ticked => InScope(l, r.batch),
             r.op = "undo" => \A l \in listings : l.group # r.batch
      PROVE  ScopeInv'
  <2>1. /\ UNCHANGED <<titles, listings, rows, batch, changes>>
        /\ r.op # "fix" /\ handler' = [handler EXCEPT ![h] = r]
    BY <1>1 DEF Ask, list, ledger
  <2>2. \A k \in Handlers : handler'[k] = handler[k] \/ handler'[k] = r
    BY <2>1 DEF TypeOK
  <2>3. \A l, b : InScope(l, b)' <=> InScope(l, b)
    BY <2>1 DEF InScope, WorkOf
  <2>4. AppliedOnce'
    BY <2>1 DEF ScopeInv, AppliedOnce, WorkOf
  <2>5. \A k \in Handlers : handler'[k].op # "fix"
    BY <2>1, <2>2 DEF ScopeInv
  <2>6. \A l \in listings' : l.group # None =>
          /\ HasStatus(l.group, "applied")' /\ InScope(l, l.group)'
          /\ \E c \in changes' : /\ c.batch = l.group /\ c.kind = "listing_removed"
                                 /\ c.listing = l.id /\ c.title = l.title
    BY <2>1, <2>3 DEF ScopeInv, HasStatus
  <2>7. \A k \in Handlers : handler'[k].op = "close" =>
          /\ batch'[handler'[k].batch] # Unread
          /\ \A i \in handler'[k].ticked : i <= rows'
          /\ \A l \in listings' : l.id \in handler'[k].ticked => InScope(l, handler'[k].batch)
    BY <1>1, <2>1, <2>2 DEF ScopeInv
  <2>8. \A k \in Handlers : handler'[k].op = "undo" /\ HasStatus(handler'[k].batch, "applied") =>
          \A l \in listings' : l.group # handler'[k].batch
    BY <1>1, <2>1, <2>2 DEF ScopeInv
  <2>9. \A k \in Handlers : \A l :
          InScope(l, handler'[k].batch) => InScope(l, handler[k].batch)'
    BY <2>1 DEF InScope, WorkOf
  <2>10. \A k \in Handlers :
           HasStatus(handler[k].batch, "applied")' => HasStatus(handler'[k].batch, "applied")
    BY <2>1 DEF HasStatus
  <2> QED
    BY <2>4, <2>5, <2>6, <2>7, <2>8, <2>9, <2>10 DEF ScopeInv
<1>2. ASSUME NEW b \in Batches, NEW works \in SUBSET Works,
             NEW ticked \in SUBSET {l.id : l \in listings}, CloseRead(h, b, works, ticked)
      PROVE  ScopeInv'
  <2> DEFINE removes == batch[b].removes /\ Proposed(b) # {}
             r == [op |-> "close", batch |-> b, works |-> works, ticked |-> ticked,
                   removes |-> removes, after |-> {history[i] : i \in DOMAIN history}]
  <2>1. /\ Ask(h, r) /\ HasStatus(b, "in-review")
        /\ ticked \subseteq (IF removes THEN {l.id : l \in Proposed(b)} ELSE {})
    BY <1>2 DEF CloseRead
  <2>2. \A i \in ticked : i <= rows
    BY DEF LedgerInv, UniqueIds
  <2>3. \A l \in listings : l.id \in ticked => InScope(l, b)
    <3> SUFFICES ASSUME NEW l \in listings, l.id \in ticked
                 PROVE  InScope(l, b)
      OBVIOUS
    <3>1. batch[b].removes /\ l.id \in {m.id : m \in Proposed(b)}
      BY <2>1
    <3>2. PICK m \in Proposed(b) : m.id = l.id
      BY <3>1
    <3>3. m = l
      BY <3>2 DEF Proposed, Active, LedgerInv, UniqueIds
    <3> QED
      BY <3>1, <3>2, <3>3 DEF Proposed, InScope
  <2>4. r.op = "close" /\ r.batch = b /\ r.ticked = ticked
    OBVIOUS
  <2> HIDE DEF r
  <2> QED
    BY <1>1, <2>1, <2>2, <2>3, <2>4 DEF HasStatus
<1>3. ASSUME NEW b \in Batches, UndoRead(h, b)
      PROVE  ScopeInv'
  <2> DEFINE r == [op |-> "undo", batch |-> b, titles |-> CreatedTitles(b),
                   listings |-> {c.listing : c \in AddedElsewhere(b)},
                   survivors |-> {c.title : c \in AddedElsewhere(b)},
                   previous |-> Latest(batch[b].service, b)]
  <2>1. Ask(h, r) /\ CreatesOnly(b)
    BY <1>3 DEF UndoRead
  <2>2. \A l \in listings : l.group # b
    <3> SUFFICES ASSUME NEW l \in listings, l.group = b
                 PROVE  FALSE
      OBVIOUS
    <3>1. PICK c \in changes : /\ c.batch = b /\ c.kind = "listing_removed"
                               /\ c.listing = l.id /\ c.title = l.title
      BY NoneAssumption DEF ScopeInv
    <3>2. l.id # 0 /\ l.title # 0
      BY DEF TypeOK, Listings, Ids
    <3> QED
      BY <2>1, <3>1, <3>2 DEF CreatesOnly, Recorded
  <2>3. r.op = "undo" /\ r.batch = b
    OBVIOUS
  <2> HIDE DEF r
  <2> QED
    BY <1>1, <2>1, <2>2, <2>3
<1>4. ASSUME NEW g \in Batches, UndoGroupRead(h, g)
      PROVE  \E r : Ask(h, r) /\ r.op \notin {"close", "undo"}
  BY <1>4 DEF UndoGroupRead
<1>5. ASSUME OtherRead(h)
      PROVE  \E r : Ask(h, r) /\ r.op \notin {"close", "undo"}
  BY <1>5 DEF OtherRead
<1> QED
  BY <1>1, <1>2, <1>3, <1>4, <1>5

\* A batch that reaches review has removed nothing and has made nothing.
LEMMA ScopeReview ==
  ASSUME TypeOK, ScopeInv, LedgerInv, NEW b \in Batches, NEW s \in Services, NEW removes \in BOOLEAN,
         NEW found \in SUBSET Works, Review(b, s, removes, found)
  PROVE  ScopeInv'
<1>1. /\ UNCHANGED <<titles, listings, rows, changes, handler>> /\ batch[b] = Unread
      /\ \A c \in Batches : c # b => batch'[c] = batch[c]
  BY DEF Review, list, TypeOK
<1>2. /\ \A l \in listings : l.group \in Batches \cup {None}
      /\ \A h \in Handlers : handler[h].op \in {"close", "undo"} => handler[h].batch \in Batches
  BY RequestFacts DEF TypeOK, Listings
<1>3. \A c \in Batches : batch[c] # Unread => batch'[c] = batch[c]
  BY <1>1
<1>4. \A c \in Batches : batch[c] # Unread => \A l : InScope(l, c) => InScope(l, c)'
  BY <1>1, <1>3 DEF InScope, WorkOf
<1>5. AppliedOnce'
  BY <1>1 DEF ScopeInv, AppliedOnce, WorkOf
<1>6. \A h \in Handlers : handler[h].op = "undo" /\ HasStatus(handler[h].batch, "applied")' =>
        HasStatus(handler[h].batch, "applied")
  <2>1. \A h \in Handlers : handler[h].op = "undo" => batch[handler[h].batch] # Unread
    BY DEF LedgerInv, UndoTakesAll, HasStatus
  <2> QED
    BY <1>1, <1>2, <1>3, <2>1 DEF HasStatus
<1>7. \A l \in listings' : l.group # None => HasStatus(l.group, "applied")' /\ InScope(l, l.group)'
  BY <1>1, <1>2, <1>3, <1>4 DEF ScopeInv, HasStatus
<1>8. \A h \in Handlers : handler[h].op = "close" =>
        /\ batch'[handler[h].batch] # Unread
        /\ \A l \in listings : l.id \in handler[h].ticked => InScope(l, handler[h].batch)'
  BY <1>1, <1>2, <1>3, <1>4 DEF ScopeInv
<1> QED
  BY <1>1, <1>5, <1>6, <1>7, <1>8 DEF ScopeInv

\* Where no match is fixed the scope holds in every reachable state.
LEMMA ScopeInvHolds ==
  ASSUME "fix" \notin Asked
  PROVE  Spec => [](TypeOK /\ LedgerInv /\ GroupInv /\ ScopeInv)
<1>1. Init => ScopeInv
  BY DEF Init, ScopeInv, AppliedOnce, Idle
<1>2. (TypeOK /\ TypeOK' /\ LedgerInv /\ LedgerInv' /\ GroupInv /\ ScopeInv /\ [Next]_vars)
        => ScopeInv'
  <2> SUFFICES ASSUME TypeOK, TypeOK', LedgerInv, LedgerInv', GroupInv, ScopeInv, [Next]_vars
               PROVE  ScopeInv'
    OBVIOUS
  <2>1. CASE UNCHANGED vars
    BY <2>1 DEF ScopeInv, AppliedOnce, InScope, WorkOf, HasStatus, vars, list, ledger
  <2> QED
    BY <2>1, StepKinds, ScopeClose, ScopeOthers, ScopeReads, ScopeReview
<1> QED
  BY <1>1, <1>2, GroupInvHolds, PTL DEF Spec

\* What a removal group holds was on the service of the full update that removed
\* it and not among the works it found, for as long as it is in the group.
THEOREM RemovalsInScope ==
  ASSUME "fix" \notin Asked
  PROVE  Spec => []RemovalsAreScoped
<1>1. GroupInv /\ ScopeInv => RemovalsAreScoped
  BY DEF GroupInv, ScopeInv, InScope, RemovalsAreScoped, HasStatus
<1> QED
  BY <1>1, ScopeInvHolds, PTL

\* A batch lists a work once, however many closes race on it.
THEOREM BatchesApplyOnce ==
  ASSUME "fix" \notin Asked
  PROVE  Spec => []AppliedOnce
<1>1. ScopeInv => AppliedOnce
  BY DEF ScopeInv
<1> QED
  BY <1>1, ScopeInvHolds, PTL

=============================================================================
