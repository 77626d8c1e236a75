---------------------------- MODULE CombinedList ----------------------------
(***************************************************************************)
(* The combined list of apps/api: the title and service_listing rows, and  *)
(* the requests that change them.  A batch in review is closed (its        *)
(* additions and its removal group) or undone, a removal group is undone,  *)
(* a listing is restored, a title is added or removed by hand, a badge is  *)
(* added or removed, a match is fixed, removed listings are deleted for    *)
(* good, a work is suppressed or unsuppressed.                             *)
(*                                                                         *)
(* A request reads and decides first (its Read action) and writes later,   *)
(* and other requests act in between.  The writes of one transaction are   *)
(* one action; restoring a listing has no transaction, and is three.  A    *)
(* transaction that finds the store changed, or that breaks a unique       *)
(* index, rolls back and changes nothing (Refuse).                         *)
(***************************************************************************)
EXTENDS Naturals, Sequences, FiniteSets, SequencesExt, Functions

CONSTANTS Works,       \* canonical work identities
          Services,    \* streaming services
          Batches,     \* service batches that can reach review
          None,        \* no batch: a row made by hand, an empty service state
          Handlers,    \* requests that can be in progress at once
          Asked,       \* the kinds of request that are made
          MaxRows,     \* bound: title and listing ids ever handed out
          MaxFaults,   \* bound: requests that end between two of their writes
          Overlap      \* TRUE: batches may be in review at the same time

ASSUME NoneAssumption == None \notin Batches
ASSUME BoundsAssumption == MaxRows \in Nat /\ MaxFaults \in Nat
ASSUME FiniteAssumption == IsFiniteSet(Works) /\ IsFiniteSet(Services)
ASSUME AskedAssumption ==
  Asked \subseteq {"close", "undo", "undoGroup", "restore", "add", "remove", "badge", "fix",
                   "purge", "suppress"}
ASSUME OverlapAssumption == Overlap \in BOOLEAN

VARIABLES titles,       \* title rows
          listings,     \* service_listing rows
          suppressed,   \* works with an active suppression
          batch,        \* batch -> its status and, from review on, its reading
          history,      \* applied batches, undone ones too, by completedAt
          changes,      \* batch_change rows
          groups,       \* batch -> "none", or the state of its removal group
          serviceState, \* service -> lastCompletedBatchId
          rows,         \* ids handed out; a larger id was created later
          handler,      \* handler -> what its request has read and intends
          faults        \* requests that ended between two of their writes

list == <<titles, listings, rows>>
ledger == <<batch, history, changes, groups, serviceState>>
vars == <<list, suppressed, ledger, handler, faults>>

----------------------------------------------------------------------------
Ids == 1..MaxRows
RowStates == {"active", "removed"}
Kinds == {"title_created", "listing_added", "listing_removed"}

\* ack is duplicateAckSeq: 0 for '', or the id of the title itself.
Titles == [id : Ids, work : Works, state : RowStates, ack : {0} \cup Ids,
           by : Batches \cup {None}]
Listings == [id : Ids, title : Ids, service : Services, state : RowStates,
             by : Batches \cup {None}, group : Batches \cup {None}]
\* A reference that undo or a purge has detached is 0; a purge leaves its mark.
Changes == [batch : Batches, kind : Kinds, title : {0} \cup Ids, listing : {0} \cup Ids,
            purged : BOOLEAN]

\* `removes` is a full update whose removals are not withheld; `found` is the
\* works of the candidates that survived, `confirmed` those the close was given.
Reading == [status : {"in-review", "applied", "undone"}, service : Services,
            removes : BOOLEAN, found : SUBSET Works, confirmed : SUBSET Works]
Unread == [status |-> "reading"]

Idle == [op |-> "none"]
Request ==
  {Idle}
  \cup [op : {"close"}, batch : Batches, works : SUBSET Works, ticked : SUBSET Ids,
        removes : BOOLEAN, after : SUBSET Batches]
  \cup [op : {"undo"}, batch : Batches, titles : SUBSET Ids, listings : SUBSET Ids,
        survivors : SUBSET Ids, previous : Batches \cup {None}]
  \cup [op : {"undoGroup"}, group : Batches, restoring : SUBSET Ids, held : SUBSET Ids]
  \cup [op : {"restore"}, listing : Ids, title : Ids, duplicate : BOOLEAN]
  \cup [op : {"restored"}, title : Ids, duplicate : BOOLEAN]
  \cup [op : {"derived"}, title : Ids, state : RowStates, duplicate : BOOLEAN]
  \cup [op : {"add"}, work : Works, services : SUBSET Services]
  \cup [op : {"remove"}, title : Ids, listings : SUBSET Ids]
  \cup [op : {"badge"}, title : Ids, service : Services]
  \cup [op : {"fix"}, title : Ids, from : Works, to : Works, duplicate : BOOLEAN,
        carried : BOOLEAN]

TypeOK ==
  /\ titles \subseteq Titles
  /\ listings \subseteq Listings
  /\ suppressed \subseteq Works
  /\ batch \in [Batches -> Reading \cup {Unread}]
  /\ history \in Seq(Batches)
  /\ changes \subseteq Changes
  /\ groups \in [Batches -> {"none", "confirmed", "undone"}]
  /\ serviceState \in [Services -> Batches \cup {None}]
  /\ rows \in 0..MaxRows
  /\ handler \in [Handlers -> Request]
  /\ faults \in 0..MaxFaults

Init ==
  /\ titles = {}
  /\ listings = {}
  /\ suppressed = {}
  /\ batch = [b \in Batches |-> Unread]
  /\ history = <<>>
  /\ changes = {}
  /\ groups = [b \in Batches |-> "none"]
  /\ serviceState = [s \in Services |-> None]
  /\ rows = 0
  /\ handler = [h \in Handlers |-> Idle]
  /\ faults = 0

----------------------------------------------------------------------------
(* Reads                                                                   *)

TitleIds == {t.id : t \in titles}
TitlesOf(w) == {t \in titles : t.work = w}
ListingsOf(ls, id) == {l \in ls : l.title = id}
Active(set) == {x \in set : x.state = "active"}
WorkOf(id) == (CHOOSE t \in titles : t.id = id).work

\* findTitleByWorkIdentity: the newest title of the work, whatever its state.
Newest(w) == {t \in TitlesOf(w) : \A u \in TitlesOf(w) : u.id <= t.id}
\* findActiveTitleByWorkIdentity: the oldest active one.
OldestActive(w) == {t \in Active(TitlesOf(w)) : \A u \in Active(TitlesOf(w)) : t.id <= u.id}

\* deriveTitleState.
Derived(ls, id) == IF Active(ListingsOf(ls, id)) = {} THEN "removed" ELSE "active"
\* Mutant of Rederive: the stored states are left as they were.
RederiveNothing(ts, ls, ids) == ts

\* The titles ts, with those in ids brought up to date with the listings ls.
Rederive(ts, ls, ids) ==
  {IF t.id \in ids THEN [t EXCEPT !.state = Derived(ls, t.id)] ELSE t : t \in ts}
\* deriveTitleState throws for a title without listings.
CanDerive(ls, ids) == \A id \in ids : ListingsOf(ls, id) # {}

HasStatus(b, status) == batch[b] # Unread /\ batch[b].status = status

\* The filtered unique indexes title_one_active_per_work and
\* listing_one_per_service.
IndexesHold(ts, ls) ==
  /\ \A t, u \in Active(ts) : t.work = u.work /\ t.ack = u.ack => t.id = u.id
  /\ \A l, m \in Active(ls) : l.title = m.title /\ l.service = m.service => l.id = m.id

\* A transaction that leaves the title rows ts and the listing rows ls.
Store(ts, ls) ==
  /\ IndexesHold(ts, ls)
  /\ titles' = ts
  /\ listings' = ls

\* Mutant of MoveBatch: the update is by id alone.
MoveBatchBlindly(b, from, to, works) ==
  batch' = [batch EXCEPT ![b].status = to, ![b].confirmed = works]

\* A batch moves on only from the status its request has read.
MoveBatch(b, from, to, works) ==
  /\ batch[b].status = from
  /\ batch' = [batch EXCEPT ![b].status = to, ![b].confirmed = works]

Doing(h, op) == handler[h].op = op
Answer(h) == handler' = [handler EXCEPT ![h] = Idle]
Ask(h, request) ==
  /\ Doing(h, "none")
  /\ request.op \in Asked
  /\ handler' = [handler EXCEPT ![h] = request]
  /\ UNCHANGED <<list, suppressed, ledger, faults>>

----------------------------------------------------------------------------
(* A batch reaches review: the extraction has recorded its outcome.  One   *)
(* batch is open at a time, unless two creates have raced.                 *)

Review(b, s, removes, found) ==
  /\ batch[b] = Unread
  /\ Overlap \/ \A c \in Batches : ~HasStatus(c, "in-review")
  /\ batch' = [batch EXCEPT ![b] = [status |-> "in-review", service |-> s,
                                    removes |-> removes, found |-> found,
                                    confirmed |-> {}]]
  /\ UNCHANGED <<list, suppressed, history, changes, groups, serviceState, handler, faults>>

----------------------------------------------------------------------------
(* POST /batches/:batchId/close                                            *)

\* Mutant of Proposed: every service's listings are compared with the batch.
ProposedAnywhere(b) ==
  {l \in Active(listings) : WorkOf(l.title) \notin batch[b].found \cup suppressed}

\* computeRemovals over the whole batch: what is active on its service and was
\* neither found nor suppressed.
Proposed(b) ==
  {l \in Active(listings) : /\ l.service = batch[b].service
                            /\ WorkOf(l.title) \notin batch[b].found \cup suppressed}

\* The works on the batch's service already, which the review does not offer.
Present(b) == {WorkOf(l.title) : l \in {m \in Active(listings) : m.service = batch[b].service}}

\* Every candidate is decided: `works` are the confirmed additions, `ticked` the
\* proposed removals the owner has left ticked.
CloseRead(h, b, works, ticked) ==
  LET removes == batch[b].removes /\ Proposed(b) # {} IN
  /\ HasStatus(b, "in-review")
  /\ works \subseteq batch[b].found \ (suppressed \cup Present(b))
  /\ ticked \subseteq (IF removes THEN {l.id : l \in Proposed(b)} ELSE {})
  /\ Ask(h, [op |-> "close", batch |-> b, works |-> works, ticked |-> ticked,
             removes |-> removes, after |-> {history[i] : i \in DOMAIN history}])

\* Mutant of Listed: the review's look at the suppressions is relied on.
ListedUnchecked(request) == request.works

\* The works a close lists: suppression is looked up again in the transaction.
Listed(request) == request.works \ suppressed

\* The one title of work w a listing is added to, or none: a new one is made.
Home(w) == {t \in Newest(w) : t.state = "active"}
HomeId(w, new) == IF Home(w) = {} THEN new ELSE (CHOOSE t \in Home(w) : TRUE).id

Change(b, kind, title, listing) ==
  [batch |-> b, kind |-> kind, title |-> title, listing |-> listing, purged |-> FALSE]

\* Mutant of ChangeRows: a listing added to a title that existed is not recorded.
ChangeRowsOfMade(b, made, added, removed) ==
  {Change(b, "title_created", t.id, 0) : t \in made}
    \cup {Change(b, "listing_added", l.title, l.id) :
            l \in {m \in added : \E t \in made : t.id = m.title}}
    \cup {Change(b, "listing_removed", l.title, l.id) : l \in removed}

\* The ledger rows of a close: the titles it makes, and the listings it adds and
\* removes.
ChangeRows(b, made, added, removed) ==
  {Change(b, "title_created", t.id, 0) : t \in made}
    \cup {Change(b, "listing_added", l.title, l.id) : l \in added}
    \cup {Change(b, "listing_removed", l.title, l.id) : l \in removed}

\* The close of a batch in one transaction; number gives the ids of the rows it
\* makes, and after the completions its stamp is later than.
CloseWrite(h, number) ==
  LET request == handler[h]
      b       == request.batch
      listed  == DOMAIN number
      made    == {[id |-> number[w], work |-> w, state |-> "active", ack |-> 0, by |-> b] :
                    w \in {v \in listed : Home(v) = {}}}
      added   == {[id |-> number[w], title |-> HomeId(w, number[w]),
                   service |-> batch[b].service, state |-> "active", by |-> b,
                   group |-> None] : w \in listed}
      removed == {l \in Active(listings) : l.id \in request.ticked}
      ls      == (listings \ removed) \cup added
                   \cup {[l EXCEPT !.state = "removed", !.group = b] : l \in removed}
  IN
  /\ Doing(h, "close")
  /\ listed = Listed(request)
  /\ request.ticked = {l.id : l \in removed}
  /\ Store(Rederive(titles \cup made, ls, {l.title : l \in removed}), ls)
  /\ rows' = rows + Cardinality(listed)
  /\ MoveBatch(b, "in-review", "applied", request.works)
  /\ \E i \in 1..(Len(history) + 1) :
       /\ \A j \in i..Len(history) : history[j] \notin request.after
       /\ history' = InsertAt(history, i, b)
  /\ changes' = changes \cup ChangeRows(b, made, added, removed)
  /\ groups' = [groups EXCEPT ![b] = IF request.removes THEN "confirmed" ELSE @]
  /\ serviceState' = [serviceState EXCEPT ![batch[b].service] = b]
  /\ Answer(h)
  /\ UNCHANGED <<suppressed, faults>>

\* The ids the store hands a close, one for each work it lists.
Numberings(h) ==
  LET n == Cardinality(Listed(handler[h])) IN
  IF rows + n > MaxRows THEN {} ELSE Bijection(Listed(handler[h]), (rows + 1)..(rows + n))

----------------------------------------------------------------------------
(* POST /batches/:batchId/undo                                             *)

\* toBatchProvenance: the rows of b that still name a title, by kind.
Recorded(b, kind) == {c \in changes : c.batch = b /\ c.kind = kind /\ c.title # 0}

CreatesOnly(b) == \A c \in Recorded(b, "listing_removed") : c.listing = 0

\* Mutant of AddedElsewhere: listings added to titles that existed are left alone.
AddedNowhere(b) == {}

\* Mutant of CreatedTitles: the titles of the listings it added are taken for its own.
CreatedTitlesOfListings(b) ==
  {c.title : c \in Recorded(b, "title_created") \cup Recorded(b, "listing_added")}

\* planCreatesOnlyUndo: the titles the batch created, and the listings it added
\* to others.
CreatedTitles(b) == {c.title : c \in Recorded(b, "title_created")}
AddedElsewhere(b) ==
  {c \in Recorded(b, "listing_added") : c.title \notin CreatedTitles(b) /\ c.listing # 0}

\* findLaterOwnerEdits: what the batch gave a listing was suppressed since, or is
\* a work now that the batch did not resolve.
LaterEdits(b) ==
  {t \in titles : /\ \/ t.work \in suppressed
                     \/ batch[b].confirmed # {} /\ t.work \notin batch[b].confirmed
                  /\ \E c \in Recorded(b, "title_created") \cup Recorded(b, "listing_added") :
                       c.title = t.id}

AppliedTo(s) == {b \in Batches : HasStatus(b, "applied") /\ batch[b].service = s}
\* Mutant of Latest: a batch that has been undone still counts.
LatestCompleted(s, b) ==
  LET others == {i \in DOMAIN history : batch[history[i]].service = s /\ history[i] # b}
  IN  IF others = {} THEN None
      ELSE history[CHOOSE i \in others : \A j \in others : j <= i]

\* findPreviousAppliedBatch: the latest completion on service s but that of b.
Latest(s, b) ==
  LET others == {i \in DOMAIN history : history[i] \in AppliedTo(s) \ {b}}
  IN  IF others = {} THEN None
      ELSE history[CHOOSE i \in others : \A j \in others : j <= i]

UndoRead(h, b) ==
  /\ HasStatus(b, "applied")
  /\ \A c \in changes : c.batch = b => ~c.purged
  /\ (\E c \in changes : c.batch = b) \/ ~(\E x \in titles \cup listings : x.by = b)
  /\ CreatesOnly(b)
  /\ LaterEdits(b) = {}
  /\ Ask(h, [op |-> "undo", batch |-> b, titles |-> CreatedTitles(b),
             listings |-> {c.listing : c \in AddedElsewhere(b)},
             survivors |-> {c.title : c \in AddedElsewhere(b)},
             previous |-> Latest(batch[b].service, b)])

\* Mutant of Detach: the listings that go with a title are forgotten.
DetachTitles(c, goneTitles, goneListings) ==
  [c EXCEPT !.title = IF @ \in goneTitles THEN 0 ELSE @]

\* References to the titles and listings about to go are cleared in every batch.
Detach(c, goneTitles, goneListings) ==
  [c EXCEPT !.title = IF @ \in goneTitles THEN 0 ELSE @,
            !.listing = IF @ \in goneListings THEN 0 ELSE @]

UndoWrite(h) ==
  LET request == handler[h]
      b       == request.batch
      under   == {l \in listings : l.title \in request.titles}
      gone    == under \cup {l \in listings : l.id \in request.listings}
      ls      == listings \ gone
      ts      == {t \in titles : t.id \notin request.titles}
  IN
  /\ Doing(h, "undo")
  /\ MoveBatch(b, "applied", "undone", batch[b].confirmed)
  /\ changes' = {Detach(c, request.titles, {l.id : l \in under} \cup request.listings) :
                   c \in changes}
  /\ CanDerive(ls, request.survivors)
  /\ Store(Rederive(ts, ls, request.survivors), ls)
  /\ serviceState' = [serviceState EXCEPT ![batch[b].service] = request.previous]
  /\ Answer(h)
  /\ UNCHANGED <<suppressed, rows, history, groups, faults>>

----------------------------------------------------------------------------
(* POST /removal-groups/:groupId/undo                                      *)

\* Mutant of UndoGroupRead: suppressed works come back with the rest.
UndoGroupReadAll(h, g) ==
  /\ groups[g] = "confirmed"
  /\ Ask(h, [op |-> "undoGroup", group |-> g,
             restoring |-> {l.id : l \in {m \in listings : m.group = g}}, held |-> {}])

UndoGroupRead(h, g) ==
  LET members == {l \in listings : l.group = g}
      held    == {l \in members : WorkOf(l.title) \in suppressed}
  IN
  /\ groups[g] = "confirmed"
  /\ Ask(h, [op |-> "undoGroup", group |-> g,
             restoring |-> {l.id : l \in members \ held}, held |-> {l.id : l \in held}])

\* Mutant of UndoGroupWrite: a listing whose title cannot come back is skipped.
UndoGroupWriteWhatFits(h) ==
  LET request == handler[h]
      back    == {l \in listings : /\ l.id \in request.restoring /\ l.state = "removed"
                                   /\ Active(TitlesOf(WorkOf(l.title))) = {}}
      ls      == (listings \ back) \cup {[l EXCEPT !.state = "active", !.group = None] : l \in back}
  IN
  /\ Doing(h, "undoGroup")
  /\ Store(Rederive(titles, ls, {l.title : l \in back}), ls)
  /\ groups[request.group] = "confirmed"
  /\ groups' = [groups EXCEPT ![request.group] = "undone"]
  /\ Answer(h)
  /\ UNCHANGED <<rows, suppressed, batch, history, changes, serviceState, faults>>

\* One guarded update each: a listing that is not removed any more stops all.
UndoGroupWrite(h) ==
  LET request == handler[h]
      back    == {l \in listings : l.id \in request.restoring /\ l.state = "removed"}
      ls      == (listings \ back) \cup {[l EXCEPT !.state = "active", !.group = None] : l \in back}
  IN
  /\ Doing(h, "undoGroup")
  /\ request.restoring = {l.id : l \in back}
  /\ Store(Rederive(titles, ls, {l.title : l \in back}), ls)
  /\ groups[request.group] = "confirmed"
  /\ groups' = [groups EXCEPT ![request.group] = "undone"]
  /\ Answer(h)
  /\ UNCHANGED <<rows, suppressed, batch, history, changes, serviceState, faults>>

----------------------------------------------------------------------------
(* POST /listings/:listingId/restore: no transaction                       *)

RestoreRead(h, l, confirmDuplicate) ==
  LET work == WorkOf(l.title) IN
  /\ l.state = "removed"
  /\ work \notin suppressed
  /\ \A t \in OldestActive(work) : t.id = l.title \/ confirmDuplicate
  /\ Ask(h, [op |-> "restore", listing |-> l.id, title |-> l.title,
             duplicate |-> OldestActive(work) # {}])

\* The update is guarded on the state, but its count is not looked at.
RestoreListing(h) ==
  LET request == handler[h]
      back    == {l \in listings : l.id = request.listing /\ l.state = "removed"}
  IN
  /\ Doing(h, "restore")
  /\ Store(titles, (listings \ back)
                     \cup {[l EXCEPT !.state = "active", !.group = None] : l \in back})
  /\ handler' = [handler EXCEPT ![h] = [op |-> "restored", title |-> request.title,
                                        duplicate |-> request.duplicate]]
  /\ UNCHANGED <<rows, suppressed, ledger, faults>>

RestoreDerive(h) ==
  LET request == handler[h] IN
  /\ Doing(h, "restored")
  /\ CanDerive(listings, {request.title})
  /\ handler' = [handler EXCEPT ![h] = [op |-> "derived", title |-> request.title,
                                        state |-> Derived(listings, request.title),
                                        duplicate |-> request.duplicate]]
  /\ UNCHANGED <<list, suppressed, ledger, faults>>

\* The titles once a restore has written what it derived.
Retitled(request) ==
  {IF t.id = request.title
     THEN [t EXCEPT !.state = request.state, !.ack = IF request.duplicate THEN t.id ELSE @]
     ELSE t : t \in titles}

RestoreTitle(h) ==
  /\ Doing(h, "derived")
  /\ Store(Retitled(handler[h]), listings)
  /\ Answer(h)
  /\ UNCHANGED <<rows, suppressed, ledger, faults>>

\* The title is gone, or the update breaks an index: the listing stays restored.
RestoreRejected(h) ==
  /\ \/ Doing(h, "restored") /\ ~CanDerive(listings, {handler[h].title})
     \/ Doing(h, "derived") /\ ~IndexesHold(Retitled(handler[h]), listings)
  /\ Answer(h)
  /\ UNCHANGED <<list, suppressed, ledger, faults>>

\* The store fails or the process stops between the statements of a restore.
RestoreInterrupted(h) ==
  /\ Doing(h, "restored") \/ Doing(h, "derived")
  /\ faults < MaxFaults
  /\ faults' = faults + 1
  /\ Answer(h)
  /\ UNCHANGED <<list, suppressed, ledger>>

----------------------------------------------------------------------------
(* POST /titles and DELETE /titles/:titleId                                *)

AddRead(h, w, services) ==
  /\ services # {}
  /\ w \notin suppressed
  /\ Ask(h, [op |-> "add", work |-> w, services |-> services])

\* The services an add writes: those its title is not active on already.
Wanted(request) ==
  request.services
    \ {l.service : l \in {m \in Active(listings) : \E t \in Home(request.work) : m.title = t.id}}

\* number gives the ids of the listings an add makes.
AddWrite(h, number) ==
  LET request == handler[h]
      id      == HomeId(request.work, rows + 1)
      made    == IF Home(request.work) = {}
                   THEN {[id |-> id, work |-> request.work, state |-> "active", ack |-> 0,
                          by |-> None]}
                   ELSE {}
      added   == {[id |-> number[s], title |-> id, service |-> s, state |-> "active",
                   by |-> None, group |-> None] : s \in DOMAIN number}
  IN
  /\ Doing(h, "add")
  /\ DOMAIN number = Wanted(request)
  /\ Wanted(request) # {}
  /\ Store(titles \cup made, listings \cup added)
  /\ rows' = rows + Cardinality(DOMAIN number)
  /\ Answer(h)
  /\ UNCHANGED <<suppressed, ledger, faults>>

AddNumberings(h) ==
  LET n == Cardinality(Wanted(handler[h])) IN
  IF rows + n > MaxRows THEN {} ELSE Bijection(Wanted(handler[h]), (rows + 1)..(rows + n))

RemoveRead(h, t) ==
  LET active == Active(ListingsOf(listings, t.id)) IN
  /\ t.work \notin suppressed
  /\ active # {}
  /\ Ask(h, [op |-> "remove", title |-> t.id, listings |-> {l.id : l \in active}])

\* DELETE /listings/:listingId: one badge; the write is the same.
DropRead(h, l) ==
  /\ WorkOf(l.title) \notin suppressed
  /\ l.state = "active"
  /\ Ask(h, [op |-> "remove", title |-> l.title, listings |-> {l.id}])

\* Listings that are not active any more are passed over.
RemoveWrite(h) ==
  LET request == handler[h]
      gone    == {l \in Active(listings) : l.id \in request.listings}
      ls      == (listings \ gone) \cup {[l EXCEPT !.state = "removed"] : l \in gone}
  IN
  /\ Doing(h, "remove")
  /\ CanDerive(ls, {request.title})
  /\ Store(Rederive(titles, ls, {request.title}), ls)
  /\ Answer(h)
  /\ UNCHANGED <<rows, suppressed, ledger, faults>>

----------------------------------------------------------------------------
(* POST /titles/:titleId/badges: the title's state is neither looked at    *)
(* again nor written                                                       *)

BadgeRead(h, t, s) ==
  /\ t.work \notin suppressed
  /\ t.state = "active"
  /\ Ask(h, [op |-> "badge", title |-> t.id, service |-> s])

BadgeWrite(h) ==
  LET request == handler[h] IN
  /\ Doing(h, "badge")
  /\ request.title \in TitleIds
  /\ rows < MaxRows
  /\ Store(titles, listings \cup {[id |-> rows + 1, title |-> request.title,
                                   service |-> request.service, state |-> "active",
                                   by |-> None, group |-> None]})
  /\ rows' = rows + 1
  /\ Answer(h)
  /\ UNCHANGED <<suppressed, ledger, faults>>

----------------------------------------------------------------------------
(* POST /titles/:titleId/fix-match                                         *)

\* The gates, and whether the suppression of the old work is carried along.
FixRead(h, t, w, confirmDuplicate) ==
  LET duplicate == OldestActive(w) # {} IN
  /\ w # t.work
  /\ w \notin suppressed
  /\ duplicate => confirmDuplicate
  /\ Ask(h, [op |-> "fix", title |-> t.id, from |-> t.work, to |-> w,
             duplicate |-> duplicate, carried |-> t.work \in suppressed])

\* The transaction looks at nothing again but the work of the title.
FixWrite(h) ==
  LET request == handler[h]
      fixed   == {t \in titles : t.id = request.title /\ t.work = request.from}
  IN
  /\ Doing(h, "fix")
  /\ fixed # {}
  /\ Store((titles \ fixed)
             \cup {[t EXCEPT !.work = request.to, !.ack = IF request.duplicate THEN t.id ELSE @] :
                      t \in fixed}, listings)
  /\ suppressed' = IF request.carried THEN (suppressed \ {request.from}) \cup {request.to}
                                      ELSE suppressed
  /\ Answer(h)
  /\ UNCHANGED <<rows, ledger, faults>>

----------------------------------------------------------------------------
(* DELETE /listings/:listingId/permanent, and /works/:work/history         *)

\* A candidate still points at the title: that of a batch that gave it a listing,
\* until the listing is purged.  An undo that keeps the title keeps the pointer.
Linked(cs, id) == \E c \in cs : c.kind = "listing_added" /\ c.title = id /\ ~c.purged

\* The ledger rows once the listings in ids are gone ...
Purged(cs, ids) ==
  {IF c.listing \in ids THEN [c EXCEPT !.listing = 0, !.purged = TRUE] ELSE c : c \in cs}
\* ... and once the titles in ids are.
Forgotten(cs, ids) ==
  {IF c.title \in ids THEN [c EXCEPT !.title = 0, !.listing = 0, !.purged = TRUE] ELSE c :
     c \in cs}

\* Removed listings, one or all of a work, in one transaction, with the titles
\* nothing refers to any more.
Purge(h, ls) ==
  LET marked  == Purged(changes, {l.id : l \in ls})
      dropped == {id \in {l.title : l \in ls} :
                    ListingsOf(listings \ ls, id) = {} /\ ~Linked(marked, id)}
  IN
  /\ Doing(h, "none")
  /\ "purge" \in Asked
  /\ Active(ls) = {}
  /\ Store({t \in titles : t.id \notin dropped}, listings \ ls)
  /\ changes' = Forgotten(marked, dropped)
  /\ UNCHANGED <<rows, suppressed, batch, history, groups, serviceState, handler, faults>>

HistoryOf(w) == {l \in listings : WorkOf(l.title) = w}

----------------------------------------------------------------------------
(* POST /titles/:titleId/suppress and .../unsuppress                       *)

Suppress(h, w) ==
  /\ Doing(h, "none")
  /\ "suppress" \in Asked
  /\ TitlesOf(w) # {}
  /\ w \notin suppressed
  /\ suppressed' = suppressed \cup {w}
  /\ UNCHANGED <<list, ledger, handler, faults>>

Unsuppress(h, w) ==
  /\ Doing(h, "none")
  /\ "suppress" \in Asked
  /\ w \in suppressed
  /\ suppressed' = suppressed \ {w}
  /\ UNCHANGED <<list, ledger, handler, faults>>

\* A request that has written nothing ends: refused, rolled back or lost.
Refuse(h) ==
  /\ handler[h].op \in {"close", "undo", "undoGroup", "restore", "add", "remove", "badge", "fix"}
  /\ Answer(h)
  /\ UNCHANGED <<list, suppressed, ledger, faults>>

----------------------------------------------------------------------------
Import(h) ==
  \/ \E b \in Batches :
       \/ \E works \in SUBSET Works, ticked \in SUBSET {l.id : l \in listings} :
            CloseRead(h, b, works, ticked)
       \/ UndoRead(h, b)
       \/ UndoGroupRead(h, b)
  \/ Doing(h, "close") /\ \E number \in Numberings(h) : CloseWrite(h, number)
  \/ UndoWrite(h)
  \/ UndoGroupWrite(h)

Edit(h) ==
  \/ \E l \in listings, confirmDuplicate \in BOOLEAN : RestoreRead(h, l, confirmDuplicate)
  \/ RestoreListing(h) \/ RestoreDerive(h) \/ RestoreTitle(h)
  \/ RestoreRejected(h) \/ RestoreInterrupted(h)
  \/ \E w \in Works :
       \/ \E services \in SUBSET Services : AddRead(h, w, services)
       \/ Suppress(h, w) \/ Unsuppress(h, w)
       \/ HistoryOf(w) # {} /\ Purge(h, HistoryOf(w))
  \/ Doing(h, "add") /\ \E number \in AddNumberings(h) : AddWrite(h, number)
  \/ \E t \in titles :
       \/ RemoveRead(h, t)
       \/ \E s \in Services : BadgeRead(h, t, s)
       \/ \E w \in Works, confirmDuplicate \in BOOLEAN : FixRead(h, t, w, confirmDuplicate)
  \/ RemoveWrite(h) \/ BadgeWrite(h) \/ FixWrite(h)
  \/ \E l \in listings : DropRead(h, l) \/ Purge(h, {l})

Next ==
  \/ \E b \in Batches, s \in Services, removes \in BOOLEAN, found \in SUBSET Works :
       Review(b, s, removes, found)
  \/ \E h \in Handlers : Import(h) \/ Edit(h) \/ Refuse(h)

Spec == Init /\ [][Next]_vars

----------------------------------------------------------------------------
(* Properties                                                              *)

\* A restore of the title is between its statements.
Restoring(id) ==
  \E h \in Handlers : handler[h].op \in {"restored", "derived"} /\ handler[h].title = id

\* I-3 and I-4: every title has a listing, and its stored state is what
\* derive.ts computes from them, but for a restore that has still to write it.  A
\* title whose listings were purged stays while a candidate points at it.
ListMirrorsListings ==
  \A t \in titles :
    /\ ListingsOf(listings, t.id) # {} \/ Linked(changes, t.id)
    /\ t.state = Derived(listings, t.id) \/ Restoring(t.id)

\* A service's last-updated date is that of its latest batch still applied,
\* whichever batches were undone and in whichever order.
ServiceStateCurrent ==
  \A s \in Services :
    LET applied == {i \in DOMAIN history : /\ HasStatus(history[i], "applied")
                                           /\ batch[history[i]].service = s}
    IN  IF applied = {} THEN serviceState[s] = None
        ELSE \E i \in applied : serviceState[s] = history[i] /\ \A j \in applied : j <= i

\* While its work is suppressed no listing comes or returns to the list, and a
\* suppressed title is not shown again by correcting its match.
NothingSuppressedReturns ==
  [][/\ \A l \in listings' : l.state = "active" /\ WorkOf(l.title)' \in suppressed
          => \E m \in Active(listings) : m.id = l.id
     /\ \A t \in titles, u \in titles' :
          t.id = u.id /\ t.work # u.work /\ t.work \in suppressed
            => u.work \in suppressed']_vars

\* The same for closes alone, whatever other requests do meanwhile: the close
\* looks the suppression up again in its own transaction.
CloseGatesSuppressed ==
  [][\A l \in listings' \ listings :
       l.state = "active" /\ l.by # None /\ ~(\E m \in listings : m.id = l.id)
         => WorkOf(l.title)' \notin suppressed]_vars

\* Undoing a batch leaves nothing it created, whatever other requests, closes
\* and undos did to those rows since.
UndoneLeavesNothing ==
  \A b \in Batches :
    HasStatus(b, "undone")
      => /\ \A t \in titles : t.by # b
         /\ \A l \in listings : l.by # b

\* And it takes nothing else: the step that undoes a batch leaves every title another
\* batch or the owner made, as that title's work is and but for its state, and every
\* listing so made, unless it is of a title the batch made.
UndoTakesItsOwn ==
  [][\A b \in Batches :
       HasStatus(b, "applied") /\ HasStatus(b, "undone")'
         => /\ \A t \in titles :
                 t.by = b \/ \E u \in titles' : u = [t EXCEPT !.state = u.state]
            /\ \A l \in listings :
                 \/ l.by = b
                 \/ \E t \in titles : t.id = l.title /\ t.by = b
                 \/ l \in listings']_vars

\* The ledger undo works from: while a batch is applied every row it created is
\* on record under its id.
LedgerIsComplete ==
  \A b \in Batches :
    HasStatus(b, "applied")
      => /\ {t.id : t \in {u \in titles : u.by = b}} \subseteq CreatedTitles(b)
         /\ {l.id : l \in {m \in listings : m.by = b}}
              \subseteq {c.listing : c \in Recorded(b, "listing_added")}

\* The foreign keys of batch_change: no row names a title or a listing that undo
\* has deleted, in whichever batch the row is.
ReferencesHold ==
  \A c \in changes :
    /\ c.title # 0 => c.title \in TitleIds
    /\ c.listing # 0 => \E l \in listings : l.id = c.listing

\* One service at a time, and only what was not seen: what a removal group holds
\* was on the service of its full update and not among the works it found.
RemovalsAreScoped ==
  \A l \in listings :
    l.group # None =>
      LET r == batch[l.group] IN
      /\ l.state = "removed"
      /\ r.status = "applied" /\ r.removes
      /\ l.service = r.service
      /\ WorkOf(l.title) \notin r.found

\* All or nothing: the step that undoes a group restores all of it but the
\* works held back because they were suppressed when it was read.
GroupUndoneWhole ==
  [][\A g \in Batches :
       groups[g] = "confirmed" /\ groups'[g] = "undone" =>
         \E h \in Handlers :
           /\ handler[h].op = "undoGroup" /\ handler[h].group = g
           /\ \A l \in listings' : l.group = g => l.id \in handler[h].held]_vars

\* A batch is applied once: two closes racing on it leave one listing for each
\* work, on its service.
AppliedOnce ==
  \A l, m \in listings :
    l.by # None /\ l.by = m.by /\ WorkOf(l.title) = WorkOf(m.title) => l = m

\* "There is no way forward": with the reads of this moment, every batch in
\* review can be closed with everything it found.
CloseNeverBlocked ==
  \A b \in Batches :
    HasStatus(b, "in-review") =>
      \A w \in batch[b].found \ (suppressed \cup Present(b)) :
        \A t \in Active(TitlesOf(w)) : Home(w) = {} => t.ack # 0
=============================================================================
