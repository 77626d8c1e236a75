------------------------- MODULE ReviewTab_proofs -------------------------
(***************************************************************************)
(* Proofs about the review screen against the API, for any candidates,     *)
(* works and captures, any number of choices, lost answers and returns to  *)
(* the screen, and whatever others write.                                  *)
(*                                                                         *)
(* A choice is in the tab or in the batch: what the tab forgets it has     *)
(* seen in a review.  A close carries what its dialog named, because from  *)
(* the dialog to the close the tab writes nothing else.                    *)
(***************************************************************************)
EXTENDS ReviewTab, TLAPS

Sections == {"unreadableTiles", "probablyNotTitles", "unmatched", "alreadyOnYourList", "additions"}
CandWants == Works \cup {"confirmed", "discarded", "rescue"}
TickWants == {"tick", "untick"}
WantsOf(i) == IF i \in Works THEN TickWants ELSE CandWants

Codes == {"REFUSED", "BATCH_NOT_IN_REVIEW", "PENDING_ADDITIONS", "REMOVALS_NOT_CONFIRMED",
          "FAILED", "LOST"}
Requests ==
  [op : {"none", "review", "status", "patch", "bulk", "removal", "entry", "close", "discard"},
   on : Candidates \cup Works \cup Sections \cup {Nothing, "confirmed"},
   to : CandWants \cup TickWants \cup {Nothing} \cup Change,
   stage : {"none", "sent", "planned", "passed", "ok", "refused"},
   read : {Nothing} \cup Codes \cup (SUBSET Candidates) \cup Change]
Kind(q) ==
  /\ q.op = "patch"   => q.on \in Candidates /\ q.to \in CandWants
  /\ q.op = "removal" => q.on \in Works /\ q.to \in TickWants
  /\ q.op = "entry"   => q.on \in Works
  /\ q.op = "close" /\ q.stage \in {"planned", "passed"} => q.read \in Change

Intent == [want : CandWants \cup TickWants, work : Works \cup {Unmatched, Nothing},
           state : {"unsaved", "unknown", "conflict"}, bulk : Sections \cup {Nothing},
           base : SUBSET (Row \cup BOOLEAN)]
IntentsOK(ins) ==
  /\ DOMAIN ins \subseteq Items
  /\ \A i \in DOMAIN ins : ins[i] \in Intent /\ ins[i].want \in WantsOf(i)

SaveRecord == [todo : SUBSET Items, group : SUBSET Items,
               step : {"none", "look", "write", "verify"}, mine : BOOLEAN]
SaveType == {s \in SaveRecord : s.todo \cap s.group = {}}
Doings == {"away", "loading", "nothing", "saving", "entering", "preparing", "closing",
           "reconfirming", "checking", "unknown", "discarding", "gone"}
DialogDoings == {"nothing", "closing", "reconfirming", "checking", "unknown", "gone"}

ReviewOK(r) ==
  /\ DOMAIN r.rows \subseteq DOMAIN cand /\ DOMAIN r.ticked \subseteq Works
  /\ \A c \in DOMAIN r.rows : r.rows[c].row \in Row
  /\ \A w \in DOMAIN r.ticked : r.ticked[w] \in BOOLEAN

BatchTypes ==
  /\ status \in {"in-review", "applied", "discarded"}
  /\ DOMAIN cand \subseteq Candidates /\ cand \in [DOMAIN cand -> Row]
  /\ unticked \subseteq Works /\ listed \subseteq Works /\ suppressed \subseteq Works
  /\ ledger \in Change
RequestTypes ==
  /\ request \in [Clients -> Requests]
  /\ \A k \in Clients : Kind(request[k])
ScreenTypes ==
  /\ online \in BOOLEAN /\ dialog \in BOOLEAN /\ alert \in BOOLEAN /\ stale \in BOOLEAN
  /\ doing \in Doings
  /\ save \in SaveType
  /\ ReviewOK(shown)
  /\ IntentsOK(intents)

\* What the tab asks for is what it waits for; with the dialog open it asks for no
\* write but the close.
Control ==
  LET q == request[Tab] IN
  /\ doing = "saving" <=> save # NotSaving
  /\ save.todo \cup save.group \subseteq DOMAIN intents
  /\ q.op \in {"patch", "bulk", "removal"} => doing = "saving" /\ save.step = "write"
  /\ q.op \in {"patch", "removal"} => q.on \in DOMAIN intents /\ q.to = intents[q.on].want
  /\ q.op = "entry" => doing = "entering"
  /\ q.op = "discard" => doing = "discarding"
  /\ q.op = "close" => doing = "closing" /\ dialog /\ q.to = Changes(shown)
  /\ dialog => doing \in DialogDoings

\* The review behind an open dialog is the one of now, if nobody else has written;
\* a close reads it, the removals first as they are proposed, then as they are ticked.
Planned == [Changes(Review) EXCEPT !.removes = Proposed]
Synced ==
  /\ dialog /\ ~stale /\ InReview => shown = Review
  /\ At(Tab, "close", "planned") /\ ~stale /\ InReview => request[Tab].read = Planned
  /\ At(Tab, "close", "passed") /\ ~stale /\ InReview => request[Tab].read = Changes(Review)

\* A choice is kept in the tab, or held by the batch.
Kept ==
  \A i \in DOMAIN chosen :
    /\ i \in Items /\ chosen[i] \in WantsOf(i)
    /\ i \in Candidates => i \in DOMAIN cand
    /\ IF i \in DOMAIN intents THEN intents[i].want = chosen[i] ELSE Holds(i, chosen[i])

Inv == BatchTypes /\ RequestTypes /\ ScreenTypes /\ Control /\ Synced /\ Kept

USE ClientsAssumption, NamesAssumption, UnmatchedAssumption

----------------------------------------------------------------------------
(* Reviews                                                                 *)

\* A review is made of the rows there are.
LEMMA ReviewType ==
  ASSUME BatchTypes
  PROVE  /\ ReviewOK(Review)
         /\ DOMAIN Review.rows = Visible /\ DOMAIN Review.ticked = Proposed
         /\ \A c \in Visible : Review.rows[c].row = cand[c]
         /\ \A w \in Proposed : Review.ticked[w] <=> w \notin unticked
         /\ Visible \subseteq DOMAIN cand /\ Proposed \subseteq listed \ suppressed
BY DEF BatchTypes, ReviewOK, Review, Visible, Proposed

\* The changes a review names are changes.
LEMMA ChangesType ==
  ASSUME BatchTypes, NEW r, ReviewOK(r)
  PROVE  Changes(r) \in Change
<1> DEFINE D == {d \in DOMAIN r.rows : /\ r.rows[d].section \in {"additions", "unmatched"}
                                       /\ r.rows[d].row.disp \in {"confirmed", "corrected"}}
<1>1. {<<c, r.rows[c].row.work>> : c \in D} \subseteq Candidates \X (Works \cup {Unmatched})
  <2> SUFFICES ASSUME NEW c \in D
               PROVE  <<c, r.rows[c].row.work>> \in Candidates \X (Works \cup {Unmatched})
    OBVIOUS
  <2>1. c \in Candidates /\ r.rows[c].row \in Row
    BY DEF ReviewOK, BatchTypes
  <2> QED BY <2>1 DEF Row
<1>2. {w \in DOMAIN r.ticked : r.ticked[w]} \subseteq Works
  BY DEF ReviewOK
<1> QED BY <1>1, <1>2 DEF Changes, Change

\* What a close plans is a change, and with the ticks it is what the review names.
LEMMA PlannedType ==
  ASSUME BatchTypes
  PROVE  /\ Planned \in Change
         /\ [Planned EXCEPT !.removes = @ \ unticked] = Changes(Review)
<1>1. Changes(Review) \in Change
  BY ReviewType, ChangesType
<1>2. Proposed \subseteq Works
  BY ReviewType DEF BatchTypes
<1>3. Changes(Review).removes = Proposed \ unticked
  BY ReviewType DEF Changes
<1> QED BY <1>1, <1>2, <1>3 DEF Planned, Change

\* As long as the batch is the same, so are its reviews.
LEMMA SameBatch ==
  ASSUME UNCHANGED batch
  PROVE  /\ Review' = Review /\ InReview' = InReview /\ Planned' = Planned
         /\ \A i, want : Holds(i, want)' <=> Holds(i, want)
         /\ BatchTypes => BatchTypes'
         /\ \A r : ReviewOK(r) => (ReviewOK(r))'
<1>1. Visible' = Visible /\ Proposed' = Proposed /\ InReview' = InReview
  BY DEF batch, Visible, Proposed, InReview
<1>2. \A c : (Section(cand[c]))' = Section(cand[c]) /\ Individual(c)' = Individual(c)
  BY <1>1 DEF batch, Section, Individual, Related
<1>3. Review' = Review
  BY <1>1, <1>2 DEF batch, Review
<1>4. Planned' = Planned
  BY <1>1, <1>3 DEF Planned, Changes
<1>5. /\ \A i, want : Holds(i, want)' <=> Holds(i, want)
      /\ BatchTypes => BatchTypes'
      /\ \A r : ReviewOK(r) => (ReviewOK(r))'
  BY DEF batch, Holds, BatchTypes, ReviewOK
<1> QED BY <1>1, <1>3, <1>4, <1>5

\* A choice that a review shows is held by the batch.
LEMMA SatisfiedHolds ==
  ASSUME BatchTypes, NEW i \in Items, NEW x \in Intent, x.want \in WantsOf(i),
         Satisfied(Review, i, x)
  PROVE  Holds(i, x.want) /\ (i \in Candidates => i \in DOMAIN cand)
<1>1. CASE i \in Works
  <2>1. i \in Proposed /\ i \notin Visible
    BY <1>1, ReviewType DEF Satisfied, InReviewed, BatchTypes
  <2>2. Review.ticked[i] <=> i \notin unticked
    BY <2>1, ReviewType
  <2>3. x.want \in TickWants
    BY <1>1 DEF WantsOf
  <2> QED BY <1>1, <2>2, <2>3 DEF Satisfied, Holds, TickWants
<1>2. CASE i \in Candidates
  <2>1. i \in Visible
    BY <1>2, ReviewType DEF Satisfied, InReviewed, BatchTypes
  <2>2. Review.rows[i].row = cand[i] /\ i \in DOMAIN cand
    BY <2>1, ReviewType
  <2>3. x.want \in CandWants
    BY <1>2 DEF WantsOf
  <2> QED BY <1>2, <2>2, <2>3 DEF Satisfied, Holds, CandWants
<1> QED BY <1>1, <1>2 DEF Items

----------------------------------------------------------------------------
(* The API                                                                 *)

\* What a request that is served leaves as it was.
Served(k) ==
  /\ BatchTypes' /\ RequestTypes'
  /\ \A j \in Clients \ {k} : request'[j] = request[j]
  /\ k \in Awaited => /\ request'[k].op = request[k].op
                      /\ request'[k].on = request[k].on
                      /\ request'[k].to = request[k].to
  /\ DOMAIN cand \subseteq DOMAIN cand'
  /\ InReview' => InReview

\* A request goes on to another stage.
LEMMA StagedType ==
  ASSUME NEW q \in Requests, NEW stage \in {"none", "sent", "planned", "passed", "ok", "refused"},
         NEW read \in {Nothing} \cup Codes \cup (SUBSET Candidates) \cup Change
  PROVE  [q EXCEPT !.stage = stage, !.read = read] \in Requests
<1> SUFFICES ASSUME NEW Op, NEW On, NEW To, NEW Stage, NEW Reads,
                    q \in [op : Op, on : On, to : To, stage : Stage, read : Reads],
                    stage \in Stage, read \in Reads
             PROVE  [q EXCEPT !.stage = stage, !.read = read]
                      \in [op : Op, on : On, to : To, stage : Stage, read : Reads]
  BY DEF Requests
<1> QED OBVIOUS

\* A gate passes a request or answers it, and writes nothing.
LEMMA GateServed ==
  ASSUME BatchTypes, RequestTypes, NEW k \in Clients, UNCHANGED batch,
         \/ \E code \in Codes : RefuseWith(k, code)
         \/ \E read \in {Nothing} \cup (SUBSET Candidates) \cup Change, stage \in {"planned", "passed"} :
              /\ request' = [request EXCEPT ![k].stage = stage, ![k].read = read]
              /\ request[k].op = "close" => read \in Change
  PROVE  Served(k)
<1>1. BatchTypes' /\ InReview' = InReview /\ cand' = cand
  BY SameBatch DEF batch
<1>2. CASE \E code \in Codes : RefuseWith(k, code)
  <2> PICK code \in Codes : RefuseWith(k, code)
    BY <1>2
  <2>1. NoRequest \in Requests /\ Kind(NoRequest)
    BY DEF NoRequest, Requests, Kind, Nothing
  <2>2. [request[k] EXCEPT !.stage = "refused", !.read = code] \in Requests
    BY StagedType DEF RequestTypes
  <2>3. Kind([request[k] EXCEPT !.stage = "refused", !.read = code])
    BY DEF RequestTypes, Requests, Kind
  <2> QED BY <1>1, <2>1, <2>2, <2>3 DEF RefuseWith, Answer, Served, RequestTypes, Requests
<1>3. ASSUME NEW read \in {Nothing} \cup (SUBSET Candidates) \cup Change,
             NEW stage \in {"planned", "passed"}, request[k].op = "close" => read \in Change,
             request' = [request EXCEPT ![k].stage = stage, ![k].read = read]
      PROVE  Served(k)
  <2>1. [request[k] EXCEPT !.stage = stage, !.read = read] \in Requests
    BY StagedType DEF RequestTypes
  <2>2. Kind([request[k] EXCEPT !.stage = stage, !.read = read])
    BY <1>3 DEF RequestTypes, Requests, Kind
  <2>3. request' = [request EXCEPT ![k] = [request[k] EXCEPT !.stage = stage, !.read = read]]
    BY <1>3 DEF RequestTypes, Requests
  <2> QED BY <1>1, <2>1, <2>2, <2>3 DEF Served, RequestTypes, Requests
<1> QED BY <1>2, <1>3

\* A write that is accepted.
LEMMA WriteServed ==
  ASSUME BatchTypes, RequestTypes, NEW k \in Clients, Accept(k),
         BatchTypes', DOMAIN cand \subseteq DOMAIN cand', InReview' => InReview
  PROVE  Served(k)
<1>1. NoRequest \in Requests /\ Kind(NoRequest)
  BY DEF NoRequest, Requests, Kind, Nothing
<1>2. [request[k] EXCEPT !.stage = "ok", !.read = Nothing] \in Requests
  BY StagedType DEF RequestTypes
<1>3. Kind([request[k] EXCEPT !.stage = "ok", !.read = Nothing])
  BY DEF RequestTypes, Requests, Kind
<1> QED BY <1>1, <1>2, <1>3 DEF Accept, Answer, Served, RequestTypes, Requests

\* The rows a decision, a "confirm all" and a manual entry write.
LEMMA RowsWritten ==
  ASSUME BatchTypes, RequestTypes, NEW k \in Clients,
         PatchWrite(k) \/ BulkWrite(k) \/ EntryWrite(k)
  PROVE  /\ cand' \in [DOMAIN cand' -> Row] /\ DOMAIN cand' \subseteq Candidates
         /\ DOMAIN cand \subseteq DOMAIN cand'
<1>1. CASE PatchWrite(k)
  <2>1. request[k].to \in CandWants
    BY <1>1 DEF PatchWrite, At, RequestTypes, Kind
  <2>2. \A row \in Row : Patched(row, request[k].to) \in Row
    BY <2>1 DEF Row, Patched, CandWants
  <2> QED BY <1>1, <2>2 DEF PatchWrite, BatchTypes
<1>2. CASE BulkWrite(k)
  <2>1. \A row \in Row : [row EXCEPT !.disp = "confirmed"] \in Row
    BY DEF Row
  <2> QED BY <1>2, <2>1 DEF BulkWrite, BatchTypes
<1>3. CASE EntryWrite(k)
  <2>1. request[k].on \in Works
    BY <1>3 DEF EntryWrite, At, RequestTypes, Kind
  <2>2. [disp |-> "confirmed", work |-> request[k].on, verdict |-> "title",
        sure |-> TRUE, tile |-> "no tile"] \in Row
    BY <2>1 DEF Row
  <2> QED BY <1>3, <2>2 DEF EntryWrite, BatchTypes
<1> QED BY <1>1, <1>2, <1>3

\* Every request that is served keeps the types, and every other request.
LEMMA AnyServed ==
  ASSUME BatchTypes, RequestTypes, NEW k \in Clients, Serve(k)
  PROVE  Served(k)
<1>1. CASE PatchGate(k)
  BY <1>1, GateServed DEF PatchGate, Pass, RefuseWith, At, Codes
<1>2. CASE PatchWrite(k)
  BY <1>2, RowsWritten, WriteServed DEF PatchWrite, BatchTypes, InReview
<1>3. CASE BulkGate(k)
  <2>1. Confirmable(Review, request[k].on) \in SUBSET Candidates
    BY ReviewType DEF Confirmable, BatchTypes
  <2> QED BY <1>3, <2>1, GateServed DEF BulkGate, Pass, RefuseWith, At, Codes
<1>4. CASE BulkWrite(k)
  BY <1>4, RowsWritten, WriteServed DEF BulkWrite, BatchTypes, InReview
<1>5. CASE RemovalGate(k)
  BY <1>5, GateServed DEF RemovalGate, Pass, RefuseWith, At, Codes
<1>6. CASE RemovalWrite(k)
  <2>1. request[k].on \in Works
    BY <1>6 DEF RemovalWrite, At, RequestTypes, Kind
  <2> QED BY <1>6, <2>1, WriteServed DEF RemovalWrite, BatchTypes, InReview
<1>7. CASE EntryGate(k)
  BY <1>7, GateServed DEF EntryGate, Pass, RefuseWith, At, Codes
<1>8. CASE EntryWrite(k)
  BY <1>8, RowsWritten, WriteServed DEF EntryWrite, BatchTypes, InReview
<1>9. CASE CloseRead(k)
  BY <1>9, PlannedType, GateServed DEF CloseRead, Planned, RefuseWith, At, Codes
<1>12. CASE CloseTicks(k)
  <2>1. request[k].read \in Change
    BY <1>12 DEF CloseTicks, At, RequestTypes, Kind
  <2>2. [request[k].read EXCEPT !.removes = @ \ unticked] \in Change
    BY <2>1 DEF Change
  <2> QED BY <1>12, <2>2, GateServed DEF CloseTicks, Pass, At
<1>10. CASE CloseWrite(k)
  <2> DEFINE plan == request[k].read
             adds == {a \in plan.adds : a[2] \notin suppressed}
             works == {a[2] : a \in adds} \ {Unmatched}
  <2>1. plan \in Change
    BY <1>10 DEF CloseWrite, At, RequestTypes, Kind
  <2>2. works \subseteq Works /\ [adds |-> adds, removes |-> plan.removes] \in Change
    BY <2>1 DEF Change
  <2>3. CASE /\ listed' = (listed \cup works) \ plan.removes
             /\ ledger' = [adds |-> adds, removes |-> plan.removes]
             /\ status' = "applied"
             /\ Accept(k)
             /\ UNCHANGED <<cand, unticked, suppressed>>
    <3>1. BatchTypes' /\ ~InReview'
      BY <2>2, <2>3 DEF BatchTypes, InReview
    <3> QED BY <2>3, <3>1, WriteServed
  <2>4. CASE RefuseWith(k, "FAILED")
    BY <2>4, GateServed DEF RefuseWith, Codes
  <2> QED BY <1>10, <2>3, <2>4 DEF CloseWrite
<1>11. CASE ServeDiscard(k)
  <2>1. CASE status' = "discarded" /\ Accept(k) /\ UNCHANGED <<cand, unticked, listed, suppressed, ledger>>
    BY <2>1, WriteServed DEF BatchTypes, InReview
  <2>2. CASE RefuseWith(k, "BATCH_NOT_IN_REVIEW")
    BY <2>2, GateServed DEF RefuseWith, Codes
  <2> QED BY <1>11, <2>1, <2>2 DEF ServeDiscard
<1> QED BY <1>1, <1>2, <1>3, <1>4, <1>5, <1>6, <1>7, <1>8, <1>9, <1>10, <1>11, <1>12 DEF Serve

----------------------------------------------------------------------------
(* The API and the tab                                                     *)

\* Serving the tab takes nothing from a choice the tab has forgotten: its decisions
\* are about choices it keeps, and a "confirm all" takes what is pending.
LEMMA ServeTabKeeps ==
  ASSUME Inv, ServeTab, Served(Tab)
  PROVE  Kept'
<1>1. UNCHANGED <<intents, chosen>>
  BY DEF ServeTab, tab, History
<1>2. SUFFICES ASSUME NEW i \in DOMAIN chosen \ DOMAIN intents, Holds(i, chosen[i]),
                      chosen[i] \in WantsOf(i), i \in Items,
                      i \in Candidates => i \in DOMAIN cand
               PROVE  Holds(i, chosen[i])'
  BY <1>1 DEF Inv, Kept, Served
<1>3. CASE UNCHANGED <<cand, unticked>>
  BY <1>1, <1>2, <1>3 DEF Holds
<1>4. CASE PatchWrite(Tab)
  <2>1. request[Tab].on # i
    BY <1>2, <1>4 DEF PatchWrite, At, Inv, Control
  <2> QED BY <1>1, <1>2, <1>4, <2>1 DEF PatchWrite, Holds, WantsOf, Items
<1>5. CASE BulkWrite(Tab)
  <2>1. UNCHANGED unticked
    BY <1>5 DEF BulkWrite
  <2>2. CASE i \in Works
    BY <1>1, <1>2, <2>1, <2>2 DEF Holds, WantsOf, TickWants
  <2>3. CASE i \in Candidates
    <3>1. cand[i] \in Row /\ i \in DOMAIN cand
      BY <1>2, <2>3 DEF Inv, BatchTypes
    <3>2. \/ cand'[i] = cand[i]
          \/ cand[i].disp = "pending" /\ cand'[i] = [cand[i] EXCEPT !.disp = "confirmed"]
      BY <1>5, <3>1 DEF BulkWrite
    <3>3. \/ cand'[i] = cand[i]
          \/ cand[i].disp = "pending" /\ cand'[i].verdict = cand[i].verdict
      BY <3>1, <3>2 DEF Row
    <3> QED BY <1>1, <1>2, <2>3, <3>3 DEF Holds, WantsOf, CandWants
  <2> QED BY <1>2, <2>2, <2>3 DEF Items
<1>6. CASE RemovalWrite(Tab)
  <2>1. request[Tab].on # i
    BY <1>2, <1>6 DEF RemovalWrite, At, Inv, Control
  <2> QED BY <1>1, <1>2, <1>6, <2>1 DEF RemovalWrite, Holds
<1>7. CASE EntryWrite(Tab)
  BY <1>1, <1>2, <1>7 DEF EntryWrite, Holds, WantsOf, Items, TickWants
<1> QED BY <1>3, <1>4, <1>5, <1>6, <1>7 DEF ServeTab, Serve, PatchGate, BulkGate, RemovalGate,
        EntryGate, CloseRead, CloseTicks, CloseWrite, ServeDiscard, Pass, RefuseWith, batch

\* The tab's own close reads its plan from the review behind the dialog.
LEMMA ServeTabSynced ==
  ASSUME Inv, ServeTab, Served(Tab)
  PROVE  Synced'
<1>1. UNCHANGED <<shown, doing, dialog, stale, save, intents>>
  BY DEF ServeTab, tab, History
<1>2. ASSUME request[Tab].op = "close"
      PROVE  Synced'
  <2>1. CloseRead(Tab) \/ CloseTicks(Tab) \/ CloseWrite(Tab)
    BY <1>2 DEF ServeTab, Serve, At, PatchGate, PatchWrite, BulkGate, BulkWrite, RemovalGate,
       RemovalWrite, EntryGate, EntryWrite, ServeDiscard
  <2>2. CASE /\ UNCHANGED batch
             /\ At(Tab, "close", "planned")' => request[Tab]'.read = Planned
             /\ At(Tab, "close", "passed")' /\ ~stale /\ InReview => request[Tab]'.read = Changes(Review)
    BY <1>1, <2>2, SameBatch DEF Inv, Synced, Planned
  <2>3. CASE ~InReview'
    BY <2>3 DEF Synced
  <2>4. request[Tab] \in Requests
    BY DEF Inv, RequestTypes
  <2>5. ASSUME NEW code, RefuseWith(Tab, code)
        PROVE  UNCHANGED batch /\ ~At(Tab, "close", "planned")' /\ ~At(Tab, "close", "passed")'
    BY <2>5, <2>4 DEF RefuseWith, Answer, At, Inv, RequestTypes, Requests
  <2>6. CASE CloseRead(Tab)
    <3>1. ASSUME request' = [request EXCEPT ![Tab].stage = "planned", ![Tab].read = Planned]
          PROVE  request[Tab]'.read = Planned /\ ~At(Tab, "close", "passed")'
      BY <3>1, <2>4 DEF Inv, RequestTypes, Requests, At
    <3> QED BY <2>2, <2>5, <2>6, <3>1 DEF CloseRead, Planned
  <2>7. CASE CloseTicks(Tab)
    <3>1. ~stale /\ InReview => request[Tab].read = Planned
      BY <2>7 DEF CloseTicks, Inv, Synced
    <3>2. [Planned EXCEPT !.removes = @ \ unticked] = Changes(Review)
      BY PlannedType DEF Inv
    <3>3. /\ UNCHANGED batch /\ ~At(Tab, "close", "planned")'
          /\ request[Tab]'.read = [request[Tab].read EXCEPT !.removes = @ \ unticked]
      BY <2>4, <2>7 DEF CloseTicks, Pass, Inv, RequestTypes, Requests, At
    <3> QED BY <2>2, <3>1, <3>2, <3>3
  <2>8. CASE CloseWrite(Tab)
    <3>1. ASSUME status' = "applied"
          PROVE  ~InReview'
      BY <3>1 DEF InReview
    <3> QED BY <2>2, <2>3, <2>5, <2>8, <3>1 DEF CloseWrite
  <2> QED BY <2>1, <2>6, <2>7, <2>8
<1>3. ASSUME request[Tab].op # "close"
      PROVE  Synced'
  <2>1. request[Tab].op \in {"patch", "bulk", "removal", "entry", "discard"}
    BY <1>3 DEF ServeTab, Serve, At, PatchGate, PatchWrite, BulkGate, BulkWrite, RemovalGate,
       RemovalWrite, EntryGate, EntryWrite, ServeDiscard, CloseRead, CloseTicks, CloseWrite
  <2>2. ~dialog
    BY <2>1 DEF Inv, Control, DialogDoings
  <2>3. request'[Tab].op # "close"
    BY <1>3 DEF Served
  <2> QED BY <1>1, <2>2, <2>3 DEF Synced, At
<1> QED BY <1>2, <1>3

\* What is on screen stays as good as it was when rows are added.
LEMMA ScreenStays ==
  ASSUME Inv, UNCHANGED <<tab, stale>> \/ (UNCHANGED tab /\ stale' \in BOOLEAN),
         DOMAIN cand \subseteq DOMAIN cand'
  PROVE  ScreenTypes'
BY DEF tab, Inv, ScreenTypes, ReviewOK, IntentsOK

\* A request of the tab is served.
LEMMA ServeTabInv ==
  ASSUME Inv, ServeTab
  PROVE  Inv'
<1>1. Served(Tab)
  BY AnyServed DEF ServeTab, Inv
<1>2. ScreenTypes'
  BY <1>1, ScreenStays DEF ServeTab, History, Served
<1>3. Control'
  BY <1>1 DEF Served, ServeTab, tab, Inv, Control, Changes, DialogDoings
<1> QED BY <1>1, <1>2, <1>3, ServeTabKeeps, ServeTabSynced DEF Served, Inv

\* Others change an item: what the owner chose for it here is not counted any more.
LEMMA OverruledKeeps ==
  ASSUME Inv, Overruled, UNCHANGED intents, DOMAIN cand \subseteq DOMAIN cand'
  PROVE  Kept'
<1> SUFFICES ASSUME NEW i \in DOMAIN chosen'
             PROVE  /\ i \in Items /\ chosen'[i] \in WantsOf(i)
                    /\ i \in Candidates => i \in DOMAIN cand'
                    /\ IF i \in DOMAIN intents' THEN intents'[i].want = chosen'[i]
                                                ELSE Holds(i, chosen[i])'
  BY DEF Kept
<1>1. i \in DOMAIN chosen /\ chosen'[i] = chosen[i] /\ Stored(i)' = Stored(i)
  BY DEF Overruled, Without
<1>2. /\ i \in Items /\ chosen[i] \in WantsOf(i)
      /\ i \in Candidates => i \in DOMAIN cand
      /\ IF i \in DOMAIN intents THEN intents[i].want = chosen[i] ELSE Holds(i, chosen[i])
  BY <1>1 DEF Inv, Kept
<1>3. ASSUME Holds(i, chosen[i])
      PROVE  Holds(i, chosen[i])'
  <2>1. CASE i \in Works
    <3>1. i \in unticked' <=> i \in unticked
      BY <1>1, <2>1 DEF Stored
    <3> QED BY <1>1, <1>2, <1>3, <2>1, <3>1 DEF Holds, WantsOf, TickWants
  <2>2. CASE i \in Candidates
    <3>1. cand'[i] = cand[i]
      BY <1>1, <1>2, <2>2 DEF Stored
    <3> QED BY <1>1, <1>2, <1>3, <2>2, <3>1 DEF Holds, WantsOf, CandWants
  <2> QED BY <1>2, <2>1, <2>2 DEF Items
<1> QED BY <1>1, <1>2, <1>3

\* While others write, what the tab has seen is stale.
LEMMA OverruledInv ==
  ASSUME Inv, Overruled, UNCHANGED tab, BatchTypes', RequestTypes', request'[Tab] = request[Tab],
         DOMAIN cand \subseteq DOMAIN cand'
  PROVE  Inv'
<1>1. stale' \in BOOLEAN /\ (~stale' => ~stale /\ UNCHANGED batch)
  BY DEF Overruled, Inv, ScreenTypes
<1>2. ScreenTypes'
  BY <1>1, ScreenStays
<1>3. Control'
  BY DEF tab, Inv, Control, Changes
<1>4. Synced'
  BY <1>1, SameBatch DEF tab, Inv, Synced, At
<1>5. Kept'
  BY OverruledKeeps DEF tab
<1> QED BY <1>2, <1>3, <1>4, <1>5 DEF Inv

\* A request of another tab, or of one that has gone.
LEMMA ServeOthersInv ==
  ASSUME Inv, ServeOthers
  PROVE  Inv'
<1>1. PICK k \in {Late, Other} : Serve(k)
  BY DEF ServeOthers
<1>2. Served(k)
  BY <1>1, AnyServed DEF Inv
<1> QED BY <1>2, OverruledInv DEF ServeOthers, Served

\* The owner's list changes under the review.
LEMMA ListChangesInv ==
  ASSUME Inv, ListChanges
  PROVE  Inv'
<1>1. PICK w \in Works : ListElsewhere(w) \/ UnlistElsewhere(w) \/ SuppressElsewhere(w)
  BY DEF ListChanges
<1>2. BatchTypes' /\ RequestTypes' /\ request' = request /\ cand' = cand
  BY <1>1 DEF ListElsewhere, UnlistElsewhere, SuppressElsewhere, Inv, BatchTypes, RequestTypes
<1> QED BY <1>2, OverruledInv DEF ListChanges

----------------------------------------------------------------------------
(* The screen                                                              *)

\* What the tab may ask next, without a write.
Asking(q) == /\ q \in Requests /\ Kind(q)
             /\ q.op \in {"none", "review", "status"}
             /\ request' = [request EXCEPT ![Tab] = q]

\* The review on screen is as it was, or the one of now.
Reread == \/ UNCHANGED <<shown, stale>>
          \/ shown' = Review /\ stale' = FALSE

\* A step of the screen that sends no write.
LEMMA Moves ==
  ASSUME Inv, UNCHANGED batch, NEW q, Asking(q), Reread, IntentsOK(intents)', Kept',
         online' \in BOOLEAN, alert' \in BOOLEAN, dialog' \in BOOLEAN,
         doing' \in Doings, save' \in SaveType, doing' = "saving" <=> save' # NotSaving,
         save'.todo \cup save'.group \subseteq DOMAIN intents',
         dialog' => doing' \in DialogDoings /\ (dialog \/ shown' = Review)
  PROVE  Inv'
<1>1. BatchTypes' /\ Review' = Review /\ InReview' = InReview /\ ReviewOK(Review)'
  BY SameBatch, ReviewType DEF Inv
<1>2. /\ request'[Tab] = q /\ \A k \in Clients \ {Tab} : request'[k] = request[k]
      /\ RequestTypes'
  BY DEF Asking, Inv, RequestTypes
<1>3. ReviewOK(shown)' /\ stale' \in BOOLEAN
  BY <1>1, SameBatch DEF Reread, Inv, ScreenTypes, ReviewOK, batch
<1>4. ScreenTypes'
  BY <1>3 DEF ScreenTypes
<1>5. Control'
  BY <1>2 DEF Asking, Control, Inv
<1>6. Synced'
  BY <1>1, <1>2 DEF Asking, Synced, Inv, Reread, At
<1> QED BY <1>1, <1>2, <1>4, <1>5, <1>6 DEF Inv

\* One that keeps its choices, too.
LEMMA ScreenMoves ==
  ASSUME Inv, UNCHANGED <<batch, intents, chosen>>, NEW q, Asking(q), Reread,
         online' \in BOOLEAN, alert' \in BOOLEAN, dialog' \in BOOLEAN,
         doing' \in Doings, save' \in SaveType, doing' = "saving" <=> save' # NotSaving,
         save'.todo \cup save'.group \subseteq DOMAIN intents,
         dialog' => doing' \in DialogDoings /\ (dialog \/ shown' = Review)
  PROVE  Inv'
<1>1. IntentsOK(intents)'
  BY DEF Inv, ScreenTypes, IntentsOK
<1>2. Kept'
  BY SameBatch DEF Inv, Kept, batch, Holds
<1> QED BY <1>1, <1>2, Moves

\* Requests that read, and no request.
LEMMA Asks ==
  ASSUME Inv
  PROVE  /\ Request("review", Nothing, Nothing) => \E q : Asking(q)
         /\ Request("status", Nothing, Nothing) => \E q : Asking(q)
         /\ Quiet => \E q : Asking(q)
<1>1. \A op \in {"review", "status"} :
        Sent(op, Nothing, Nothing) \in Requests /\ Kind(Sent(op, Nothing, Nothing))
  BY DEF Sent, Requests, Kind, Nothing
<1>2. NoRequest \in Requests /\ Kind(NoRequest)
  BY DEF NoRequest, Requests, Kind, Nothing
<1> QED BY <1>1, <1>2 DEF Request, Quiet, Asking, Sent, NoRequest

\* The types of the screen's own state.
LEMMA ScreenState ==
  ASSUME Inv
  PROVE  /\ online \in BOOLEAN /\ alert \in BOOLEAN /\ dialog \in BOOLEAN /\ stale \in BOOLEAN
         /\ doing \in Doings /\ save \in SaveType
         /\ doing = "saving" <=> save # NotSaving
         /\ save.todo \cup save.group \subseteq DOMAIN intents
         /\ NotSaving \in SaveType /\ NotSaving.todo \cup NotSaving.group = {}
         /\ dialog => doing \in DialogDoings
         /\ DOMAIN intents \subseteq Items
BY DEF Inv, ScreenTypes, Control, SaveType, SaveRecord, NotSaving, IntentsOK

\* A save goes on with some of what it was given, or is over.
LEMMA GoesOn ==
  ASSUME NEW todo \in SUBSET Items, NEW mine \in BOOLEAN, NEW kept, GoOn(todo, mine, kept)
  PROVE  /\ Quiet \/ Request("review", Nothing, Nothing)
         /\ save' \in SaveType /\ save'.todo \cup save'.group \subseteq todo
         /\ doing' \in {"nothing", "saving"} /\ (doing' = "saving" <=> save' # NotSaving)
<1>1. CASE todo = {}
  <2>1. NotSaving \in SaveType /\ NotSaving.todo \cup NotSaving.group = {}
    BY DEF NotSaving, SaveType, SaveRecord
  <2> QED BY <1>1, <2>1 DEF GoOn
<1>2. CASE todo # {}
  <2>1. PICK group \in GroupsOf(todo, mine, kept) :
          /\ doing' = "saving"
          /\ save' = [todo |-> todo \ group, group |-> group, step |-> "look", mine |-> mine]
          /\ Request("review", Nothing, Nothing)
    BY <1>2 DEF GoOn
  <2>2. group \subseteq todo
    BY DEF GroupsOf
  <2> QED BY <2>1, <2>2 DEF SaveType, SaveRecord, NotSaving
<1> QED BY <1>1, <1>2

\* The steps of the screen but those of a save.
LEMMA ScreenInv ==
  ASSUME Inv, \/ Open \/ Loaded \/ Written \/ SaveFails \/ Entered \/ Prepared \/ Cancel
              \/ Closed \/ CloseRefused \/ Reconfirmed \/ CloseUnknown \/ Checked \/ CheckAgain
              \/ Discarded
  PROVE  Inv'
<1> USE ScreenState DEF Rest, History, Doings, DialogDoings, Reread
<1>1. CASE Open
  BY <1>1, Asks, ScreenMoves DEF Open
<1>2. CASE Loaded
  BY <1>2, Asks, ScreenMoves DEF Loaded, Refreshed, NotRefreshed
<1>3. CASE Written
  <2>1. [save EXCEPT !.step = "verify"] \in SaveType
    BY DEF SaveType, SaveRecord
  <2>2. [save EXCEPT !.step = "verify"] # NotSaving
    BY DEF SaveType, SaveRecord, NotSaving
  <2>3. [save EXCEPT !.step = "verify"].todo = save.todo /\ [save EXCEPT !.step = "verify"].group = save.group
    BY DEF SaveType, SaveRecord
  <2> QED BY <1>3, <2>1, <2>2, <2>3, Asks, ScreenMoves DEF Written
<1>4. CASE SaveFails
  BY <1>4, Asks, ScreenMoves DEF SaveFails
<1>5. CASE Entered
  BY <1>5, Asks, ScreenMoves DEF Entered, Refreshed
<1>6. CASE Prepared
  <2>1. PICK q : Asking(q)
    BY <1>6, Asks DEF Prepared
  <2>2. CASE GotReview /\ Refreshed /\ dialog' = (Undecided(Review) = {})
    <3>1. dialog' \in BOOLEAN
      BY <2>2
    <3>2. /\ doing' = "nothing" /\ shown' = Review /\ stale' = FALSE /\ alert' \in BOOLEAN
          /\ UNCHANGED <<online, intents, save, batch, chosen>> /\ save = NotSaving
      BY <1>6, <2>2 DEF Prepared, Refreshed
    <3> QED BY <2>1, <3>1, <3>2, ScreenMoves
  <2>3. CASE NoReview /\ NotRefreshed /\ UNCHANGED dialog
    BY <1>6, <2>1, <2>3, ScreenMoves DEF Prepared, NotRefreshed
  <2> QED BY <1>6, <2>2, <2>3 DEF Prepared
<1>7. CASE Cancel
  <2>1. Asking(request[Tab])
    BY <1>7 DEF Cancel, Asking, Inv, RequestTypes, Control, Requests
  <2> QED BY <1>7, <2>1, ScreenMoves DEF Cancel
<1>8. CASE Closed
  BY <1>8, Asks, ScreenMoves DEF Closed, Inv, Control
<1>9. CASE CloseRefused
  <2>1. /\ UNCHANGED <<online, shown, intents, save, alert, batch, chosen, stale>>
        /\ save = NotSaving
    BY <1>9 DEF CloseRefused
  <2>2. CASE doing' = "nothing" /\ dialog' = FALSE /\ Quiet
    BY <2>1, <2>2, Asks, ScreenMoves
  <2>3. CASE doing' = "reconfirming" /\ Request("review", Nothing, Nothing) /\ UNCHANGED dialog
    BY <2>1, <2>3, Asks, ScreenMoves
  <2> QED BY <1>9, <2>2, <2>3 DEF CloseRefused
<1>10. CASE Reconfirmed
  <2>1. /\ UNCHANGED <<online, intents, save, batch, chosen>>
        /\ save = NotSaving /\ doing' = "nothing" /\ Quiet
    BY <1>10 DEF Reconfirmed
  <2>2. CASE GotReview /\ Refreshed /\ dialog' = TRUE
    BY <2>1, <2>2, Asks, ScreenMoves DEF Refreshed
  <2>3. CASE NoReview /\ alert' = TRUE /\ UNCHANGED <<shown, stale, dialog>>
    BY <2>1, <2>3, Asks, ScreenMoves
  <2> QED BY <1>10, <2>2, <2>3 DEF Reconfirmed
<1>11. CASE CloseUnknown
  BY <1>11, Asks, ScreenMoves DEF CloseUnknown
<1>12. CASE Checked
  BY <1>12, Asks, ScreenMoves DEF Checked, Refreshed, NotRefreshed
<1>13. CASE CheckAgain
  BY <1>13, Asks, ScreenMoves DEF CheckAgain
<1>14. CASE Discarded
  BY <1>14, Asks, ScreenMoves DEF Discarded
<1> QED BY <1>1, <1>2, <1>3, <1>4, <1>5, <1>6, <1>7, <1>8, <1>9, <1>10, <1>11, <1>12, <1>13, <1>14

----------------------------------------------------------------------------
(* Choices                                                                 *)

\* The choices in S are forgotten, all seen in the review of now.
LEMMA Forgets ==
  ASSUME Inv, UNCHANGED <<batch, chosen>>, NEW S \in SUBSET DOMAIN intents,
         \A i \in S : Satisfied(Review, i, intents[i]), intents' = Without(intents, S)
  PROVE  Kept' /\ IntentsOK(intents)' /\ DOMAIN intents' = DOMAIN intents \ S
<1>1. DOMAIN intents' = DOMAIN intents \ S /\ \A i \in DOMAIN intents' : intents'[i] = intents[i]
  BY DEF Without
<1>2. IntentsOK(intents)'
  BY <1>1 DEF Inv, ScreenTypes, IntentsOK
<1>3. ASSUME NEW i \in DOMAIN chosen, i \in S
      PROVE  Holds(i, chosen[i])
  <2>1. intents[i].want = chosen[i] /\ i \in Items
    BY <1>3 DEF Inv, Kept
  <2>2. intents[i] \in Intent /\ intents[i].want \in WantsOf(i) /\ Satisfied(Review, i, intents[i])
    BY <1>3 DEF Inv, ScreenTypes, IntentsOK
  <2> QED BY <2>1, <2>2, SatisfiedHolds DEF Inv
<1>4. Kept'
  <2> SUFFICES ASSUME NEW i \in DOMAIN chosen
               PROVE  IF i \in DOMAIN intents' THEN intents'[i].want = chosen[i]
                                               ELSE Holds(i, chosen[i])'
    BY DEF Kept, Inv, batch
  <2> QED BY <1>1, <1>3 DEF Inv, Kept, batch, Holds
<1> QED BY <1>1, <1>2, <1>4

\* Marking choices changes none of them.
LEMMA Marks ==
  ASSUME Inv, UNCHANGED <<batch, chosen>>, NEW S \in SUBSET DOMAIN intents,
         NEW state \in {"unsaved", "unknown", "conflict"}, intents' = Marked(S, state)
  PROVE  /\ Kept' /\ IntentsOK(intents)' /\ DOMAIN intents' = DOMAIN intents
         /\ \A i \in DOMAIN intents : intents'[i].want = intents[i].want
<1>1. \A x \in Intent : \A b \in BOOLEAN :
        LET y == [x EXCEPT !.state = state, !.bulk = IF b THEN Nothing ELSE @]
        IN y \in Intent /\ y.want = x.want
  BY DEF Intent
<1>2. save.mine \in BOOLEAN
  BY DEF Inv, ScreenTypes, SaveType, SaveRecord
<1>3. DOMAIN intents' = DOMAIN intents
  BY DEF Marked, With
<1>4. \A i \in DOMAIN intents :
        intents'[i] = IF i \in S
                        THEN [intents[i] EXCEPT !.state = state,
                                                !.bulk = IF save.mine THEN Nothing ELSE @]
                        ELSE intents[i]
  BY DEF Marked, With
<1>5. \A i \in DOMAIN intents : intents[i] \in Intent
  BY DEF Inv, ScreenTypes, IntentsOK
<1>6. \A i \in DOMAIN intents : intents'[i] \in Intent /\ intents'[i].want = intents[i].want
  BY <1>1, <1>2, <1>4, <1>5
<1>7. IntentsOK(intents)'
  BY <1>3, <1>6 DEF Inv, ScreenTypes, IntentsOK
<1>8. Kept'
  BY <1>3, <1>6 DEF Inv, Kept, batch, Holds
<1> QED BY <1>3, <1>6, <1>7, <1>8

\* While the tab saves, no dialog is open, and what is left to save is kept.
LEMMA WhileSaving ==
  ASSUME Inv, doing = "saving"
  PROVE  /\ ~dialog /\ save \in SaveType /\ save.mine \in BOOLEAN
         /\ save.todo \in SUBSET Items /\ save.group \in SUBSET DOMAIN intents
         /\ save.todo \in SUBSET (DOMAIN intents \ save.group)
         /\ save.todo \cup save.group \subseteq DOMAIN intents
BY DEF Inv, ScreenTypes, Control, DialogDoings, SaveType, SaveRecord

\* A save goes on, the choices it was about forgotten or marked.
LEMMA SavingInv ==
  ASSUME Inv, doing = "saving", UNCHANGED <<batch, online, dialog, chosen>>,
         Kept', IntentsOK(intents)', alert' \in BOOLEAN, Reread,
         save.todo \subseteq DOMAIN intents', GoOn(save.todo, save.mine, intents')
  PROVE  Inv'
<1>1. /\ Quiet \/ Request("review", Nothing, Nothing)
      /\ save' \in SaveType /\ save'.todo \cup save'.group \subseteq save.todo
      /\ doing' \in {"nothing", "saving"} /\ (doing' = "saving" <=> save' # NotSaving)
  BY WhileSaving, GoesOn
<1>2. PICK q : Asking(q)
  BY <1>1, Asks
<1>3. doing' \in Doings /\ ~dialog' /\ dialog' \in BOOLEAN /\ online' \in BOOLEAN
  BY <1>1, WhileSaving, ScreenState DEF Doings
<1> QED BY <1>1, <1>2, <1>3, Moves

\* The review before a write.
LEMMA LookedInv ==
  ASSUME Inv, Looked
  PROVE  Inv'
<1>1. /\ doing = "saving" /\ save.step = "look"
      /\ UNCHANGED <<batch, online, dialog, chosen>>
      /\ alert' \in BOOLEAN /\ Reread
  BY DEF Looked, Reread
<1>2. CASE /\ \A i \in save.group : Satisfied(Review, i, intents[i])
           /\ intents' = Without(intents, save.group)
           /\ GoOn(save.todo, save.mine, intents')
  <2>1. Kept' /\ IntentsOK(intents)' /\ DOMAIN intents' = DOMAIN intents \ save.group
    BY <1>1, <1>2, WhileSaving, Forgets
  <2>2. save.todo \subseteq DOMAIN intents'
    BY <1>1, <2>1, WhileSaving
  <2> QED BY <1>1, <1>2, <2>1, <2>2, SavingInv
<1>3. CASE intents' = Marked(save.group, "conflict") /\ GoOn(save.todo, save.mine, intents')
  <2>1. Kept' /\ IntentsOK(intents)' /\ DOMAIN intents' = DOMAIN intents
    BY <1>1, <1>3, WhileSaving, Marks
  <2>2. save.todo \subseteq DOMAIN intents'
    BY <1>1, <2>1, WhileSaving
  <2> QED BY <1>1, <1>3, <2>1, <2>2, SavingInv
<1>4. CASE /\ ~\A i \in save.group : Satisfied(Review, i, intents[i])
           /\ intents' = Marked(save.group, "unknown")
           /\ request' = [request EXCEPT ![Tab] = WriteOf(save.group)]
           /\ save' = [save EXCEPT !.step = "write"]
           /\ UNCHANGED doing
  <2>1. /\ Kept' /\ IntentsOK(intents)' /\ DOMAIN intents' = DOMAIN intents
        /\ \A i \in DOMAIN intents : intents'[i].want = intents[i].want
    BY <1>1, <1>4, WhileSaving, Marks
  <2> DEFINE i == CHOOSE j \in save.group : TRUE
             q == WriteOf(save.group)
  <2>2. i \in save.group /\ i \in DOMAIN intents /\ i \in Items
    BY <1>1, <1>4, WhileSaving, ScreenState
  <2>3. intents[i] \in Intent /\ intents[i].want \in WantsOf(i)
    BY <2>2 DEF Inv, ScreenTypes, IntentsOK
  <2>4. \/ q = Sent("bulk", intents[i].bulk, Nothing) /\ intents[i].bulk \in Sections
        \/ q = Sent("removal", i, intents[i].want) /\ i \in Works
        \/ q = Sent("patch", i, intents[i].want) /\ i \in Candidates
    BY <2>2, <2>3 DEF WriteOf, Intent, Items
  <2> HIDE DEF i, q
  <2>5. q \in Requests /\ Kind(q)
    BY <2>3, <2>4 DEF Sent, Requests, Kind, Nothing, WantsOf, Intent
  <2>6. RequestTypes' /\ request'[Tab] = q
    BY <1>4, <2>5 DEF q, Inv, RequestTypes
  <2>7. save' \in SaveType /\ save' # NotSaving /\ save'.todo = save.todo
        /\ save'.group = save.group /\ save'.step = "write"
    BY <1>1, <1>4, WhileSaving DEF SaveType, SaveRecord, NotSaving
  <2>8. BatchTypes' /\ ReviewOK(shown)' /\ stale' \in BOOLEAN
    BY <1>1, SameBatch, ReviewType DEF Looked, Inv
  <2>9. ScreenTypes'
    BY <1>1, <1>4, <2>1, <2>7, <2>8, ScreenState DEF ScreenTypes
  <2>10. Control'
    BY <1>1, <1>4, <2>1, <2>2, <2>4, <2>6, <2>7, WhileSaving DEF Control, Sent
  <2>11. Synced'
    BY <1>1, <2>4, <2>6, WhileSaving DEF Synced, At, Sent
  <2> QED BY <2>1, <2>6, <2>8, <2>9, <2>10, <2>11 DEF Inv
<1> QED BY <1>2, <1>3, <1>4 DEF Looked

\* The review after a write.
LEMMA VerifiedInv ==
  ASSUME Inv, Verified
  PROVE  Inv'
<1>1. /\ doing = "saving" /\ UNCHANGED <<batch, online, dialog, chosen>> /\ Reread
      /\ GotReview
  BY DEF Verified, Reread
<1>2. CASE /\ \A i \in save.group : Satisfied(Review, i, intents[i])
           /\ intents' = Without(intents, save.group)
           /\ alert' = FALSE
           /\ GoOn(save.todo, save.mine, intents')
  <2>1. Kept' /\ IntentsOK(intents)' /\ DOMAIN intents' = DOMAIN intents \ save.group
    BY <1>1, <1>2, WhileSaving, Forgets
  <2>2. save.todo \subseteq DOMAIN intents'
    BY <1>1, <2>1, WhileSaving
  <2> QED BY <1>1, <1>2, <2>1, <2>2, SavingInv
<1>3. CASE /\ doing' = "nothing" /\ save' = NotSaving /\ alert' = TRUE /\ Quiet
           /\ UNCHANGED intents
  BY <1>1, <1>3, WhileSaving, ScreenState, Asks, ScreenMoves DEF Doings
<1> QED BY <1>2, <1>3 DEF Verified

\* A choice made on the review on screen is a choice.
LEMMA NewType ==
  ASSUME Inv, NEW i \in Items, NEW want \in WantsOf(i), NEW bulk \in Sections \cup {Nothing}
  PROVE  NewIntent(i, want, bulk) \in Intent /\ NewIntent(i, want, bulk).want = want
<1>1. Identity(shown, i) \in Works \cup {Unmatched, Nothing}
  BY DEF Identity, Inv, ScreenTypes, ReviewOK, Row
<1>2. Fingerprint(shown, i) \in SUBSET (Row \cup BOOLEAN)
  BY DEF Fingerprint, Inv, ScreenTypes, ReviewOK
<1>3. i \in DOMAIN intents => intents[i].base \in SUBSET (Row \cup BOOLEAN)
  BY DEF Inv, ScreenTypes, IntentsOK, Intent
<1>4. want \in CandWants \cup TickWants
  BY DEF WantsOf
<1> QED BY <1>1, <1>2, <1>3, <1>4 DEF NewIntent, Intent

\* New choices replace the old ones, in the tab and in what the owner wants.
LEMMA ChosenInv ==
  ASSUME Inv, Free, NEW S \in SUBSET Items, NEW want, NEW bulk \in Sections \cup {Nothing},
         \A i \in S : want \in WantsOf(i) /\ (i \in Candidates => i \in DOMAIN cand),
         Chosen([i \in S |-> NewIntent(i, want, bulk)])
  PROVE  Inv'
<1> DEFINE new == [i \in S |-> NewIntent(i, want, bulk)]
<1>1. \A i \in S : new[i] \in Intent /\ new[i].want = want /\ want \in WantsOf(i)
  BY NewType
<1>2. /\ intents' = With(intents, new)
      /\ chosen' = With(chosen, [i \in DOMAIN new |-> new[i].want])
      /\ UNCHANGED <<online, shown, dialog, batch, stale>>
      /\ DOMAIN new = S
  BY DEF Chosen
<1> HIDE DEF new
<1>3. /\ DOMAIN intents' = DOMAIN intents \cup S
      /\ \A i \in DOMAIN intents' : intents'[i] = IF i \in S THEN new[i] ELSE intents[i]
  BY <1>2 DEF With
<1>4. /\ DOMAIN chosen' = DOMAIN chosen \cup S
      /\ \A i \in DOMAIN chosen' : chosen'[i] = IF i \in S THEN want ELSE chosen[i]
  BY <1>1, <1>2 DEF With
<1>5. IntentsOK(intents)'
  BY <1>1, <1>3 DEF Inv, ScreenTypes, IntentsOK
<1>6. Kept'
  BY <1>1, <1>2, <1>3, <1>4 DEF Inv, Kept, batch, Holds
<1>7. doing = "nothing" /\ ~dialog /\ Reread
  BY <1>2 DEF Free, Reread
<1>8. CASE online /\ GoOn(DOMAIN new, FALSE, intents') /\ alert' = FALSE
  <2>1. /\ Quiet \/ Request("review", Nothing, Nothing)
        /\ save' \in SaveType /\ save'.todo \cup save'.group \subseteq S
        /\ doing' \in {"nothing", "saving"} /\ (doing' = "saving" <=> save' # NotSaving)
    BY <1>2, <1>8, GoesOn
  <2>2. PICK q : Asking(q)
    BY <2>1, Asks
  <2> QED BY <1>2, <1>3, <1>5, <1>6, <1>7, <1>8, <2>1, <2>2, ScreenState, Moves DEF Doings
<1>9. CASE UNCHANGED <<doing, save, request, alert>>
  <2>1. Asking(request[Tab])
    BY <1>7, <1>9 DEF Asking, Inv, RequestTypes, Control, Requests
  <2> QED BY <1>2, <1>3, <1>5, <1>6, <1>7, <1>9, <2>1, ScreenState, Moves
<1> QED BY <1>2, <1>8, <1>9 DEF Chosen, new

\* What the owner does, but for what is asked at once.
LEMMA ChoiceInv ==
  ASSUME Inv,
         \/ \E c \in Candidates, want \in CandWants : Decide(c, want)
         \/ \E w \in Works, want \in TickWants : ToggleRemoval(w, want)
         \/ \E section \in {"additions", "unmatched"} : ConfirmAll(section)
  PROVE  Inv'
<1>1. ReviewOK(shown) /\ DOMAIN cand \subseteq Candidates
  BY DEF Inv, ScreenTypes, BatchTypes
<1>2. CASE \E c \in Candidates, want \in CandWants : Decide(c, want)
  <2> PICK c \in Candidates, want \in CandWants : Decide(c, want)
    BY <1>2
  <2>1. c \in DOMAIN cand /\ c \notin Works
    BY <1>1 DEF Decide, ReviewOK
  <2> QED BY <2>1, ChosenInv DEF Decide, WantsOf, Items
<1>3. CASE \E w \in Works, want \in TickWants : ToggleRemoval(w, want)
  <2> PICK w \in Works, want \in TickWants : ToggleRemoval(w, want)
    BY <1>3
  <2> QED BY ChosenInv DEF ToggleRemoval, WantsOf, Items
<1>4. CASE \E section \in {"additions", "unmatched"} : ConfirmAll(section)
  <2> PICK section \in {"additions", "unmatched"} : ConfirmAll(section)
    BY <1>4
  <2>1. Confirmable(shown, section) \subseteq DOMAIN cand
    BY <1>1 DEF Confirmable, ReviewOK
  <2> QED BY <1>1, <2>1, ChosenInv DEF ConfirmAll, WantsOf, Items, CandWants, Sections
<1> QED BY <1>2, <1>3, <1>4

\* Choices are saved again.
LEMMA SaveAgainInv ==
  ASSUME Inv, NEW S \in SUBSET DOMAIN intents, NEW mine \in BOOLEAN, SaveAgain(S, mine)
  PROVE  Inv'
<1>1. S \in SUBSET Items
  BY ScreenState
<1>2. /\ Quiet \/ Request("review", Nothing, Nothing)
      /\ save' \in SaveType /\ save'.todo \cup save'.group \subseteq S
      /\ doing' \in {"nothing", "saving"} /\ (doing' = "saving" <=> save' # NotSaving)
  BY <1>1, GoesOn DEF SaveAgain
<1>3. PICK q : Asking(q)
  BY <1>2, Asks
<1> QED BY <1>2, <1>3, ScreenState, ScreenMoves
        DEF SaveAgain, Free, Rest, History, Doings, Reread

\* A choice is given up: it is not counted any more.
LEMMA UseSavedInv ==
  ASSUME Inv, NEW i \in Items, UseSaved(i)
  PROVE  Inv'
<1>1. /\ DOMAIN intents' = DOMAIN intents \ {i} /\ DOMAIN chosen' = DOMAIN chosen \ {i}
      /\ \A j \in DOMAIN intents' : intents'[j] = intents[j]
      /\ \A j \in DOMAIN chosen' : chosen'[j] = chosen[j]
  BY DEF UseSaved, Without
<1>2. IntentsOK(intents)'
  BY <1>1 DEF Inv, ScreenTypes, IntentsOK
<1>3. Kept'
  BY <1>1 DEF UseSaved, Inv, Kept, batch, Holds
<1>4. Asking(request[Tab])
  BY DEF UseSaved, Free, Asking, Inv, RequestTypes, Control, Requests
<1>5. save = NotSaving
  BY ScreenState DEF UseSaved, Free
<1> QED BY <1>1, <1>2, <1>3, <1>4, <1>5, ScreenState, Moves DEF UseSaved, Free, Reread

\* A request that the owner sends at once, from a screen that waits for nothing.
LEMMA SendsInv ==
  ASSUME Inv, UNCHANGED <<batch, online, shown, intents, save, dialog, stale, chosen>>,
         doing = "nothing", alert' \in BOOLEAN, NEW q \in Requests, Kind(q), q.stage = "sent",
         request' = [request EXCEPT ![Tab] = q],
         \/ q.op = "entry" /\ doing' = "entering" /\ ~dialog
         \/ q.op = "discard" /\ doing' = "discarding" /\ ~dialog
         \/ q.op = "close" /\ doing' = "closing" /\ dialog /\ q.to = Changes(shown)
  PROVE  Inv'
<1>1. BatchTypes' /\ Review' = Review /\ InReview' = InReview /\ ReviewOK(shown)'
  BY SameBatch DEF Inv, ScreenTypes
<1>2. RequestTypes' /\ request'[Tab] = q
  BY DEF Inv, RequestTypes
<1>3. ScreenTypes'
  BY <1>1 DEF Inv, ScreenTypes, IntentsOK, Doings
<1>4. Control'
  BY <1>2 DEF Inv, Control, Changes, DialogDoings
<1>5. Synced'
  BY <1>1, <1>2 DEF Inv, Synced, At
<1>6. Kept'
  BY SameBatch DEF Inv, Kept, batch, Holds
<1> QED BY <1>1, <1>2, <1>3, <1>4, <1>5, <1>6 DEF Inv

\* Entering by hand, confirming the changes, discarding the batch.
LEMMA AtOnceInv ==
  ASSUME Inv, (\E w \in Works : Enter(w)) \/ Confirm \/ Discard
  PROVE  Inv'
<1>1. CASE \E w \in Works : Enter(w)
  <2> PICK w \in Works : Enter(w)
    BY <1>1
  <2>1. Sent("entry", w, Nothing) \in Requests /\ Kind(Sent("entry", w, Nothing))
    BY DEF Sent, Requests, Kind, Nothing
  <2> QED BY <2>1, SendsInv DEF Enter, Free, Request, Sent
<1>2. CASE Discard
  <2>1. Sent("discard", Nothing, Nothing) \in Requests /\ Kind(Sent("discard", Nothing, Nothing))
    BY DEF Sent, Requests, Kind, Nothing
  <2> QED BY <1>2, <2>1, ScreenState, SendsInv DEF Discard, Free, Request, Sent, Rest, History
<1>3. CASE Confirm
  <2> DEFINE q == Sent("close", IF DOMAIN shown.ticked # {} THEN "confirmed" ELSE Nothing,
                       Changes(shown))
  <2>1. Changes(shown) \in Change
    BY ChangesType DEF Inv, ScreenTypes
  <2>2. q \in Requests /\ Kind(q)
    BY <2>1 DEF Sent, Requests, Kind, Nothing
  <2> QED BY <1>3, <2>2, ScreenState, SendsInv DEF Confirm, Request, Sent, Rest, History
<1> QED BY <1>1, <1>2, <1>3

\* The preparation of an apply.
LEMMA PrepareInv ==
  ASSUME Inv, Prepare
  PROVE  Inv'
BY Asks, ScreenState, ScreenMoves DEF Prepare, Free, Rest, History, Doings, Reread

----------------------------------------------------------------------------
(* What goes wrong                                                         *)

\* Review, screen and requests are the same but for the requests of the others.
LEMMA RequestsChange ==
  ASSUME Inv, UNCHANGED <<batch, shown, intents, doing, save, dialog, alert, chosen, stale>>,
         online' \in BOOLEAN, RequestTypes',
         request'[Tab].op = request[Tab].op, request'[Tab].on = request[Tab].on,
         request'[Tab].to = request[Tab].to,
         At(Tab, "close", "planned")' \/ At(Tab, "close", "passed")' => request'[Tab] = request[Tab]
  PROVE  Inv'
<1>1. BatchTypes' /\ Review' = Review
      /\ InReview' = InReview /\ Planned' = Planned /\ ReviewOK(shown)'
  BY SameBatch DEF Inv, ScreenTypes
<1>2. ScreenTypes'
  BY <1>1 DEF Inv, ScreenTypes, IntentsOK
<1>3. Control'
  BY DEF Inv, Control, Changes
<1>4. Synced'
  BY <1>1 DEF Inv, Synced, At
<1>5. Kept'
  BY SameBatch DEF Inv, Kept, batch, Holds
<1> QED BY <1>1, <1>2, <1>3, <1>4, <1>5 DEF Inv

\* An answer is lost; the request may go on without the tab.
LEMMA LoseInv ==
  ASSUME Inv, NEW goesOn \in BOOLEAN, Lose(goesOn)
  PROVE  Inv'
<1> DEFINE lost == [request[Tab] EXCEPT !.stage = "refused", !.read = "LOST"]
<1>1. request[Tab] \in Requests /\ Kind(request[Tab]) /\ request \in [Clients -> Requests]
  BY DEF Inv, RequestTypes
<1>2. lost \in Requests
  BY <1>1, StagedType DEF Codes
<1>3. lost.op = request[Tab].op /\ lost.on = request[Tab].on /\ lost.to = request[Tab].to
      /\ lost.stage = "refused"
  BY <1>1 DEF Requests
<1>4. Kind(lost)
  BY <1>1, <1>3 DEF Kind
<1>5. request' = [request EXCEPT ![Tab] = lost,
                                 ![Late] = IF goesOn THEN request[Tab] ELSE request[Late]]
  BY <1>1 DEF Lose, Requests
<1> HIDE DEF lost
<1>6. request'[Tab] = lost /\ RequestTypes'
  BY <1>1, <1>2, <1>4, <1>5 DEF Inv, RequestTypes
<1> QED BY <1>3, <1>6, ScreenState, RequestsChange DEF Lose, tab, At

\* The connection comes and goes.
LEMMA ConnectionInv ==
  ASSUME Inv, Connection
  PROVE  Inv'
<1>1. RequestTypes'
  BY DEF Connection, Inv, RequestTypes
<1> QED BY <1>1, ScreenState, RequestsChange DEF Connection

\* Another tab asks for something.
LEMMA OtherDecidesInv ==
  ASSUME Inv, OtherDecides
  PROVE  Inv'
<1>1. PICK op, on, to : /\ OtherAsks(op, on, to)
                        /\ Sent(op, on, to) \in Requests /\ Kind(Sent(op, on, to))
  <2>1. DOMAIN cand \subseteq Candidates /\ listed \subseteq Works
    BY DEF Inv, BatchTypes
  <2>2. \A c \in Candidates, want \in Works \cup {"confirmed", "discarded"} :
          Sent("patch", c, want) \in Requests /\ Kind(Sent("patch", c, want))
    BY DEF Sent, Requests, Kind, Nothing, CandWants
  <2>3. \A w \in Works, want \in {"tick", "untick"} :
          Sent("removal", w, want) \in Requests /\ Kind(Sent("removal", w, want))
    BY DEF Sent, Requests, Kind, Nothing, TickWants
  <2>4. \A section \in {"additions", "unmatched", "alreadyOnYourList"} :
          Sent("bulk", section, Nothing) \in Requests /\ Kind(Sent("bulk", section, Nothing))
    BY DEF Sent, Requests, Kind, Nothing, Sections
  <2>5. /\ Sent("discard", Nothing, Nothing) \in Requests /\ Kind(Sent("discard", Nothing, Nothing))
        /\ Sent("close", "confirmed", Nothing) \in Requests
        /\ Kind(Sent("close", "confirmed", Nothing))
    BY DEF Sent, Requests, Kind, Nothing
  <2> QED BY <2>1, <2>2, <2>3, <2>4, <2>5 DEF OtherDecides
<1>2. RequestTypes' /\ request'[Tab] = request[Tab]
  BY <1>1 DEF OtherAsks, Inv, RequestTypes
<1> QED BY <1>1, <1>2, ScreenState, RequestsChange DEF OtherAsks, tab

\* The screen goes, with all but its choices.
LEMMA LeaveInv ==
  ASSUME Inv, Leave
  PROVE  Inv'
<1>1. NoRequest \in Requests /\ Kind(NoRequest) /\ NoRequest.op = "none"
  BY DEF NoRequest, Requests, Kind, Nothing
<1>2. RequestTypes' /\ request'[Tab] = NoRequest
  BY <1>1 DEF Leave, Inv, RequestTypes
<1>3. DOMAIN NothingShown.rows = {} /\ DOMAIN NothingShown.ticked = {}
  BY DEF NothingShown
<1>4. BatchTypes'
  BY SameBatch DEF Inv, Leave
<1>5. ScreenTypes'
  BY <1>3, ScreenState DEF Leave, Inv, ScreenTypes, ReviewOK, IntentsOK, Doings
<1>6. Control'
  BY <1>1, <1>2, ScreenState DEF Leave, Control
<1>7. Synced'
  BY <1>1, <1>2 DEF Leave, Synced, At
<1>8. Kept'
  BY SameBatch DEF Leave, Inv, Kept, batch, Holds
<1> QED BY <1>2, <1>4, <1>5, <1>6, <1>7, <1>8 DEF Inv

----------------------------------------------------------------------------
(* The invariant                                                           *)

\* A review is opened on a batch that has just come to review.
LEMMA InitInv == TabInit => Inv
<1> SUFFICES ASSUME TabInit PROVE Inv
  OBVIOUS
<1>1. PICK b \in Captures : cand = b.cand /\ listed = b.listed
  BY DEF TabInit, ServerInit
<1>2. b \in Capture
  BY CapturesAssumption
<1>3. PICK C \in SUBSET Candidates : cand \in [C -> {r \in Row : r.disp = "pending"}]
  BY <1>1, <1>2 DEF Capture
<1>4. BatchTypes
  BY <1>1, <1>2, <1>3 DEF TabInit, ServerInit, BatchTypes, Capture, NoChange, Change
<1>5. NoRequest \in Requests /\ Kind(NoRequest) /\ NoRequest.op = "none"
  BY DEF NoRequest, Requests, Kind, Nothing
<1>6. RequestTypes
  BY <1>5 DEF TabInit, ServerInit, RequestTypes
<1>7. DOMAIN NothingShown.rows = {} /\ DOMAIN NothingShown.ticked = {}
  BY DEF NothingShown
<1>8. DOMAIN intents = {} /\ DOMAIN chosen = {}
  BY DEF TabInit
<1>9. NotSaving \in SaveType /\ NotSaving.todo \cup NotSaving.group = {}
  BY DEF NotSaving, SaveType, SaveRecord
<1>10. ScreenTypes
  BY <1>7, <1>8, <1>9 DEF TabInit, ScreenTypes, ReviewOK, IntentsOK, Doings
<1>11. Control /\ Synced /\ Kept
  BY <1>5, <1>8, <1>9 DEF TabInit, ServerInit, Control, Synced, Kept, At
<1> QED BY <1>4, <1>6, <1>10, <1>11 DEF Inv

\* Every step keeps the invariant.
LEMMA NextInv == Inv /\ [Next]_vars => Inv'
<1> SUFFICES ASSUME Inv, [Next]_vars PROVE Inv'
  OBVIOUS
<1>1. CASE UNCHANGED vars
  <2>1. UNCHANGED <<batch, request, tab, chosen, stale>>
    BY <1>1 DEF vars
  <2>2. RequestTypes'
    BY <2>1 DEF Inv, RequestTypes
  <2> QED BY <2>1, <2>2, ScreenState, RequestsChange DEF tab, At
<1>2. CASE Owner
  <2>1. ASSUME SaveAgain(DOMAIN intents, FALSE) \/ (\E i \in DOMAIN intents : SaveAgain({i}, TRUE))
        PROVE  Inv'
    BY <2>1, SaveAgainInv
  <2> QED BY <1>2, <2>1, ChoiceInv, UseSavedInv, AtOnceInv, PrepareInv, ScreenInv
          DEF Owner, CandWants, TickWants
<1>3. CASE Screen \/ Open \/ CheckAgain
  BY <1>3, ScreenInv, LookedInv, VerifiedInv DEF Screen
<1>4. CASE \/ Leave \/ (\E goesOn \in BOOLEAN : Lose(goesOn))
           \/ Connection \/ OtherDecides \/ ListChanges \/ ServeTab \/ ServeOthers
  BY <1>4, LeaveInv, LoseInv, ConnectionInv, OtherDecidesInv, ListChangesInv, ServeTabInv,
     ServeOthersInv
<1> QED BY <1>1, <1>2, <1>3, <1>4 DEF Next

\* The invariant holds in every reachable state.
LEMMA InvHolds == Spec => []Inv
BY InitInv, NextInv, PTL DEF Spec

----------------------------------------------------------------------------
(* The theorems                                                            *)

\* Rows, requests and the state of the screen stay in their types; the choices being
\* saved are choices the tab keeps.
THEOREM TypesHold == Spec => []TypeOK
<1>1. Inv => TypeOK
  <2> SUFFICES ASSUME Inv PROVE TypeOK
    OBVIOUS
  <2>1. \A c \in DOMAIN cand : cand[c] \in Row
    BY DEF Inv, BatchTypes
  <2>2. \A i \in DOMAIN intents : intents[i].state \in {"unsaved", "unknown", "conflict"}
    BY DEF Inv, ScreenTypes, IntentsOK, Intent
  <2>3. DOMAIN shown.rows \subseteq Candidates
    BY DEF Inv, ScreenTypes, ReviewOK, BatchTypes
  <2> QED BY <2>1, <2>2, <2>3 DEF Inv, BatchTypes, ScreenTypes, IntentsOK, ReviewOK, Control,
          Doings, TypeOK
<1> QED BY <1>1, InvHolds, PTL

\* ChoicesAreKept for every instance: whatever answers are lost, whichever saves fail
\* or run into a conflict, and however often the owner leaves the screen, a choice is
\* held by the batch before the tab forgets it.
THEOREM NoChoiceIsDropped == Spec => []ChoicesAreKept
<1>1. Inv => ChoicesAreKept
  BY DEF Inv, Kept, ChoicesAreKept
<1> QED BY <1>1, InvHolds, PTL

\* AppliedAsConfirmed for every instance: a close of the tab applies what its dialog
\* named if nobody else has written since the review behind the dialog was read.
THEOREM ClosesApplyTheDialog == Spec => AppliedAsConfirmed
<1> DEFINE A == TabApplies /\ ~stale => ledger' = request[Tab].to
<1>1. Inv /\ [Next]_vars => [A]_vars
  <2> SUFFICES ASSUME Inv, Next, TabApplies, ~stale
               PROVE  ledger' = request[Tab].to
    OBVIOUS
  <2>1. status' # status /\ request'[Tab] # request[Tab] /\ status' = "applied"
    BY DEF TabApplies
  <2>2. ~ServeOthers
    BY <2>1, AnyServed DEF ServeOthers, Served, Inv
  <2>3. ServeTab
    BY <2>1, <2>2 DEF Next, Open, Leave, Owner, Decide, ToggleRemoval, ConfirmAll, Chosen, SaveAgain,
       UseSaved, Enter, Prepare, Cancel, Confirm, Discard, Screen, Loaded, Looked, Written,
       Verified, SaveFails, Entered, Prepared, Closed, CloseRefused, Reconfirmed, CloseUnknown,
       Checked, Discarded, CheckAgain, Lose, Connection, OtherDecides, OtherAsks, ListChanges,
       ListElsewhere, UnlistElsewhere, SuppressElsewhere, Rest, batch
  <2>4. CloseWrite(Tab)
    BY <2>1, <2>3 DEF ServeTab, Serve, PatchGate, PatchWrite, BulkGate, BulkWrite, RemovalGate,
       RemovalWrite, EntryGate, EntryWrite, CloseRead, CloseTicks, ServeDiscard, Pass, RefuseWith, batch
  <2> DEFINE plan == request[Tab].read
             adds == {a \in plan.adds : a[2] \notin suppressed}
  <2>5. InReview /\ ledger' = [adds |-> adds, removes |-> plan.removes]
    BY <2>1, <2>4 DEF CloseWrite, RefuseWith, batch
  <2>6. plan = Changes(Review) /\ request[Tab].to = Changes(shown) /\ shown = Review
    BY <2>4, <2>5 DEF CloseWrite, At, Inv, Control, Synced
  <2>7. \A a \in Changes(Review).adds : a[2] \notin suppressed
    <3>1. ASSUME NEW c \in DOMAIN Review.rows
          PROVE  Review.rows[c].row.work \notin suppressed
      BY <3>1, ReviewType DEF Inv, Visible
    <3> QED BY <3>1 DEF Changes
  <2>8. adds = plan.adds
    BY <2>6, <2>7
  <2>9. Changes(Review) = [adds |-> Changes(Review).adds, removes |-> Changes(Review).removes]
    BY DEF Changes
  <2>10. ledger' = [adds |-> plan.adds, removes |-> plan.removes]
    BY <2>5, <2>8
  <2> QED BY <2>6, <2>9, <2>10
<1> QED BY <1>1, InvHolds, PTL DEF Spec, AppliedAsConfirmed

\* ExplicitStands for every instance: of all that is served, only a request about a
\* candidate takes back an explicit decision on it.
THEOREM DecisionsAreNotTakenBack == Spec => ExplicitStands
<1> DEFINE A == \A c \in DOMAIN cand :
                  cand[c].disp \in {"discarded", "corrected"} /\ cand'[c] # cand[c]
                    => \E k \in Clients : At(k, "patch", "passed") /\ request[k].on = c
<1>1. ASSUME [Next]_vars
      PROVE  [A]_<<batch, request>>
  <2>1. CASE UNCHANGED cand
    BY <2>1
  <2>2. ASSUME NEW k \in Clients, Serve(k)
        PROVE  A
    <3>1. CASE PatchWrite(k)
      BY <3>1 DEF PatchWrite
    <3>2. CASE BulkWrite(k)
      BY <3>2 DEF BulkWrite
    <3>3. CASE EntryWrite(k)
      BY <3>3 DEF EntryWrite
    <3>4. CASE UNCHANGED cand
      BY <3>4
    <3> QED BY <2>2, <3>1, <3>2, <3>3, <3>4 DEF Serve, PatchGate, BulkGate, RemovalGate, RemovalWrite,
            EntryGate, CloseRead, CloseTicks, CloseWrite, ServeDiscard, Pass, RefuseWith, batch
  <2>3. UNCHANGED cand \/ ServeTab \/ ServeOthers
    BY <1>1 DEF Next, Open, Leave, Owner, Decide, ToggleRemoval, ConfirmAll, Chosen, SaveAgain,
       UseSaved, Enter, Prepare, Cancel, Confirm, Discard, Screen, Loaded, Looked, Written,
       Verified, SaveFails, Entered, Prepared, Closed, CloseRefused, Reconfirmed, CloseUnknown,
       Checked, Discarded, CheckAgain, Lose, Connection, OtherDecides, OtherAsks, ListChanges,
       ListElsewhere, UnlistElsewhere, SuppressElsewhere, Rest, batch, vars
  <2> QED BY <2>1, <2>2, <2>3 DEF ServeTab, ServeOthers
<1> QED BY <1>1, PTL DEF Spec, ExplicitStands
=============================================================================
