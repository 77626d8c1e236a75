---------------------------- MODULE ReviewServer ----------------------------
(***************************************************************************)
(* The review of one full-update batch of one service, as the API serves   *)
(* it: what the owner is shown, the decisions he may store, and the close  *)
(* that applies them.                                                      *)
(*                                                                         *)
(* Every request that writes passes its gates first and writes later, with *)
(* no lock in between.  A close reads its candidates and listings, then    *)
(* the ticks, then writes, and only the write looks at the status of the   *)
(* batch.  Removals are not withheld (low yield, a degraded read and an    *)
(* incomplete capture are decided before the review starts), and           *)
(* candidates collapsed into another are left out: no request shows or     *)
(* changes one.                                                            *)
(***************************************************************************)
EXTENDS Naturals, FiniteSets

CONSTANTS Candidates, \* ids of extraction_candidate rows
          Works,      \* works of the catalogue; a work names its listing too
          Unmatched,  \* the identity of a reading TMDB has no work for
          Tiles,      \* the tiles of the screenshots
          Clients,    \* who makes requests: each has one in progress at a time
          Awaited,    \* the clients that read the answers they get
          Captures    \* the batches the review may start with

ASSUME UnmatchedAssumption == Unmatched \notin Works
ASSUME AwaitedAssumption == Awaited \subseteq Clients

VARIABLES status,     \* upload_batch.status
          cand,       \* the candidates of the batch that exist, with their rows
          unticked,   \* listings with a removal_decision row that is not ticked
          listed,     \* works with an active listing on the service
          suppressed, \* works with an active suppression
          ledger,     \* what the close has recorded
          request     \* client -> its request

batch == <<status, cand, unticked, listed, suppressed, ledger>>

Row == [disp : {"pending", "confirmed", "corrected", "discarded"},
        work : Works \cup {Unmatched},
        verdict : {"title", "chrome-suspected", "unreadable-tile"},
        sure : BOOLEAN,          \* no edition, uncertain match or low confidence
        tile : Tiles \cup {"no tile"}]
Change == [adds : SUBSET (Candidates \X (Works \cup {Unmatched})), removes : SUBSET Works]
NoChange == [adds |-> {}, removes |-> {}]

\* Stage 3 has collapsed the readings of one work; every disposition is pending.
Capture ==
  {b \in [cand : UNION {[C -> {r \in Row : r.disp = "pending"}] : C \in SUBSET Candidates},
          listed : SUBSET Works] :
     \A c, d \in DOMAIN b.cand :
        b.cand[c].work = b.cand[d].work => c = d \/ b.cand[c].work = Unmatched}

ASSUME CapturesAssumption == Captures \subseteq Capture

----------------------------------------------------------------------------
(* What the owner is shown                                                 *)

\* A candidate that resolves to a suppressed work is in no section.
Visible == {c \in DOMAIN cand : cand[c].work \notin suppressed}

Section(row) ==
  CASE row.verdict = "unreadable-tile"  -> "unreadableTiles"
    [] row.verdict = "chrome-suspected" -> "probablyNotTitles"
    [] row.work = Unmatched             -> "unmatched"
    [] row.work \in listed              -> "alreadyOnYourList"
    [] OTHER                            -> "additions"

Decidable(c) == c \in Visible /\ Section(cand[c]) \in {"additions", "unmatched"}

\* The active listings no visible candidate resolves to, whatever was decided
\* about the candidate.
Proposed == {w \in listed \ suppressed : \A c \in Visible : cand[c].work # w}

\* Another reading of the same tile that may be a title too.  A reading without a
\* tile that suggests the work of another is left out.
Related(c) ==
  {d \in Visible \ {c} : /\ cand[d].tile = cand[c].tile /\ cand[d].tile # "no tile"
                        /\ cand[d].verdict = "title" /\ cand[d].disp # "discarded"}

\* The owner is to look at this reading by itself.
Individual(c) == ~cand[c].sure \/ Related(c) # {}

Review ==
  [rows |-> [c \in Visible |-> [row |-> cand[c], section |-> Section(cand[c]),
                               alone |-> Individual(c)]],
   ticked |-> [w \in Proposed |-> w \notin unticked]]

\* A review, seen from outside: the candidates that still need a decision, the
\* ones a press on "confirm all" takes, and the changes the owner is told of.
Undecided(review) ==
  {c \in DOMAIN review.rows : /\ review.rows[c].section \in {"additions", "unmatched"}
                              /\ review.rows[c].row.disp = "pending"}

Confirmable(review, section) ==
  {c \in DOMAIN review.rows : /\ review.rows[c].section = section
                              /\ review.rows[c].row.disp = "pending"
                              /\ ~review.rows[c].alone}

Changes(review) ==
  [adds |-> {<<c, review.rows[c].row.work>> :
               c \in {d \in DOMAIN review.rows :
                        /\ review.rows[d].section \in {"additions", "unmatched"}
                        /\ review.rows[d].row.disp \in {"confirmed", "corrected"}}},
   removes |-> {w \in DOMAIN review.ticked : review.ticked[w]}]

----------------------------------------------------------------------------
(* Requests.  on: the candidate, the listing or the section; to: what is   *)
(* asked of it; read: what the gates let through, then the answer          *)

Nothing == "nothing"
NoRequest == [op |-> "none", on |-> Nothing, to |-> Nothing, stage |-> "none", read |-> Nothing]
Sent(op, on, to) == [op |-> op, on |-> on, to |-> to, stage |-> "sent", read |-> Nothing]

At(k, op, stage) == request[k].op = op /\ request[k].stage = stage
Pass(k, read) ==
  /\ request' = [request EXCEPT ![k].stage = "passed", ![k].read = read]
  /\ UNCHANGED batch
Answer(k, stage, read) ==
  request' = [request EXCEPT ![k] = IF k \in Awaited THEN [@ EXCEPT !.stage = stage, !.read = read]
                                                    ELSE NoRequest]
Accept(k) == Answer(k, "ok", Nothing)
RefuseWith(k, code) == Answer(k, "refused", code) /\ UNCHANGED batch

InReview == status = "in-review"

\* PATCH /batches/:id/candidates/:id.  The gates, then a write by id alone.
PatchGate(k) ==
  /\ At(k, "patch", "sent")
  /\ IF InReview /\ request[k].on \in DOMAIN cand /\ request[k].to \notin suppressed
       THEN Pass(k, Nothing)
       ELSE RefuseWith(k, "REFUSED")

Patched(row, to) ==
  CASE to \in Works    -> [row EXCEPT !.disp = "corrected", !.work = to, !.verdict = "title"]
    [] to = "rescue"   -> [row EXCEPT !.disp = "pending", !.verdict = "title"]
    [] OTHER           -> [row EXCEPT !.disp = to]

PatchWrite(k) ==
  /\ At(k, "patch", "passed")
  /\ cand' = [cand EXCEPT ![request[k].on] = Patched(@, request[k].to)]
  /\ Accept(k)
  /\ UNCHANGED <<status, unticked, listed, suppressed, ledger>>

\* POST /batches/:id/candidates/confirm-all.  The ids are read first; the write
\* takes the ones that are still pending.
BulkGate(k) ==
  /\ At(k, "bulk", "sent")
  /\ IF InReview THEN Pass(k, Confirmable(Review, request[k].on))
                 ELSE RefuseWith(k, "BATCH_NOT_IN_REVIEW")

\* Mutant: the write does not look at the disposition again.
BulkWriteBlindly(k) ==
  /\ At(k, "bulk", "passed")
  /\ cand' = [c \in DOMAIN cand |->
                IF c \in request[k].read THEN [cand[c] EXCEPT !.disp = "confirmed"] ELSE cand[c]]
  /\ Accept(k)
  /\ UNCHANGED <<status, unticked, listed, suppressed, ledger>>

BulkWrite(k) ==
  /\ At(k, "bulk", "passed")
  /\ cand' = [c \in DOMAIN cand |->
                IF c \in request[k].read /\ cand[c].disp = "pending"
                  THEN [cand[c] EXCEPT !.disp = "confirmed"] ELSE cand[c]]
  /\ Accept(k)
  /\ UNCHANGED <<status, unticked, listed, suppressed, ledger>>

\* PATCH /batches/:id/removals, with one listing
RemovalGate(k) ==
  /\ At(k, "removal", "sent")
  /\ IF InReview /\ request[k].on \in Proposed THEN Pass(k, Nothing)
                                               ELSE RefuseWith(k, "REFUSED")

RemovalWrite(k) ==
  /\ At(k, "removal", "passed")
  /\ unticked' = IF request[k].to = "untick" THEN unticked \cup {request[k].on}
                                             ELSE unticked \ {request[k].on}
  /\ Accept(k)
  /\ UNCHANGED <<status, cand, listed, suppressed, ledger>>

\* POST /batches/:id/manual-entry
EntryGate(k) ==
  /\ At(k, "entry", "sent")
  /\ IF /\ InReview
        /\ request[k].on \notin suppressed
        /\ \A c \in DOMAIN cand : cand[c].work = request[k].on => cand[c].disp = "discarded"
       THEN Pass(k, Nothing)
       ELSE RefuseWith(k, "REFUSED")

EntryWrite(k) ==
  /\ At(k, "entry", "passed")
  /\ \E c \in Candidates \ DOMAIN cand :
       cand' = [d \in DOMAIN cand \cup {c} |->
                  IF d = c THEN [disp |-> "confirmed", work |-> request[k].on, verdict |-> "title",
                                 sure |-> TRUE, tile |-> "no tile"]
                           ELSE cand[d]]
  /\ Accept(k)
  /\ UNCHANGED <<status, unticked, listed, suppressed, ledger>>

\* POST /batches/:id/close: the candidates and the listings are read, and with them
\* what is proposed for removal ...
CloseRead(k) ==
  /\ At(k, "close", "sent")
  /\ IF \E c \in DOMAIN cand : Decidable(c) /\ cand[c].disp = "pending"
       THEN RefuseWith(k, "PENDING_ADDITIONS")
     ELSE IF Proposed # {} /\ request[k].on # "confirmed"
       THEN RefuseWith(k, "REMOVALS_NOT_CONFIRMED")
     ELSE /\ request' = [request EXCEPT ![k].stage = "planned",
                                      ![k].read = [Changes(Review) EXCEPT !.removes = Proposed]]
          /\ UNCHANGED batch

\* Mutant: the ticks the owner has taken off are not read.
CloseTicksUnread(k) ==
  /\ At(k, "close", "planned")
  /\ Pass(k, request[k].read)

\* ... then which of the proposals the owner has left ticked ...
CloseTicks(k) ==
  /\ At(k, "close", "planned")
  /\ Pass(k, [request[k].read EXCEPT !.removes = @ \ unticked])

\* ... and written here, or rolled back: an addition finds its listing there, a
\* removal does not, or the batch has left review.  A work suppressed since the
\* read is skipped.
CloseWrite(k) ==
  /\ At(k, "close", "passed")
  /\ LET plan  == request[k].read
         adds  == {a \in plan.adds : a[2] \notin suppressed}
         works == {a[2] : a \in adds} \ {Unmatched}
     IN IF InReview /\ works \cap listed = {} /\ plan.removes \subseteq listed
          THEN /\ listed' = (listed \cup works) \ plan.removes
               /\ ledger' = [adds |-> adds, removes |-> plan.removes]
               /\ status' = "applied"
               /\ Accept(k)
               /\ UNCHANGED <<cand, unticked, suppressed>>
          ELSE RefuseWith(k, "FAILED")

\* POST /batches/:id/discard
ServeDiscard(k) ==
  /\ At(k, "discard", "sent")
  /\ IF InReview
       THEN /\ status' = "discarded"
            /\ Accept(k)
            /\ UNCHANGED <<cand, unticked, listed, suppressed, ledger>>
       ELSE RefuseWith(k, "BATCH_NOT_IN_REVIEW")

Serve(k) ==
  \/ PatchGate(k) \/ PatchWrite(k)
  \/ BulkGate(k) \/ BulkWrite(k) \/ RemovalGate(k) \/ RemovalWrite(k)
  \/ EntryGate(k) \/ EntryWrite(k) \/ CloseRead(k) \/ CloseTicks(k) \/ CloseWrite(k)
  \/ ServeDiscard(k)

----------------------------------------------------------------------------
(* The rest of the program changes the owner's list under the review       *)

ListElsewhere(w) ==
  /\ w \notin listed
  /\ listed' = listed \cup {w}
  /\ UNCHANGED <<status, cand, unticked, suppressed, ledger, request>>

UnlistElsewhere(w) ==
  /\ w \in listed
  /\ listed' = listed \ {w}
  /\ UNCHANGED <<status, cand, unticked, suppressed, ledger, request>>

SuppressElsewhere(w) ==
  /\ w \notin suppressed
  /\ suppressed' = suppressed \cup {w}
  /\ UNCHANGED <<status, cand, unticked, listed, ledger, request>>

ServerInit ==
  /\ status = "in-review"
  /\ \E b \in Captures : cand = b.cand /\ listed = b.listed
  /\ unticked = {}
  /\ suppressed = {}
  /\ ledger = NoChange
  /\ request = [k \in Clients |-> NoRequest]

\* An explicit decision, to discard or to correct, is only ever replaced by a
\* request about that candidate: a "confirm all" that read it as pending before
\* another tab decided it does not take it back (confirmPendingCandidates).
ExplicitStands ==
  [][\A c \in DOMAIN cand :
       cand[c].disp \in {"discarded", "corrected"} /\ cand'[c] # cand[c]
         => \E k \in Clients : At(k, "patch", "passed") /\ request[k].on = c]_<<batch, request>>
=============================================================================
