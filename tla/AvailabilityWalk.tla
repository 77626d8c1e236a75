-------------------------- MODULE AvailabilityWalk --------------------------
(***************************************************************************)
(* "Check more titles" and "Re-check everything": the owner taps, each tap *)
(* looks a few rows up, and the position of the walk is a cursor that the  *)
(* page hands back, for the server keeps none.  The rows themselves move   *)
(* under the walk: an answered lookup stamps its row with the time its     *)
(* request began, a failed one leaves the row as it was, and the other     *)
(* lookups (one title's "check now", the refresh of a page that is shown)  *)
(* stamp rows between two taps, or late.                                   *)
(***************************************************************************)
EXTENDS Naturals, FiniteSets

CONSTANTS Rows,       \* ids of Library titles and intents that have a TMDB match
          Pages,      \* open "Availability changes" screens
          Handlers,   \* requests that can be in progress at once
          Batch,      \* AVAILABILITY_CHECK_BATCH
          MaxAge,     \* age from which an answer is stale
          MaxClock,   \* bound: ticks of the clock
          MaxOthers   \* bound: checks that are no part of a walk, requests that
                      \* die, connections that are lost, rows that come or go

ASSUME RowsAssumption == Rows \subseteq Nat \ {0} /\ IsFiniteSet(Rows)
ASSUME BatchAssumption == Batch \in Nat \ {0} /\ MaxAge \in Nat
ASSUME BoundsAssumption == MaxClock \in Nat \ {0} /\ MaxOthers \in Nat

VARIABLES clock,    \* the time; 0 is the stamp of a row that was never checked
          present,  \* rows that are checked: shown, not suppressed
          stamp,    \* row -> availabilityCheckedAt
          page,     \* page -> whether a tap is unanswered, and its walk
          request,  \* handler -> the check it answers
          spent     \* how much of MaxOthers is used

vars == <<clock, present, stamp, page, request, spent>>

----------------------------------------------------------------------------
\* A key is a stamp and a row, rows in the order of their ids.  No key is before
\* Start, the cursor of a walk that has none.
Start == <<0, 0>>
Key(read, r) == <<read[r], r>>

\* Mutant of Before: rows with the same stamp are not told apart.
BeforeByStamp(a, b) == a[1] < b[1]

\* compareKeys.
Before(a, b) == a[1] < b[1] \/ (a[1] = b[1] /\ a[2] < b[2])

\* recheckRemainingRows: what a walk since `since` has left after `after`.
Remaining(read, since, after) ==
  {r \in DOMAIN read : read[r] < since /\ Before(after, Key(read, r))}

\* selectForRecheckAll: the first of them.
Selected(read, since, after) ==
  LET rows == Remaining(read, since, after)
  IN  {r \in rows : Cardinality({q \in rows : Before(Key(read, q), Key(read, r))}) < Batch}

\* The last of a set of rows, and where a walk is that has come to it.
LastOf(read, due, after) ==
  IF due = {} THEN after
  ELSE Key(read, CHOOSE r \in due : \A q \in due : ~Before(Key(read, r), Key(read, q)))

\* isAvailabilityStale.
Stale(r) == stamp[r] = 0 \/ clock - stamp[r] >= MaxAge
StaleRows == {r \in present : Stale(r)}

\* selectForAvailabilityCheck: the oldest, as many as a tap may look up.
Oldest ==
  {S \in SUBSET StaleRows :
     /\ Cardinality(S) <= Batch /\ (S # StaleRows => Cardinality(S) = Batch)
     /\ \A r \in S, q \in StaleRows \ S : stamp[r] <= stamp[q]}

----------------------------------------------------------------------------
\* The screen.  Of its walk, `owed` are the rows that were there when it began and
\* were neither asked about nor written since; `tried` those that a tap asked
\* about and nobody else has written since.  Neither is in the code.
NoWalk == [since |-> 0, after |-> Start, done |-> FALSE, owed |-> {}, tried |-> {}]
Walking(p) == page[p].walk.since # 0

\* A check: of a walk, of the stale rows for a page, or of any others.  It began at
\* `at` and writes the rows `left` one by one, in any order; that of a walk asks
\* about `due`, and tells its page `walk`.
Free == [op |-> "none"]
Doing(h, op) == request[h].op = op
Unasked(at, left) == [op |-> "look", page |-> {}, at |-> at, left |-> left]

Walks == [since : 0..MaxClock, after : (0..MaxClock) \X (Rows \cup {0}), done : BOOLEAN,
          owed : SUBSET Rows, tried : SUBSET Rows]

TypeOK ==
  /\ clock \in 1..MaxClock
  /\ present \subseteq Rows
  /\ stamp \in [Rows -> 0..MaxClock]
  /\ page \in [Pages -> [waits : BOOLEAN, walk : Walks]]
  /\ \A h \in Handlers : \/ Doing(h, "none")
                         \/ /\ request[h].at \in 1..clock
                            /\ request[h].left \subseteq Rows
  /\ spent \in 0..MaxOthers

Init ==
  /\ clock = 1
  /\ present = Rows
  /\ stamp \in [Rows -> {0, 1}]
  /\ page = [p \in Pages |-> [waits |-> FALSE, walk |-> NoWalk]]
  /\ request = [h \in Handlers |-> Free]
  /\ spent = 0

Spend == spent < MaxOthers /\ spent' = spent + 1

----------------------------------------------------------------------------
(* Requests                                                                *)

\* Mutant of Cursor: the last row whose lookup was answered.
CursorOfAnswered(read, due, ok, after) == LastOf(read, ok, after)

\* The last row the tap attempted, by the stamp it had when it was read.
Cursor(read, due, ok, after) == LastOf(read, due, after)

\* Mutant of Done: rows whose lookup failed are left.
DoneWhenAnswered(read, ok, since, cursor) ==
  Remaining([r \in DOMAIN read |-> IF r \in ok THEN clock ELSE read[r]], since, Start) = {}

\* recheckProgress, over what the request read and what it writes itself.
Done(read, ok, since, cursor) ==
  Remaining([r \in DOMAIN read |-> IF r \in ok THEN clock ELSE read[r]], since, cursor) = {}

\* recheckAll, and POST /availability/check for all: the walk goes on from its
\* cursor, or begins now.  What it will answer is settled by what it has read and
\* by the lookups.
Recheck(p, h) ==
  LET walk == IF Walking(p) THEN page[p].walk ELSE [NoWalk EXCEPT !.since = clock, !.owed = present]
      read == [r \in present |-> stamp[r]]
      due  == Selected(read, walk.since, walk.after)
  IN  /\ Doing(h, "none")
      /\ ~page[p].waits /\ ~page[p].walk.done
      /\ page' = [page EXCEPT ![p].waits = TRUE]
      /\ \E ok \in SUBSET due :
           LET cursor == Cursor(read, due, ok, walk.after) IN
           request' = [request EXCEPT ![h] =
             [op |-> "all", page |-> {p}, at |-> clock, due |-> due, left |-> ok,
              walk |-> [since |-> walk.since, after |-> cursor,
                        done  |-> Done(read, ok, walk.since, cursor),
                        owed  |-> walk.owed \ due,
                        tried |-> walk.tried \cup due]]]
      /\ UNCHANGED <<clock, present, stamp, spent>>

\* checkMore, and POST /availability/check for the stale rows, though there be none:
\* the count that enables the button may be old.
CheckMore(p, h) ==
  /\ Doing(h, "none")
  /\ ~page[p].waits
  /\ Spend
  /\ page' = [page EXCEPT ![p].waits = TRUE]
  /\ \E due \in Oldest : \E ok \in SUBSET due :
       request' = [request EXCEPT ![h] =
         [op |-> "stale", page |-> {p}, at |-> clock, left |-> ok]]
  /\ UNCHANGED <<clock, present, stamp>>

\* "Check now" of one row; the refresh of the stale rows on a page that is shown.
Look(h) ==
  /\ Doing(h, "none")
  /\ Spend
  /\ \E due \in SUBSET present :
       /\ Cardinality(due) = 1 \/ due \subseteq StaleRows
       /\ request' = [request EXCEPT ![h] = Unasked(clock, due)]
  /\ UNCHANGED <<clock, present, stamp, page>>

\* updateTitleAvailability, updateWatchIntentAvailability: by id, whatever stamp the
\* row has by now.
WriteOne(h, r) ==
  /\ ~Doing(h, "none")
  /\ r \in request[h].left
  /\ stamp' = [stamp EXCEPT ![r] = request[h].at]
  /\ page' = [p \in Pages |-> [page[p] EXCEPT !.walk.owed = @ \ {r}, !.walk.tried = @ \ {r}]]
  /\ request' = [k \in Handlers |->
       IF k = h THEN IF Doing(h, "all")
                     THEN [request[h] EXCEPT !.left = @ \ {r}, !.walk.owed = @ \ {r}]
                     ELSE [request[h] EXCEPT !.left = @ \ {r}]
       ELSE IF Doing(k, "all")
            THEN [request[k] EXCEPT !.walk.owed = @ \ {r}, !.walk.tried = @ \ {r}]
            ELSE request[k]]
  /\ UNCHANGED <<clock, present, spent>>

Respond(h) ==
  LET q == request[h] IN
  /\ ~Doing(h, "none")
  /\ q.left = {}
  /\ page' = [p \in Pages |->
       IF p \in q.page
       THEN [waits |-> FALSE, walk |-> IF q.op = "all" THEN q.walk ELSE NoWalk]
       ELSE page[p]]
  /\ request' = [request EXCEPT ![h] = Free]
  /\ UNCHANGED <<clock, present, stamp, spent>>

----------------------------------------------------------------------------
(* What else happens                                                       *)

\* A write throws, or the process restarts: the page keeps the walk it had.
Die(h) ==
  /\ ~Doing(h, "none")
  /\ Spend
  /\ page' = [p \in Pages |-> IF p \in request[h].page THEN [page[p] EXCEPT !.waits = FALSE]
                              ELSE page[p]]
  /\ request' = [request EXCEPT ![h] = Free]
  /\ UNCHANGED <<clock, present, stamp>>

\* The connection is lost, or the owner leaves the screen and opens it again: the
\* request goes on, and its answer reaches nobody.
Disconnected(p) ==
  request' = [h \in Handlers |-> IF ~Doing(h, "none") /\ p \in request[h].page
                                 THEN Unasked(request[h].at, request[h].left) ELSE request[h]]

Disconnect(p) ==
  /\ page[p].waits
  /\ Spend
  /\ page' = [page EXCEPT ![p].waits = FALSE]
  /\ Disconnected(p)
  /\ UNCHANGED <<clock, present, stamp>>

Leave(p) ==
  /\ page[p].waits \/ Walking(p)
  /\ Spend
  /\ page' = [page EXCEPT ![p] = [waits |-> FALSE, walk |-> NoWalk]]
  /\ Disconnected(p)
  /\ UNCHANGED <<clock, present, stamp>>

Tick ==
  /\ clock < MaxClock
  /\ clock' = clock + 1
  /\ UNCHANGED <<present, stamp, page, request, spent>>

\* A title is listed again, an intent opens, a suppression is lifted.
Come(r) ==
  /\ r \notin present
  /\ Spend
  /\ present' = present \cup {r}
  /\ UNCHANGED <<clock, stamp, page, request>>

\* The opposite; no walk owes the row any more.
Go(r) ==
  /\ r \in present
  /\ Spend
  /\ present' = present \ {r}
  /\ page' = [p \in Pages |-> [page[p] EXCEPT !.walk.owed = @ \ {r}]]
  /\ request' = [h \in Handlers |->
       IF Doing(h, "all") THEN [request[h] EXCEPT !.walk.owed = @ \ {r}] ELSE request[h]]
  /\ UNCHANGED <<clock, stamp>>

Next ==
  \/ \E h \in Handlers :
       \/ Look(h) \/ Respond(h) \/ Die(h)
       \/ \E r \in Rows : WriteOne(h, r)
       \/ \E p \in Pages : Recheck(p, h) \/ CheckMore(p, h)
  \/ \E p \in Pages : Disconnect(p) \/ Leave(p)
  \/ \E r \in Rows : Come(r) \/ Go(r)
  \/ Tick

Spec == Init /\ [][Next]_vars

\* A request goes on: its lookups and writes answer or fail.  An owner who has begun
\* a walk taps "Continue" whenever the screen lets her, in the end.
GoesOn(p, h) == Walking(p) /\ Recheck(p, h)
FairSpec ==
  /\ Spec
  /\ \A h \in Handlers : WF_vars(Respond(h) \/ \E r \in Rows : WriteOne(h, r))
  /\ \A p \in Pages : SF_vars(\E h \in Handlers : GoesOn(p, h))

----------------------------------------------------------------------------
(* Properties                                                              *)

\* A walk that says it has looked at everything has: every row that was there when
\* it began, and is still, was asked about by it, or answered to somebody since, or
\* had an answer of that very moment.
WalkCoversAll ==
  \A p \in Pages : page[p].walk.done => \A r \in page[p].walk.owed : stamp[r] >= page[p].walk.since

\* A row is asked about once in a walk: one whose lookup failed is not the first
\* pick of every later tap, and one that was answered is not asked about again,
\* unless another request has written it in between.
AsksOnce ==
  [][\A h \in Handlers : Doing(h, "none") /\ request'[h].op = "all" =>
       \A p \in request'[h].page : request'[h].due \cap page[p].walk.tried = {}]_vars

\* A walk comes to its end, if the owner goes on with it, though every lookup fail.
WalkEnds ==
  \A p \in Pages : Walking(p) /\ ~page[p].walk.done ~> ~Walking(p) \/ page[p].walk.done
=============================================================================
