---------------------------- MODULE WatchIntents ----------------------------
(***************************************************************************)
(* Where one work is shown: in the Library, in the view of what the owner  *)
(* is waiting for, or in neither.  Every query of the code here is by work *)
(* identity, so one work is enough.                                        *)
(*                                                                         *)
(* A watch intent opens when a storefront batch or an auto-detect batch is *)
(* closed, when the owner adds the work to the waiting view, or moves it   *)
(* there from the Library; it is satisfied by the requests that list the   *)
(* work.  A request passes its gates first (Read) and writes later; the    *)
(* writes of a transaction, with the reads it decides by, are one action.  *)
(* Restore and unhide have no transaction.                                 *)
(***************************************************************************)
EXTENDS Naturals, Sequences, FiniteSets, SequencesExt

CONSTANTS Services,    \* streaming services
          Handlers,    \* requests that can be in progress at once
          Asked,       \* the kinds of request that are made
          BlindAlone,  \* TRUE: a request whose writes look at nothing again is
                       \* made only when no other is in progress
          MixedRoutes, \* TRUE: an auto-detect batch may send two readings of the
                       \* work to different destinations
          MaxTitles,   \* bound: titles of the work
          MaxListings, \* bound: times a title is given listings
          MaxIntents   \* bound: intents of the work

ASSUME AskedAssumption ==
  Asked \subseteq {"wait", "track", "discover", "auto", "close", "absent", "undoGroup",
                   "add", "promote", "move", "drop", "restore", "hide", "suppress"}
ASSUME RoutesAssumption == MixedRoutes \in BOOLEAN
ASSUME BlindAssumption == BlindAlone \in BOOLEAN
ASSUME BoundsAssumption == MaxTitles \in Nat /\ MaxListings \in Nat /\ MaxIntents \in Nat

VARIABLES titles,     \* titles of the work, oldest first, with their listings
          intents,    \* its watch_intent rows
          hidden,     \* watch_preference.library_hidden
          suppressed, \* the work has an active suppression
          handler     \* handler -> what its request has read and intends

vars == <<titles, intents, hidden, suppressed, handler>>

----------------------------------------------------------------------------
\* A listing of a title: its service, and when the title was given it.
Listing == Services \X Nat

\* A title's listings: active, removed by hand, and held by the removal group of a
\* full update.  made: the times it was given listings; ack: its duplicateAckSeq is
\* its own.
Title == [state : {"active", "removed"}, on : SUBSET Listing, off : SUBSET Listing,
          held : SUBSET Listing, made : Nat, ack : BOOLEAN]
Intent == [title : 1..MaxTitles, state : {"waiting", "satisfied"}]

\* A destination is the services of an auto-detect title, {} being Waiting.
Destinations == SUBSET Services
Routes ==
  {<<d>> : d \in Destinations}
  \cup {r \in Destinations \X Destinations : MixedRoutes \/ (r[1] = {} <=> r[2] = {})}

Idle == [op |-> "none"]
Places == [title : 1..MaxTitles, listings : SUBSET Listing]
Request ==
  {Idle}
  \cup [op : {"wait", "discover", "discard", "hide", "unhide", "unhidden", "graduate"}]
  \cup [op : {"auto"}, route : Routes]
  \cup [op : {"close", "add", "promote"}, services : SUBSET Services]
  \cup [op : {"move", "drop", "absent", "undoGroup"}, at : Places]
  \cup [op : {"restore", "restored"}, at : Places, duplicate : BOOLEAN]

TypeOK ==
  /\ Len(titles) <= MaxTitles /\ \A i \in DOMAIN titles : titles[i] \in Title
  /\ Len(intents) <= MaxIntents /\ \A i \in DOMAIN intents : intents[i] \in Intent
  /\ hidden \in BOOLEAN
  /\ suppressed \in BOOLEAN
  /\ handler \in [Handlers -> Request]

Init ==
  /\ titles = <<>>
  /\ intents = <<>>
  /\ hidden = FALSE
  /\ suppressed = FALSE
  /\ handler = [h \in Handlers |-> Idle]

----------------------------------------------------------------------------
(* Reads                                                                   *)

\* The services a title is listed on.
On(t) == {l[1] : l \in t.on}

Active(ts) == {i \in DOMAIN ts : ts[i].state = "active"}
\* listListedWorkIdentities: any active listing, whatever its title's state.
Listed == \E i \in DOMAIN titles : titles[i].on # {}
Visible == Listed /\ ~hidden
\* listWaitingWorkIdentities.
Waiting == {i \in DOMAIN intents : intents[i].state = "waiting"}

\* GET /titles, and GET /waiting: an intent is not shown while the work is
\* listed, unless it is set aside.
Library ==
  /\ ~hidden /\ ~suppressed
  /\ \E i \in Active(titles) : titles[i].on # {}
WaitingView == Waiting # {} /\ ~Visible
Shown == Library \/ WaitingView

----------------------------------------------------------------------------
(* Writes                                                                  *)

\* title_one_active_per_work and ux_intent_owner_title_waiting.
IndexesHold(ts, is) ==
  /\ Cardinality({i \in Active(ts) : ~ts[i].ack}) <= 1
  /\ \A i, j \in DOMAIN is :
       is[i].state = "waiting" /\ is[j].state = "waiting" /\ is[i].title = is[j].title => i = j

Store(ts, is) ==
  /\ IndexesHold(ts, is)
  /\ Len(ts) <= MaxTitles /\ Len(is) <= MaxIntents
  /\ \A i \in DOMAIN ts : ts[i].made <= MaxListings
  /\ titles' = ts
  /\ intents' = is

New(state) ==
  [state |-> state, on |-> {}, off |-> {}, held |-> {}, made |-> 0, ack |-> FALSE]

\* findTitleByWorkIdentity and its use: the newest title if it is active, or a
\* new one.
Homed(ts) == IF ts # <<>> /\ Last(ts).state = "active" THEN ts ELSE Append(ts, New("active"))
\* For an intent: the newest title as it stands, or a new one, removed and bare.
Housed(ts) == IF ts # <<>> THEN ts ELSE Append(ts, New("removed"))

\* Mutant of Satisfied: the intents of the listed title, not of the work.
SatisfiedHere(is) ==
  [i \in DOMAIN is |-> IF is[i].title = Len(Homed(titles)) THEN [is[i] EXCEPT !.state = "satisfied"]
                       ELSE is[i]]

\* satisfyWaitingIntents.
Satisfied(is) == [i \in DOMAIN is |-> [is[i] EXCEPT !.state = "satisfied"]]

\* createWatchIntent, on the newest title.
Opened(is, title) == Append(is, [title |-> title, state |-> "waiting"])

\* deriveTitleState.
Rederived(t) == [t EXCEPT !.state = IF t.on = {} THEN "removed" ELSE "active"]

\* createServiceListing: a new row on each of the services.
Added(t, services) ==
  IF services = {} THEN t
  ELSE [t EXCEPT !.on = @ \cup (services \X {t.made + 1}), !.made = @ + 1]

\* softDeleteServiceListing, by hand and for a group; restoreServiceListing of
\* either.
ToOff(t, ls)    == [t EXCEPT !.on = @ \ ls, !.off = @ \cup ls]
ToHeld(t, ls)   == [t EXCEPT !.on = @ \ ls, !.held = @ \cup ls]
FromOff(t, ls)  == [t EXCEPT !.on = @ \cup ls, !.off = @ \ ls]
FromHeld(t, ls) == [t EXCEPT !.on = @ \cup ls, !.held = @ \ ls]

\* listing_one_per_service: a listing can come back.
Free(t, ls) == On(t) \cap {l[1] : l \in ls} = {}

\* Restores and the setting aside of a work write what they were let in for,
\* whatever was written since.
Blind == {"restore", "restored", "hide", "unhide", "graduate"}

Doing(h, op) == handler[h].op = op
Answer(h) == handler' = [handler EXCEPT ![h] = Idle]
Ask(h, kind, request) ==
  /\ Doing(h, "none")
  /\ kind \in Asked
  /\ BlindAlone => \A k \in Handlers :
       handler[k].op \notin Blind /\ (request.op \in Blind => Doing(k, "none"))
  /\ handler' = [handler EXCEPT ![h] = request]
  /\ UNCHANGED <<titles, intents, hidden, suppressed>>

----------------------------------------------------------------------------
(* Opening an intent                                                       *)

\* POST /waiting, and POST /titles for the waiting view.
WaitRead(h) == ~suppressed /\ Ask(h, "wait", [op |-> "wait"])

\* POST /titles/:titleId/new-season-tracking, with a dated season.
TrackRead(h) ==
  /\ titles # <<>>
  /\ ~Visible /\ ~suppressed /\ Waiting = {}
  /\ Ask(h, "track", [op |-> "wait"])

\* addSearchWaitingIntent.
WaitWrite(h) ==
  /\ Doing(h, "wait")
  /\ ~Visible /\ Waiting = {}
  /\ Store(Housed(titles), Opened(intents, Len(Housed(titles))))
  /\ Answer(h)
  /\ UNCHANGED <<hidden, suppressed>>

\* A storefront batch in review has the work, confirmed or discarded.
DiscoverRead(h) ==
  /\ ~suppressed
  /\ \E op \in {"discover", "discard"} : Ask(h, "discover", [op |-> op])

\* closeDiscoveryBatch: an intent, and never a listing.
DiscoverWrite(h) ==
  /\ Doing(h, "discover")
  /\ ~Listed /\ Waiting = {} /\ ~suppressed
  /\ Store(Housed(titles), Opened(intents, Len(Housed(titles))))
  /\ Answer(h)
  /\ UNCHANGED <<hidden, suppressed>>

\* closeDiscoveryBatch: a discard suppresses the work.
DiscardWrite(h) ==
  /\ Doing(h, "discard")
  /\ suppressed' = TRUE
  /\ Answer(h)
  /\ UNCHANGED <<titles, intents, hidden>>

MoveRead(h, i) ==
  /\ ~suppressed
  /\ titles[i].on # {}
  /\ Ask(h, "move", [op |-> "move", at |-> [title |-> i, listings |-> titles[i].on]])

\* The title at p.title once the listings p names, those that are active still, are
\* removed by hand.
Dropped(p) ==
  [titles EXCEPT ![p.title] = Rederived(ToOff(@, p.listings \cap @.on))]

\* Mutants of MoveWrite: the work's other intents are not looked at; the
\* listings go and no intent opens.
MoveWriteAgain(h) ==
  /\ Doing(h, "move")
  /\ Store(Dropped(handler[h].at), Opened(intents, handler[h].at.title))
  /\ Answer(h)
  /\ UNCHANGED <<hidden, suppressed>>
MoveWriteBare(h) ==
  /\ Doing(h, "move")
  /\ Store(Dropped(handler[h].at), intents)
  /\ Answer(h)
  /\ UNCHANGED <<hidden, suppressed>>

\* moveTitleToWaiting: a work that is waiting already keeps its intent.
MoveWrite(h) ==
  /\ Doing(h, "move")
  /\ Store(Dropped(handler[h].at),
           IF Waiting = {} THEN Opened(intents, handler[h].at.title) ELSE intents)
  /\ Answer(h)
  /\ UNCHANGED <<hidden, suppressed>>

----------------------------------------------------------------------------
(* Listing the work                                                        *)

\* The work is listed on the services as well, on its home title; all of its
\* intents are satisfied.  An index stops a second listing on a service.
List(services) ==
  LET ts == Homed(titles) IN
  /\ services \cap On(Last(ts)) = {}
  /\ Store([ts EXCEPT ![Len(ts)] = Added(@, services)], Satisfied(intents))

\* The close of a service batch that has read the work, not offered in review if
\* its service shows it already.
CloseRead(h, s) ==
  /\ ~suppressed
  /\ \A i \in DOMAIN titles : s \notin On(titles[i])
  /\ Ask(h, "close", [op |-> "close", services |-> {s}])

CloseWrite(h) ==
  /\ Doing(h, "close")
  /\ ~suppressed
  /\ List(handler[h].services)
  /\ Answer(h)
  /\ UNCHANGED <<hidden, suppressed>>

\* POST /titles.
AddRead(h, services) ==
  /\ services # {}
  /\ ~suppressed
  /\ Ask(h, "add", [op |-> "add", services |-> services])

AddWrite(h) ==
  LET wanted == handler[h].services \ On(Last(Homed(titles))) IN
  /\ Doing(h, "add")
  /\ wanted # {}
  /\ List(wanted)
  /\ Answer(h)
  /\ UNCHANGED <<hidden, suppressed>>

\* POST /waiting/:intentId/promote.
PromoteRead(h, s) ==
  /\ Waiting # {}
  /\ ~suppressed
  /\ Ask(h, "promote", [op |-> "promote", services |-> {s}])

PromoteWrite(h) ==
  /\ Doing(h, "promote")
  /\ List(handler[h].services)
  /\ hidden' = FALSE
  /\ Answer(h)
  /\ UNCHANGED suppressed

----------------------------------------------------------------------------
(* The close of an auto-detect batch: each reading of the work goes where  *)
(* its destination says.  `seen` is the title an earlier reading of this   *)
(* close was given, 0 if none was.                                         *)

Before == [titles |-> titles, intents |-> intents, seen |-> 0,
           listed |-> Listed, waiting |-> Waiting # {}, lists |-> FALSE]

ToWaiting(acc) ==
  IF acc.seen # 0 \/ acc.listed \/ acc.waiting THEN acc
  ELSE LET ts == Housed(acc.titles) IN
       [acc EXCEPT !.titles = ts, !.intents = Opened(@, Len(ts)), !.seen = Len(ts),
                   !.waiting = TRUE]

\* A listing that is active already is passed over.
ToServices(acc, services) ==
  LET ts == IF acc.seen # 0 THEN acc.titles ELSE Homed(acc.titles)
      i  == IF acc.seen # 0 THEN acc.seen ELSE Len(ts)
  IN  [acc EXCEPT !.titles = [ts EXCEPT ![i] = Added(@, services \ On(@))], !.seen = i,
                  !.listed = TRUE, !.lists = TRUE]

Place(acc, d) == IF d = {} THEN ToWaiting(acc) ELSE ToServices(acc, d)

\* The readings in their order; a route has one or two.
Placed(route) ==
  LET first == Place(Before, route[1]) IN
  IF Len(route) = 1 THEN first ELSE Place(first, route[2])

\* Mutant of Graduated: the readings sent to the waiting view count as placed.
GraduatedAlways(acc) == Satisfied(acc.intents)

Graduated(acc) == IF acc.lists THEN Satisfied(acc.intents) ELSE acc.intents

AutoRead(h, route) == ~suppressed /\ Ask(h, "auto", [op |-> "auto", route |-> route])

AutoWrite(h) ==
  /\ Doing(h, "auto")
  /\ ~suppressed
  /\ LET placed == Placed(handler[h].route) IN Store(placed.titles, Graduated(placed))
  /\ Answer(h)
  /\ UNCHANGED <<hidden, suppressed>>

----------------------------------------------------------------------------
(* Removals and their undoing                                              *)

\* DELETE /listings/:listingId, and DELETE /titles/:titleId for all of a title.
DropRead(h, i, ls) ==
  /\ ~suppressed
  /\ ls # {} /\ ls \subseteq titles[i].on
  /\ Cardinality(ls) = 1 \/ ls = titles[i].on
  /\ Ask(h, "drop", [op |-> "drop", at |-> [title |-> i, listings |-> ls]])

DropWrite(h) ==
  /\ Doing(h, "drop")
  /\ Store(Dropped(handler[h].at), intents)
  /\ Answer(h)
  /\ UNCHANGED <<hidden, suppressed>>

\* A full update of a service that has not read the work.
AbsentRead(h, i, l) ==
  /\ ~suppressed
  /\ l \in titles[i].on
  /\ Ask(h, "absent", [op |-> "absent", at |-> [title |-> i, listings |-> {l}]])

AbsentWrite(h) ==
  LET p == handler[h].at IN
  /\ Doing(h, "absent")
  /\ p.listings \subseteq titles[p.title].on
  /\ Store([titles EXCEPT ![p.title] = Rederived(ToHeld(@, p.listings))], intents)
  /\ Answer(h)
  /\ UNCHANGED <<hidden, suppressed>>

\* POST /removal-groups/:groupId/undo: no intent is looked at.  A group that was
\* undone while the work was suppressed, and so put nothing back, may be undone
\* again here.
UndoGroupRead(h, i, l) ==
  /\ ~suppressed
  /\ l \in titles[i].held
  /\ Ask(h, "undoGroup", [op |-> "undoGroup", at |-> [title |-> i, listings |-> {l}]])

UndoGroupWrite(h) ==
  LET p == handler[h].at IN
  /\ Doing(h, "undoGroup")
  /\ p.listings \subseteq titles[p.title].held /\ Free(titles[p.title], p.listings)
  /\ Store([titles EXCEPT ![p.title] = Rederived(FromHeld(@, p.listings))], intents)
  /\ Answer(h)
  /\ UNCHANGED <<hidden, suppressed>>

\* POST /listings/:listingId/restore: the listing, the title, the intents.  The
\* listing was removed by hand or is held by a group.
RestoreRead(h, i, l, confirmDuplicate) ==
  /\ l \in titles[i].off \cup titles[i].held
  /\ ~suppressed
  /\ \A j \in Active(titles) :
       (\A k \in Active(titles) : j <= k) => j = i \/ confirmDuplicate
  /\ Ask(h, "restore", [op |-> "restore", at |-> [title |-> i, listings |-> {l}],
                        duplicate |-> Active(titles) # {}])

RestoreListing(h) ==
  LET p == handler[h].at IN
  /\ Doing(h, "restore")
  /\ Free(titles[p.title], p.listings)
  /\ \/ /\ p.listings \subseteq titles[p.title].off
        /\ Store([titles EXCEPT ![p.title] = FromOff(@, p.listings)], intents)
     \/ /\ p.listings \subseteq titles[p.title].held
        /\ Store([titles EXCEPT ![p.title] = FromHeld(@, p.listings)], intents)
  /\ handler' = [handler EXCEPT ![h].op = "restored"]
  /\ UNCHANGED <<hidden, suppressed>>

\* The title as its listings have it, apart from its active twin if it has one.
Settled(t, duplicate) == [Rederived(t) EXCEPT !.ack = @ \/ duplicate]

RestoreTitle(h) ==
  LET p == handler[h].at IN
  /\ Doing(h, "restored")
  /\ Store([titles EXCEPT ![p.title] = Settled(@, handler[h].duplicate)], intents)
  /\ handler' = [handler EXCEPT ![h] = [op |-> "graduate"]]
  /\ UNCHANGED <<hidden, suppressed>>

----------------------------------------------------------------------------
(* Setting a finished work aside, and suppressing it                       *)

HideRead(h, i, hide) ==
  /\ titles[i].state = "active"
  /\ IF hide THEN Visible ELSE Listed
  /\ Ask(h, "hide", [op |-> IF hide THEN "hide" ELSE "unhide"])

HideWrite(h) ==
  /\ Doing(h, "hide")
  /\ hidden' = TRUE
  /\ Answer(h)
  /\ UNCHANGED <<titles, intents, suppressed>>

UnhideWrite(h) ==
  /\ Doing(h, "unhide")
  /\ hidden' = FALSE
  /\ handler' = [handler EXCEPT ![h] = [op |-> "graduate"]]
  /\ UNCHANGED <<titles, intents, suppressed>>

\* The last statement of a restore and of a return to the Library.
Graduate(h) ==
  /\ Doing(h, "graduate")
  /\ Store(titles, Satisfied(intents))
  /\ Answer(h)
  /\ UNCHANGED <<hidden, suppressed>>

Suppress(h) ==
  /\ Doing(h, "none")
  /\ "suppress" \in Asked
  /\ titles # <<>>
  /\ ~suppressed
  /\ suppressed' = TRUE
  /\ UNCHANGED <<titles, intents, hidden, handler>>

Unsuppress(h) ==
  /\ Doing(h, "none")
  /\ "suppress" \in Asked
  /\ suppressed
  /\ suppressed' = FALSE
  /\ UNCHANGED <<titles, intents, hidden, handler>>

\* A request that has written nothing ends: refused, rolled back or lost.
Refuse(h) ==
  /\ handler[h].op \notin {"none", "restored", "graduate"}
  /\ Answer(h)
  /\ UNCHANGED <<titles, intents, hidden, suppressed>>

----------------------------------------------------------------------------
Read(h) ==
  \/ WaitRead(h) \/ TrackRead(h) \/ DiscoverRead(h)
  \/ \E route \in Routes : AutoRead(h, route)
  \/ \E services \in SUBSET Services : AddRead(h, services)
  \/ \E s \in Services : CloseRead(h, s) \/ PromoteRead(h, s)
  \/ \E i \in DOMAIN titles :
       \/ MoveRead(h, i)
       \/ \E hide \in BOOLEAN : HideRead(h, i, hide)
       \/ \E ls \in SUBSET titles[i].on : DropRead(h, i, ls)
       \/ \E l \in titles[i].on \cup titles[i].off \cup titles[i].held :
            \/ AbsentRead(h, i, l) \/ UndoGroupRead(h, i, l)
            \/ \E confirmDuplicate \in BOOLEAN : RestoreRead(h, i, l, confirmDuplicate)

Write(h) ==
  \/ WaitWrite(h) \/ DiscoverWrite(h) \/ DiscardWrite(h) \/ MoveWrite(h)
  \/ CloseWrite(h) \/ AddWrite(h) \/ PromoteWrite(h) \/ AutoWrite(h)
  \/ DropWrite(h) \/ AbsentWrite(h) \/ UndoGroupWrite(h)
  \/ RestoreListing(h) \/ RestoreTitle(h)
  \/ HideWrite(h) \/ UnhideWrite(h) \/ Graduate(h)

Next ==
  \E h \in Handlers : Read(h) \/ Write(h) \/ Suppress(h) \/ Unsuppress(h) \/ Refuse(h)

Spec == Init /\ [][Next]_vars

----------------------------------------------------------------------------
(* Properties                                                              *)

\* The work is waited for at most once, whichever titles of it the intents hang
\* on: the index sees two intents of one title only.
OneIntentPerWork == Cardinality(Waiting) <= 1

\* A title is in the Library exactly while it has a listing, but for a restore
\* under way: the removed titles that intents are opened on stay bare until a
\* write that lists the work makes them, or a new title, active.
TitlesFollowListings ==
  \A i \in DOMAIN titles :
    \/ titles[i].state = "active" <=> titles[i].on # {}
    \/ \E h \in Handlers : Doing(h, "restored") /\ handler[h].at.title = i

\* An intent ends only in a step that leaves the work in the Library, listed on
\* an active title; and the close, add or promotion that lists the work ends every
\* intent of it, the ones on the work's older titles included.
GraduatesWithListing ==
  [][/\ (\E i \in Waiting : intents'[i].state = "satisfied")
          => \E j \in Active(titles)' : titles'[j].on # {}
     /\ \A h \in Handlers :
          /\ handler[h].op \in {"auto", "close", "add", "promote"}
          /\ handler'[h] = Idle
          /\ \E j \in DOMAIN titles' :
               titles'[j].on # IF j \in DOMAIN titles THEN titles[j].on ELSE {}
          => Waiting' = {}]_vars

Restoring == \E h \in Handlers : Doing(h, "restored")

\* A work in the Library or in the waiting view, and not set aside, leaves both
\* only when the owner takes it off, sets it aside or suppresses it, or a full
\* update has not found it; no close, add, move or restore loses it on the way
\* from one to the other.  Between the first two statements of its restore it is
\* in neither.
NothingVanishes ==
  [][(Shown \/ Restoring) /\ ~hidden /\ ~(Shown \/ Restoring)' /\ ~suppressed'
       => \E h \in Handlers : /\ handler[h].op \in {"drop", "absent", "hide"}
                              /\ handler'[h] = Idle]_vars

\* A request that writes a listing or an intent for a work that is not set aside
\* ends with the work where the owner sees it, whatever else was written since
\* the request was let in.
PlacedIsShown ==
  [][\A h \in Handlers :
       /\ handler[h].op \in {"wait", "discover", "auto", "close", "add", "promote", "move"}
       /\ handler'[h] = Idle
       /\ titles' # titles \/ intents' # intents
       => Shown' \/ hidden' \/ suppressed']_vars
=============================================================================
