----------------------------- MODULE ReviewTab -----------------------------
(***************************************************************************)
(* One browser tab on the review screen, against the API of ReviewServer.  *)
(*                                                                         *)
(* A choice is kept in the tab as an intent until a review read after the  *)
(* write shows it; a choice whose write is not verified stays there, and   *)
(* nothing is retried unless the owner asks.  Apply reads the review again *)
(* and shows what will change, and only the owner's answer to that dialog  *)
(* sends the close.  Intents live in sessionStorage: they outlive the      *)
(* screen, whose other state starts again when the owner comes back.       *)
(*                                                                         *)
(* An answer may be lost, or the owner may leave while a request is in     *)
(* progress: the request goes on as the client Late, or never arrived.     *)
(* Other is another tab or device, and the owner's list may change too.    *)
(***************************************************************************)
EXTENDS ReviewServer

CONSTANTS Tab, Late, Other, \* the clients
          Elsewhere,        \* what others may do: "list", "unlist", "suppress", "decide", "finish"
          Budgets,          \* bounds, as pairs: choices and entries made in the tab, and
                            \* answers lost, leavings, disconnections and acts of others
          Offline           \* TRUE: the connection may go

ASSUME ClientsAssumption ==
  /\ Clients = {Tab, Late, Other} /\ Tab # Late /\ Tab # Other /\ Late # Other
  /\ Awaited = {Tab}
ASSUME NamesAssumption ==
  /\ Candidates \cap Works = {}
  /\ Works \cap {"tick", "untick", "rescue", "confirmed", "discarded"} = {}
ASSUME TabBounds == Budgets \subseteq [choices : Nat, troubles : Nat]

VARIABLES online,  \* navigator.onLine
          shown,   \* the review on screen
          intents, \* item -> the choice that is not yet verified
          doing,   \* what the screen is waiting for (the refs writing and closing)
          save,    \* the save in progress: what is left, the group at hand, its step
          dialog,  \* the confirmation of the changes is open
          alert,   \* decisionError is shown
          left,    \* how often each bounded thing may still happen
          chosen,  \* history: item -> the owner's last choice, unless given up or overruled
          stale    \* history: others have written since the review on screen was read

tab == <<online, shown, intents, doing, save, dialog, alert>>
vars == <<batch, request, tab, left, chosen, stale>>

Items == Candidates \cup Works
NotSaving == [todo |-> {}, group |-> {}, step |-> "none", mine |-> FALSE]
NothingShown == [rows |-> <<>>, ticked |-> <<>>]

TabInit ==
  /\ ServerInit
  /\ online = TRUE
  /\ shown = NothingShown
  /\ intents = <<>>
  /\ doing = "away"
  /\ save = NotSaving
  /\ dialog = FALSE
  /\ alert = FALSE
  /\ left \in Budgets
  /\ chosen = <<>>
  /\ stale = TRUE

----------------------------------------------------------------------------
(* useReviewDecisions: what an intent is compared with                     *)

InReviewed(review, i) == i \in DOMAIN review.rows \cup DOMAIN review.ticked

\* {} when the item is missing from the review.
Fingerprint(review, i) ==
  IF i \in DOMAIN review.rows THEN {review.rows[i].row}
  ELSE IF i \in DOMAIN review.ticked THEN {review.ticked[i]} ELSE {}

Identity(review, i) ==
  IF i \in DOMAIN review.rows THEN review.rows[i].row.work ELSE Nothing

Satisfied(review, i, intent) ==
  /\ InReviewed(review, i)
  /\ LET row == review.rows[i].row
     IN CASE intent.want = "tick"   -> review.ticked[i]
          [] intent.want = "untick" -> ~review.ticked[i]
          [] intent.want = "rescue" -> row.verdict = "title"
          [] intent.want \in Works  -> row.disp = "corrected" /\ row.work = intent.want
          [] OTHER                  -> row.disp = intent.want /\ row.work = intent.work

Without(f, S) == [x \in DOMAIN f \ S |-> f[x]]
With(f, new) == [x \in DOMAIN f \cup DOMAIN new |-> IF x \in DOMAIN new THEN new[x] ELSE f[x]]

----------------------------------------------------------------------------
(* What is waited for                                                      *)

Answered(op) == At(Tab, op, "ok")
Failed == request[Tab].stage = "refused"

\* A read is served and its answer handled in one step: what others do between
\* the two is as if done after.
GotReview == At(Tab, "review", "sent") /\ InReview
NotInReview == At(Tab, "review", "sent") /\ ~InReview
NoReview == NotInReview \/ At(Tab, "review", "refused")
GotStatus == At(Tab, "status", "sent")
Free == doing = "nothing" /\ ~dialog

Request(op, on, to) == request' = [request EXCEPT ![Tab] = Sent(op, on, to)]
Quiet == request' = [request EXCEPT ![Tab] = NoRequest]

\* refresh(): the review read is the one on screen.
Refreshed == shown' = Review /\ alert' = FALSE /\ stale' = FALSE
NotRefreshed == UNCHANGED <<shown, alert, stale>>

History == <<left, chosen, stale>>
Rest == <<batch, History>>

----------------------------------------------------------------------------
(* Loading the screen                                                      *)

Open ==
  /\ doing = "away"
  /\ doing' = "loading"
  /\ Request("review", Nothing, Nothing)
  /\ UNCHANGED <<online, shown, intents, save, dialog, alert, Rest>>

Loaded ==
  /\ doing = "loading"
  /\ \/ GotReview /\ Refreshed /\ doing' = "nothing"
     \/ NotInReview /\ NotRefreshed /\ doing' = "gone"
     \/ Failed /\ NotRefreshed /\ doing' = "away"
  /\ Quiet
  /\ UNCHANGED <<online, intents, save, dialog, batch, left, chosen>>

\* The API may still do what is asked, with nobody waiting; a read just ends.
Outlives(q) == q.stage \in {"sent", "planned", "passed"} /\ q.op \notin {"review", "status"}

\* The screen goes: what it waited for goes on without it.
Leave ==
  /\ doing \notin {"away", "gone"}
  /\ left.troubles > 0 /\ (Outlives(request[Tab]) => request[Late] = NoRequest)
  /\ left' = [left EXCEPT !.troubles = @ - 1]
  /\ request' = [request EXCEPT ![Tab] = NoRequest,
                                ![Late] = IF Outlives(request[Tab]) THEN request[Tab] ELSE @]
  /\ shown' = NothingShown
  /\ doing' = "away" /\ save' = NotSaving /\ dialog' = FALSE /\ alert' = FALSE
  /\ UNCHANGED <<online, intents, batch, chosen, stale>>

----------------------------------------------------------------------------
(* Choices, and saving them                                                *)

\* The save goes on with what is left of it: one choice at a time, a group of
\* "confirm all" last and as one.
GroupsOf(todo, mine, kept) ==
  LET single == {i \in todo : mine \/ kept[i].bulk = Nothing}
  IN IF single # {} THEN {{i} : i \in single}
     ELSE {{j \in todo : kept[j].bulk = kept[i].bulk} : i \in todo}

GoOn(todo, mine, kept) ==
  IF todo = {} THEN doing' = "nothing" /\ save' = NotSaving /\ Quiet
  ELSE \E group \in GroupsOf(todo, mine, kept) :
         /\ doing' = "saving"
         /\ save' = [todo |-> todo \ group, group |-> group, step |-> "look", mine |-> mine]
         /\ Request("review", Nothing, Nothing)

\* A choice is saved at once when there is a connection.
Chosen(new) ==
  /\ left.choices > 0
  /\ left' = [left EXCEPT !.choices = @ - 1]
  /\ intents' = With(intents, new)
  /\ chosen' = With(chosen, [i \in DOMAIN new |-> new[i].want])
  /\ IF online THEN GoOn(DOMAIN new, FALSE, intents') /\ alert' = FALSE
               ELSE UNCHANGED <<doing, save, request, alert>>
  /\ UNCHANGED <<online, shown, dialog, batch, stale>>

NewIntent(i, want, bulk) ==
  [want |-> want, work |-> Identity(shown, i), state |-> "unsaved", bulk |-> bulk,
   base |-> IF i \in DOMAIN intents THEN intents[i].base ELSE Fingerprint(shown, i)]

Decide(c, want) ==
  /\ Free
  /\ c \in DOMAIN shown.rows
  /\ \/ want \in Works
     \/ want = "confirmed" /\ shown.rows[c].section \in {"additions", "unmatched", "alreadyOnYourList"}
     \/ want = "discarded" /\ shown.rows[c].section \in {"additions", "unmatched", "unreadableTiles"}
     \/ want = "rescue" /\ shown.rows[c].section = "probablyNotTitles"
  /\ Chosen([i \in {c} |-> NewIntent(i, want, Nothing)])

ToggleRemoval(w, want) ==
  /\ Free
  /\ w \in DOMAIN shown.ticked
  /\ shown.ticked[w] = (want = "untick")
  /\ Chosen([i \in {w} |-> NewIntent(i, want, Nothing)])

ConfirmAll(section) ==
  /\ Free
  /\ intents = <<>>
  /\ Confirmable(shown, section) # {}
  /\ Chosen([i \in Confirmable(shown, section) |-> NewIntent(i, "confirmed", section)])

\* "Check and save choices", and "Use my choice" on a conflict.
SaveAgain(S, mine) ==
  /\ Free /\ online /\ S # {}
  /\ alert' = FALSE
  /\ GoOn(S, mine, intents)
  /\ UNCHANGED <<online, shown, intents, dialog, Rest>>

UseSaved(i) ==
  /\ Free
  /\ i \in DOMAIN intents
  /\ intents' = Without(intents, {i})
  /\ chosen' = Without(chosen, {i})
  /\ UNCHANGED <<batch, request, online, shown, doing, save, dialog, alert, left, stale>>

\* The review before the write: satisfied already, in conflict, or written.
Gone(review, i) == ~InReviewed(review, i) \/ Identity(review, i) # intents[i].work

Conflicts(review, group) ==
  \/ \E i \in group :
       \/ Gone(review, i)
       \/ ~save.mine /\ Fingerprint(review, i) # intents[i].base
  \/ \E i \in group : /\ intents[i].bulk # Nothing /\ ~save.mine
                      /\ Confirmable(review, intents[i].bulk) # group

Marked(group, state) ==
  With(intents, [i \in group |-> [intents[i] EXCEPT !.state = state,
                                       !.bulk = IF save.mine THEN Nothing ELSE @]])

WriteOf(group) ==
  LET i == CHOOSE j \in group : TRUE
  IN IF intents[i].bulk # Nothing /\ ~save.mine THEN Sent("bulk", intents[i].bulk, Nothing)
     ELSE Sent(IF i \in Works THEN "removal" ELSE "patch", i, intents[i].want)

\* A choice on an item that has gone is said to be; the next review read takes
\* that away.
Looked ==
  /\ doing = "saving" /\ save.step = "look" /\ GotReview
  /\ shown' = Review /\ stale' = FALSE
  /\ LET review == Review
     IN IF \A i \in save.group : Satisfied(review, i, intents[i])
          THEN /\ intents' = Without(intents, save.group) /\ alert' = FALSE
               /\ GoOn(save.todo, save.mine, intents')
        ELSE IF Conflicts(review, save.group)
          THEN /\ intents' = Marked(save.group, "conflict")
               /\ alert' = \E i \in save.group :
                             Gone(review, i) /\ (save.mine \/ intents[i].bulk = Nothing)
               /\ GoOn(save.todo, save.mine, intents')
        ELSE   /\ intents' = Marked(save.group, "unknown") /\ alert' = FALSE
               /\ request' = [request EXCEPT ![Tab] = WriteOf(save.group)]
               /\ save' = [save EXCEPT !.step = "write"]
               /\ UNCHANGED doing
  /\ UNCHANGED <<online, dialog, batch, left, chosen>>

Written ==
  /\ doing = "saving" /\ save.step = "write" /\ request[Tab].stage = "ok"
  /\ save' = [save EXCEPT !.step = "verify"]
  /\ Request("review", Nothing, Nothing)
  /\ UNCHANGED <<online, shown, intents, doing, dialog, alert, Rest>>

\* A choice the review does not show after its write is kept, and the save ends.
Verified ==
  /\ doing = "saving" /\ save.step = "verify" /\ GotReview
  /\ shown' = Review /\ stale' = FALSE
  /\ IF \A i \in save.group : Satisfied(Review, i, intents[i])
       THEN /\ intents' = Without(intents, save.group)
            /\ alert' = FALSE
            /\ GoOn(save.todo, save.mine, intents')
       ELSE /\ doing' = "nothing" /\ save' = NotSaving /\ alert' = TRUE /\ Quiet
            /\ UNCHANGED intents
  /\ UNCHANGED <<online, dialog, batch, left, chosen>>

\* Mutants: the choices being saved are forgotten; the save is not ended.
SaveFailsForgetting ==
  /\ doing = "saving" /\ (Failed \/ NotInReview)
  /\ intents' = Without(intents, save.group)
  /\ doing' = "nothing" /\ save' = NotSaving /\ alert' = TRUE /\ Quiet
  /\ UNCHANGED <<online, shown, dialog, Rest>>

SaveFails ==
  /\ doing = "saving" /\ (Failed \/ NotInReview)
  /\ doing' = "nothing" /\ save' = NotSaving /\ alert' = TRUE /\ Quiet
  /\ UNCHANGED <<online, shown, intents, dialog, Rest>>

\* Manual entry keeps no intent: it is written, and the review is read again.
Enter(w) ==
  /\ Free /\ online
  /\ left.choices > 0 /\ Candidates \ DOMAIN cand # {} /\ request[Late].op # "entry"
  /\ left' = [left EXCEPT !.choices = @ - 1]
  /\ doing' = "entering" /\ alert' = FALSE
  /\ Request("entry", w, Nothing)
  /\ UNCHANGED <<online, shown, intents, save, dialog, batch, chosen, stale>>

Entered ==
  /\ doing = "entering"
  /\ \/ /\ Answered("entry")
        /\ Request("review", Nothing, Nothing)
        /\ UNCHANGED <<doing, shown, alert, stale>>
     \/ GotReview /\ Refreshed /\ doing' = "nothing" /\ Quiet
     \/ /\ Failed \/ NotInReview
        /\ doing' = "nothing" /\ alert' = TRUE /\ Quiet
        /\ UNCHANGED <<shown, stale>>
  /\ UNCHANGED <<online, intents, save, dialog, batch, left, chosen>>

----------------------------------------------------------------------------
(* Applying                                                                *)

Prepare ==
  /\ Free /\ online /\ intents = <<>>
  /\ doing' = "preparing"
  /\ Request("review", Nothing, Nothing)
  /\ UNCHANGED <<online, shown, intents, save, dialog, alert, Rest>>

Prepared ==
  /\ doing = "preparing"
  /\ \/ GotReview /\ Refreshed /\ dialog' = (Undecided(Review) = {})
     \/ NoReview /\ NotRefreshed /\ UNCHANGED dialog
  /\ doing' = "nothing" /\ Quiet
  /\ UNCHANGED <<online, intents, save, batch, left, chosen>>

Cancel ==
  /\ dialog /\ doing # "closing"
  /\ dialog' = FALSE
  /\ UNCHANGED <<batch, request, online, shown, intents, doing, save, alert, left, chosen, stale>>

\* The close carries one flag for the removals; to: what the dialog names.
Confirm ==
  /\ dialog /\ doing = "nothing" /\ online /\ ~alert /\ intents = <<>>
  /\ doing' = "closing"
  /\ Request("close", IF DOMAIN shown.ticked # {} THEN "confirmed" ELSE Nothing, Changes(shown))
  /\ UNCHANGED <<online, shown, intents, save, dialog, alert, Rest>>

Closed ==
  /\ doing = "closing" /\ Answered("close")
  /\ doing' = "gone" /\ Quiet
  /\ UNCHANGED <<online, shown, intents, save, dialog, alert, Rest>>

CloseRefused ==
  /\ doing = "closing" /\ Failed
  /\ \/ /\ request[Tab].read = "PENDING_ADDITIONS"
        /\ doing' = "nothing" /\ dialog' = FALSE /\ Quiet
     \/ /\ request[Tab].read = "REMOVALS_NOT_CONFIRMED"
        /\ doing' = "reconfirming"
        /\ Request("review", Nothing, Nothing)
        /\ UNCHANGED dialog
  /\ UNCHANGED <<online, shown, intents, save, alert, Rest>>

Reconfirmed ==
  /\ doing = "reconfirming"
  /\ \/ GotReview /\ Refreshed /\ dialog' = TRUE
     \/ NoReview /\ alert' = TRUE /\ UNCHANGED <<shown, stale, dialog>>
  /\ doing' = "nothing" /\ Quiet
  /\ UNCHANGED <<online, intents, save, batch, left, chosen>>

\* checkOutcome: nobody knows whether the close was applied.
CloseUnknown ==
  /\ doing = "closing" /\ Failed
  /\ request[Tab].read \in {"FAILED", "LOST"}
  /\ IF online THEN doing' = "checking" /\ Request("status", Nothing, Nothing)
               ELSE doing' = "unknown" /\ Quiet
  /\ UNCHANGED <<online, shown, intents, save, dialog, alert, Rest>>

CheckAgain ==
  /\ doing = "unknown" /\ online
  /\ doing' = "checking" /\ alert' = FALSE
  /\ Request("status", Nothing, Nothing)
  /\ UNCHANGED <<online, shown, intents, save, dialog, Rest>>

\* Mutant: an outcome that cannot be read either is waited for.
CheckedWhenAnswered ==
  /\ doing = "checking"
  /\ \/ GotStatus /\ ~InReview /\ doing' = "gone" /\ Quiet /\ NotRefreshed
     \/ /\ GotStatus /\ InReview
        /\ Request("review", Nothing, Nothing)
        /\ NotRefreshed /\ UNCHANGED doing
     \/ GotReview /\ Refreshed /\ doing' = "nothing" /\ Quiet
  /\ UNCHANGED <<online, intents, save, dialog, batch, left, chosen>>

Checked ==
  /\ doing = "checking"
  /\ \/ GotStatus /\ ~InReview /\ doing' = "gone" /\ Quiet /\ NotRefreshed
     \/ /\ GotStatus /\ InReview
        /\ Request("review", Nothing, Nothing)
        /\ NotRefreshed /\ UNCHANGED doing
     \/ GotReview /\ Refreshed /\ doing' = "nothing" /\ Quiet
     \/ (Failed \/ NotInReview) /\ doing' = "unknown" /\ Quiet /\ NotRefreshed
  /\ UNCHANGED <<online, intents, save, dialog, batch, left, chosen>>

Discard ==
  /\ Free /\ online
  /\ doing' = "discarding"
  /\ Request("discard", Nothing, Nothing)
  /\ UNCHANGED <<online, shown, intents, save, dialog, alert, Rest>>

Discarded ==
  /\ doing = "discarding"
  /\ \/ /\ Answered("discard")
        /\ doing' = "gone"
        /\ UNCHANGED alert
     \/ /\ Failed
        /\ doing' = "nothing" /\ alert' = TRUE
  /\ Quiet
  /\ UNCHANGED <<online, shown, intents, save, dialog, Rest>>

----------------------------------------------------------------------------
(* What goes wrong, and what others do                                     *)

\* The answer never comes.  The request may still be served, by Late.
Lose(goesOn) ==
  /\ request[Tab].stage \in {"sent", "planned", "passed", "ok"}
  /\ left.troubles > 0 /\ (goesOn => request[Late] = NoRequest)
  /\ left' = [left EXCEPT !.troubles = @ - 1]
  /\ IF Outlives(request[Tab]) THEN goesOn \/ request[Tab].stage = "sent" ELSE ~goesOn
  /\ request' = [request EXCEPT ![Tab].stage = "refused", ![Tab].read = "LOST",
                                ![Late] = IF goesOn THEN request[Tab] ELSE @]
  /\ UNCHANGED <<batch, tab, chosen, stale>>

Connection ==
  /\ Offline
  /\ left.troubles > 0
  /\ left' = [left EXCEPT !.troubles = @ - 1]
  /\ online' = ~online
  /\ UNCHANGED <<batch, request, shown, intents, doing, save, dialog, alert, chosen, stale>>

\* What the batch holds of an item.
Stored(i) ==
  IF i \in Works THEN unticked \cap {i} ELSE IF i \in DOMAIN cand THEN {cand[i]} ELSE {}

\* Others have written: what they changed is no longer the owner's choice here.
Overruled ==
  /\ stale' = (stale \/ batch' # batch)
  /\ chosen' = Without(chosen, {i \in DOMAIN chosen : Stored(i)' # Stored(i)})

OtherAsks(op, on, to) ==
  /\ left.troubles > 0 /\ request[Other] = NoRequest
  /\ left' = [left EXCEPT !.troubles = @ - 1]
  /\ request' = [request EXCEPT ![Other] = Sent(op, on, to)]
  /\ UNCHANGED <<batch, tab, chosen, stale>>

OtherDecides ==
  \/ /\ "decide" \in Elsewhere
     /\ \/ \E c \in DOMAIN cand, want \in Works \cup {"confirmed", "discarded"} :
             OtherAsks("patch", c, want)
        \/ \E w \in listed, want \in {"tick", "untick"} : OtherAsks("removal", w, want)
        \/ \E section \in {"additions", "unmatched", "alreadyOnYourList"} : OtherAsks("bulk", section, Nothing)
  \/ /\ "finish" \in Elsewhere
     /\ OtherAsks("discard", Nothing, Nothing) \/ OtherAsks("close", "confirmed", Nothing)

ListChanges ==
  /\ left.troubles > 0
  /\ left' = [left EXCEPT !.troubles = @ - 1]
  /\ \E w \in Works : \/ "list" \in Elsewhere /\ ListElsewhere(w)
                      \/ "unlist" \in Elsewhere /\ UnlistElsewhere(w)
                      \/ "suppress" \in Elsewhere /\ SuppressElsewhere(w)
  /\ Overruled
  /\ UNCHANGED tab

ServeTab == Serve(Tab) /\ UNCHANGED <<tab, History>>

ServeOthers ==
  /\ Serve(Late) \/ Serve(Other)
  /\ Overruled
  /\ UNCHANGED <<tab, left>>

Owner ==
  \/ \E c \in Candidates, want \in Works \cup {"confirmed", "discarded", "rescue"} : Decide(c, want)
  \/ \E w \in Works, want \in {"tick", "untick"} : ToggleRemoval(w, want)
  \/ \E section \in {"additions", "unmatched"} : ConfirmAll(section)
  \/ SaveAgain(DOMAIN intents, FALSE)
  \/ \E i \in DOMAIN intents : intents[i].state = "conflict" /\ SaveAgain({i}, TRUE)
  \/ \E i \in Items : UseSaved(i)
  \/ \E w \in Works : Enter(w)
  \/ Prepare \/ Cancel \/ Confirm \/ Discard

Screen ==
  \/ Loaded \/ Looked \/ Written \/ Verified \/ SaveFails \/ Entered \/ Prepared
  \/ Closed \/ CloseRefused \/ Reconfirmed \/ CloseUnknown \/ Checked \/ Discarded

Next ==
  \/ Open \/ Leave \/ Owner \/ Screen \/ CheckAgain
  \/ \E goesOn \in BOOLEAN : Lose(goesOn)
  \/ Connection \/ OtherDecides \/ ListChanges \/ ServeTab \/ ServeOthers

Spec == TabInit /\ [][Next]_vars /\ WF_vars(Screen) /\ WF_vars(ServeTab)

----------------------------------------------------------------------------
(* Properties                                                              *)

TypeOK ==
  /\ status \in {"in-review", "applied", "discarded"}
  /\ DOMAIN cand \subseteq Candidates /\ \A c \in DOMAIN cand : cand[c] \in Row
  /\ unticked \subseteq Works /\ listed \subseteq Works /\ suppressed \subseteq Works
  /\ ledger \in Change
  /\ DOMAIN intents \subseteq Items
  /\ \A i \in DOMAIN intents : intents[i].state \in {"unsaved", "unknown", "conflict"}
  /\ DOMAIN shown.rows \subseteq Candidates /\ DOMAIN shown.ticked \subseteq Works
  /\ doing \in {"away", "loading", "nothing", "saving", "entering", "preparing", "closing",
                "reconfirming", "checking", "unknown", "discarding", "gone"}
  /\ save.todo \cup save.group \subseteq DOMAIN intents
  /\ doing = "saving" <=> save # NotSaving

Holds(i, want) ==
  CASE want = "tick"   -> i \notin unticked
    [] want = "untick" -> i \in unticked
    [] want = "rescue" -> cand[i].verdict = "title"
    [] want \in Works  -> cand[i].disp = "corrected" /\ cand[i].work = want
    [] OTHER           -> cand[i].disp = want

\* A choice the tab no longer keeps is the one the batch holds, unless the owner
\* gave it up or somebody else has changed that item since: no lost answer,
\* failed save, conflict or return to the screen drops a choice silently.
ChoicesAreKept ==
  \A i \in DOMAIN chosen \ DOMAIN intents : Holds(i, chosen[i])

TabApplies ==
  status # "applied" /\ status' = "applied" /\ request'[Tab] # request[Tab]

\* When the tab's close is applied, and nobody else has written since the review
\* on screen was read, it applies what the dialog named: those additions, those
\* removals, and nothing else.
AppliedAsConfirmed == [][TabApplies /\ ~stale => ledger' = request[Tab].to]_vars

\* Whatever others do, a close that is applied removes only what its dialog named.
RemovalsWereNamed ==
  [][TabApplies => ledger'.removes \subseteq request[Tab].to.removes]_vars

\* The screen never stays busy: whatever it waits for ends, and the review is
\* unlocked, or left, or the owner is asked to check what became of the close.
TabComesBack ==
  doing \notin {"away", "nothing", "unknown", "gone"} ~> doing \in {"away", "nothing", "unknown", "gone"}
=============================================================================
