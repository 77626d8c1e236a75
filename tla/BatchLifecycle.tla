--------------------------- MODULE BatchLifecycle ---------------------------
(***************************************************************************)
(* The batch life cycle of apps/api: the requests that create, fill,       *)
(* submit, retry, re-extract, discard, close and undo a batch, the         *)
(* extraction runs they start in the same process, and the restarts of     *)
(* that process.                                                           *)
(*                                                                         *)
(* A request is a handler that reads, decides in JavaScript, and writes in *)
(* a later statement or transaction: the two are separate actions, and     *)
(* every other request and run may act between them.  A transaction takes  *)
(* the row lock of its batch with its first UPDATE, so all it does from    *)
(* that UPDATE on is one action.  A request that is refused on what it     *)
(* read changes nothing and is not a step.                                 *)
(***************************************************************************)
EXTENDS Naturals

CONSTANTS Batches,      \* identifiers a batch can be given
          NoBatch,      \* the batch of an idle handler or run
          Handlers,     \* requests that can be in progress at once
          Runs,         \* extraction runs that can be in progress at once
          MaxImages,    \* MAX_IMAGES_PER_BATCH
          MaxFaults,    \* bound: store calls of a run that throw
          MaxCrashes,   \* bound: restarts of the process
          LostAcks      \* the calls that may throw after they have been applied

ASSUME BatchAssumption == NoBatch \notin Batches
ASSUME ImagesAssumption == MaxImages \in Nat
ASSUME BoundsAssumption == MaxFaults \in Nat /\ MaxCrashes \in Nat
ASSUME LostAcksAssumption == LostAcks \subseteq {"submit", "claim", "outcome"}

VARIABLES status,       \* upload_batch.status, "absent" before the row exists
          images,       \* batch -> number of uploaded_image rows
          origin,       \* batch -> the batch its screenshots were uploaded to
          expired,      \* uploads whose retainUntil has passed
          handler,      \* handler -> what the request has read and intends
          run,          \* extraction run -> its batch and how far it is
          faults,       \* store calls of runs that have thrown
          crashes       \* restarts so far

batchVars == <<status, images, origin, expired>>
vars == <<batchVars, handler, run, faults, crashes>>

----------------------------------------------------------------------------
Terminal == {"applied", "undone", "discarded"}
Open     == {"draft", "submitted", "extracting", "extraction-failed", "in-review"}
Statuses == {"absent"} \cup Open \cup Terminal

\* BATCH_TRANSITIONS.
Edges == { <<"draft", "submitted">>,             <<"draft", "discarded">>,
           <<"submitted", "extracting">>,        <<"submitted", "extraction-failed">>,
           <<"extracting", "in-review">>,        <<"extracting", "extraction-failed">>,
           <<"extraction-failed", "submitted">>, <<"extraction-failed", "discarded">>,
           <<"in-review", "applied">>,           <<"in-review", "discarded">>,
           <<"applied", "undone">> }

CanTransition(from, to) == <<from, to>> \in Edges

\* The status each request that only moves a batch moves it to.
Target == [ op \in {"submit", "retry", "discard", "close", "undo"} |->
            CASE op \in {"submit", "retry"} -> "submitted"
              [] op = "discard"             -> "discarded"
              [] op = "close"               -> "applied"
              [] OTHER                      -> "undone" ]

Ops == DOMAIN Target \cup {"create", "attach", "detach", "reextract"}

\* A handler has read what it needs ("decided"), has still to look for an open
\* batch ("checking", re-extract only), or has answered 202 and has still to
\* call beginExtraction ("starting").
NoRequest == [at |-> "idle", op |-> "none", batch |-> NoBatch,
              seen |-> "absent", count |-> 0]

\* A run has still to claim its batch, reads its screenshots, has a result to
\* record, or is in the catch block that records a failure.
NoRun == [at |-> "idle", batch |-> NoBatch, result |-> "absent"]

Results == {"in-review", "extraction-failed"}

TypeOK ==
  /\ status \in [Batches -> Statuses]
  /\ images \in [Batches -> 0..MaxImages]
  /\ origin \in [Batches -> Batches]
  /\ expired \subseteq Batches
  /\ handler \in [Handlers -> [at : {"idle", "checking", "decided", "starting"},
                               op : Ops \cup {"none"},
                               batch : Batches \cup {NoBatch},
                               seen : Statuses,
                               count : 0..MaxImages]]
  /\ run \in [Runs -> [at : {"idle", "claiming", "reading", "recording", "failing"},
                       batch : Batches \cup {NoBatch},
                       result : Results \cup {"absent"}]]
  /\ faults \in 0..MaxFaults
  /\ crashes \in 0..MaxCrashes

Init ==
  /\ status = [b \in Batches |-> "absent"]
  /\ images = [b \in Batches |-> 0]
  /\ origin = [b \in Batches |-> b]
  /\ expired = {}
  /\ handler = [h \in Handlers |-> NoRequest]
  /\ run = [r \in Runs |-> NoRun]
  /\ faults = 0
  /\ crashes = 0

----------------------------------------------------------------------------
\* What the first half of a request leaves behind.
Decide(h, at, op, b, n) ==
  /\ handler' = [handler EXCEPT ![h] =
                   [at |-> at, op |-> op, batch |-> b, seen |-> status[b], count |-> n]]
  /\ UNCHANGED <<batchVars, run, faults, crashes>>

Idle(h) == handler[h].at = "idle"
Decided(h, op) == handler[h].at = "decided" /\ handler[h].op = op
Answer(h) == handler' = [handler EXCEPT ![h] = NoRequest]

NoOpenBatch == \A b \in Batches : status[b] \notin Open
Expired(b) == origin[b] \in expired

----------------------------------------------------------------------------
(* POST /batches: the open-batch lookup, then the transaction that inserts *)

CreateRead(h) ==
  /\ Idle(h)
  /\ NoOpenBatch
  /\ handler' = [handler EXCEPT ![h] = [at |-> "decided", op |-> "create", batch |-> NoBatch,
                                        seen |-> "absent", count |-> 0]]
  /\ UNCHANGED <<batchVars, run, faults, crashes>>

CreateWrite(h, b) ==
  /\ Decided(h, "create")
  /\ status[b] = "absent"
  /\ status' = [status EXCEPT ![b] = "draft"]
  /\ Answer(h)
  /\ UNCHANGED <<images, origin, expired, run, faults, crashes>>

----------------------------------------------------------------------------
(* POST and DELETE /batches/:batchId/images: an early look at the draft,   *)
(* then a transaction that locks the draft and looks again.  `count` is    *)
(* the number of files the request carries; ingestion may reject some.     *)

AttachRead(h, b, n) ==
  /\ Idle(h)
  /\ status[b] = "draft"
  /\ images[b] + n <= MaxImages
  /\ Decide(h, "decided", "attach", b, n)

\* Mutant of AttachWrite: the ceiling is not looked at again under the lock.
AttachWriteUncounted(h) ==
  LET b == handler[h].batch IN
  /\ Decided(h, "attach")
  /\ status[b] = "draft"
  /\ \E accepted \in 0..handler[h].count :
       images' = [images EXCEPT ![b] = @ + accepted]
  /\ Answer(h)
  /\ UNCHANGED <<status, origin, expired, run, faults, crashes>>

AttachWrite(h) ==
  LET b == handler[h].batch IN
  /\ Decided(h, "attach")
  /\ status[b] = "draft"
  /\ images[b] + handler[h].count <= MaxImages
  /\ \E accepted \in 0..handler[h].count :
       images' = [images EXCEPT ![b] = @ + accepted]
  /\ Answer(h)
  /\ UNCHANGED <<status, origin, expired, run, faults, crashes>>

DetachRead(h, b) ==
  /\ Idle(h)
  /\ status[b] = "draft"
  /\ images[b] > 0
  /\ Decide(h, "decided", "detach", b, 0)

\* Mutant of DetachWrite: the draft is not looked at again under the lock.
DetachWriteLate(h) ==
  LET b == handler[h].batch IN
  /\ Decided(h, "detach")
  /\ images[b] > 0
  /\ images' = [images EXCEPT ![b] = @ - 1]
  /\ Answer(h)
  /\ UNCHANGED <<status, origin, expired, run, faults, crashes>>

DetachWrite(h) ==
  LET b == handler[h].batch IN
  /\ Decided(h, "detach")
  /\ status[b] = "draft"
  /\ images[b] > 0
  /\ images' = [images EXCEPT ![b] = @ - 1]
  /\ Answer(h)
  /\ UNCHANGED <<status, origin, expired, run, faults, crashes>>

----------------------------------------------------------------------------
(* Requests that move a batch along one edge.  transitionBatch refuses an  *)
(* illegal edge on the status it was given, then updates WHERE status =    *)
(* that status: a batch that moved meanwhile leaves zero rows changed.     *)

\* Mutant of TransitionRead: the edge is not looked up in the table.
TransitionReadAnyEdge(h, op, b) ==
  /\ Idle(h)
  /\ status[b] # "absent"
  /\ Decide(h, "decided", op, b, 0)

TransitionRead(h, op, b) ==
  /\ Idle(h)
  /\ CanTransition(status[b], Target[op])
  /\ Decide(h, "decided", op, b, 0)

SubmitRead(h, b) == TransitionRead(h, "submit", b)
DiscardRead(h, b) == TransitionRead(h, "discard", b)
CloseRead(h, b) == TransitionRead(h, "close", b)
UndoRead(h, b) == TransitionRead(h, "undo", b)

RetryRead(h, b) ==
  /\ status[b] = "extraction-failed"
  /\ images[b] > 0
  /\ ~Expired(b)
  /\ TransitionRead(h, "retry", b)

\* Mutant of Transition: the UPDATE is by id alone.
TransitionBlindly(h, op) ==
  /\ Decided(h, op)
  /\ status' = [status EXCEPT ![handler[h].batch] = Target[op]]
  /\ UNCHANGED <<images, origin, expired, run, faults, crashes>>

\* The conditional UPDATE of a request that has read its batch.
Transition(h, op) ==
  LET b == handler[h].batch IN
  /\ Decided(h, op)
  /\ status[b] = handler[h].seen
  /\ status' = [status EXCEPT ![b] = Target[op]]
  /\ UNCHANGED <<images, origin, expired, run, faults, crashes>>

\* The response of a request that starts extraction goes out before the call
\* of beginExtraction; a commit whose acknowledgement is lost answers 500 and
\* starts nothing.
AnswerAccepted(h) ==
  \/ handler' = [handler EXCEPT ![h].at = "starting"]
  \/ "submit" \in LostAcks /\ Answer(h)

\* Mutant of SubmitWrite: the screenshots are not counted.
SubmitWriteUncounted(h) == Transition(h, "submit") /\ AnswerAccepted(h)

\* The screenshots are counted after the UPDATE, under its row lock; an empty
\* draft rolls it back.
SubmitWrite(h) ==
  /\ handler[h].seen = "draft" => images[handler[h].batch] > 0
  /\ Transition(h, "submit")
  /\ AnswerAccepted(h)

RetryWrite(h) == Transition(h, "retry") /\ AnswerAccepted(h)
DiscardWrite(h) == Transition(h, "discard") /\ Answer(h)
CloseWrite(h) == Transition(h, "close") /\ Answer(h)
UndoWrite(h) == Transition(h, "undo") /\ Answer(h)

----------------------------------------------------------------------------
(* POST /batches/:batchId/re-extract: three reads, then one transaction    *)

\* The source is read whatever its status, with its screenshots.
ReextractRead(h, b) ==
  /\ Idle(h)
  /\ status[b] # "absent"
  /\ images[b] > 0
  /\ ~Expired(b)
  /\ Decide(h, "checking", "reextract", b, images[b])

ReextractCheck(h) ==
  /\ handler[h].at = "checking"
  /\ NoOpenBatch
  /\ handler' = [handler EXCEPT ![h].at = "decided"]
  /\ UNCHANGED <<batchVars, run, faults, crashes>>

ReextractWrite(h, d) ==
  LET source == handler[h].batch IN
  /\ Decided(h, "reextract")
  /\ status[d] = "absent"
  /\ status' = [status EXCEPT ![d] = "submitted"]
  /\ images' = [images EXCEPT ![d] = handler[h].count]
  /\ origin' = [origin EXCEPT ![d] = origin[source]]
  /\ \/ handler' = [handler EXCEPT ![h].at = "starting", ![h].batch = d]
     \/ "submit" \in LostAcks /\ Answer(h)
  /\ UNCHANGED <<expired, run, faults, crashes>>

\* Any request may end before its write: the write finds the batch moved, full
\* or empty, or the store throws.
Refuse(h) ==
  /\ handler[h].at \in {"checking", "decided"}
  /\ Answer(h)
  /\ UNCHANGED <<batchVars, run, faults, crashes>>

----------------------------------------------------------------------------
(* startExtraction                                                         *)

BeginExtraction(h, r) ==
  /\ handler[h].at = "starting"
  /\ run[r] = NoRun
  /\ run' = [run EXCEPT ![r] = [at |-> "claiming", batch |-> handler[h].batch,
                                result |-> "absent"]]
  /\ Answer(h)
  /\ UNCHANGED <<batchVars, faults, crashes>>

\* The run moves its batch to a status and itself to its next stage.
Write(r, to, at) ==
  /\ status' = [status EXCEPT ![run[r].batch] = to]
  /\ run' = [run EXCEPT ![r] = IF at = "idle" THEN NoRun ELSE [@ EXCEPT !.at = at]]
  /\ UNCHANGED <<images, origin, expired, handler, crashes>>

EndRun(r) ==
  /\ run' = [run EXCEPT ![r] = NoRun]
  /\ UNCHANGED <<batchVars, handler, crashes>>

Throw == faults < MaxFaults /\ faults' = faults + 1

Claim(r) ==
  /\ run[r].at = "claiming"
  /\ status[run[r].batch] = "submitted"
  /\ Write(r, "extracting", "reading")
  /\ UNCHANGED faults

NotClaimed(r) ==
  /\ run[r].at = "claiming"
  /\ status[run[r].batch] # "submitted"
  /\ EndRun(r)
  /\ UNCHANGED faults

\* No reader configured, every screenshot failed, or a readable result.
FinishReading(r) ==
  /\ run[r].at = "reading"
  /\ \E result \in Results :
       run' = [run EXCEPT ![r].at = "recording", ![r].result = result]
  /\ UNCHANGED <<batchVars, handler, faults, crashes>>

\* recordExtractionOutcome updates by id alone, whatever the status is now.
RecordOutcome(r) ==
  /\ run[r].at = "recording"
  /\ Write(r, run[r].result, "idle")
  /\ UNCHANGED faults

RecordFailure(r) ==
  /\ run[r].at = "failing"
  /\ Write(r, "extraction-failed", "idle")
  /\ UNCHANGED faults

\* Mutant of RunThrows: the catch block writes nothing.
RunThrowsSilently(r) ==
  /\ run[r].at \in {"claiming", "reading", "recording"}
  /\ Throw
  /\ EndRun(r)

\* Anything that throws lands in the catch block.
RunThrows(r) ==
  /\ run[r].at \in {"claiming", "reading", "recording"}
  /\ Throw
  /\ run' = [run EXCEPT ![r].at = "failing"]
  /\ UNCHANGED <<batchVars, handler, crashes>>

\* The write was applied, and only its acknowledgement was lost.
ClaimAckLost(r) ==
  /\ "claim" \in LostAcks
  /\ run[r].at = "claiming"
  /\ status[run[r].batch] = "submitted"
  /\ Throw
  /\ Write(r, "extracting", "failing")

OutcomeAckLost(r) ==
  /\ "outcome" \in LostAcks
  /\ run[r].at = "recording"
  /\ Throw
  /\ Write(r, run[r].result, "failing")

\* A throw of the failure write itself is logged and swallowed.
FailureWriteThrows(r) ==
  /\ run[r].at = "failing"
  /\ Throw
  /\ EndRun(r)

----------------------------------------------------------------------------
\* The process stops: requests and runs are gone, and nothing at start-up looks
\* for what they left.
Restart ==
  /\ crashes < MaxCrashes
  /\ crashes' = crashes + 1
  /\ handler' = [h \in Handlers |-> NoRequest]
  /\ run' = [r \in Runs |-> NoRun]
  /\ UNCHANGED <<batchVars, faults>>

\* retainUntil of the screenshots uploaded to b passes.
RetentionEnds(b) ==
  /\ b \notin expired
  /\ images[b] > 0
  /\ origin[b] = b
  /\ expired' = expired \cup {b}
  /\ UNCHANGED <<status, images, origin, handler, run, faults, crashes>>

----------------------------------------------------------------------------
Request(h) ==
  \/ CreateRead(h)
  \/ AttachWrite(h) \/ DetachWrite(h)
  \/ SubmitWrite(h) \/ RetryWrite(h) \/ DiscardWrite(h) \/ CloseWrite(h) \/ UndoWrite(h)
  \/ ReextractCheck(h)
  \/ Refuse(h)
  \/ \E b \in Batches :
       \/ CreateWrite(h, b)
       \/ \E n \in 1..MaxImages : AttachRead(h, b, n)
       \/ DetachRead(h, b)
       \/ SubmitRead(h, b) \/ RetryRead(h, b) \/ DiscardRead(h, b)
       \/ CloseRead(h, b) \/ UndoRead(h, b)
       \/ ReextractRead(h, b) \/ ReextractWrite(h, b)
  \/ \E r \in Runs : BeginExtraction(h, r)

Extraction(r) ==
  \/ Claim(r) \/ NotClaimed(r) \/ FinishReading(r)
  \/ RecordOutcome(r) \/ RecordFailure(r)
  \/ RunThrows(r) \/ ClaimAckLost(r) \/ OutcomeAckLost(r) \/ FailureWriteThrows(r)

Next ==
  \/ \E h \in Handlers : Request(h)
  \/ \E r \in Runs : Extraction(r)
  \/ Restart
  \/ \E b \in Batches : RetentionEnds(b)

Spec == Init /\ [][Next]_vars

\* beginExtraction is called in the same turn as the response, and a run waits
\* only for calls that answer or time out: neither stays pending for ever.
Fairness ==
  /\ \A h \in Handlers : SF_vars(\E r \in Runs : BeginExtraction(h, r))
  /\ \A r \in Runs : WF_vars(Claim(r) \/ NotClaimed(r) \/ FinishReading(r)
                               \/ RecordOutcome(r) \/ RecordFailure(r))

FairSpec == Spec /\ Fairness

----------------------------------------------------------------------------
(* Properties                                                              *)

\* What transitionBatch and recordExtractionOutcome are for: however requests
\* and runs interleave, the stored status takes only edges of the table,
\* screenshots are frozen from submit on, and no batch gets past draft empty.
Contract ==
  INSTANCE BatchContract WITH Batches <- Batches, MaxImages <- MaxImages,
                              status <- status, images <- images
KeepsContract == Contract!ContractSpec

\* Two extractions never work on one batch: the conditional claim of
\* startExtraction lets exactly one of them in.
OneRunPerBatch ==
  \A r, s \in Runs :
    /\ r # s
    /\ run[r].at \in {"reading", "recording"}
    /\ run[s].at \in {"reading", "recording"}
    => run[r].batch # run[s].batch

\* Why recordExtractionOutcome may update by id alone: while a run holds a
\* result, its batch is still in the status the run put it in.
OutcomeWritesAreExclusive ==
  \A r \in Runs :
    run[r].at \in {"reading", "recording"} => status[run[r].batch] = "extracting"

\* "A batch never silently stops": what was submitted is read or fails visibly.
NeverSilentlyStops ==
  \A b \in Batches :
    status[b] \in {"submitted", "extracting"}
      ~> status[b] \notin {"submitted", "extracting"}

\* An extraction over zero screenshots would read as an empty list, and a full
\* update as the removal of every title: whatever is lost, thrown or retried,
\* no batch that was ever submitted is without screenshots.
NeverReadEmpty ==
  \A b \in Batches :
    status[b] \notin {"absent", "draft", "discarded"} => images[b] > 0

\* "One open batch per owner."
OneOpenBatch ==
  \A b, c \in Batches : status[b] \in Open /\ status[c] \in Open => b = c

\* "A terminal status can never lead back to an OPEN one."
TerminalNeverReopens ==
  [][\A b \in Batches : status[b] \in Terminal => status'[b] \in Terminal]_vars
=============================================================================
