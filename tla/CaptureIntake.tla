---------------------------- MODULE CaptureIntake ----------------------------
(***************************************************************************)
(* The intake of one batch of apps/api: the upload, removal and refusal    *)
(* attempts it records while it is a draft, the screenshots it saves in    *)
(* the database and in the blob store, and the verdict, complete or not,   *)
(* on which the review and the close decide whether to propose removals.   *)
(*                                                                         *)
(* A transaction first takes the row lock of the draft (withDraftCapture), *)
(* so it is one action and is refused once the batch has left draft.  The  *)
(* blob store takes part in no transaction: what a rolled-back transaction *)
(* has removed there stays removed.  A request may be lost between any two *)
(* of its steps.                                                           *)
(***************************************************************************)
EXTENDS Naturals, FiniteSets

CONSTANTS Files,        \* screenshots, each offered at most once
          Attempts,     \* identifiers of capture_ingest_attempt rows
          Handlers,     \* requests that can be in progress at once
          MaxImages     \* MAX_IMAGES_PER_BATCH

ASSUME FilesAssumption == IsFiniteSet(Files)
ASSUME ImagesAssumption == MaxImages \in Nat

VARIABLES draft,        \* the batch has not been submitted or discarded
          tracked,      \* its browser reports what it offers
          images,       \* uploaded_image rows
          blobs,        \* screenshots in the blob store
          expired,      \* screenshots whose retainUntil has passed
          attempts,     \* capture_ingest_attempt rows
          handler,      \* handler -> its request and how far it is
          derived       \* captureTracking of the latest batch re-extracted from it

vars == <<draft, tracked, images, blobs, expired, attempts, handler, derived>>

----------------------------------------------------------------------------
Kinds == {"upload", "image-removal", "local-refusal"}
States == {"receiving", "complete", "incomplete", "resolved"}

\* `files` are the screenshots an upload was offered, or the one a removal is
\* of; the code stores the second and only the browser knows the first.
NoRow == [kind |-> "none"]
Row == [kind : Kinds, state : States, files : SUBSET Files, replacement : SUBSET Files]

Idle == [op |-> "none"]
Request ==
  {Idle}
  \cup [op : {"receive", "remove", "fail"}, attempt : Attempts]
  \cup [op : {"save"}, attempt : Attempts, accepted : SUBSET Files]
  \cup [op : {"derive"}, complete : BOOLEAN]

TypeOK ==
  /\ draft \in BOOLEAN /\ tracked \in BOOLEAN
  /\ images \subseteq Files /\ Cardinality(images) <= MaxImages
  /\ blobs \subseteq Files
  /\ expired \subseteq Files
  /\ attempts \in [Attempts -> Row \cup {NoRow}]
  /\ handler \in [Handlers -> Request]
  /\ derived \in {"none", "tracked", "inherited-incomplete"}

Init ==
  /\ draft = TRUE
  /\ tracked \in BOOLEAN
  /\ images = {} /\ blobs = {} /\ expired = {}
  /\ attempts = [a \in Attempts |-> NoRow]
  /\ handler = [h \in Handlers |-> Idle]
  /\ derived = "none"

----------------------------------------------------------------------------
Rows == {a \in Attempts : attempts[a] # NoRow}
OfKind(kind) == {a \in Rows : attempts[a].kind = kind}
Offered == UNION {attempts[a].files : a \in OfKind("upload")}

\* Mutant of Unresolved: the replacements a resolution names are not looked up.
UnresolvedUnlessResolved == {a \in Rows : attempts[a].state \notin {"complete", "resolved"}}

\* assessCaptureIntake.
Unresolved ==
  {a \in Rows :
     \/ attempts[a].state \in {"receiving", "incomplete"}
     \/ /\ attempts[a].state = "resolved"
        /\ attempts[a].replacement = {} \/ ~(attempts[a].replacement \subseteq images)}

Complete == tracked /\ Unresolved = {}

\* updateCaptureAttempt, from one of the states `from`; no row may match.
Settle(a, from, to) ==
  attempts' = IF attempts[a].state \in from THEN [attempts EXCEPT ![a].state = to] ELSE attempts

\* Mutant of Room: whatever the request carries counts as one.
RoomForOne(a) == Cardinality(images) < MaxImages

\* The files the request of attempt a carries fit into the batch.
Room(a) == Cardinality(images) + Cardinality(attempts[a].files) <= MaxImages

Answer(h) == handler' = [handler EXCEPT ![h] = Idle]
Fail(h, a) == handler' = [handler EXCEPT ![h] = [op |-> "fail", attempt |-> a]]
Doing(h, op) == handler[h].op = op

----------------------------------------------------------------------------
(* POST /batches/:batchId/images                                           *)

\* beginCaptureAttempt, before a byte of the request is read.
BeginUpload(h, a, files) ==
  /\ Doing(h, "none")
  /\ draft
  /\ attempts[a] = NoRow
  /\ files # {} /\ files \cap Offered = {}
  /\ attempts' = [attempts EXCEPT ![a] = [kind |-> "upload", state |-> "receiving",
                                          files |-> files, replacement |-> {}]]
  /\ handler' = [handler EXCEPT ![h] = [op |-> "receive", attempt |-> a]]
  /\ UNCHANGED <<draft, tracked, images, blobs, expired, derived>>

\* ingestFiles has put the files it accepts in the blob store; the rest it
\* rejects one by one.
Ingest(h, accepted) ==
  LET a == handler[h].attempt IN
  /\ Doing(h, "receive")
  /\ draft
  /\ Room(a)
  /\ accepted \subseteq attempts[a].files
  /\ blobs' = blobs \cup accepted
  /\ handler' = [handler EXCEPT ![h] = [op |-> "save", attempt |-> a, accepted |-> accepted]]
  /\ UNCHANGED <<draft, tracked, images, expired, attempts, derived>>

\* The body is cut off or refused, an early check refuses, or ingestion throws.
UploadFails(h, put) ==
  LET a == handler[h].attempt IN
  /\ Doing(h, "receive")
  /\ put \subseteq attempts[a].files
  /\ blobs' = blobs \cup put
  /\ Fail(h, a)
  /\ UNCHANGED <<draft, tracked, images, expired, attempts, derived>>

\* Mutant of SaveUpload: the draft is not locked.
SaveUploadLate(h) ==
  LET request == handler[h]
      a       == request.attempt
  IN
  /\ Doing(h, "save")
  /\ Room(a)
  /\ attempts[a].state = "receiving"
  /\ images' = images \cup request.accepted
  /\ Settle(a, {"receiving"},
            IF request.accepted = attempts[a].files THEN "complete" ELSE "incomplete")
  /\ Answer(h)
  /\ UNCHANGED <<draft, tracked, blobs, expired, derived>>

\* The rows and finishCaptureAttempt, in one transaction.  A request that has
\* saved nothing throws after it, and so does one whose commit is not
\* acknowledged.
SaveUpload(h) ==
  LET request == handler[h]
      a       == request.attempt
  IN
  /\ Doing(h, "save")
  /\ draft
  /\ Room(a)
  /\ attempts[a].state = "receiving"
  /\ images' = images \cup request.accepted
  /\ Settle(a, {"receiving"},
            IF request.accepted = attempts[a].files THEN "complete" ELSE "incomplete")
  /\ Answer(h) \/ Fail(h, a)
  /\ UNCHANGED <<draft, tracked, blobs, expired, derived>>

\* The transaction is refused, or throws, and rolls back.
SaveRefused(h) ==
  /\ Doing(h, "save")
  /\ Fail(h, handler[h].attempt)
  /\ UNCHANGED <<draft, tracked, images, blobs, expired, attempts, derived>>

\* failCaptureAttempt, in no transaction and without the lock of the draft.
FailAttempt(h) ==
  /\ Doing(h, "fail")
  /\ Settle(handler[h].attempt, {"receiving"}, "incomplete")
  /\ Answer(h)
  /\ UNCHANGED <<draft, tracked, images, blobs, expired, derived>>

----------------------------------------------------------------------------
(* DELETE /batches/:batchId/images/:imageId                                *)

BeginRemoval(h, a, i) ==
  /\ Doing(h, "none")
  /\ draft
  /\ i \in images
  /\ attempts[a] = NoRow
  /\ attempts' = [attempts EXCEPT ![a] = [kind |-> "image-removal", state |-> "receiving",
                                          files |-> {i}, replacement |-> {}]]
  /\ handler' = [handler EXCEPT ![h] = [op |-> "remove", attempt |-> a]]
  /\ UNCHANGED <<draft, tracked, images, blobs, expired, derived>>

\* Mutant of FinishRemovals: only the attempt of this request is finished.
FinishRemovalsOfRequest(a) == Settle(a, {"receiving", "incomplete"}, "complete")

\* finishImageRemovals: the screenshot is gone, and with it every attempt that
\* was to remove it.
FinishRemovals(a) ==
  attempts' = [b \in Attempts |->
                 IF b \in OfKind("image-removal") /\ attempts[b].files = attempts[a].files
                   THEN [attempts[b] EXCEPT !.state = "complete"] ELSE attempts[b]]

\* The blob first, the row second.
Remove(h) ==
  LET a == handler[h].attempt IN
  /\ Doing(h, "remove")
  /\ draft
  /\ blobs' = blobs \ attempts[a].files
  /\ images' = images \ attempts[a].files
  /\ FinishRemovals(a)
  /\ Answer(h) \/ Fail(h, a)
  /\ UNCHANGED <<draft, tracked, expired, derived>>

\* The transaction is refused or rolls back, after the blob is gone or before.
RemoveFails(h) ==
  LET a == handler[h].attempt IN
  /\ Doing(h, "remove")
  /\ \/ blobs' = blobs
     \/ draft /\ blobs' = blobs \ attempts[a].files
  /\ Fail(h, a)
  /\ UNCHANGED <<draft, tracked, images, expired, attempts, derived>>

----------------------------------------------------------------------------
(* POST .../intake-refusals and PATCH .../intake/:attemptId                *)

\* The browser reports a file it would not send; one token reports it once.
RecordRefusal(a) ==
  /\ draft
  /\ attempts[a] = NoRow
  /\ attempts' = [attempts EXCEPT ![a] = [kind |-> "local-refusal", state |-> "incomplete",
                                          files |-> {}, replacement |-> {}]]
  /\ UNCHANGED <<draft, tracked, images, blobs, expired, handler, derived>>

\* Screenshots a replacement may be chosen from.
Available ==
  images \ (expired \cup UNION {attempts[a].files :
                                  a \in {b \in OfKind("image-removal") :
                                           attempts[b].state # "complete"}})

\* Mutant of Resolve: a removal can be waved through like other input.
ResolveAnyKind(a, selected) ==
  /\ draft
  /\ a \in Rows
  /\ selected # {} /\ selected \subseteq Available \cap blobs
  /\ attempts[a].state # "complete"
  /\ attempts' = [attempts EXCEPT ![a].state = "resolved", ![a].replacement = selected]
  /\ UNCHANGED <<draft, tracked, images, blobs, expired, handler, derived>>

Resolve(a, selected) ==
  /\ draft
  /\ a \in Rows \ OfKind("image-removal")
  /\ selected # {} /\ selected \subseteq Available \cap blobs
  /\ attempts[a].state # "complete"
  /\ attempts' = [attempts EXCEPT ![a].state = "resolved", ![a].replacement = selected]
  /\ UNCHANGED <<draft, tracked, images, blobs, expired, handler, derived>>

----------------------------------------------------------------------------
(* The batch leaves draft, is re-extracted, and its screenshots expire     *)

\* Submitted or discarded: both take the row lock.
LeaveDraft ==
  /\ draft
  /\ draft' = FALSE
  /\ UNCHANGED <<tracked, images, blobs, expired, attempts, handler, derived>>

\* reextractBatch reads the intake, then inserts the batch it derives.
DeriveRead(h) ==
  /\ Doing(h, "none")
  /\ ~draft
  /\ images # {} /\ images \cap expired = {}
  /\ handler' = [handler EXCEPT ![h] = [op |-> "derive", complete |-> Complete]]
  /\ UNCHANGED <<draft, tracked, images, blobs, expired, attempts, derived>>

\* Mutant of DeriveWrite: the column of the source is copied.
DeriveWriteColumn(h) ==
  /\ Doing(h, "derive")
  /\ derived' = IF tracked THEN "tracked" ELSE "inherited-incomplete"
  /\ Answer(h)
  /\ UNCHANGED <<draft, tracked, images, blobs, expired, attempts>>

DeriveWrite(h) ==
  /\ Doing(h, "derive")
  /\ derived' = IF handler[h].complete THEN "tracked" ELSE "inherited-incomplete"
  /\ Answer(h)
  /\ UNCHANGED <<draft, tracked, images, blobs, expired, attempts>>

\* The retention of a screenshot ends, and the storage account deletes its blob.
Expire(i) ==
  /\ i \in images \ expired
  /\ expired' = expired \cup {i}
  /\ blobs' = blobs \ {i}
  /\ UNCHANGED <<draft, tracked, images, attempts, handler, derived>>

\* The process stops, or the write of a failure itself fails.
Lose(h) ==
  /\ ~Doing(h, "none")
  /\ Answer(h)
  /\ UNCHANGED <<draft, tracked, images, blobs, expired, attempts, derived>>

----------------------------------------------------------------------------
Upload(h) ==
  \/ \E a \in Attempts, files \in SUBSET Files : BeginUpload(h, a, files)
  \/ \E files \in SUBSET Files : Ingest(h, files) \/ UploadFails(h, files)
  \/ SaveUpload(h) \/ SaveRefused(h) \/ FailAttempt(h)

Removal(h) ==
  \/ \E a \in Attempts, i \in Files : BeginRemoval(h, a, i)
  \/ Remove(h) \/ RemoveFails(h)

Next ==
  \/ \E h \in Handlers : Upload(h) \/ Removal(h) \/ DeriveRead(h) \/ DeriveWrite(h) \/ Lose(h)
  \/ \E a \in Attempts : RecordRefusal(a) \/ \E selected \in SUBSET Files : Resolve(a, selected)
  \/ LeaveDraft
  \/ \E i \in Files : Expire(i)

Spec == Init /\ [][Next]_vars

----------------------------------------------------------------------------
(* Properties                                                              *)

\* Screenshots the owner has removed.
Removed == UNION {attempts[a].files : a \in {b \in OfKind("image-removal") :
                                               attempts[b].state = "complete"}}

\* "A failed capture is never misread as a removal": if the intake is complete,
\* each screenshot that was ever offered is saved, or the owner removed it, or
\* named a saved screenshot in its place.
NothingOfferedIsLost ==
  Complete =>
    \A a \in OfKind("upload") :
      \/ attempts[a].files \subseteq images \cup Removed
      \/ attempts[a].replacement # {} /\ attempts[a].replacement \subseteq images

\* A row whose blob a failed removal took is never part of a complete intake.
CompleteIsReadable == Complete => images \subseteq blobs \cup expired

\* The owner is never stuck: while the batch is a draft, what makes its intake
\* incomplete can be put right, for a removal that did not finish still has its
\* screenshot to remove again.
RemovalsCanFinish ==
  \A a \in OfKind("image-removal") :
    attempts[a].state # "complete" => attempts[a].files \subseteq images

\* The evidence is frozen with the draft: the review, the close and a
\* re-extraction find the same verdict, whatever late requests still write.
VerdictFrozen == [][~draft => (Complete' <=> Complete)]_vars

\* A derived batch is tracked only if the intake it inherits is complete.
DerivedIsHonest == derived = "tracked" => Complete

\* What the owner resolved stays resolved, though the upload it is about fails
\* or finishes later.
DecisionsStand ==
  [][\A a \in Rows : attempts[a].state = "resolved" => attempts'[a].state = "resolved"]_vars
=============================================================================
