------------------------ MODULE CaptureIntake_proofs ------------------------
(***************************************************************************)
(* Proofs about the capture intake, for any finite set of screenshots and  *)
(* any number of attempts and requests.                                    *)
(*                                                                         *)
(* Evidence is the inductive invariant: where the screenshots of a batch   *)
(* come from, and which attempt accounts for each that is missing, or that *)
(* cannot be read any more.  Requests is what a request carries from its   *)
(* first transaction to its second.                                        *)
(***************************************************************************)
EXTENDS CaptureIntake, FiniteSetTheorems, TLAPS

Uploads(at) == {a \in Attempts : at[a].kind = "upload"}
Removals(at) == {a \in Attempts : at[a].kind = "image-removal"}

\* Every screenshot was offered by one upload.
Sourced(at, im) ==
  /\ \A i \in im : \E u \in Uploads(at) : i \in at[u].files
  /\ \A u, v \in Uploads(at) : u # v => at[u].files \cap at[v].files = {}

\* What an upload in progress was offered is nowhere else yet.
Pending(at, im) ==
  \A u \in Uploads(at) :
    at[u].state = "receiving"
      => /\ at[u].files \cap im = {}
         /\ \A r \in Removals(at) : at[r].files \cap at[u].files = {}

\* A removal is of one screenshot, saved until the removal is complete, and is
\* never resolved.
Removing(at, im) ==
  \A r \in Removals(at) :
    /\ \E i \in Files : at[r].files = {i}
    /\ at[r].state # "resolved"
    /\ at[r].state # "complete" => at[r].files \subseteq im
    /\ at[r].state = "complete" => at[r].files \cap im = {}
    /\ \A i \in at[r].files : \E u \in Uploads(at) : i \in at[u].files

\* What a complete upload was offered is saved, or was removed.
Saved(at, im) ==
  \A u \in Uploads(at) :
    at[u].state = "complete" =>
      \A i \in at[u].files :
        i \in im \/ \E r \in Removals(at) : at[r].state = "complete" /\ i \in at[r].files

\* A saved screenshot without a blob has expired, or is still to be removed.
Readable(at, im, bl, ex) ==
  \A i \in im :
    \/ i \in bl \cup ex
    \/ \E r \in Removals(at) : at[r].state # "complete" /\ i \in at[r].files

Evidence(at, im, bl, ex) ==
  Sourced(at, im) /\ Pending(at, im) /\ Removing(at, im) /\ Saved(at, im)
    /\ Readable(at, im, bl, ex)

\* An attempt that leaves the verdict alone.
Settled(r, im) ==
  \/ r.kind = "none"
  \/ r.state = "complete"
  \/ r.state = "resolved" /\ r.replacement # {} /\ r.replacement \subseteq im

Verdict(tr, at, im) == tr /\ \A a \in Attempts : Settled(at[a], im)

GoodRequest(q, tr, at, im, bl, dr) ==
  /\ q.op = "receive" => q.attempt \in Uploads(at)
  /\ q.op = "remove" => q.attempt \in Removals(at)
  /\ q.op = "fail" => at[q.attempt].kind # "none"
  /\ q.op = "save" => /\ q.attempt \in Uploads(at)
                      /\ q.accepted \subseteq at[q.attempt].files
                      /\ at[q.attempt].state = "receiving" => q.accepted \subseteq bl
  /\ q.op = "derive" => ~dr /\ (q.complete => Verdict(tr, at, im))

Types ==
  /\ draft \in BOOLEAN /\ tracked \in BOOLEAN
  /\ images \subseteq Files /\ blobs \subseteq Files /\ expired \subseteq Files
  /\ attempts \in [Attempts -> Row \cup {NoRow}]
  /\ handler \in [Handlers -> Request]
  /\ derived \in {"none", "tracked", "inherited-incomplete"}

IInv ==
  /\ Types
  /\ Evidence(attempts, images, blobs, expired)
  /\ \A h \in Handlers : GoodRequest(handler[h], tracked, attempts, images, blobs, draft)
  /\ derived # "none" => ~draft
  /\ derived = "tracked" => Verdict(tracked, attempts, images)

----------------------------------------------------------------------------
(* What IInv says of the properties                                        *)

LEMMA RowFacts ==
  ASSUME Types, NEW a \in Attempts
  PROVE  /\ attempts[a] = NoRow <=> attempts[a].kind = "none"
         /\ attempts[a].kind # "none" => attempts[a] \in Row
         /\ attempts[a].kind \in Kinds \cup {"none"}
BY DEF Types, Row, NoRow, Kinds

LEMMA VerdictIsComplete == Types => (Complete <=> Verdict(tracked, attempts, images))
<1> SUFFICES ASSUME Types PROVE Complete <=> Verdict(tracked, attempts, images)
  OBVIOUS
<1>1. ASSUME NEW a \in Attempts
      PROVE  a \notin Unresolved <=> Settled(attempts[a], images)
  <2>1. CASE attempts[a].kind = "none"
    BY <2>1, RowFacts DEF Unresolved, Rows, Settled
  <2>2. CASE attempts[a].kind # "none"
    <3>1. attempts[a] \in Row /\ attempts[a] # NoRow
      BY <2>2, RowFacts
    <3>2. attempts[a].state \in {"receiving", "complete", "incomplete", "resolved"}
      BY <3>1 DEF Row, States
    <3> QED
      BY <2>2, <3>1, <3>2 DEF Unresolved, Rows, Settled
  <2> QED
    BY <2>1, <2>2
<1>2. Unresolved \subseteq Attempts
  BY DEF Unresolved, Rows
<1> QED
  BY <1>1, <1>2 DEF Complete, Verdict

LEMMA KindsOfRows ==
  ASSUME Types
  PROVE  /\ OfKind("upload") = Uploads(attempts)
         /\ OfKind("image-removal") = Removals(attempts)
BY RowFacts DEF OfKind, Rows, Uploads, Removals

LEMMA InvImpliesProperties ==
  IInv => NothingOfferedIsLost /\ CompleteIsReadable /\ RemovalsCanFinish /\ DerivedIsHonest
<1> SUFFICES ASSUME IInv
             PROVE NothingOfferedIsLost /\ CompleteIsReadable /\ RemovalsCanFinish /\ DerivedIsHonest
  OBVIOUS
<1>1. Types /\ Evidence(attempts, images, blobs, expired)
  BY DEF IInv
<1>2. Complete <=> Verdict(tracked, attempts, images)
  BY <1>1, VerdictIsComplete
<1>3. RemovalsCanFinish
  BY <1>1, KindsOfRows DEF RemovalsCanFinish, Evidence, Removing
<1>4. DerivedIsHonest
  BY <1>2 DEF DerivedIsHonest, IInv
<1>5. CompleteIsReadable
  <2> SUFFICES ASSUME Verdict(tracked, attempts, images), NEW i \in images
               PROVE  i \in blobs \cup expired
    BY <1>2 DEF CompleteIsReadable
  <2>1. ASSUME NEW r \in Removals(attempts) PROVE attempts[r].state = "complete"
    BY <1>1, <2>1 DEF Verdict, Settled, Evidence, Removing, Removals
  <2> QED
    BY <1>1, <2>1 DEF Evidence, Readable
<1>6. NothingOfferedIsLost
  <2> SUFFICES ASSUME Verdict(tracked, attempts, images), NEW u \in Uploads(attempts)
               PROVE \/ attempts[u].files \subseteq images \cup Removed
                     \/ attempts[u].replacement # {} /\ attempts[u].replacement \subseteq images
    BY <1>1, <1>2, KindsOfRows DEF NothingOfferedIsLost
  <2>1. CASE attempts[u].state = "complete"
    <3>1. ASSUME NEW i \in attempts[u].files PROVE i \in images \cup Removed
      BY <1>1, <2>1, <3>1, KindsOfRows DEF Evidence, Saved, Removed
    <3> QED
      BY <3>1
  <2>2. CASE attempts[u].state # "complete"
    BY <2>2 DEF Verdict, Settled, Uploads
  <2> QED
    BY <2>1, <2>2
<1> QED
  BY <1>3, <1>4, <1>5, <1>6

----------------------------------------------------------------------------
(* Steps                                                                   *)

\* No attempt changes what it is about, none starts again, and a decision stands.
RowsKept(at, at2) ==
  \A a \in Attempts :
    at[a].kind # "none" => /\ at2[a].kind = at[a].kind
                           /\ at2[a].files = at[a].files
                           /\ at2[a].state = "receiving" => at[a].state = "receiving"
                           /\ at[a].state = "resolved" => at2[a].state = "resolved"

\* What the other requests rely on: their rows, the blobs of uploads in progress,
\* and the verdict once the batch has left draft.
Kept ==
  /\ RowsKept(attempts, attempts')
  /\ \A u \in Uploads(attempts) :
       attempts'[u].state = "receiving" => (blobs \cap attempts[u].files) \subseteq blobs'
  /\ ~draft => /\ ~draft'
               /\ Verdict(tracked', attempts', images') <=> Verdict(tracked, attempts, images)

LEMMA RequestKept ==
  ASSUME Types, Kept, NEW q \in Request, GoodRequest(q, tracked, attempts, images, blobs, draft)
  PROVE  GoodRequest(q, tracked', attempts', images', blobs', draft')
<1>1. q.op \in {"receive", "remove", "fail", "save"} => q.attempt \in Attempts
  BY DEF Request, Idle
<1>2. q.op = "receive" => q.attempt \in Uploads(attempts')
  BY <1>1 DEF GoodRequest, Kept, RowsKept, Uploads
<1>3. q.op = "remove" => q.attempt \in Removals(attempts')
  BY <1>1 DEF GoodRequest, Kept, RowsKept, Removals
<1>4. q.op = "fail" => attempts'[q.attempt].kind # "none"
  BY <1>1 DEF GoodRequest, Kept, RowsKept
<1>5. ASSUME q.op = "save"
      PROVE  /\ q.attempt \in Uploads(attempts')
             /\ q.accepted \subseteq attempts'[q.attempt].files
             /\ attempts'[q.attempt].state = "receiving" => q.accepted \subseteq blobs'
  <2>1. q.attempt \in Uploads(attempts) /\ q.accepted \subseteq attempts[q.attempt].files
    BY <1>5 DEF GoodRequest
  <2>2. /\ attempts'[q.attempt].kind = "upload"
        /\ attempts'[q.attempt].files = attempts[q.attempt].files
        /\ attempts'[q.attempt].state = "receiving" => attempts[q.attempt].state = "receiving"
    BY <1>1, <1>5, <2>1 DEF Kept, RowsKept, Uploads
  <2>3. ASSUME attempts'[q.attempt].state = "receiving" PROVE q.accepted \subseteq blobs'
    BY <1>5, <2>1, <2>2, <2>3 DEF GoodRequest, Kept
  <2> QED
    BY <1>1, <1>5, <2>1, <2>2, <2>3 DEF Uploads
<1>6. q.op = "derive" => ~draft' /\ (q.complete => Verdict(tracked', attempts', images'))
  BY DEF GoodRequest, Kept
<1> QED
  BY <1>2, <1>3, <1>4, <1>5, <1>6 DEF GoodRequest

\* A step of request h, or of none, that keeps the evidence keeps IInv.
LEMMA GoodStep ==
  ASSUME IInv, Types', Kept, Evidence(attempts', images', blobs', expired'),
         \/ handler' = handler
         \/ \E h \in Handlers :
              /\ \A g \in Handlers \ {h} : handler'[g] = handler[g]
              /\ GoodRequest(handler'[h], tracked', attempts', images', blobs', draft'),
         \/ derived' = derived
         \/ ~draft /\ (derived' = "tracked" => Verdict(tracked, attempts, images))
  PROVE  IInv'
<1>1. ASSUME NEW g \in Handlers
      PROVE  GoodRequest(handler[g], tracked', attempts', images', blobs', draft')
  <2>1. handler[g] \in Request /\ GoodRequest(handler[g], tracked, attempts, images, blobs, draft)
    BY DEF IInv, Types
  <2> QED
    BY <2>1, RequestKept DEF IInv
<1>2. \A g \in Handlers : GoodRequest(handler'[g], tracked', attempts', images', blobs', draft')
  BY <1>1
<1>3. derived' # "none" => ~draft'
  BY DEF IInv, Kept
<1>4. derived' = "tracked" => Verdict(tracked', attempts', images')
  BY DEF IInv, Kept
<1> QED
  BY <1>2, <1>3, <1>4 DEF IInv

\* What a request is about.
LEMMA RequestFacts ==
  ASSUME IInv, NEW h \in Handlers
  PROVE  /\ Doing(h, "receive") \/ Doing(h, "save") => handler[h].attempt \in Uploads(attempts)
         /\ Doing(h, "remove") => handler[h].attempt \in Removals(attempts)
         /\ Doing(h, "fail") => /\ handler[h].attempt \in Attempts
                               /\ attempts[handler[h].attempt].kind # "none"
         /\ Doing(h, "save") => handler[h].accepted \subseteq attempts[handler[h].attempt].files
BY DEF IInv, Types, GoodRequest, Doing, Request, Idle, Uploads, Removals

\* A step that changes no attempt and no saved row.
LEMMA SameRows ==
  ASSUME IInv, UNCHANGED <<tracked, images, attempts>>, draft' => draft,
         \A u \in Uploads(attempts) :
           attempts[u].state = "receiving" => (blobs \cap attempts[u].files) \subseteq blobs',
         Readable(attempts, images, blobs', expired')
  PROVE  Kept /\ Evidence(attempts', images', blobs', expired')
<1>1. Kept
  BY DEF Kept, RowsKept
<1>2. Evidence(attempts', images', blobs', expired')
  BY DEF IInv, Evidence
<1> QED
  BY <1>1, <1>2

\* A step that adds an attempt while the batch is a draft.
LEMMA NewRow ==
  ASSUME IInv, NEW a \in Attempts, attempts[a] = NoRow, NEW row \in Row, draft,
         attempts' = [attempts EXCEPT ![a] = row],
         UNCHANGED <<draft, tracked, images, blobs, expired, derived>>
  PROVE  /\ Kept
         /\ attempts' \in [Attempts -> Row \cup {NoRow}]
         /\ attempts'[a] = row /\ \A b \in Attempts \ {a} : attempts'[b] = attempts[b]
         /\ Uploads(attempts') = Uploads(attempts) \cup {b \in {a} : row.kind = "upload"}
         /\ Removals(attempts') = Removals(attempts) \cup {b \in {a} : row.kind = "image-removal"}
         /\ a \notin Uploads(attempts) /\ a \notin Removals(attempts)
<1>1. attempts \in [Attempts -> Row \cup {NoRow}]
  BY DEF IInv, Types
<1>2. /\ attempts' \in [Attempts -> Row \cup {NoRow}]
      /\ attempts'[a] = row /\ \A b \in Attempts \ {a} : attempts'[b] = attempts[b]
  BY <1>1
<1>3. attempts[a].kind = "none"
  BY DEF NoRow
<1>4. /\ Uploads(attempts') = Uploads(attempts) \cup {b \in {a} : row.kind = "upload"}
      /\ Removals(attempts') = Removals(attempts) \cup {b \in {a} : row.kind = "image-removal"}
      /\ a \notin Uploads(attempts) /\ a \notin Removals(attempts)
  BY <1>2, <1>3 DEF Uploads, Removals
<1>5. Kept
  BY <1>2, <1>3 DEF Kept, RowsKept
<1> QED
  BY <1>2, <1>4, <1>5

LEMMA BeginUploadStep ==
  ASSUME IInv, NEW h \in Handlers, NEW a \in Attempts, NEW files \in SUBSET Files,
         BeginUpload(h, a, files)
  PROVE  IInv' /\ Kept
<1> DEFINE row == [kind |-> "upload", state |-> "receiving", files |-> files, replacement |-> {}]
<1>1. Types /\ Evidence(attempts, images, blobs, expired)
  BY DEF IInv
<1>2. row \in Row
  BY DEF Row, Kinds, States
<1> HIDE DEF row
<1>3. /\ Kept
      /\ attempts' \in [Attempts -> Row \cup {NoRow}]
      /\ attempts'[a] = row /\ \A b \in Attempts \ {a} : attempts'[b] = attempts[b]
      /\ Uploads(attempts') = Uploads(attempts) \cup {b \in {a} : row.kind = "upload"}
      /\ Removals(attempts') = Removals(attempts) \cup {b \in {a} : row.kind = "image-removal"}
      /\ a \notin Uploads(attempts) /\ a \notin Removals(attempts)
  BY <1>2, NewRow DEF BeginUpload, row
<1>4. row.kind = "upload" /\ row.state = "receiving" /\ row.files = files
  BY DEF row
<1>5. /\ Uploads(attempts') = Uploads(attempts) \cup {a}
      /\ Removals(attempts') = Removals(attempts)
  BY <1>3, <1>4
<1>6. \A u \in Uploads(attempts) \cup Removals(attempts) : u # a /\ attempts'[u] = attempts[u]
  BY <1>3 DEF Uploads, Removals
<1>7. \A u \in Uploads(attempts) : files \cap attempts[u].files = {}
  BY <1>1, KindsOfRows DEF BeginUpload, Offered
<1>8. files \cap images = {} /\ \A r \in Removals(attempts) : attempts[r].files \cap files = {}
  BY <1>1, <1>7 DEF Evidence, Sourced, Removing
<1>9. UNCHANGED <<draft, tracked, images, blobs, expired, derived>>
  BY DEF BeginUpload
<1>10. Evidence(attempts', images', blobs', expired')
  <2>1. Sourced(attempts', images)
    BY <1>1, <1>3, <1>4, <1>5, <1>6, <1>7 DEF Evidence, Sourced
  <2>2. Pending(attempts', images)
    BY <1>1, <1>3, <1>4, <1>5, <1>6, <1>8 DEF Evidence, Pending
  <2>3. Removing(attempts', images)
    BY <1>1, <1>5, <1>6 DEF Evidence, Removing
  <2>4. Saved(attempts', images)
    BY <1>1, <1>3, <1>4, <1>5, <1>6 DEF Evidence, Saved
  <2>5. Readable(attempts', images, blobs, expired)
    BY <1>1, <1>5, <1>6 DEF Evidence, Readable
  <2> QED
    BY <1>9, <2>1, <2>2, <2>3, <2>4, <2>5 DEF Evidence
<1>11. handler' = [handler EXCEPT ![h] = [op |-> "receive", attempt |-> a]]
  BY DEF BeginUpload
<1>12. Types'
  BY <1>1, <1>3, <1>9, <1>11 DEF Types, Request
<1>13. /\ \A g \in Handlers \ {h} : handler'[g] = handler[g]
       /\ GoodRequest(handler'[h], tracked', attempts', images', blobs', draft')
  BY <1>1, <1>5, <1>11 DEF Types, GoodRequest
<1> QED
  BY <1>3, <1>9, <1>10, <1>12, <1>13, GoodStep

LEMMA BeginRemovalStep ==
  ASSUME IInv, NEW h \in Handlers, NEW a \in Attempts, NEW i \in Files,
         BeginRemoval(h, a, i)
  PROVE  IInv' /\ Kept
<1> DEFINE row == [kind |-> "image-removal", state |-> "receiving",
                   files |-> {i}, replacement |-> {}]
<1>1. Types /\ Evidence(attempts, images, blobs, expired) /\ i \in images
  BY DEF IInv, BeginRemoval
<1>2. row \in Row
  BY DEF Row, Kinds, States
<1> HIDE DEF row
<1>3. /\ Kept
      /\ attempts' \in [Attempts -> Row \cup {NoRow}]
      /\ attempts'[a] = row /\ \A b \in Attempts \ {a} : attempts'[b] = attempts[b]
      /\ Uploads(attempts') = Uploads(attempts) \cup {b \in {a} : row.kind = "upload"}
      /\ Removals(attempts') = Removals(attempts) \cup {b \in {a} : row.kind = "image-removal"}
      /\ a \notin Uploads(attempts) /\ a \notin Removals(attempts)
  BY <1>2, NewRow DEF BeginRemoval, row
<1>4. row.kind = "image-removal" /\ row.state = "receiving" /\ row.files = {i}
  BY DEF row
<1>5. /\ Uploads(attempts') = Uploads(attempts)
      /\ Removals(attempts') = Removals(attempts) \cup {a}
  BY <1>3, <1>4
<1>6. \A u \in Uploads(attempts) \cup Removals(attempts) : u # a /\ attempts'[u] = attempts[u]
  BY <1>3 DEF Uploads, Removals
<1>7. UNCHANGED <<draft, tracked, images, blobs, expired, derived>>
  BY DEF BeginRemoval
<1>8. Evidence(attempts', images', blobs', expired')
  <2>1. Sourced(attempts', images)
    BY <1>1, <1>5, <1>6 DEF Evidence, Sourced
  <2>2. Pending(attempts', images)
    BY <1>1, <1>3, <1>4, <1>5, <1>6 DEF Evidence, Pending
  <2>3. Removing(attempts', images)
    <3>1. \E u \in Uploads(attempts') : i \in attempts'[u].files
      BY <1>1, <1>5, <1>6 DEF Evidence, Sourced
    <3> QED
      BY <1>1, <1>3, <1>4, <1>5, <1>6, <3>1 DEF Evidence, Removing
  <2>4. Saved(attempts', images)
    BY <1>1, <1>5, <1>6 DEF Evidence, Saved
  <2>5. Readable(attempts', images, blobs, expired)
    BY <1>1, <1>5, <1>6 DEF Evidence, Readable
  <2> QED
    BY <1>7, <2>1, <2>2, <2>3, <2>4, <2>5 DEF Evidence
<1>9. handler' = [handler EXCEPT ![h] = [op |-> "remove", attempt |-> a]]
  BY DEF BeginRemoval
<1>10. Types'
  BY <1>1, <1>3, <1>7, <1>9 DEF Types, Request
<1>11. /\ \A g \in Handlers \ {h} : handler'[g] = handler[g]
       /\ GoodRequest(handler'[h], tracked', attempts', images', blobs', draft')
  BY <1>1, <1>5, <1>9 DEF Types, GoodRequest
<1> QED
  BY <1>3, <1>7, <1>8, <1>10, <1>11, GoodStep

LEMMA RecordRefusalStep ==
  ASSUME IInv, NEW a \in Attempts, RecordRefusal(a)
  PROVE  IInv' /\ Kept
<1> DEFINE row == [kind |-> "local-refusal", state |-> "incomplete",
                   files |-> {}, replacement |-> {}]
<1>1. Types /\ Evidence(attempts, images, blobs, expired)
  BY DEF IInv
<1>2. row \in Row
  BY DEF Row, Kinds, States
<1> HIDE DEF row
<1>3. /\ Kept
      /\ attempts' \in [Attempts -> Row \cup {NoRow}]
      /\ attempts'[a] = row /\ \A b \in Attempts \ {a} : attempts'[b] = attempts[b]
      /\ Uploads(attempts') = Uploads(attempts) \cup {b \in {a} : row.kind = "upload"}
      /\ Removals(attempts') = Removals(attempts) \cup {b \in {a} : row.kind = "image-removal"}
      /\ a \notin Uploads(attempts) /\ a \notin Removals(attempts)
  BY <1>2, NewRow DEF RecordRefusal, row
<1>4. row.kind = "local-refusal"
  BY DEF row
<1>5. Uploads(attempts') = Uploads(attempts) /\ Removals(attempts') = Removals(attempts)
  BY <1>3, <1>4
<1>6. \A u \in Uploads(attempts) \cup Removals(attempts) : attempts'[u] = attempts[u]
  BY <1>3 DEF Uploads, Removals
<1>7. UNCHANGED <<draft, tracked, images, blobs, expired, handler, derived>>
  BY DEF RecordRefusal
<1>8. Evidence(attempts', images', blobs', expired')
  <2>1. Sourced(attempts', images) /\ Pending(attempts', images)
    BY <1>1, <1>5, <1>6 DEF Evidence, Sourced, Pending
  <2>2. Removing(attempts', images)
    BY <1>1, <1>5, <1>6 DEF Evidence, Removing
  <2>3. Saved(attempts', images) /\ Readable(attempts', images, blobs, expired)
    BY <1>1, <1>5, <1>6 DEF Evidence, Saved, Readable
  <2> QED
    BY <1>7, <2>1, <2>2, <2>3 DEF Evidence
<1>9. Types'
  BY <1>1, <1>3, <1>7 DEF Types
<1> QED
  BY <1>3, <1>7, <1>8, <1>9, GoodStep

LEMMA IngestStep ==
  ASSUME IInv, NEW h \in Handlers, NEW accepted \in SUBSET Files, Ingest(h, accepted)
  PROVE  IInv' /\ Kept
<1> DEFINE a == handler[h].attempt
<1>1. Types /\ Readable(attempts, images, blobs, expired) /\ a \in Uploads(attempts)
  BY RequestFacts DEF IInv, Evidence, Ingest
<1>2. /\ accepted \subseteq attempts[a].files /\ blobs' = blobs \cup accepted
      /\ handler' = [handler EXCEPT ![h] = [op |-> "save", attempt |-> a, accepted |-> accepted]]
      /\ UNCHANGED <<draft, tracked, images, expired, attempts, derived>>
  BY DEF Ingest
<1> HIDE DEF a
<1>3. Kept /\ Evidence(attempts', images', blobs', expired')
  BY <1>1, <1>2, SameRows DEF Readable
<1>4. Types'
  BY <1>1, <1>2 DEF Types, Request, Uploads
<1>5. /\ \A g \in Handlers \ {h} : handler'[g] = handler[g]
      /\ GoodRequest(handler'[h], tracked', attempts', images', blobs', draft')
  BY <1>1, <1>2 DEF Types, GoodRequest
<1> QED
  BY <1>2, <1>3, <1>4, <1>5, GoodStep

LEMMA UploadFailsStep ==
  ASSUME IInv, NEW h \in Handlers, NEW put \in SUBSET Files, UploadFails(h, put)
  PROVE  IInv' /\ Kept
<1> DEFINE a == handler[h].attempt
<1>1. Types /\ Readable(attempts, images, blobs, expired) /\ a \in Uploads(attempts)
  BY RequestFacts DEF IInv, Evidence, UploadFails
<1>2. /\ blobs' = blobs \cup put
      /\ handler' = [handler EXCEPT ![h] = [op |-> "fail", attempt |-> a]]
      /\ UNCHANGED <<draft, tracked, images, expired, attempts, derived>>
  BY DEF UploadFails, Fail
<1> HIDE DEF a
<1>3. Kept /\ Evidence(attempts', images', blobs', expired')
  BY <1>1, <1>2, SameRows DEF Readable
<1>4. Types'
  BY <1>1, <1>2 DEF Types, Request, Uploads
<1>5. /\ \A g \in Handlers \ {h} : handler'[g] = handler[g]
      /\ GoodRequest(handler'[h], tracked', attempts', images', blobs', draft')
  BY <1>1, <1>2 DEF Types, GoodRequest, Uploads
<1> QED
  BY <1>2, <1>3, <1>4, <1>5, GoodStep

LEMMA SaveRefusedStep ==
  ASSUME IInv, NEW h \in Handlers, SaveRefused(h)
  PROVE  IInv' /\ Kept
<1> DEFINE a == handler[h].attempt
<1>1. Types /\ Readable(attempts, images, blobs, expired) /\ a \in Uploads(attempts)
  BY RequestFacts DEF IInv, Evidence, SaveRefused
<1>2. /\ handler' = [handler EXCEPT ![h] = [op |-> "fail", attempt |-> a]]
      /\ UNCHANGED <<draft, tracked, images, blobs, expired, attempts, derived>>
  BY DEF SaveRefused, Fail
<1> HIDE DEF a
<1>3. Kept /\ Evidence(attempts', images', blobs', expired')
  BY <1>1, <1>2, SameRows
<1>4. Types'
  BY <1>1, <1>2 DEF Types, Request, Uploads
<1>5. /\ \A g \in Handlers \ {h} : handler'[g] = handler[g]
      /\ GoodRequest(handler'[h], tracked', attempts', images', blobs', draft')
  BY <1>1, <1>2 DEF Types, GoodRequest, Uploads
<1> QED
  BY <1>2, <1>3, <1>4, <1>5, GoodStep

LEMMA RemoveFailsStep ==
  ASSUME IInv, NEW h \in Handlers, RemoveFails(h)
  PROVE  IInv' /\ Kept
<1> DEFINE r == handler[h].attempt
<1>1. Types /\ Evidence(attempts, images, blobs, expired) /\ r \in Removals(attempts)
  BY RequestFacts DEF IInv, RemoveFails
<1>2. /\ blobs' = blobs \/ (draft /\ blobs' = blobs \ attempts[r].files)
      /\ handler' = [handler EXCEPT ![h] = [op |-> "fail", attempt |-> r]]
      /\ UNCHANGED <<draft, tracked, images, expired, attempts, derived>>
  BY DEF RemoveFails, Fail
<1> HIDE DEF r
<1>3. \A u \in Uploads(attempts) :
        attempts[u].state = "receiving" => (blobs \cap attempts[u].files) \subseteq blobs'
  BY <1>1, <1>2 DEF Evidence, Pending
\* The screenshot whose blob goes is covered by the removal that did not finish.
<1>4. Readable(attempts, images, blobs', expired')
  BY <1>1, <1>2 DEF Evidence, Readable, Removing
<1>5. Kept /\ Evidence(attempts', images', blobs', expired')
  BY <1>2, <1>3, <1>4, SameRows
<1>6. Types'
  BY <1>1, <1>2 DEF Types, Request, Removals
<1>7. /\ \A g \in Handlers \ {h} : handler'[g] = handler[g]
      /\ GoodRequest(handler'[h], tracked', attempts', images', blobs', draft')
  BY <1>1, <1>2 DEF Types, GoodRequest, Removals
<1> QED
  BY <1>2, <1>5, <1>6, <1>7, GoodStep

LEMMA LoseStep ==
  ASSUME IInv, NEW h \in Handlers, Lose(h)
  PROVE  IInv' /\ Kept
<1>1. Types /\ Readable(attempts, images, blobs, expired)
  BY DEF IInv, Evidence
<1>2. /\ handler' = [handler EXCEPT ![h] = Idle]
      /\ UNCHANGED <<draft, tracked, images, blobs, expired, attempts, derived>>
  BY DEF Lose, Answer
<1>3. Kept /\ Evidence(attempts', images', blobs', expired')
  BY <1>1, <1>2, SameRows
<1>4. Types'
  BY <1>1, <1>2 DEF Types, Request
<1>5. /\ \A g \in Handlers \ {h} : handler'[g] = handler[g]
      /\ GoodRequest(handler'[h], tracked', attempts', images', blobs', draft')
  BY <1>1, <1>2 DEF Types, GoodRequest, Idle
<1> QED
  BY <1>2, <1>3, <1>4, <1>5, GoodStep

LEMMA LeaveDraftStep ==
  ASSUME IInv, LeaveDraft
  PROVE  IInv' /\ Kept
<1>1. Types /\ Readable(attempts, images, blobs, expired)
  BY DEF IInv, Evidence
<1>2. draft' = FALSE /\ UNCHANGED <<tracked, images, blobs, expired, attempts, handler, derived>>
  BY DEF LeaveDraft
<1>3. Kept /\ Evidence(attempts', images', blobs', expired')
  BY <1>1, <1>2, SameRows
<1>4. Types'
  BY <1>1, <1>2 DEF Types
<1> QED
  BY <1>2, <1>3, <1>4, GoodStep

LEMMA ExpireStep ==
  ASSUME IInv, NEW i \in Files, Expire(i)
  PROVE  IInv' /\ Kept
<1>1. Types /\ Evidence(attempts, images, blobs, expired) /\ i \in images
  BY DEF IInv, Expire
<1>2. /\ expired' = expired \cup {i} /\ blobs' = blobs \ {i}
      /\ UNCHANGED <<draft, tracked, images, attempts, handler, derived>>
  BY DEF Expire
<1>3. \A u \in Uploads(attempts) :
        attempts[u].state = "receiving" => (blobs \cap attempts[u].files) \subseteq blobs'
  BY <1>1, <1>2 DEF Evidence, Pending
<1>4. Readable(attempts, images, blobs', expired')
  BY <1>1, <1>2 DEF Evidence, Readable
<1>5. Kept /\ Evidence(attempts', images', blobs', expired')
  BY <1>2, <1>3, <1>4, SameRows
<1>6. Types'
  BY <1>1, <1>2 DEF Types
<1> QED
  BY <1>2, <1>5, <1>6, GoodStep

LEMMA DeriveReadStep ==
  ASSUME IInv, NEW h \in Handlers, DeriveRead(h)
  PROVE  IInv' /\ Kept
<1>1. Types /\ Readable(attempts, images, blobs, expired)
  BY DEF IInv, Evidence
<1>2. /\ ~draft
      /\ handler' = [handler EXCEPT ![h] = [op |-> "derive", complete |-> Complete]]
      /\ UNCHANGED <<draft, tracked, images, blobs, expired, attempts, derived>>
  BY DEF DeriveRead
<1>3. Complete \in BOOLEAN /\ (Complete => Verdict(tracked, attempts, images))
  <2>1. Complete \in BOOLEAN
    BY <1>1 DEF Complete, Types
  <2> QED
    BY <1>1, <2>1, VerdictIsComplete
<1>4. Kept /\ Evidence(attempts', images', blobs', expired')
  BY <1>1, <1>2, SameRows
<1> DEFINE c == Complete
<1>5. c \in BOOLEAN /\ handler' = [handler EXCEPT ![h] = [op |-> "derive", complete |-> c]]
  BY <1>2, <1>3
<1>6. c => Verdict(tracked', attempts', images')
  BY <1>2, <1>3
<1> HIDE DEF c
<1>7. Types'
  BY <1>1, <1>2, <1>5 DEF Types, Request
<1>8. /\ \A g \in Handlers \ {h} : handler'[g] = handler[g]
      /\ GoodRequest(handler'[h], tracked', attempts', images', blobs', draft')
  BY <1>1, <1>2, <1>5, <1>6 DEF Types, GoodRequest
<1> QED
  BY <1>2, <1>4, <1>7, <1>8, GoodStep

LEMMA DeriveWriteStep ==
  ASSUME IInv, NEW h \in Handlers, DeriveWrite(h)
  PROVE  IInv' /\ Kept
<1>1. Types /\ Readable(attempts, images, blobs, expired)
  BY DEF IInv, Evidence
<1>2. /\ handler[h].op = "derive"
      /\ derived' = IF handler[h].complete THEN "tracked" ELSE "inherited-incomplete"
      /\ handler' = [handler EXCEPT ![h] = Idle]
      /\ UNCHANGED <<draft, tracked, images, blobs, expired, attempts>>
  BY DEF DeriveWrite, Doing, Answer
<1>3. ~draft /\ (derived' = "tracked" => Verdict(tracked, attempts, images))
  BY <1>2 DEF IInv, GoodRequest
<1>4. Kept /\ Evidence(attempts', images', blobs', expired')
  BY <1>1, <1>2, SameRows
<1>5. Types'
  BY <1>1, <1>2 DEF Types, Request
<1>6. /\ \A g \in Handlers \ {h} : handler'[g] = handler[g]
      /\ GoodRequest(handler'[h], tracked', attempts', images', blobs', draft')
  BY <1>1, <1>2 DEF Types, GoodRequest, Idle
<1> QED
  BY <1>3, <1>4, <1>5, <1>6, GoodStep

\* One attempt changes its state, and what replaces its input.
LEMMA OneRow ==
  ASSUME Types, NEW a \in Attempts, NEW row \in Row, row.kind = attempts[a].kind,
         row.files = attempts[a].files, attempts' = [attempts EXCEPT ![a] = row]
  PROVE  /\ attempts' \in [Attempts -> Row \cup {NoRow}]
         /\ attempts'[a] = row /\ \A b \in Attempts \ {a} : attempts'[b] = attempts[b]
         /\ \A b \in Attempts : /\ attempts'[b].kind = attempts[b].kind
                                /\ attempts'[b].files = attempts[b].files
         /\ Uploads(attempts') = Uploads(attempts)
         /\ Removals(attempts') = Removals(attempts)
BY DEF Types, Uploads, Removals

LEMMA FailAttemptStep ==
  ASSUME IInv, NEW h \in Handlers, FailAttempt(h)
  PROVE  IInv' /\ Kept
<1> DEFINE a == handler[h].attempt
           row == [attempts[a] EXCEPT !.state = "incomplete"]
<1>1. Types /\ Evidence(attempts, images, blobs, expired) /\ a \in Attempts /\ attempts[a] \in Row
  BY RequestFacts, RowFacts DEF IInv, FailAttempt
<1>2. /\ attempts' = IF attempts[a].state = "receiving" THEN [attempts EXCEPT ![a] = row]
                                                        ELSE attempts
      /\ handler' = [handler EXCEPT ![h] = Idle]
      /\ UNCHANGED <<draft, tracked, images, blobs, expired, derived>>
  BY DEF FailAttempt, Settle, Answer
<1>3. /\ row \in Row /\ row.kind = attempts[a].kind /\ row.files = attempts[a].files
      /\ row.state = "incomplete" /\ attempts[a].kind # "none"
  BY <1>1 DEF Row, States, Kinds
<1> HIDE DEF a, row
<1>4. CASE attempts[a].state # "receiving"
  <2>1. Kept /\ Evidence(attempts', images', blobs', expired')
    BY <1>1, <1>2, <1>4, SameRows DEF Evidence
  <2>2. Types'
    BY <1>1, <1>2, <1>4 DEF Types, Request
  <2>3. /\ \A g \in Handlers \ {h} : handler'[g] = handler[g]
        /\ GoodRequest(handler'[h], tracked', attempts', images', blobs', draft')
    BY <1>1, <1>2 DEF Types, GoodRequest, Idle
  <2> QED
    BY <1>2, <2>1, <2>2, <2>3, GoodStep
<1>5. CASE attempts[a].state = "receiving"
  <2>1. /\ attempts' \in [Attempts -> Row \cup {NoRow}]
        /\ attempts'[a] = row /\ \A b \in Attempts \ {a} : attempts'[b] = attempts[b]
        /\ \A b \in Attempts : /\ attempts'[b].kind = attempts[b].kind
                               /\ attempts'[b].files = attempts[b].files
        /\ Uploads(attempts') = Uploads(attempts)
        /\ Removals(attempts') = Removals(attempts)
    BY <1>1, <1>2, <1>3, <1>5, OneRow
  <2>2. \A b \in Attempts : \/ attempts'[b].state = attempts[b].state
                            \/ /\ b = a /\ attempts[b].state = "receiving"
                               /\ attempts'[b].state = "incomplete"
    BY <1>3, <1>5, <2>1
  <2>3. Kept
    <3>1. RowsKept(attempts, attempts') /\ \A u \in Uploads(attempts) :
             attempts'[u].state = "receiving" => (blobs \cap attempts[u].files) \subseteq blobs'
      BY <1>2, <2>1, <2>2 DEF RowsKept
    <3>2. ~Verdict(tracked, attempts, images) /\ ~Verdict(tracked', attempts', images')
      BY <1>1, <1>3, <1>5, <2>1 DEF Verdict, Settled
    <3> QED
      BY <1>2, <3>1, <3>2 DEF Kept
  <2>4. Evidence(attempts', images', blobs', expired')
    <3>1. Sourced(attempts', images)
      BY <1>1, <2>1 DEF Evidence, Sourced, Uploads
    <3>2. Pending(attempts', images)
      BY <1>1, <2>1, <2>2 DEF Evidence, Pending, Uploads, Removals
    <3>3. Removing(attempts', images)
      BY <1>1, <2>1, <2>2 DEF Evidence, Removing, Uploads, Removals
    <3>4. Saved(attempts', images)
      BY <1>1, <2>1, <2>2 DEF Evidence, Saved, Uploads, Removals
    <3>5. Readable(attempts', images, blobs, expired)
      BY <1>1, <2>1, <2>2 DEF Evidence, Readable, Removals
    <3> QED
      BY <1>2, <3>1, <3>2, <3>3, <3>4, <3>5 DEF Evidence
  <2>5. Types'
    BY <1>1, <1>2, <2>1 DEF Types, Request
  <2>6. /\ \A g \in Handlers \ {h} : handler'[g] = handler[g]
        /\ GoodRequest(handler'[h], tracked', attempts', images', blobs', draft')
    BY <1>1, <1>2 DEF Types, GoodRequest, Idle
  <2> QED
    BY <1>2, <2>3, <2>4, <2>5, <2>6, GoodStep
<1> QED
  BY <1>4, <1>5

LEMMA ResolveStep ==
  ASSUME IInv, NEW a \in Attempts, NEW selected \in SUBSET Files, Resolve(a, selected)
  PROVE  IInv' /\ Kept
<1> DEFINE row == [attempts[a] EXCEPT !.state = "resolved", !.replacement = selected]
<1>1. /\ Types /\ Evidence(attempts, images, blobs, expired)
      /\ a \in Rows \ OfKind("image-removal") /\ a \notin Removals(attempts)
      /\ attempts[a] \in Row
  BY RowFacts, KindsOfRows DEF IInv, Resolve, Rows
<1>2. /\ draft
      /\ attempts' = [attempts EXCEPT ![a] = row]
      /\ UNCHANGED <<draft, tracked, images, blobs, expired, handler, derived>>
  BY <1>1 DEF Resolve, Row
<1>3. /\ row \in Row /\ row.kind = attempts[a].kind /\ row.files = attempts[a].files
      /\ row.state = "resolved"
  BY <1>1 DEF Row, States, Kinds
<1> HIDE DEF row
<1>4. /\ attempts' \in [Attempts -> Row \cup {NoRow}]
      /\ attempts'[a] = row /\ \A b \in Attempts \ {a} : attempts'[b] = attempts[b]
      /\ \A b \in Attempts : /\ attempts'[b].kind = attempts[b].kind
                             /\ attempts'[b].files = attempts[b].files
      /\ Uploads(attempts') = Uploads(attempts)
      /\ Removals(attempts') = Removals(attempts)
  BY <1>1, <1>2, <1>3, OneRow
<1>5. \A b \in Attempts : \/ attempts'[b].state = attempts[b].state
                          \/ attempts'[b].state = "resolved" /\ b \notin Removals(attempts)
  BY <1>1, <1>3, <1>4
<1>6. Kept
  BY <1>2, <1>4, <1>5 DEF Kept, RowsKept, Uploads
<1>7. Evidence(attempts', images', blobs', expired')
  <2>1. Sourced(attempts', images)
    BY <1>1, <1>4 DEF Evidence, Sourced, Uploads
  <2>2. Pending(attempts', images)
    BY <1>1, <1>4, <1>5 DEF Evidence, Pending, Uploads, Removals
  <2>3. Removing(attempts', images)
    BY <1>1, <1>4, <1>5 DEF Evidence, Removing, Uploads, Removals
  <2>4. Saved(attempts', images)
    BY <1>1, <1>4, <1>5 DEF Evidence, Saved, Uploads, Removals
  <2>5. Readable(attempts', images, blobs, expired)
    BY <1>1, <1>4, <1>5 DEF Evidence, Readable, Removals
  <2> QED
    BY <1>2, <2>1, <2>2, <2>3, <2>4, <2>5 DEF Evidence
<1>8. Types'
  BY <1>1, <1>2, <1>4 DEF Types
<1> QED
  BY <1>2, <1>6, <1>7, <1>8, GoodStep

LEMMA SaveUploadStep ==
  ASSUME IInv, NEW h \in Handlers, SaveUpload(h)
  PROVE  IInv' /\ Kept
<1> DEFINE a        == handler[h].attempt
           accepted == handler[h].accepted
           row      == [attempts[a] EXCEPT
                          !.state = IF accepted = attempts[a].files THEN "complete"
                                                                    ELSE "incomplete"]
<1>1. /\ Types /\ Evidence(attempts, images, blobs, expired)
      /\ a \in Uploads(attempts) /\ attempts[a] \in Row /\ accepted \subseteq attempts[a].files
  BY RequestFacts, RowFacts DEF IInv, SaveUpload, Uploads
<1>2. /\ draft /\ attempts[a].state = "receiving"
      /\ attempts' = [attempts EXCEPT ![a] = row]
      /\ images' = images \cup accepted
      /\ \/ handler' = [handler EXCEPT ![h] = Idle]
         \/ handler' = [handler EXCEPT ![h] = [op |-> "fail", attempt |-> a]]
      /\ UNCHANGED <<draft, tracked, blobs, expired, derived>>
  BY DEF SaveUpload, Settle, Answer, Fail
<1>3. accepted \subseteq blobs
  BY <1>2 DEF IInv, GoodRequest, SaveUpload, Doing
<1>4. /\ row \in Row /\ row.kind = attempts[a].kind /\ row.files = attempts[a].files
      /\ row.state = "incomplete" \/ (row.state = "complete" /\ accepted = attempts[a].files)
  BY <1>1 DEF Row, States, Kinds
<1> HIDE DEF a, accepted, row
<1>5. a \in Attempts
  BY <1>1 DEF Uploads
<1>6. /\ attempts' \in [Attempts -> Row \cup {NoRow}]
      /\ attempts'[a] = row /\ \A b \in Attempts \ {a} : attempts'[b] = attempts[b]
      /\ \A b \in Attempts : /\ attempts'[b].kind = attempts[b].kind
                             /\ attempts'[b].files = attempts[b].files
      /\ Uploads(attempts') = Uploads(attempts)
      /\ Removals(attempts') = Removals(attempts)
  BY <1>1, <1>2, <1>4, <1>5, OneRow
<1>7. /\ \A b \in Removals(attempts) : attempts'[b] = attempts[b]
      /\ \A b \in Uploads(attempts) : b # a => attempts'[b] = attempts[b]
      /\ attempts'[a].state # "receiving"
      /\ attempts'[a].state = "complete" => accepted = attempts[a].files
  BY <1>1, <1>4, <1>6 DEF Uploads, Removals
<1>8. Kept
  BY <1>2, <1>6, <1>7 DEF Kept, RowsKept
<1>9. Evidence(attempts', images', blobs', expired')
  <2>1. Sourced(attempts', images')
    BY <1>1, <1>2, <1>6 DEF Evidence, Sourced, Uploads
  <2>2. Pending(attempts', images')
    <3> SUFFICES ASSUME NEW u \in Uploads(attempts), attempts'[u].state = "receiving"
                 PROVE  /\ attempts[u].files \cap images' = {}
                        /\ \A r \in Removals(attempts) :
                             attempts[r].files \cap attempts[u].files = {}
      BY <1>6 DEF Pending, Uploads, Removals
    <3>1. u # a /\ attempts[u].state = "receiving"
      BY <1>7
    <3>2. attempts[u].files \cap accepted = {}
      BY <1>1, <3>1 DEF Evidence, Sourced
    <3> QED
      BY <1>1, <1>2, <3>1, <3>2 DEF Evidence, Pending
  <2>3. Removing(attempts', images')
    <3>1. \A r \in Removals(attempts) : attempts[r].files \cap accepted = {}
      BY <1>1, <1>2 DEF Evidence, Pending
    <3> QED
      BY <1>1, <1>2, <1>6, <1>7, <3>1 DEF Evidence, Removing, Uploads
  <2>4. Saved(attempts', images')
    BY <1>1, <1>2, <1>6, <1>7 DEF Evidence, Saved
  <2>5. Readable(attempts', images', blobs, expired)
    BY <1>1, <1>2, <1>3, <1>6, <1>7 DEF Evidence, Readable
  <2> QED
    BY <1>2, <2>1, <2>2, <2>3, <2>4, <2>5 DEF Evidence
<1>10. Types'
  <2>1. handler' \in [Handlers -> Request]
    BY <1>1, <1>2, <1>5 DEF Types, Request
  <2>2. images' \subseteq Files
    BY <1>1, <1>2 DEF Types, Row
  <2> QED
    BY <1>1, <1>2, <1>6, <2>1, <2>2 DEF Types
<1>11. /\ \A g \in Handlers \ {h} : handler'[g] = handler[g]
       /\ GoodRequest(handler'[h], tracked', attempts', images', blobs', draft')
  BY <1>1, <1>2, <1>6 DEF Types, GoodRequest, Idle, Uploads
<1> QED
  BY <1>2, <1>8, <1>9, <1>10, <1>11, GoodStep

LEMMA RemoveStep ==
  ASSUME IInv, NEW h \in Handlers, Remove(h)
  PROVE  IInv' /\ Kept
<1> DEFINE a == handler[h].attempt
<1>1. /\ Types /\ Evidence(attempts, images, blobs, expired)
      /\ a \in Removals(attempts)
  BY RequestFacts DEF IInv, Remove
<1>2. /\ draft
      /\ blobs' = blobs \ attempts[a].files /\ images' = images \ attempts[a].files
      /\ \/ handler' = [handler EXCEPT ![h] = Idle]
         \/ handler' = [handler EXCEPT ![h] = [op |-> "fail", attempt |-> a]]
      /\ UNCHANGED <<draft, tracked, expired, derived>>
  BY DEF Remove, Answer, Fail
<1>3. attempts' = [b \in Attempts |->
                     IF b \in Removals(attempts) /\ attempts[b].files = attempts[a].files
                       THEN [attempts[b] EXCEPT !.state = "complete"] ELSE attempts[b]]
  BY <1>1, KindsOfRows DEF Remove, FinishRemovals
<1> HIDE DEF a
<1>4. PICK i \in Files : attempts[a].files = {i}
  BY <1>1 DEF Evidence, Removing
<1>5. \A b \in Removals(attempts) : attempts[b] \in Row
  BY <1>1, RowFacts DEF Removals
<1>6. attempts' \in [Attempts -> Row \cup {NoRow}]
  <2>1. ASSUME NEW b \in Removals(attempts)
        PROVE  [attempts[b] EXCEPT !.state = "complete"] \in Row
    BY <1>5, <2>1 DEF Row, States
  <2>2. \A b \in Attempts : attempts[b] \in Row \cup {NoRow}
    BY <1>1 DEF Types
  <2> QED
    BY <1>3, <2>1, <2>2
<1>7. \A b \in Attempts :
        /\ attempts'[b].kind = attempts[b].kind /\ attempts'[b].files = attempts[b].files
        /\ b \notin Removals(attempts) => attempts'[b] = attempts[b]
        /\ b \in Removals(attempts) => IF attempts[b].files = {i}
             THEN attempts'[b].state = "complete" ELSE attempts'[b].state = attempts[b].state
  <2>1. ASSUME NEW b \in Removals(attempts)
        PROVE  LET done == [attempts[b] EXCEPT !.state = "complete"]
               IN  /\ done.kind = attempts[b].kind /\ done.files = attempts[b].files
                   /\ done.state = "complete"
    BY <1>5, <2>1 DEF Row
  <2> QED
    BY <1>3, <1>4, <2>1
<1>8. Uploads(attempts') = Uploads(attempts) /\ Removals(attempts') = Removals(attempts)
  BY <1>7 DEF Uploads, Removals
<1>9. \A u \in Uploads(attempts) : u \in Attempts /\ attempts'[u] = attempts[u]
  BY <1>7 DEF Uploads, Removals
<1>10. Kept
  <2>1. RowsKept(attempts, attempts')
    BY <1>1, <1>7 DEF RowsKept, Evidence, Removing
  <2>2. ASSUME NEW u \in Uploads(attempts), attempts'[u].state = "receiving"
        PROVE  (blobs \cap attempts[u].files) \subseteq blobs'
    BY <1>1, <1>2, <1>9, <2>2 DEF Evidence, Pending
  <2> QED
    BY <1>2, <2>1, <2>2 DEF Kept
<1>11. Evidence(attempts', images', blobs', expired')
  <2> USE DEF Evidence
  <2>1. Sourced(attempts', images')
    BY <1>1, <1>2, <1>8, <1>9 DEF Sourced
  <2>2. Pending(attempts', images')
    BY <1>1, <1>2, <1>7, <1>8, <1>9 DEF Pending, Removals
  <2>3. Removing(attempts', images')
    <3> SUFFICES ASSUME NEW r \in Removals(attempts)
                 PROVE  /\ \E j \in Files : attempts'[r].files = {j}
                        /\ attempts'[r].state # "resolved"
                        /\ attempts'[r].state # "complete" => attempts'[r].files \subseteq images'
                        /\ attempts'[r].state = "complete" => attempts'[r].files \cap images' = {}
                        /\ \A j \in attempts'[r].files :
                             \E u \in Uploads(attempts') : j \in attempts'[u].files
      BY <1>8 DEF Removing
    <3>1. r \in Attempts /\ \E j \in Files : attempts[r].files = {j}
      BY <1>1 DEF Removing, Removals
    <3>2. CASE attempts[r].files = {i}
      BY <1>1, <1>2, <1>4, <1>7, <1>8, <1>9, <3>1, <3>2 DEF Removing
    <3>3. CASE attempts[r].files # {i}
      BY <1>1, <1>2, <1>4, <1>7, <1>8, <1>9, <3>1, <3>3 DEF Removing
    <3> QED
      BY <3>2, <3>3
  <2>4. Saved(attempts', images')
    <3> SUFFICES ASSUME NEW u \in Uploads(attempts), attempts[u].state = "complete",
                        NEW j \in attempts[u].files, j \notin images'
                 PROVE  \E r \in Removals(attempts) :
                          attempts'[r].state = "complete" /\ j \in attempts'[r].files
      BY <1>8, <1>9 DEF Saved
    <3>1. CASE j = i
      BY <1>1, <1>4, <1>7, <3>1 DEF Removals
    <3>2. CASE j # i
      <4>1. PICK r \in Removals(attempts) : attempts[r].state = "complete" /\ j \in attempts[r].files
        BY <1>1, <1>2, <1>4, <3>2 DEF Saved
      <4> QED
        BY <1>7, <4>1 DEF Removals
    <3> QED
      BY <3>1, <3>2
  <2>5. Readable(attempts', images', blobs', expired')
    <3> SUFFICES ASSUME NEW j \in images', j \notin blobs' \cup expired
                 PROVE  \E r \in Removals(attempts) :
                          attempts'[r].state # "complete" /\ j \in attempts'[r].files
      BY <1>2, <1>8 DEF Readable
    <3>1. j \in images /\ j # i /\ j \notin blobs \cup expired
      BY <1>2, <1>4
    <3>2. PICK r \in Removals(attempts) : attempts[r].state # "complete" /\ j \in attempts[r].files
      BY <1>1, <3>1 DEF Readable
    <3> QED
      BY <1>7, <3>1, <3>2 DEF Removals
  <2> QED
    BY <2>1, <2>2, <2>3, <2>4, <2>5
<1>12. Types'
  <2>1. handler' \in [Handlers -> Request]
    BY <1>1, <1>2 DEF Types, Request, Removals
  <2> QED
    BY <1>1, <1>2, <1>6, <2>1 DEF Types
<1>13. /\ \A g \in Handlers \ {h} : handler'[g] = handler[g]
       /\ GoodRequest(handler'[h], tracked', attempts', images', blobs', draft')
  BY <1>1, <1>2, <1>7 DEF Types, GoodRequest, Idle, Removals
<1> QED
  BY <1>2, <1>10, <1>11, <1>12, <1>13, GoodStep

----------------------------------------------------------------------------
(* The inductive invariant                                                 *)

LEMMA InitIInv == Init => IInv
<1> SUFFICES ASSUME Init PROVE IInv
  OBVIOUS
<1>1. Types
  BY DEF Init, Types, Request
<1>2. Uploads(attempts) = {} /\ Removals(attempts) = {}
  BY DEF Init, NoRow, Uploads, Removals
<1>3. Evidence(attempts, images, blobs, expired)
  BY <1>2 DEF Init, Evidence, Sourced, Pending, Removing, Saved, Readable
<1>4. \A h \in Handlers : GoodRequest(handler[h], tracked, attempts, images, blobs, draft)
  BY DEF Init, Idle, GoodRequest
<1> QED
  BY <1>1, <1>3, <1>4 DEF Init, IInv

LEMMA StepKeeps == ASSUME IInv, Next PROVE IInv' /\ Kept
<1>1. ASSUME NEW h \in Handlers, Upload(h) PROVE IInv' /\ Kept
  <2>1. ASSUME NEW a \in Attempts, NEW files \in SUBSET Files, BeginUpload(h, a, files)
        PROVE  IInv' /\ Kept
    BY <2>1, BeginUploadStep
  <2>2. ASSUME NEW files \in SUBSET Files, Ingest(h, files) PROVE IInv' /\ Kept
    BY <2>2, IngestStep
  <2>3. ASSUME NEW files \in SUBSET Files, UploadFails(h, files) PROVE IInv' /\ Kept
    BY <2>3, UploadFailsStep
  <2>4. CASE SaveUpload(h)
    BY <2>4, SaveUploadStep
  <2>5. CASE SaveRefused(h)
    BY <2>5, SaveRefusedStep
  <2>6. CASE FailAttempt(h)
    BY <2>6, FailAttemptStep
  <2> QED
    BY <1>1, <2>1, <2>2, <2>3, <2>4, <2>5, <2>6 DEF Upload
<1>2. ASSUME NEW h \in Handlers, Removal(h) PROVE IInv' /\ Kept
  <2>1. ASSUME NEW a \in Attempts, NEW i \in Files, BeginRemoval(h, a, i)
        PROVE  IInv' /\ Kept
    BY <2>1, BeginRemovalStep
  <2>2. CASE Remove(h)
    BY <2>2, RemoveStep
  <2>3. CASE RemoveFails(h)
    BY <2>3, RemoveFailsStep
  <2> QED
    BY <1>2, <2>1, <2>2, <2>3 DEF Removal
<1>3. ASSUME NEW h \in Handlers, DeriveRead(h) \/ DeriveWrite(h) \/ Lose(h)
      PROVE  IInv' /\ Kept
  BY <1>3, DeriveReadStep, DeriveWriteStep, LoseStep
<1>4. ASSUME NEW a \in Attempts, RecordRefusal(a) PROVE IInv' /\ Kept
  BY <1>4, RecordRefusalStep
<1>5. ASSUME NEW a \in Attempts, NEW selected \in SUBSET Files, Resolve(a, selected)
      PROVE  IInv' /\ Kept
  BY <1>5, ResolveStep
<1>6. CASE LeaveDraft
  BY <1>6, LeaveDraftStep
<1>7. ASSUME NEW i \in Files, Expire(i) PROVE IInv' /\ Kept
  BY <1>7, ExpireStep
<1> QED
  BY <1>1, <1>2, <1>3, <1>4, <1>5, <1>6, <1>7 DEF Next

LEMMA StutterKeeps == ASSUME IInv, UNCHANGED vars PROVE IInv' /\ Kept
<1>1. UNCHANGED <<draft, tracked, images, blobs, expired, attempts, handler, derived>>
  BY DEF vars
<1>2. Types'
  BY <1>1 DEF IInv, Types
<1>3. Kept /\ Evidence(attempts', images', blobs', expired')
  BY <1>1, SameRows DEF IInv, Evidence
<1> QED
  BY <1>1, <1>2, <1>3, GoodStep

LEMMA IInvHolds == Spec => []IInv
<1>1. IInv /\ [Next]_vars => IInv'
  BY StepKeeps, StutterKeeps
<1> QED
  BY <1>1, InitIInv, PTL DEF Spec

----------------------------------------------------------------------------
(* Theorems                                                                *)

\* Only the save of an upload adds rows, and only rows the request carries.
LEMMA RowsAdded ==
  ASSUME IInv, [Next]_vars
  PROVE  \/ images' \subseteq images
         \/ \E u \in Uploads(attempts) : Room(u) /\ images' \subseteq images \cup attempts[u].files
<1>1. CASE \E h \in Handlers : SaveUpload(h)
  <2>1. PICK h \in Handlers : SaveUpload(h)
    BY <1>1
  <2>2. /\ handler[h].attempt \in Uploads(attempts)
        /\ handler[h].accepted \subseteq attempts[handler[h].attempt].files
    BY <2>1, RequestFacts DEF SaveUpload
  <2> QED
    BY <2>1, <2>2 DEF SaveUpload
<1>2. CASE \E h \in Handlers : Remove(h)
  BY <1>2 DEF Remove
<1>3. CASE UNCHANGED vars
  BY <1>3 DEF vars
<1>4. CASE Next /\ ~(\E h \in Handlers : SaveUpload(h) \/ Remove(h))
  BY <1>4 DEF Next, Upload, Removal, BeginUpload, Ingest, UploadFails, SaveRefused, FailAttempt,
              BeginRemoval, RemoveFails, RecordRefusal, Resolve, LeaveDraft, DeriveRead,
              DeriveWrite, Expire, Lose
<1> QED
  BY <1>1, <1>2, <1>3, <1>4

\* MAX_IMAGES_PER_BATCH bounds the rows a batch saves, though several requests
\* check their room before any of them saves: the transaction checks it again.
THEOREM TypesHold == Spec => []TypeOK
<1> DEFINE Ceiling == Cardinality(images) <= MaxImages
<1>1. Init => Ceiling
  BY FS_EmptySet, ImagesAssumption DEF Init
<1>2. IInv /\ Ceiling /\ [Next]_vars => Ceiling'
  <2> SUFFICES ASSUME IInv, Ceiling, [Next]_vars PROVE Ceiling'
    OBVIOUS
  <2>1. IsFiniteSet(images)
    BY FilesAssumption, FS_Subset DEF IInv, Types
  <2>2. CASE images' \subseteq images
    <3>1. /\ Cardinality(images') <= Cardinality(images)
          /\ Cardinality(images) \in Nat /\ Cardinality(images') \in Nat
      BY <2>1, <2>2, FS_Subset, FS_CardinalityType
    <3> QED
      BY <3>1, ImagesAssumption
  <2>3. CASE \E u \in Uploads(attempts) :
               Room(u) /\ images' \subseteq images \cup attempts[u].files
    <3>1. PICK u \in Uploads(attempts) :
                 Room(u) /\ images' \subseteq images \cup attempts[u].files
      BY <2>3
    <3> DEFINE files == attempts[u].files
    <3>2. IsFiniteSet(files)
      <4>1. attempts[u] \in Row
        BY RowFacts DEF IInv, Uploads
      <4> QED
        BY <4>1, FilesAssumption, FS_Subset DEF Row
    <3>3. Cardinality(images) + Cardinality(files) <= MaxImages
      BY <3>1 DEF Room
    <3> HIDE DEF files
    <3>4. /\ IsFiniteSet(images \cup files)
          /\ Cardinality(images \cup files)
               = Cardinality(images) + Cardinality(files) - Cardinality(images \cap files)
      BY <2>1, <3>2, FS_Union
    <3>5. images' \subseteq images \cup files
      BY <3>1 DEF files
    <3>6. Cardinality(images') <= Cardinality(images \cup files)
      BY <3>4, <3>5, FS_Subset
    <3>7. /\ Cardinality(images) \in Nat /\ Cardinality(files) \in Nat
          /\ Cardinality(images \cap files) \in Nat
          /\ Cardinality(images \cup files) \in Nat /\ Cardinality(images') \in Nat
      <4>1. IsFiniteSet(images \cap files) /\ IsFiniteSet(images')
        BY <2>1, <3>4, <3>5, FS_Subset
      <4> QED
        BY <2>1, <3>2, <3>4, <4>1, FS_CardinalityType
    <3> QED
      BY <3>3, <3>4, <3>6, <3>7, ImagesAssumption
  <2> QED
    BY <2>2, <2>3, RowsAdded
<1>3. IInv /\ Ceiling => TypeOK
  BY DEF IInv, Types, TypeOK
<1> QED
  BY <1>1, <1>2, <1>3, IInvHolds, PTL DEF Spec

\* If the intake is complete, each screenshot ever offered is saved, or was
\* removed by the owner, or is replaced by one that is saved: a failed capture
\* is never taken for titles that have left a service.
THEOREM CaptureIsNeverLost == Spec => []NothingOfferedIsLost
BY IInvHolds, InvImpliesProperties, PTL

\* A saved screenshot whose blob a failed removal has taken never counts as
\* complete input, so an extraction of a complete batch finds every blob.
THEOREM CompleteCanBeRead == Spec => []CompleteIsReadable
BY IInvHolds, InvImpliesProperties, PTL

\* What makes a draft incomplete can always be put right.
THEOREM RemovalsAreRetryable == Spec => []RemovalsCanFinish
BY IInvHolds, InvImpliesProperties, PTL

\* A re-extraction is tracked only if the intake it inherits is complete.
THEOREM DerivedCaptureIsHonest == Spec => []DerivedIsHonest
BY IInvHolds, InvImpliesProperties, PTL

\* The verdict does not change after the batch has left draft, although late
\* requests still write failures and screenshots still expire.
THEOREM VerdictIsFrozen == Spec => VerdictFrozen
<1>1. IInv /\ [Next]_vars => IInv' /\ Kept
  BY StepKeeps, StutterKeeps
<1>2. IInv => (Complete <=> Verdict(tracked, attempts, images))
  BY VerdictIsComplete DEF IInv
<1>3. (IInv => (Complete <=> Verdict(tracked, attempts, images)))'
  BY <1>2, PTL
<1>4. IInv /\ [Next]_vars => [~draft => (Complete' <=> Complete)]_vars
  BY <1>1, <1>2, <1>3 DEF Kept
<1> QED
  BY <1>4, IInvHolds, PTL DEF Spec, VerdictFrozen

\* What the owner has resolved stays resolved, whichever request ends later.
THEOREM ResolutionsStand == Spec => DecisionsStand
<1>1. IInv /\ [Next]_vars
        => [\A a \in Rows : attempts[a].state = "resolved" => attempts'[a].state = "resolved"]_vars
  <2> SUFFICES ASSUME IInv, [Next]_vars, NEW a \in Rows, attempts[a].state = "resolved"
               PROVE  attempts'[a].state = "resolved"
    OBVIOUS
  <2>1. Kept /\ Types
    BY StepKeeps, StutterKeeps DEF IInv
  <2>2. a \in Attempts /\ attempts[a].kind # "none"
    BY <2>1, RowFacts DEF Rows
  <2> QED
    BY <2>1, <2>2 DEF Kept, RowsKept
<1> QED
  BY <1>1, IInvHolds, PTL DEF Spec, DecisionsStand
=============================================================================
