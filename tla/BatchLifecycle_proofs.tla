----------------------- MODULE BatchLifecycle_proofs -----------------------
(***************************************************************************)
(* Proofs about the batch life cycle, for any number of batches, requests  *)
(* in progress, extraction runs, screenshots, thrown calls and restarts.   *)
(*                                                                         *)
(* WellFormed is what a request or a run carries between its read and its  *)
(* write; it needs no assumption on faults.  Exclusive adds that the call  *)
(* of beginExtraction, and the run it becomes, is a token its batch has at *)
(* most one of; it needs every thrown store call to have changed nothing.  *)
(***************************************************************************)
EXTENDS BatchLifecycle, TLAPS

\* In the batches and screenshots (st, im): b was submitted once.
Sent(b, st, im) == b \in Batches /\ im[b] > 0 /\ st[b] \notin {"absent", "draft"}

GoodStore(st, im) ==
  /\ st \in [Batches -> Statuses]
  /\ im \in [Batches -> 0..MaxImages]
  /\ \A b \in Batches : st[b] \notin {"absent", "draft", "discarded"} => im[b] > 0

RequestType == [at : {"idle", "checking", "decided", "starting"},
                op : Ops \cup {"none"},
                batch : Batches \cup {NoBatch},
                seen : Statuses,
                count : 0..MaxImages]

GoodRequest(q, st, im) ==
  /\ q \in RequestType
  /\ q.at = "checking" => q.op = "reextract" /\ q.batch \in Batches /\ q.count > 0
  /\ q.at = "starting" => Sent(q.batch, st, im)
  /\ q.at = "decided" /\ q.op # "create" => q.batch \in Batches
  /\ q.at = "decided" /\ q.op \in DOMAIN Target => CanTransition(q.seen, Target[q.op])
  /\ q.at = "decided" /\ q.op = "retry" => q.seen # "draft"
  /\ q.at = "decided" /\ q.op = "reextract" => q.count > 0

RunType == [at : {"idle", "claiming", "reading", "recording", "failing"},
            batch : Batches \cup {NoBatch},
            result : Results \cup {"absent"}]

GoodRun(t, st, im) ==
  /\ t \in RunType
  /\ t.at # "idle" => Sent(t.batch, st, im)
  /\ t.at = "recording" => t.result \in Results

WellFormed ==
  /\ GoodStore(status, images)
  /\ origin \in [Batches -> Batches]
  /\ expired \subseteq Batches
  /\ faults \in 0..MaxFaults
  /\ crashes \in 0..MaxCrashes
  /\ DOMAIN handler = Handlers /\ handler = [h \in Handlers |-> handler[h]]
  /\ DOMAIN run = Runs /\ run = [r \in Runs |-> run[r]]
  /\ \A h \in Handlers : GoodRequest(handler[h], status, images)
  /\ \A r \in Runs : GoodRun(run[r], status, images)

----------------------------------------------------------------------------
(* The transition table                                                    *)

LEMMA TargetFacts ==
  /\ DOMAIN Target = {"submit", "retry", "discard", "close", "undo"}
  /\ Target["submit"] = "submitted"
  /\ Target["retry"] = "submitted"
  /\ Target["discard"] = "discarded"
  /\ Target["close"] = "applied"
  /\ Target["undo"] = "undone"
BY DEF Target

LEMMA EdgeFacts ==
  ASSUME NEW from, NEW to, CanTransition(from, to)
  PROVE  /\ from \in Statuses \ {"absent", "discarded"}
         /\ to \in Statuses \ {"absent", "draft"}
         /\ from = "draft" => to \in {"submitted", "discarded"}
BY DEF CanTransition, Edges, Statuses, Open, Terminal

----------------------------------------------------------------------------
(* WellFormed                                                              *)

LEMMA WellFormedTypes == WellFormed => TypeOK /\ NeverReadEmpty
<1> SUFFICES ASSUME WellFormed PROVE TypeOK /\ NeverReadEmpty
  OBVIOUS
<1>1. handler \in [Handlers -> RequestType]
  BY DEF WellFormed, GoodRequest
<1>2. run \in [Runs -> RunType]
  BY DEF WellFormed, GoodRun
<1> QED
  BY <1>1, <1>2 DEF WellFormed, GoodStore, TypeOK, NeverReadEmpty, RequestType, RunType

LEMMA NoRequestIsGood == ASSUME NEW st, NEW im PROVE GoodRequest(NoRequest, st, im)
BY ImagesAssumption DEF GoodRequest, RequestType, NoRequest, Statuses

LEMMA NoRunIsGood == ASSUME NEW st, NEW im PROVE GoodRun(NoRun, st, im)
BY DEF GoodRun, RunType, NoRun

LEMMA InitWellFormed == Init => WellFormed
<1> SUFFICES ASSUME Init PROVE WellFormed
  OBVIOUS
<1>1. GoodStore(status, images)
  BY ImagesAssumption DEF Init, GoodStore, Statuses
<1>2. faults \in 0..MaxFaults /\ crashes \in 0..MaxCrashes
  BY BoundsAssumption DEF Init
<1> QED
  BY <1>1, <1>2, NoRequestIsGood, NoRunIsGood DEF Init, WellFormed

\* The stored batches change so that what was submitted stays so.
StoreStep ==
  /\ GoodStore(status', images')
  /\ \A b \in Batches : Sent(b, status, images) => Sent(b, status', images')
  /\ origin' \in [Batches -> Batches]
  /\ expired' \subseteq Batches
  /\ faults' \in 0..MaxFaults
  /\ crashes' \in 0..MaxCrashes

\* At most handler h and at most run r change with it, to good values.
LEMMA GoodStep ==
  ASSUME WellFormed, StoreStep, NEW h, NEW r,
         \/ handler' = handler
         \/ h \in Handlers /\ handler' = [handler EXCEPT ![h] = handler'[h]]
                          /\ GoodRequest(handler'[h], status', images'),
         \/ run' = run
         \/ r \in Runs /\ run' = [run EXCEPT ![r] = run'[r]]
                      /\ GoodRun(run'[r], status', images')
  PROVE  WellFormed'
<1>1. ASSUME NEW g \in Handlers PROVE GoodRequest(handler'[g], status', images')
  <2>1. GoodRequest(handler[g], status, images)
    BY DEF WellFormed
  <2>2. GoodRequest(handler[g], status', images')
    BY <2>1 DEF StoreStep, GoodRequest, RequestType, Sent
  <2> QED
    BY <2>2 DEF WellFormed
<1>2. ASSUME NEW s \in Runs PROVE GoodRun(run'[s], status', images')
  <2>1. GoodRun(run[s], status, images)
    BY DEF WellFormed
  <2>2. GoodRun(run[s], status', images')
    BY <2>1 DEF StoreStep, GoodRun, RunType, Sent
  <2> QED
    BY <2>2 DEF WellFormed
<1>3. DOMAIN handler' = Handlers /\ handler' = [g \in Handlers |-> handler'[g]]
  BY DEF WellFormed
<1>4. DOMAIN run' = Runs /\ run' = [s \in Runs |-> run'[s]]
  BY DEF WellFormed
<1> QED
  BY <1>1, <1>2, <1>3, <1>4 DEF WellFormed, StoreStep

LEMMA SameStore ==
  ASSUME WellFormed, UNCHANGED <<batchVars, crashes>>, faults' \in 0..MaxFaults
  PROVE  StoreStep
BY DEF WellFormed, StoreStep, batchVars

\* The reads and refusals of a request: only what it carries changes.
LEMMA ReadStep ==
  ASSUME WellFormed, NEW h \in Handlers,
         \/ CreateRead(h) \/ ReextractCheck(h) \/ Refuse(h)
         \/ \E b \in Batches :
              \/ \E n \in 1..MaxImages : AttachRead(h, b, n)
              \/ DetachRead(h, b)
              \/ \E op \in DOMAIN Target :
                   TransitionRead(h, op, b) /\ (op = "retry" => status[b] # "draft")
              \/ ReextractRead(h, b)
  PROVE  WellFormed'
<1> USE DEF GoodRequest, RequestType
<1>1. UNCHANGED <<batchVars, run, faults, crashes>>
  BY DEF CreateRead, ReextractCheck, Refuse, AttachRead, DetachRead, TransitionRead,
         ReextractRead, Decide
<1>2. /\ StoreStep
      /\ status' = status /\ images' = images
      /\ status \in [Batches -> Statuses] /\ images \in [Batches -> 0..MaxImages]
      /\ DOMAIN handler = Handlers
  BY <1>1, SameStore DEF WellFormed, GoodStore, batchVars
<1>3. SUFFICES /\ handler' = [handler EXCEPT ![h] = handler'[h]]
               /\ GoodRequest(handler'[h], status, images)
  BY <1>1, <1>2, GoodStep
<1>4. CASE CreateRead(h)
  <2> DEFINE q == [at |-> "decided", op |-> "create", batch |-> NoBatch,
                   seen |-> "absent", count |-> 0]
  <2>1. handler' = [handler EXCEPT ![h] = q]
    BY <1>4 DEF CreateRead
  <2>2. GoodRequest(q, status, images)
    BY ImagesAssumption, TargetFacts DEF Statuses, Ops
  <2> QED
    BY <1>2, <2>1, <2>2
<1>5. CASE ReextractCheck(h)
  <2>1. GoodRequest(handler[h], status, images)
    BY DEF WellFormed
  <2> QED
    BY <1>2, <1>5, <2>1, TargetFacts DEF ReextractCheck
<1>6. CASE Refuse(h)
  BY <1>2, <1>6, NoRequestIsGood DEF Refuse, Answer
<1>7. ASSUME NEW b \in Batches, NEW op \in Ops, NEW at \in {"checking", "decided"},
             NEW n \in 0..MaxImages,
             Decide(h, at, op, b, n),
             at = "checking" => op = "reextract",
             op = "reextract" => n > 0,
             op = "retry" => status[b] # "draft",
             op \in DOMAIN Target => CanTransition(status[b], Target[op])
      PROVE  /\ handler' = [handler EXCEPT ![h] = handler'[h]]
             /\ GoodRequest(handler'[h], status, images)
  BY <1>2, <1>7 DEF Decide
<1>8. CASE \E b \in Batches, n \in 1..MaxImages : AttachRead(h, b, n)
  BY <1>7, <1>8, ImagesAssumption, TargetFacts DEF AttachRead, Ops
<1>9. CASE \E b \in Batches : DetachRead(h, b)
  BY <1>7, <1>9, ImagesAssumption, TargetFacts DEF DetachRead, Ops
<1>10. CASE \E b \in Batches, op \in DOMAIN Target :
              TransitionRead(h, op, b) /\ (op = "retry" => status[b] # "draft")
  BY <1>7, <1>10, ImagesAssumption, TargetFacts DEF TransitionRead, Ops
<1>11. CASE \E b \in Batches : ReextractRead(h, b)
  BY <1>2, <1>7, <1>11, ImagesAssumption, TargetFacts DEF ReextractRead, Ops
<1> QED
  BY <1>4, <1>5, <1>6, <1>8, <1>9, <1>10, <1>11

\* The writes of a request.
LEMMA WriteStep ==
  ASSUME WellFormed, NEW h \in Handlers,
         \/ AttachWrite(h) \/ DetachWrite(h)
         \/ SubmitWrite(h) \/ RetryWrite(h) \/ DiscardWrite(h) \/ CloseWrite(h) \/ UndoWrite(h)
         \/ \E b \in Batches : CreateWrite(h, b) \/ ReextractWrite(h, b)
  PROVE  WellFormed'
<1> DEFINE b == handler[h].batch
<1>1. /\ GoodStore(status, images)
      /\ GoodRequest(handler[h], status, images)
      /\ DOMAIN handler = Handlers
      /\ origin \in [Batches -> Batches] /\ expired \subseteq Batches
      /\ faults \in 0..MaxFaults /\ crashes \in 0..MaxCrashes
  BY DEF WellFormed
<1>2. ASSUME NEW d \in Batches, CreateWrite(h, d) PROVE WellFormed'
  <2>1. StoreStep
    BY <1>1, <1>2 DEF CreateWrite, StoreStep, GoodStore, Sent, Statuses, Open
  <2> QED
    <3>1. run' = run /\ handler' = [handler EXCEPT ![h] = NoRequest]
      BY <1>2 DEF CreateWrite, Answer
    <3> QED
      BY <1>1, <2>1, <3>1, GoodStep, NoRequestIsGood
<1>3. CASE AttachWrite(h)
  <2>1. b \in Batches
    BY <1>1, <1>3 DEF AttachWrite, Decided, GoodRequest
  <2>2. PICK n \in 0..handler[h].count : images' = [images EXCEPT ![b] = @ + n]
    BY <1>3 DEF AttachWrite
  <2>3. images[b] \in 0..MaxImages /\ handler[h].count \in 0..MaxImages
    BY <1>1, <2>1 DEF GoodStore, GoodRequest, RequestType
  <2>4. images[b] + n \in 0..MaxImages
    BY <1>3, <2>3, ImagesAssumption DEF AttachWrite
  <2>5. StoreStep
    BY <1>1, <1>3, <2>1, <2>2, <2>4 DEF AttachWrite, StoreStep, GoodStore, Sent
  <2> QED
    BY <1>1, <1>3, <2>5, GoodStep, NoRequestIsGood DEF AttachWrite, Answer
<1>4. CASE DetachWrite(h)
  <2>1. b \in Batches
    BY <1>1, <1>4 DEF DetachWrite, Decided, GoodRequest
  <2>2. images[b] - 1 \in 0..MaxImages
    BY <1>1, <1>4, <2>1, ImagesAssumption DEF DetachWrite, GoodStore
  <2>3. StoreStep
    BY <1>1, <1>4, <2>1, <2>2 DEF DetachWrite, StoreStep, GoodStore, Sent
  <2> QED
    BY <1>1, <1>4, <2>3, GoodStep, NoRequestIsGood DEF DetachWrite, Answer
<1>5. ASSUME NEW op \in DOMAIN Target, Transition(h, op),
             op = "submit" /\ handler[h].seen = "draft" => images[b] > 0
      PROVE  /\ StoreStep
             /\ b \in Batches
             /\ Target[op] = "submitted" => Sent(b, status', images')
             /\ UNCHANGED run
  <2>1. /\ b \in Batches
        /\ status[b] = handler[h].seen
        /\ CanTransition(status[b], Target[op])
        /\ status' = [status EXCEPT ![b] = Target[op]]
        /\ UNCHANGED <<images, origin, expired, run, faults, crashes>>
    BY <1>1, <1>5, TargetFacts DEF Transition, Decided, GoodRequest
  <2>2. /\ status[b] \in Statuses \ {"absent", "discarded"}
        /\ Target[op] \in Statuses \ {"absent", "draft"}
        /\ status[b] = "draft" => Target[op] \in {"submitted", "discarded"}
    BY <2>1, EdgeFacts
  <2>3. Target[op] # "discarded" => images[b] > 0
    <3>1. CASE status[b] = "draft"
      <4>1. op # "retry"
        BY <1>1, <1>5, <2>1, <3>1 DEF Transition, Decided, GoodRequest
      <4> QED
        BY <1>5, <2>1, <2>2, <3>1, <4>1, TargetFacts
    <3>2. CASE status[b] # "draft"
      BY <1>1, <2>1, <2>2, <3>2 DEF GoodStore
    <3> QED
      BY <3>1, <3>2
  <2>4. GoodStore(status', images')
    BY <1>1, <2>1, <2>2, <2>3 DEF GoodStore
  <2>5. \A c \in Batches : status'[c] = IF c = b THEN Target[op] ELSE status[c]
    BY <1>1, <2>1 DEF GoodStore
  <2>6. \A c \in Batches : Sent(c, status, images) => Sent(c, status', images')
    BY <2>1, <2>2, <2>5 DEF Sent
  <2>7. Target[op] = "submitted" => Sent(b, status', images')
    BY <2>1, <2>2, <2>3, <2>5 DEF Sent
  <2> QED
    BY <1>1, <2>1, <2>4, <2>6, <2>7 DEF StoreStep
<1>6. CASE DiscardWrite(h) \/ CloseWrite(h) \/ UndoWrite(h)
  BY <1>1, <1>5, <1>6, GoodStep, NoRequestIsGood, TargetFacts
  DEF DiscardWrite, CloseWrite, UndoWrite, Answer
<1>7. CASE SubmitWrite(h) \/ RetryWrite(h)
  <2>1. StoreStep /\ Sent(b, status', images') /\ UNCHANGED run
    BY <1>5, <1>7, TargetFacts DEF SubmitWrite, RetryWrite
  <2>2. AnswerAccepted(h)
    BY <1>7 DEF SubmitWrite, RetryWrite
  <2>3. CASE Answer(h)
    BY <1>1, <2>1, <2>3, GoodStep, NoRequestIsGood DEF Answer
  <2>4. CASE handler' = [handler EXCEPT ![h].at = "starting"]
    <3>1. GoodRequest(handler'[h], status', images')
      BY <1>1, <2>1, <2>4 DEF GoodRequest, RequestType
    <3> QED
      BY <1>1, <2>1, <2>4, <3>1, GoodStep
  <2> QED
    BY <2>2, <2>3, <2>4 DEF AnswerAccepted
<1>8. ASSUME NEW d \in Batches, ReextractWrite(h, d) PROVE WellFormed'
  <2>1. b \in Batches /\ handler[h].count \in 1..MaxImages
    BY <1>1, <1>8, TargetFacts, ImagesAssumption
    DEF ReextractWrite, Decided, GoodRequest, RequestType
  <2>2. StoreStep /\ Sent(d, status', images') /\ UNCHANGED run
    BY <1>1, <1>8, <2>1, ImagesAssumption
    DEF ReextractWrite, StoreStep, GoodStore, Sent, Statuses, Open
  <2>3. CASE Answer(h)
    BY <1>1, <2>2, <2>3, GoodStep, NoRequestIsGood DEF Answer
  <2>4. CASE handler' = [handler EXCEPT ![h].at = "starting", ![h].batch = d]
    <3>1. GoodRequest(handler'[h], status', images')
      BY <1>1, <2>2, <2>4 DEF GoodRequest, RequestType
    <3> QED
      BY <1>1, <2>2, <2>4, <3>1, GoodStep
  <2> QED
    BY <1>8, <2>3, <2>4 DEF ReextractWrite
<1> QED
  BY <1>2, <1>3, <1>4, <1>6, <1>7, <1>8

\* The steps of extraction, restarts and the passing of time.
LEMMA RunStep ==
  ASSUME WellFormed, NEW r \in Runs, Extraction(r)
  PROVE  WellFormed'
<1> DEFINE b == run[r].batch
<1>1. /\ GoodStore(status, images)
      /\ GoodRun(run[r], status, images)
      /\ DOMAIN run = Runs
      /\ origin \in [Batches -> Batches] /\ expired \subseteq Batches
      /\ faults \in 0..MaxFaults /\ crashes \in 0..MaxCrashes
  BY DEF WellFormed
<1>2. ASSUME Throw PROVE faults' \in 0..MaxFaults
  BY <1>1, <1>2, BoundsAssumption DEF Throw
<1>3. ASSUME NEW to \in {"extracting", "in-review", "extraction-failed"},
             NEW at \in {"idle", "reading", "failing"},
             run[r].at # "idle", Write(r, to, at), faults' \in 0..MaxFaults
      PROVE  WellFormed'
  <2>1. Sent(b, status, images)
    BY <1>1, <1>3 DEF GoodRun
  <2>2. \A c \in Batches : status'[c] = IF c = b THEN to ELSE status[c]
    BY <1>1, <1>3 DEF Write, GoodStore
  <2>3. \A c \in Batches : Sent(c, status, images) => Sent(c, status', images')
    BY <1>3, <2>2 DEF Write, Sent
  <2>4. GoodStore(status', images')
    BY <1>1, <1>3, <2>1 DEF Write, GoodStore, Sent, Statuses, Open
  <2>5. StoreStep
    BY <1>1, <1>3, <2>3, <2>4 DEF Write, StoreStep
  <2>6. CASE at = "idle"
    BY <1>1, <1>3, <2>5, <2>6, NoRunIsGood, GoodStep DEF Write
  <2>7. CASE at # "idle"
    <3>1. run' = [run EXCEPT ![r].at = at] /\ UNCHANGED handler
      BY <1>3, <2>7 DEF Write
    <3>2. GoodRun(run'[r], status', images')
      BY <1>1, <1>3, <2>1, <2>3, <2>7, <3>1 DEF GoodRun, RunType, Sent
    <3> QED
      BY <1>1, <2>5, <3>1, <3>2, GoodStep
  <2> QED
    BY <2>6, <2>7
<1>4. CASE Claim(r) \/ ClaimAckLost(r)
  BY <1>1, <1>2, <1>3, <1>4 DEF Claim, ClaimAckLost
<1>5. CASE RecordOutcome(r) \/ OutcomeAckLost(r)
  <2>1. run[r].result \in {"extracting", "in-review", "extraction-failed"}
    BY <1>1, <1>5 DEF RecordOutcome, OutcomeAckLost, GoodRun, Results
  <2> QED
    BY <1>1, <1>2, <1>3, <1>5, <2>1 DEF RecordOutcome, OutcomeAckLost
<1>6. CASE RecordFailure(r)
  BY <1>1, <1>3, <1>6 DEF RecordFailure
<1>7. CASE NotClaimed(r) \/ FailureWriteThrows(r)
  <2>1. EndRun(r) /\ faults' \in 0..MaxFaults
    BY <1>1, <1>2, <1>7 DEF NotClaimed, FailureWriteThrows
  <2> QED
    BY <1>1, <2>1, SameStore, NoRunIsGood, GoodStep DEF EndRun
<1>8. CASE FinishReading(r)
  <2>1. PICK result \in Results :
          run' = [run EXCEPT ![r].at = "recording", ![r].result = result]
    BY <1>8 DEF FinishReading
  <2>2. UNCHANGED <<batchVars, handler, faults, crashes>> /\ run[r].at = "reading"
    BY <1>8 DEF FinishReading
  <2>3. GoodRun(run'[r], status', images')
    BY <1>1, <2>1, <2>2 DEF GoodRun, RunType, Sent, batchVars
  <2> QED
    BY <1>1, <2>1, <2>2, <2>3, SameStore, GoodStep
<1>9. CASE RunThrows(r)
  <2>1. /\ UNCHANGED <<batchVars, handler, crashes>> /\ faults' \in 0..MaxFaults
        /\ run[r].at # "idle" /\ run' = [run EXCEPT ![r].at = "failing"]
    BY <1>2, <1>9 DEF RunThrows
  <2>2. GoodRun(run'[r], status', images')
    BY <1>1, <2>1 DEF GoodRun, RunType, Sent, batchVars
  <2> QED
    BY <1>1, <2>1, <2>2, SameStore, GoodStep
<1> QED
  BY <1>4, <1>5, <1>6, <1>7, <1>8, <1>9 DEF Extraction

LEMMA BeginStep ==
  ASSUME WellFormed, NEW h \in Handlers, NEW r \in Runs, BeginExtraction(h, r)
  PROVE  WellFormed'
<1>1. /\ UNCHANGED <<batchVars, faults, crashes>>
      /\ run' = [run EXCEPT ![r] = [at |-> "claiming", batch |-> handler[h].batch,
                                    result |-> "absent"]]
      /\ handler' = [handler EXCEPT ![h] = NoRequest]
      /\ handler[h].at = "starting"
  BY DEF BeginExtraction, Answer
<1>2. StoreStep
  BY <1>1, SameStore DEF WellFormed
<1>3. GoodRun(run'[r], status', images')
  BY <1>1 DEF WellFormed, GoodRequest, GoodRun, RunType, Sent, batchVars
<1>4. DOMAIN handler = Handlers /\ DOMAIN run = Runs
  BY DEF WellFormed
<1> QED
  BY <1>1, <1>2, <1>3, <1>4, NoRequestIsGood, GoodStep

LEMMA OtherStep ==
  ASSUME WellFormed, \/ Restart
                     \/ \E b \in Batches : RetentionEnds(b)
                     \/ UNCHANGED vars
  PROVE  WellFormed'
<1>1. CASE Restart
  <2>1. crashes' \in 0..MaxCrashes
    BY <1>1, BoundsAssumption DEF WellFormed, Restart
  <2> QED
    BY <1>1, <2>1, NoRequestIsGood, NoRunIsGood DEF WellFormed, Restart, batchVars
<1>2. CASE \E b \in Batches : RetentionEnds(b)
  BY <1>2 DEF WellFormed, RetentionEnds
<1>3. CASE UNCHANGED vars
  BY <1>3 DEF WellFormed, vars, batchVars
<1> QED
  BY <1>1, <1>2, <1>3

LEMMA NextKeepsWellFormed == WellFormed /\ [Next]_vars => WellFormed'
<1> SUFFICES ASSUME WellFormed, [Next]_vars PROVE WellFormed'
  OBVIOUS
<1>1. ASSUME NEW h \in Handlers, Request(h) PROVE WellFormed'
  <2>1. ASSUME NEW b \in Batches,
               SubmitRead(h, b) \/ RetryRead(h, b) \/ DiscardRead(h, b)
                 \/ CloseRead(h, b) \/ UndoRead(h, b)
        PROVE  WellFormed'
    <3>1. \E op \in DOMAIN Target :
            TransitionRead(h, op, b) /\ (op = "retry" => status[b] # "draft")
      BY <2>1, TargetFacts DEF SubmitRead, RetryRead, DiscardRead, CloseRead, UndoRead
    <3> QED
      BY <3>1, ReadStep
  <2> QED
    BY <1>1, <2>1, ReadStep, WriteStep, BeginStep DEF Request
<1> QED
  BY <1>1, RunStep, OtherStep DEF Next

\* Every variable of the batch life cycle keeps its type, and so no write of
\* any request overfills a batch, whatever it raced.
THEOREM TypesHold == Spec => []TypeOK
<1>1. Spec => []WellFormed
  BY InitWellFormed, NextKeepsWellFormed, PTL DEF Spec
<1> QED
  BY <1>1, WellFormedTypes, PTL

\* No batch that was ever submitted is without screenshots, even when calls
\* that throw have been applied and the process restarts.
THEOREM NeverReadsEmpty == Spec => []NeverReadEmpty
<1>1. Spec => []WellFormed
  BY InitWellFormed, NextKeepsWellFormed, PTL DEF Spec
<1> QED
  BY <1>1, WellFormedTypes, PTL

----------------------------------------------------------------------------
(* Exclusive                                                               *)

Starting(h) == handler[h].at = "starting"
Active(r) == run[r].at # "idle"
Busy(b) == status[b] \in {"submitted", "extracting"}

\* The status of a batch while a run on it is at a stage.
Holds(at, st) ==
  /\ at = "claiming" => st = "submitted"
  /\ at \in {"reading", "recording"} => st = "extracting"
  /\ at = "failing" => st \in {"submitted", "extracting"}

Exclusive ==
  /\ \A h \in Handlers : Starting(h) => status[handler[h].batch] = "submitted"
  /\ \A r \in Runs : Active(r) => Holds(run[r].at, status[run[r].batch])
  /\ \A g, h \in Handlers :
       g # h /\ Starting(g) /\ Starting(h) => handler[g].batch # handler[h].batch
  /\ \A h \in Handlers, r \in Runs :
       Starting(h) /\ Active(r) => handler[h].batch # run[r].batch
  /\ \A r, s \in Runs :
       r # s /\ Active(r) /\ Active(s) => run[r].batch # run[s].batch

LEMMA InitExclusive == Init => Exclusive
BY DEF Init, Exclusive, Starting, Active, NoRequest, NoRun

\* Every token is on a busy batch.
LEMMA TokensAreBusy ==
  ASSUME WellFormed, Exclusive
  PROVE  /\ \A h \in Handlers : Starting(h) => Busy(handler[h].batch)
         /\ \A r \in Runs : Active(r) => Busy(run[r].batch)
<1>1. \A r \in Runs : run[r].at \in {"idle", "claiming", "reading", "recording", "failing"}
  BY DEF WellFormed, GoodRun, RunType
<1> QED
  BY <1>1 DEF Exclusive, Holds, Busy, Active

\* A request that moves nothing to or from a busy status, or moves a batch that
\* is not busy to submitted and takes its token.
LEMMA ExclusiveRequest ==
  ASSUME WellFormed, Exclusive, NEW h \in Handlers, NEW b, UNCHANGED run,
         handler' = [handler EXCEPT ![h] = handler'[h]],
         ~Starting(h),
         \A c \in Batches : c # b => status'[c] = status[c],
         \/ status' = status /\ handler'[h].at # "starting"
         \/ ~Busy(b) /\ (handler'[h].at = "starting" =>
                            handler'[h].batch = b /\ status'[b] = "submitted")
  PROVE  Exclusive'
<1>1. /\ \A g \in Handlers : Starting(g) => handler[g].batch \in Batches
      /\ \A r \in Runs : Active(r) => run[r].batch \in Batches
      /\ DOMAIN handler = Handlers
  BY DEF WellFormed, GoodRequest, GoodRun, Starting, Active, Sent
<1>2. \A g \in Handlers : g # h => handler'[g] = handler[g]
  BY <1>1
<1>3. /\ \A g \in Handlers : Starting(g) => status'[handler[g].batch] = status[handler[g].batch]
      /\ \A r \in Runs : Active(r) => status'[run[r].batch] = status[run[r].batch]
  BY <1>1, TokensAreBusy
<1>4. handler'[h].at = "starting" =>
        /\ status'[handler'[h].batch] = "submitted"
        /\ \A g \in Handlers : Starting(g) => handler[g].batch # handler'[h].batch
        /\ \A r \in Runs : Active(r) => run[r].batch # handler'[h].batch
  BY TokensAreBusy
<1> QED
  BY <1>2, <1>3, <1>4 DEF Exclusive, Starting, Active

\* A run keeps or gives up its token.
LEMMA ExclusiveRun ==
  ASSUME WellFormed, Exclusive, NEW r \in Runs, Active(r), UNCHANGED handler,
         run' = [run EXCEPT ![r] = run'[r]],
         \A c \in Batches : c # run[r].batch => status'[c] = status[c],
         run'[r].at # "idle" =>
           run'[r].batch = run[r].batch /\ Holds(run'[r].at, status'[run[r].batch])
  PROVE  Exclusive'
<1>1. /\ \A g \in Handlers : Starting(g) => handler[g].batch \in Batches
      /\ \A s \in Runs : Active(s) => run[s].batch \in Batches
      /\ DOMAIN run = Runs
  BY DEF WellFormed, GoodRequest, GoodRun, Starting, Active, Sent
<1>2. \A s \in Runs : s # r => run'[s] = run[s]
  BY <1>1
<1>3. /\ \A g \in Handlers : Starting(g) => status'[handler[g].batch] = status[handler[g].batch]
      /\ \A s \in Runs : Active(s) /\ s # r => status'[run[s].batch] = status[run[s].batch]
  BY <1>1 DEF Exclusive
<1> QED
  BY <1>2, <1>3 DEF Exclusive, Starting, Active

LEMMA RequestKeepsExclusive ==
  ASSUME "outcome" \notin LostAcks, WellFormed, Exclusive, NEW h \in Handlers, Request(h)
  PROVE  Exclusive'
<1> DEFINE b == handler[h].batch
<1>1. /\ DOMAIN handler = Handlers /\ DOMAIN run = Runs
      /\ GoodRequest(handler[h], status, images)
      /\ status \in [Batches -> Statuses]
  BY DEF WellFormed, GoodStore
<1>2. CASE \E r \in Runs : BeginExtraction(h, r)
  <2>1. PICK r \in Runs : BeginExtraction(h, r)
    BY <1>2
  <2>2. /\ UNCHANGED status
        /\ \A g \in Handlers : handler'[g] = IF g = h THEN NoRequest ELSE handler[g]
        /\ \A s \in Runs : s # r => run'[s] = run[s]
        /\ run'[r].at = "claiming" /\ run'[r].batch = b /\ run[r].at = "idle"
        /\ Starting(h)
    BY <1>1, <2>1 DEF BeginExtraction, Answer, batchVars, Starting, NoRun
  <2> QED
    BY <2>2 DEF Exclusive, Starting, Active, NoRequest, Holds
<1>3. CASE \/ CreateRead(h) \/ ReextractCheck(h) \/ Refuse(h)
           \/ AttachWrite(h) \/ DetachWrite(h)
  <2>1. /\ UNCHANGED <<run, status>> /\ handler[h].at # "starting"
        /\ handler' = [handler EXCEPT ![h] = handler'[h]] /\ handler'[h].at # "starting"
    <3>1. UNCHANGED <<run, status>> /\ handler[h].at # "starting"
      BY <1>3 DEF CreateRead, ReextractCheck, Refuse, AttachWrite, DetachWrite, batchVars,
                  Idle, Decided
    <3>2. CASE CreateRead(h)
      BY <1>1, <3>1, <3>2 DEF CreateRead
    <3>3. CASE ReextractCheck(h)
      BY <1>1, <3>1, <3>3 DEF ReextractCheck, GoodRequest, RequestType
    <3>4. CASE Answer(h)
      BY <1>1, <3>1, <3>4 DEF Answer, NoRequest
    <3> QED
      BY <1>3, <3>2, <3>3, <3>4 DEF Refuse, AttachWrite, DetachWrite
  <2> QED
    BY <2>1, ExclusiveRequest DEF Starting
<1>4. ASSUME NEW c \in Batches,
             \/ \E n \in 1..MaxImages : AttachRead(h, c, n)
             \/ DetachRead(h, c)
             \/ SubmitRead(h, c) \/ RetryRead(h, c) \/ DiscardRead(h, c)
             \/ CloseRead(h, c) \/ UndoRead(h, c) \/ ReextractRead(h, c)
      PROVE  Exclusive'
  <2>1. /\ UNCHANGED <<run, status>> /\ handler[h].at # "starting"
        /\ handler' = [handler EXCEPT ![h] = handler'[h]] /\ handler'[h].at # "starting"
    BY <1>1, <1>4
    DEF AttachRead, DetachRead, SubmitRead, RetryRead, DiscardRead, CloseRead, UndoRead,
        ReextractRead, TransitionRead, Decide, Idle, batchVars
  <2> QED
    BY <2>1, ExclusiveRequest DEF Starting
<1>5. ASSUME NEW d \in Batches, CreateWrite(h, d) \/ ReextractWrite(h, d) PROVE Exclusive'
  <2>1. /\ UNCHANGED run /\ handler[h].at # "starting" /\ ~Busy(d)
        /\ \A c \in Batches : c # d => status'[c] = status[c]
        /\ handler' = [handler EXCEPT ![h] = handler'[h]]
    BY <1>1, <1>5 DEF CreateWrite, ReextractWrite, Decided, Busy, Answer
  <2>2. handler'[h].at = "starting" => handler'[h].batch = d /\ status'[d] = "submitted"
    BY <1>1, <1>5
    DEF CreateWrite, ReextractWrite, Answer, NoRequest, GoodRequest, RequestType
  <2> QED
    BY <2>1, <2>2, ExclusiveRequest DEF Starting
<1>6. CASE \/ SubmitWrite(h) \/ RetryWrite(h) \/ DiscardWrite(h) \/ CloseWrite(h) \/ UndoWrite(h)
  <2>1. PICK op \in DOMAIN Target :
          /\ Transition(h, op)
          /\ Answer(h) \/ (AnswerAccepted(h) /\ Target[op] = "submitted")
    BY <1>6, TargetFacts DEF SubmitWrite, RetryWrite, DiscardWrite, CloseWrite, UndoWrite
  <2>2. /\ b \in Batches /\ CanTransition(status[b], Target[op])
        /\ status' = [status EXCEPT ![b] = Target[op]]
        /\ UNCHANGED run /\ handler[h].at # "starting"
    BY <1>1, <2>1, TargetFacts DEF Transition, Decided, GoodRequest
  <2>3. ~Busy(b)
    BY <2>1, <2>2, TargetFacts DEF CanTransition, Edges, Busy
  <2>4. /\ handler' = [handler EXCEPT ![h] = handler'[h]]
        /\ handler'[h].at = "starting" =>
              handler'[h].batch = b /\ Target[op] = "submitted"
    BY <1>1, <2>1 DEF Answer, AnswerAccepted, NoRequest, GoodRequest, RequestType
  <2> QED
    BY <1>1, <2>2, <2>3, <2>4, ExclusiveRequest DEF Starting
<1> QED
  BY <1>2, <1>3, <1>4, <1>5, <1>6 DEF Request

LEMMA RunKeepsExclusive ==
  ASSUME "outcome" \notin LostAcks, WellFormed, Exclusive, NEW r \in Runs, Extraction(r)
  PROVE  Exclusive'
<1> DEFINE b == run[r].batch
<1>1. /\ Active(r) /\ b \in Batches /\ DOMAIN run = Runs
      /\ status \in [Batches -> Statuses]
      /\ Holds(run[r].at, status[b]) /\ GoodRun(run[r], status, images)
  BY DEF WellFormed, GoodStore, GoodRun, Sent, Exclusive, Active, Extraction, Claim, NotClaimed,
         FinishReading, RecordOutcome, RecordFailure, RunThrows, ClaimAckLost,
         OutcomeAckLost, FailureWriteThrows
<1>2. CASE Claim(r) \/ RecordOutcome(r) \/ RecordFailure(r) \/ ClaimAckLost(r)
  <2>1. PICK to \in Statuses, at \in {"idle", "reading", "failing"} :
          Write(r, to, at) /\ (at # "idle" => to = "extracting")
    BY <1>1, <1>2 DEF Claim, RecordOutcome, RecordFailure, ClaimAckLost, GoodRun, Results, Statuses,
                      Open
  <2>2. /\ UNCHANGED handler
        /\ run' = [run EXCEPT ![r] = run'[r]]
        /\ \A c \in Batches : status'[c] = IF c = b THEN to ELSE status[c]
        /\ run'[r].at # "idle" => at # "idle" /\ run'[r].at = at /\ run'[r].batch = b
    BY <1>1, <2>1 DEF Write, NoRun
  <2> QED
    BY <1>1, <2>1, <2>2, ExclusiveRun DEF Holds
<1>3. CASE NotClaimed(r) \/ FailureWriteThrows(r)
  <2>1. UNCHANGED <<handler, status>> /\ run' = [run EXCEPT ![r] = NoRun]
    BY <1>3 DEF NotClaimed, FailureWriteThrows, EndRun, batchVars
  <2> QED
    BY <1>1, <2>1, ExclusiveRun DEF NoRun
<1>4. CASE FinishReading(r) \/ RunThrows(r)
  <2>1. /\ UNCHANGED <<handler, status>>
        /\ run' = [run EXCEPT ![r] = run'[r]]
        /\ run'[r].batch = b /\ Holds(run'[r].at, status[b])
    BY <1>1, <1>4 DEF FinishReading, RunThrows, batchVars, Holds, GoodRun, RunType
  <2> QED
    BY <1>1, <2>1, ExclusiveRun
<1> QED
  BY <1>2, <1>3, <1>4 DEF Extraction, OutcomeAckLost

LEMMA NextKeepsExclusive ==
  ASSUME "outcome" \notin LostAcks
  PROVE  WellFormed /\ Exclusive /\ [Next]_vars => Exclusive'
<1> SUFFICES ASSUME WellFormed, Exclusive, [Next]_vars PROVE Exclusive'
  OBVIOUS
<1>1. CASE Restart
  BY <1>1 DEF Restart, Exclusive, Starting, Active, NoRequest, NoRun
<1>2. CASE UNCHANGED vars \/ \E b \in Batches : RetentionEnds(b)
  BY <1>2 DEF RetentionEnds, vars, batchVars, Exclusive, Starting, Active
<1> QED
  BY <1>1, <1>2, RequestKeepsExclusive, RunKeepsExclusive DEF Next

LEMMA InvariantsHold ==
  ASSUME "outcome" \notin LostAcks
  PROVE  Spec => [](WellFormed /\ Exclusive)
BY InitWellFormed, InitExclusive, NextKeepsWellFormed, NextKeepsExclusive, PTL DEF Spec

LEMMA ExclusiveGives ==
  ASSUME WellFormed, Exclusive
  PROVE  OneRunPerBatch /\ OutcomeWritesAreExclusive
BY DEF Exclusive, Active, Holds, OneRunPerBatch, OutcomeWritesAreExclusive

\* Two extractions never work on one batch, as long as the write of an
\* outcome that throws has changed nothing.
THEOREM RunsAreExclusive ==
  ASSUME "outcome" \notin LostAcks
  PROVE  Spec => []OneRunPerBatch
BY InvariantsHold, ExclusiveGives, PTL

\* The unconditional outcome write of a run finds its batch where the run put
\* it: the race it does not look at has been won by the claim.
THEOREM OutcomesAreExclusive ==
  ASSUME "outcome" \notin LostAcks
  PROVE  Spec => []OutcomeWritesAreExclusive
BY InvariantsHold, ExclusiveGives, PTL

----------------------------------------------------------------------------
(* The refinement                                                          *)

LEMMA InitRefines == Init => Contract!ContractInit
BY DEF Init, Contract!ContractInit

\* A write of one status along an edge, with screenshots, is a move.
LEMMA MoveRefines ==
  ASSUME NEW b \in Batches, NEW to, CanTransition(status[b], to),
         to # "discarded" => images[b] > 0,
         status' = [status EXCEPT ![b] = to], UNCHANGED images
  PROVE  Contract!ContractNext
<1>1. <<status[b], to>> \in Contract!Edges
  BY DEF CanTransition, Edges, Contract!Edges
<1>2. to \in {e[2] : e \in Contract!Edges}
  <2>1. <<status[b], to>>[2] = to
    OBVIOUS
  <2> QED
    BY <1>1, <2>1
<1> QED
  BY <1>1, <1>2 DEF Contract!ContractNext, Contract!Move

LEMMA RequestRefines ==
  ASSUME WellFormed, NEW h \in Handlers, Request(h)
  PROVE  Contract!ContractNext \/ UNCHANGED <<status, images>>
<1> DEFINE b == handler[h].batch
<1>1. /\ GoodStore(status, images)
      /\ GoodRequest(handler[h], status, images)
  BY DEF WellFormed
<1>2. ASSUME NEW d \in Batches, CreateWrite(h, d) PROVE Contract!ContractNext
  BY <1>2 DEF CreateWrite, Contract!ContractNext, Contract!Open
<1>3. ASSUME NEW d \in Batches, ReextractWrite(h, d) PROVE Contract!ContractNext
  <2>1. handler[h].count \in 1..MaxImages
    BY <1>1, <1>3, ImagesAssumption DEF ReextractWrite, Decided, GoodRequest, RequestType
  <2> QED
    BY <1>3, <2>1 DEF ReextractWrite, Contract!ContractNext, Contract!Derive
<1>4. CASE AttachWrite(h)
  <2>1. b \in Batches /\ handler[h].count \in 0..MaxImages
    BY <1>1, <1>4 DEF AttachWrite, Decided, GoodRequest, RequestType
  <2>2. PICK n \in 0..handler[h].count : images' = [images EXCEPT ![b] = @ + n]
    BY <1>4 DEF AttachWrite
  <2>3. images[b] + n \in 0..MaxImages
    BY <1>1, <1>4, <2>1, ImagesAssumption DEF AttachWrite, GoodStore
  <2> QED
    BY <1>4, <2>1, <2>2, <2>3 DEF AttachWrite, Contract!ContractNext, Contract!Collect
<1>5. CASE DetachWrite(h)
  <2>1. b \in Batches
    BY <1>1, <1>5 DEF DetachWrite, Decided, GoodRequest
  <2>2. images[b] - 1 \in 0..MaxImages
    BY <1>1, <1>5, <2>1, ImagesAssumption DEF DetachWrite, GoodStore
  <2> QED
    BY <1>5, <2>1, <2>2 DEF DetachWrite, Contract!ContractNext, Contract!Collect
<1>6. CASE \/ SubmitWrite(h) \/ RetryWrite(h) \/ DiscardWrite(h) \/ CloseWrite(h) \/ UndoWrite(h)
  <2>1. PICK op \in DOMAIN Target :
          /\ Transition(h, op)
          /\ op = "submit" /\ handler[h].seen = "draft" => images[b] > 0
    BY <1>6, TargetFacts DEF SubmitWrite, RetryWrite, DiscardWrite, CloseWrite, UndoWrite
  <2>2. /\ b \in Batches /\ CanTransition(status[b], Target[op])
        /\ status' = [status EXCEPT ![b] = Target[op]]
        /\ UNCHANGED images /\ status[b] = handler[h].seen
        /\ op = "retry" => status[b] # "draft"
    BY <1>1, <2>1, TargetFacts DEF Transition, Decided, GoodRequest
  <2>3. /\ status[b] \in Statuses \ {"absent", "discarded"}
        /\ status[b] = "draft" => Target[op] \in {"submitted", "discarded"}
    BY <2>2, EdgeFacts
  <2>4. Target[op] # "discarded" => images[b] > 0
    BY <1>1, <2>1, <2>2, <2>3, TargetFacts DEF GoodStore
  <2> QED
    BY <2>2, <2>4, MoveRefines
<1>7. CASE \/ CreateRead(h) \/ ReextractCheck(h) \/ Refuse(h)
           \/ \E r \in Runs : BeginExtraction(h, r)
  BY <1>7 DEF CreateRead, ReextractCheck, Refuse, BeginExtraction, batchVars
<1>8. CASE \E c \in Batches :
             \/ \E n \in 1..MaxImages : AttachRead(h, c, n)
             \/ DetachRead(h, c)
             \/ SubmitRead(h, c) \/ RetryRead(h, c) \/ DiscardRead(h, c)
             \/ CloseRead(h, c) \/ UndoRead(h, c) \/ ReextractRead(h, c)
  BY <1>8 DEF AttachRead, DetachRead, SubmitRead, RetryRead, DiscardRead, CloseRead,
              UndoRead, ReextractRead, TransitionRead, Decide, batchVars
<1> QED
  BY <1>2, <1>3, <1>4, <1>5, <1>6, <1>7, <1>8 DEF Request

LEMMA RunRefines ==
  ASSUME "outcome" \notin LostAcks, WellFormed, Exclusive, NEW r \in Runs, Extraction(r)
  PROVE  Contract!ContractNext \/ UNCHANGED <<status, images>>
<1> DEFINE b == run[r].batch
<1>1. CASE Claim(r) \/ RecordOutcome(r) \/ RecordFailure(r) \/ ClaimAckLost(r)
  <2>1. /\ b \in Batches /\ images[b] > 0
        /\ Holds(run[r].at, status[b]) /\ GoodRun(run[r], status, images)
    BY <1>1 DEF WellFormed, Exclusive, GoodRun, Sent, Active, Claim, RecordOutcome, RecordFailure,
                   ClaimAckLost
  <2>2. PICK to : /\ CanTransition(status[b], to)
                  /\ status' = [status EXCEPT ![b] = to] /\ UNCHANGED images
    BY <1>1, <2>1 DEF Claim, RecordOutcome, RecordFailure, ClaimAckLost, Write, Holds, GoodRun, Results,
                      CanTransition, Edges
  <2> QED
    BY <2>1, <2>2, MoveRefines
<1>2. CASE NotClaimed(r) \/ FinishReading(r) \/ RunThrows(r) \/ FailureWriteThrows(r)
  BY <1>2 DEF NotClaimed, FinishReading, RunThrows, FailureWriteThrows, EndRun, batchVars
<1> QED
  BY <1>1, <1>2 DEF Extraction, OutcomeAckLost

LEMMA StepRefines ==
  ASSUME "outcome" \notin LostAcks
  PROVE  WellFormed /\ Exclusive /\ [Next]_vars => [Contract!ContractNext]_Contract!contractVars
<1> SUFFICES ASSUME WellFormed, Exclusive, [Next]_vars
             PROVE  Contract!ContractNext \/ UNCHANGED <<status, images>>
  BY DEF Contract!contractVars
<1>1. CASE Restart \/ UNCHANGED vars \/ \E b \in Batches : RetentionEnds(b)
  BY <1>1 DEF Restart, RetentionEnds, vars, batchVars
<1> QED
  BY <1>1, RequestRefines, RunRefines DEF Next

\* Whatever requests, runs and restarts do to each other, each stored batch
\* takes only moves of the transition table, with its screenshots frozen from
\* submit on, as long as the write of an outcome that throws has
\* changed nothing.
THEOREM LifecycleImplementsContract ==
  ASSUME "outcome" \notin LostAcks
  PROVE  Spec => KeepsContract
BY InvariantsHold, InitRefines, StepRefines, PTL
DEF Spec, KeepsContract, Contract!ContractSpec
=============================================================================
