# nextup: verification of the batch and list core

nextup keeps one owner's combined list of what is on several streaming
services. The owner uploads screenshots of a service's "my list" in a *batch*;
the API reads them, the owner reviews what was read, and *closing* the batch
adds titles to the list and, for a full update, removes what was not seen.
Everything can be undone. This directory holds TLA+ models of the parts of
`apps/api` and `packages/domain` where order, concurrency and failure decide
whether that list is right, the TLC runs over them, and TLAPS proofs.

## 1. Inventory

| Component | Source (under `src/apps/api/src` unless said) | State | Operations |
|---|---|---|---|
| Batch life cycle | `services/batchLifecycle.ts`, `routes/batches.ts`, `services/batchReextract.ts`, `packages/domain/src/enums.ts` | `upload_batch.status` | create, submit, retry, discard, re-extract, and the status moves of close and undo |
| Extraction start | `jobs/startExtraction.ts` | the run, in the memory of the process | claim, read, record the outcome, record a failure |
| Capture intake | `services/captureIntake.ts`, `routes/batchImages.ts`, `images/ingest.ts` | `capture_ingest_attempt`, `uploaded_image`, blobs | upload, remove, report a refusal, resolve, judge |
| Close | `services/batchClose.ts`, `packages/domain/src/{close,removals,classify,provenance}.ts` | `title`, `service_listing`, `batch_change`, removal group, `service_state` | close a service batch; discovery and auto-detect closes |
| Undo | `services/batchUndo.ts`, `packages/domain/src/undo.ts`, `repository/undoDiscard.ts` | the same | undo a batch that only created |
| Removal group undo | `services/removalGroupUndo.ts` | the same | restore a group whole |
| Restore, add, remove | `routes/listings.ts`, `routes/manualListEdits.ts` | the same | restore one listing, add or remove a title by hand |
| Suppressions | `routes/suppressions.ts` | `suppression` | suppress, unsuppress |
| Review | `routes/batch{Review,Candidates,Removals}.ts`, `packages/domain/src/{review,candidatePatch}.ts` | candidates, removal decisions | decide on a candidate, confirm all, tick removals, enter by hand |
| Review screen | `apps/web/src/pages/ReviewPage.tsx`, `hooks/useReviewDecisions.ts`, `components/Review*.tsx` | held choices in `sessionStorage`, the review on screen | save and verify choices, apply, find out what became of a close |
| Extraction pipeline | `jobs/runExtraction.ts`, `jobs/resolveCandidates.ts`, `extraction/`, `packages/domain/src/overlap.ts` | candidates of a batch | read within a budget, cross-check, collapse, match |
| Watch intents | `repository/watchIntents.ts`, `routes/waiting.ts`, `routes/newSeasons.ts` | `watch_intent` | wait for a work, by hand or by a close; satisfy |
| Availability | `services/{availabilityReview,watchAvailability}.ts`, `routes/availability*.ts` | last checks; the page's cursor | re-check walk; moves between the Library and the waiting view, badges |
| Set aside | `routes/watched.ts`, `repository/watchRecords.ts` | `watch_preference` | set a finished work aside, return it |
| Fix match, permanent delete | `routes/fixMatch.ts`, `services/permanentDelete.ts` | `title`, `service_listing` | re-identify a title, purge a removed listing |
| Watched records, catalogue clients, list queries, authentication, the other screens | see `PROJECT.json` | mostly none that others read | reads, refreshes, display |

How they interact. Every request is a handler of one Express process over one
SQL database and a blob store. A handler reads, decides in JavaScript, and
writes in a later statement or transaction; other requests run in between.
Extraction is a promise of the same process, started after the 202 of a submit,
retry or re-extract; a restart loses it. Two screens keep state that matters to
the server: the review holds choices until a read shows them saved, and the
availability changes hold the cursor of their walk. The intake's verdict withholds removals
in the review and the close. A close writes the ledger (`batch_change`) that an
undo works from. A suppression gates closes, group undos, restores and adds.
A close, an add, a restore or a promotion that lists a work satisfies its watch
intents; nothing but the owner's requests opens one.

What is hard: requests that act on a stale read (`list of hazards` in
`PROJECT.json`, with the line where each bites), a blob store outside the
transaction, writes without a `from` predicate, acknowledgements that are lost,
the three statements of a restore without a transaction, and two different
lookups of "the title of a work" over the same unique indexes.

What makes each component correct:

* life cycle: the stored status follows the transition table however requests
  and runs interleave; screenshots are frozen from submit on; a batch is never
  extracted empty; one run per batch; nothing stays submitted for ever;
* intake: a verdict of *complete* means nothing the owner offered is missing,
  and does not change after submit; the owner can always get unstuck;
* list: stored title states mirror the listings; undo leaves nothing of the
  batch, and of what is not the batch's takes only the listings of its titles; removals are scoped to one service and to what
  was not found; nothing suppressed comes back; the service's last-updated
  batch is the latest one still applied;
* extraction: absence is evidence of removal only if this run read everything; what was
  read is neither lost nor shown twice; a run ends however long a reader takes;
* review: no choice is lost between the screen and the batch; a close applies what
  was confirmed; an explicit decision is not taken back by a bulk one;
* availability checks: a walk that says it is done has covered every row, asks
  once about each, and ends even if every lookup fails;
* watch intents: a work is waited for at most once, an intent ends only with a
  listing the Library shows, and a work on its way between the Library and the
  waiting view is never lost from both.

## 2. Modules

| Module | Models |
|---|---|
| `BatchContract` | abstract specification: status edges, frozen screenshots, never empty past draft |
| `BatchLifecycle` | the requests and extraction runs on batches; implements `BatchContract` |
| `BatchLifecycle_proofs` | theorems about it |
| `ExtractionRun` | one run between its claim and its outcome: reading, candidate rows, collapses, matching, verdict |
| `ExtractionRun_proofs` | theorems about it |
| `CaptureIntake` | the intake of one batch, its blobs, its verdict and what a derived batch inherits |
| `CaptureIntake_proofs` | theorems about it |
| `CombinedList` | titles, listings, ledger, removal groups, service states; close, undo, group undo, restore, add, remove, badges, fix-match, permanent delete, suppress |
| `CombinedList_proofs` | theorems about the ledger, undo, removal groups and closes |
| `ListStates_proofs` | theorems about the stored states of titles and services, and suppressions |
| `WatchIntents` | one work's titles, listings and intents: what opens, satisfies and shows them, with the discovery and auto-detect closes |
| `WatchIntents_proofs` | theorems about it |
| `ReviewServer` | the review of one batch as the API serves it: gates and writes of every request, and the close |
| `ReviewTab` | extends it with one browser tab, lost answers, a late request, another tab and a list that changes |
| `ReviewTab_proofs` | theorems about both |
| `AvailabilityWalk` | the checks of the availability screen over rows that move under them |
| `AvailabilityWalk_proofs` | theorems about it |
| `MC*` | symmetry sets for TLC; each `.cfg` is one run |

### BatchLifecycle

`status`, `images` and `origin` are the columns of `upload_batch` and the number
of its `uploaded_image` rows (`origin` is the batch that a re-extracted batch
shares its blobs, and hence their expiry, with). `handler` is what each request
in progress has read; `run` is where each extraction run stands. Each operation
is a `...Read` and a `...Write`; between them anything may happen. The write is
the conditional `UPDATE ... WHERE status = <what was read>` of
`transitionUploadBatchStatus`, and nothing if the row has moved (`Refuse` ends
the request). The UPDATE takes the row lock, so what the transaction does after
it is in the same action: `SubmitWrite` counts the screenshots there, as
`submitBatch` does. `RunThrows` is any store or reader call that throws;
`ClaimAckLost` and `OutcomeAckLost` are calls that throw *after* they were
applied, and `LostAcks` names the calls that may. `FailureWriteThrows` is the
swallowed throw in the catch block. `Restart` drops all handlers and runs.
`Refuse` stands for every refusal and roll-back at once, as none changes state.

### CaptureIntake

One batch. `attempts` are the rows of `capture_ingest_attempt`; `files` of an
upload is what the browser offered, which the server does not store in this form
but which the property is about. `draft` is the row lock that
`withDraftCapture` takes: a transaction is one action guarded by it.
`blobs` is outside transactions: `RemoveFails` may have deleted the blob although
the transaction rolled back. The puts of one ingestion are one step.
`Lose` ends a request anywhere (a restart, or the loss of the failure write).
`LeaveDraft` is submit or discard. `DeriveRead`/`DeriveWrite` are the two halves
of re-extraction; the open-batch check between them, which only forbids, is left
to `BatchLifecycle`.

### CombinedList

Titles, listings and ledger rows are sets of records; a larger id was created
later, so `Newest` and `OldestActive` are the two lookups of
`repository/ownerData.ts`. `Store` writes both tables and is only possible when the
two filtered unique indexes hold: a transaction that breaks one rolls back.
`CloseRead` holds the reads and refusals of `closeBatch`; `CloseWrite` is its transaction,
with the suppression looked up again, the title chosen or made, the removal group,
the ledger, the status and the service state. `completedAt` is taken when the
request starts and stored when it commits, so `history`, the order of
completions, gets the batch at any place after the ones it had seen.
The order in which one transaction numbers its rows is a free choice
(`Numberings`). A restore is `RestoreRead`, `RestoreListing`, `RestoreDerive` and
`RestoreTitle`, for the route opens no transaction, and `RestoreInterrupted` ends it
in between. The several reads of one request before its first write are one
action, and so are suppress and unsuppress. `FixRead` is the gates of fix-match and its
look at the old work's suppression, `FixWrite` the transaction. A permanent delete reads inside
its transaction, so `Purge` is one action: it marks the ledger rows of the listing (`Purged`), which
is what makes undo refuse the batch, and drops the title when no listing and no candidate
refers to it. Candidates are in the model only as that reference (`Linked`): a candidate names
its title from the close that listed the work until a purge of the listing takes it along.

Left out of `CombinedList`: corrected and unresolved candidates, editions, dates
(`sortDateAdded`), display metadata, waiting titles, watch intents and
`attr_modified` rows.
Transactions are atomic, which READ COMMITTED does not give in general:
`specs/data-model.md:1736` argues for one writer and one user. The write skew
that assumption hides is a hazard in `PROJECT.json` without a property.

### WatchIntents

One work: every query of this code is by `workIdentity`, so works do not meet.
`titles` is in order of creation, which is what `findTitleByWorkIdentity` goes by; of a title
it has the state and its listings, active (`on`), removed by hand (`off`)
or by a full update (`held`). A listing is its service and the time its title was given it (`made`
counts them), so a request that carries the listings it read (`Dropped`) takes only those and
not one given to the same service since. `intents` are the `watch_intent` rows with the title they hang
on, `hidden` is `watch_preference.library_hidden`. `Library` and `WaitingView` are the two
views, and `Shown` is their union. `List` is what a close, an add and a promotion
share: the newest title if it is active, or a new one, the listings, and all of the work's intents
satisfied; `Homed` and `Housed` are the two ways to choose a title, for a listing and for an
intent. `Placed` folds an auto-detect close over the readings of the work, as its
loop does with the sets and the map it keeps. Restore and the return of a set-aside work have no
transaction and end in `Graduate`, a step of its own. `Asked` says which requests
a run makes; `BlindAlone` lets restores and settings aside in only when no other request is in
progress (see the run). Left out: badges (`CombinedList` has them), undo of batches, the intents' seasons, availability answers
and dates, a stop in the middle of a restore (`CombinedList` has it), and what
READ COMMITTED allows between two transactions.

### ExtractionRun

One full-update batch and, one after another, the runs it is given by retries; a
failed run leaves its rows. What a screenshot shows is a constant (`Screens`): its
parts, tiles of a measured layout or lines of an unmeasured one, with the captions a
reader gives and which of the two readers gave them. A caption stands for normalised
and verbatim text; `Within` says which text is in which at token boundaries, and
`Catalogue` what TMDB answers. `StartReader` to `ReaderAnswers` is one screenshot with
the insertion of its rows; `OutOfTime` wins the race of `withinBudget`, and the
reader it leaves behind is counted in `late` until `LateAnswer`, which may come between two runs,
in the next or after it. `earlier` is a ghost: how many rows were there when the run began. Stage 3 is one action per
pass over `mem`, the candidates in memory, and one for the row-by-row store, of which
any one write may fail (`PersistTorn`). `stage3` tells whether it went through. `read` is
a ghost: what this run found on each screenshot. Left out: chrome and noise, match scores and
years, providers, pixels, the budget as a number (its end may come at any wait).

### ReviewServer, ReviewTab

`ReviewServer` has the batch (`status`, candidate rows, stored unticks), what the
owner's list says of the works, and `request`, one per client. A request that writes is a
gate and a write with nothing held in between, as in the routes; `CloseRead` computes the plan, `CloseTicks` reads which proposals are ticked, and
`CloseWrite` is the transaction, which looks again at the status and the suppressions
and rolls back where an index would break. `Review` is what a GET answers. A candidate has a
verdict, the tile it was read from, and whether anything about it calls for a look (`sure`); what a
confirm-all may take (`Confirmable`) leaves out the unsure ones and those that share a tile
(`Related`, `Individual`).
`ListElsewhere`, `UnlistElsewhere` and `SuppressElsewhere` are the rest of the program.

`ReviewTab` is the screen against it. `doing` is what it waits for, `intents` the held choices with the
fingerprint of the row they were made against, `save` the save in progress: look, write,
verify, one choice after another, a confirm-all as a group. `Prepare`, `Confirm` and the
actions after them are applying: the review is read again, the dialog names the changes, and a
close whose answer is lost is looked up (`Checked`) and never sent twice. `Lose` loses an
answer, and `Leave` the screen, but not its held choices; a request that writes may be served all the
same (`Outlives`), by the client `Late`, and a read just ends. `Other` is another tab. `chosen` and `stale` are ghosts: the owner's last choice for each item,
and whether others have written since the review on screen was read. A read is
served and its answer handled in one step: what others do in between is as if done after.
Left out: editions (but as a reason to look), crops and banners, the relation between readings without a tile,
the reviews of discovery and auto-detect batches.

### AvailabilityWalk

Rows are Library titles and open intents alike; `stamp` is `availabilityCheckedAt`. A
request carries the time it began (`at`), for that is what it writes, whenever it writes
it; the writes come one by one and in any order, which over-approximates their
real order. The walk is the page's (`page[p].walk`): when it began, its cursor and whether
it is done; a request computes the next position from what it read and what it
will write itself. `Look` is any check outside a walk, `CheckMore` that of the stale rows, which
drops the page's walk. A request may die, its answer may be lost, the owner may leave. `owed` and
`tried` are ghosts. Left out: the rent-or-buy rule that exempts rows, the counts, the answers to
the proposals.

## 3. Runs

Bounds are in the `.cfg` files. They are chosen so that each hazard happens:
two requests are enough for every stale read in the code, as each handler has
one read-to-write window.

| Run | Shows | Bounds |
|---|---|---|
| `lifecycle` | types and the ceiling of screenshots, one run per batch, no outcome overwritten, no batch past draft empty, refinement of `BatchContract` | 2 batches, 2 requests, 2 runs, 2 screenshots, 2 throws, 1 restart; submits and claims may lose their acknowledgement |
| `progress` | every submitted batch is read or fails visibly | 2 batches, 1 request, 2 runs, 1 screenshot, 1 throw, which may be a lost acknowledgement of an outcome |
| `intake` | all properties of `CaptureIntake` | 3 files, ceiling 2, 4 attempts, 2 requests |
| `extraction` | absence is evidence; collapses end; what was seen is kept, and shown once; a review holds what its run read, whatever comes late; a run ends | 2 screenshots, 4 captions, 2 runs, 2 throws |
| `review` | choices are kept, the screen comes back, a close applies what was confirmed, explicit decisions stand | 2 candidates, 2 works, 3 clients; 2 choices and 1 trouble, or 1 and 2 |
| `list_races` | undo leaves nothing and takes no others' rows, ledger, references, scoping, single application, suppression in closes | 1 work, 2 services, 2 batches in review at once, 2 requests of every kind but removals, badges and fix-match, 1 stop inside a restore |
| `list_alone` | stored states mirror listings; the service state names the latest applied batch; nothing suppressed returns; a group is undone whole | 2 works, 2 services, 2 batches, every kind of request but adds, 1 at a time |
| `waiting` | one intent per work; an intent ends with a listing, and a listing ends the intents; a work on its way is never in neither view | 1 service, 2 titles, each given listings twice, 2 intents, 3 requests of every kind, restores and settings aside alone |
| `walk` | a finished walk has covered every row, asks once about each, and ends | 3 rows, 1 page, 2 requests, 2 rows a tap, 2 ticks, 2 disturbances |

`list_alone` has one request at a time on purpose: with two handlers, the first three of its
properties fail: an add slips between the two updates of a restore, two undos
each take the other's batch for the predecessor, a badge lands on a title that was removed
meanwhile, and a work is suppressed behind the back of a fix-match (the hazards at
`listings.ts:109`, `batchUndo.ts:211`, `availabilityMoves.ts:378` and `fixMatch.ts:295`). Without
restores and badges the first of them survives every race (`MirrorSurvivesRaces`, section 4). Between them the two
runs make every kind of request; adds multiply the instance of two works beyond reach, and
fix-match, which needs two, is in that one. Two ids are enough for
two titles of one work, two listings of one title on one service, and for the
longest dependencies between the works of undo: a batch undone under a later one.

In `waiting`, two kinds of request run only when no other is in progress (`BlindAlone`): the
restore and the hiding and returning of a work write without looking again at what
they were let in for, and with a second request beside them the properties fail (see the
hazard at `watched.ts:302`). The run also
sends all readings of a work to the same kind of destination (`MixedRoutes = FALSE`):
with both in one auto-detect batch a listing lands on the removed title of the intent, and
the intent is satisfied (the hazard at `batchClose.ts:882`). Two titles and two intents are enough
for an intent on an older title than the one listed, the case the index on
intents does not see; one service is enough for the races, which are about the
last listing of a title, and a second time for a listing that a request has not read.
`TitlesFollowListings`, the like of `ListMirrorsListings` here, is proved (section 4) and in no run.

`extraction` has the four captions that make every collapse happen: a title, its edition on
the same work, another title, and a tile nobody could read; a second run collapses what the first left.
`review` starts from three captures: two readings of one tile beside each other, two that stand apart, and one
of screen chrome with a listed work it does not show. No capture has an unreadable tile, which the owner
can only enter by hand; with it the run takes most of the time a run may. Two
disturbances are enough for a late write and another tab's write around
one save or one close. `walk` has more rows than a tap and fewer than two taps, so
that a walk ends on a short page, and every row may begin never checked or just checked.

Runs that find a disagreement between the code and what it says of itself
(details and quotations under `findings` in `PROJECT.json`):

| Run | Violates | What happens |
|---|---|---|
| `reopened` | a terminal status never reopens | the outcome commits, its acknowledgement is lost, the owner closes or discards, the catch block writes a failure by id |
| `close_blocked` | a reviewed batch has a way forward | newest-title lookup against the active-title index |
| `absorbed` | a title that stands elsewhere is kept | its readings are collapsed into one that is beside a longer title on another tile, and that one into the longer title |

More disagreements of the same kind have no run; the hazards say what was
found, with the line of the code's own words:

* two creates both look for an open batch before either inserts;
* a throw of the failure write leaves a batch extracting for ever (`progress` with two
  throws), and so does a restart;
* a submit takes a failed batch through the edge meant for retry;
* an add can make a second title beside an acknowledged duplicate (the lookup of
  `close_blocked`); a listing or a removal group whose work is on the list again can
  no longer be brought back; the restore and the undos above;
* a batch that only gave a title one more listing keeps its candidate's pointer when it is undone;
  a permanent delete of the title's own listings then leaves it for ever with none;
* fix-match reads the old work's suppression before its transaction, and can move a title to a
  work its own batch confirmed, by an acknowledged duplicate; undoing the batch then deletes it;
* a close removes what is proposed when it runs, not what the dialog named
  (`RemovalsWereNamed` in `ReviewTab` fails when another tab writes in between);
* a TMDB outage, or a failure of stage 3, leaves every reading without a work, and every
  active listing proposed for removal;
* after a retry, a row can point at a row that itself lost;
* the stale rows of the availability screen are asked about without a cursor, so rows
  whose lookup fails keep the others from their turn;
* a suppressed work stays in the waiting view, a work set aside that is captured again is
  in neither view, and a work placed by two readings of one auto-detect batch may be in neither.

Fairness. Requests are never fair: the owner need not do anything.

* `progress`: weak fairness of each run's steps, as a run waits only for calls that answer or
  time out (the reading has a budget, `EXTRACTION_BATCH_TIMEOUT_MS`), and strong fairness of the call of
  `beginExtraction`, which follows the response in the same turn of the event loop and in
  the model only waits for one of the bounded runs to be free. Throws are bounded by
  `MaxFaults`; with one, the failure write succeeds. A restart strands a batch, for nothing at
  start-up looks for it, so `progress` has none.
* `extraction`: weak fairness of what the process does by itself and of its timer; a
  reader may never answer.
* `review`: weak fairness of what the screen does with an answer and of the serving of its
  requests. An answer may be lost; the client's request then fails (a fetch ends).
* `walk`: weak fairness of the writes and answers of a request, and strong fairness of the owner's
  next tap on *Continue*. The last is an assumption about the owner: `WalkEnds` says that a
  walk she goes on with ends, not that she goes on.

`CHECK_DEADLOCK FALSE` stands in every `.cfg`: every system here stops when its bounded
ids are used up, or when the owner does nothing more.

Each property of a passing run has a mutant: a plausible slip in one
definition of the model (`Mutant of ...` beside it) with which that run finds the property
violated. `TypeOK` is checked where it says something that no assignment does, the ceiling of
screenshots in `lifecycle` and `intake`; the other modules state theirs.

## 4. Proofs

`BatchLifecycle_proofs`, for any sets of batches, requests and runs and any bounds:

| Theorem | Says | Assumes |
|---|---|---|
| `TypesHold` | `TypeOK` | the constants' assumptions |
| `NeverReadsEmpty` | no batch that was submitted is empty | the same; any acknowledgement may be lost |
| `RunsAreExclusive` | `OneRunPerBatch` | `"outcome" \notin LostAcks` |
| `OutcomesAreExclusive` | `OutcomeWritesAreExclusive` | `"outcome" \notin LostAcks` |
| `LifecycleImplementsContract` | `BatchLifecycle` implements `BatchContract` | `"outcome" \notin LostAcks` |

Two inductive invariants carry them. `WellFormed` is the type invariant plus what
a request or run carries from its read to its write: a submit that saw a draft, a
re-extraction that saw screenshots, a run whose batch was submitted once. It is
what makes "never empty" inductive, since the guarded write relies on what was
read. `Exclusive` adds a token argument: a request about to call `beginExtraction`, the
claiming run it becomes and the reading run after it are tokens of their batch; a batch in
extracting has exactly one reading run, and only a batch in submitted can be claimed.
A submit or a claim whose acknowledgement is lost loses its token, which is safe; an outcome
whose acknowledgement is lost duplicates it (the applied write and the
catch block), which is why `Exclusive` assumes there are none and why `reopened`
finds what it finds. The refinement needs both: an outcome written by id alone is
a legal edge only because its batch is still in extracting.

`CaptureIntake_proofs`, for any finite set of screenshots and any attempts, requests and ceiling:

| Theorem | Says |
|---|---|
| `TypesHold` | `TypeOK`, with the ceiling that concurrent uploads share |
| `CaptureIsNeverLost` | `NothingOfferedIsLost` |
| `CompleteCanBeRead` | `CompleteIsReadable` |
| `RemovalsAreRetryable` | `RemovalsCanFinish` |
| `DerivedCaptureIsHonest` | `DerivedIsHonest` |
| `VerdictIsFrozen` | `VerdictFrozen` |
| `ResolutionsStand` | `DecisionsStand` |

One invariant carries all seven. Its part `Evidence` says where screenshots come
from and who accounts for a missing one: uploads are offered disjoint sets; what
an upload in progress was offered is saved nowhere and removed by nobody; a
removal is of one screenshot, saved until it is complete; what a complete upload
was offered is saved or removed; a saved row without a blob has expired or has an
unfinished removal. `GoodRequest` is what a request holds between its transactions:
a save finds its screenshots in the blob store as long as its attempt is still
receiving. Each action is shown to keep `Evidence` and, as `Kept`, what every
*other* request relies on; `GoodStep` puts the two together. The two action
properties are read off `Kept`. TLC finds the invariant true in the `intake` run's
instance. No run checks `DecisionsStand` by itself; the theorem does.

`ExtractionRun_proofs`, for any number of screenshots, anything they can show, any catalogue, and any
number of runs and faults:

| Theorem | Says | Assumes |
|---|---|---|
| `TypesHold` | `TypeOK` | |
| `AbsenceIsEvidenceAlways` | `AbsenceIsEvidence` | |
| `CollapsesEndAlways` | `CollapsesEnd` | |
| `ShownOnceAlways` | `ShownOnce` | |
| `HoldsItsReadingsAlways` | `HoldsItsReadings` | |
| `SeenIsKeptApart` | `SeenIsKept` | `OneVerbatim`, `LinesApart` |

For the verdict, the invariant is `Progress`, how far a run is, and `Accounted`: as long as a run's own
counts give no reason to withhold, every screenshot it is past was measured, read
by the primary reader, and gave a title on every tile; and a stored verdict is as good as the run
that stored it. `Worst` never forgets an outage, which is where the proof needs the severities.
`CountsInv` bounds the counters by the screenshots behind them, for `TypesHold`. `OwnInv` says that what stands
after the rows of failed runs is what the run has found so far, for `HoldsItsReadings`.

For the collapses, the order in which `overlap.ts` prefers candidates (`compareOrderKeys`) is shown to be total, so that
every group that has a key has one best member; what a pass does is then stated once, without
folds (`Passes`): a candidate that is lost was a survivor, is lost to one that is left, and those
lost before stay where they were. `Unique` is what a pass achieves for its key. `RowsInv` says how far
the passes are (`PassesDone`), that the candidates carry on from the rows, and that no
row is its own host by any number of steps (`Ends`: every set of lost rows has one that leads out of
it, which a pass keeps because it only leads to candidates that are left). A torn store writes a prefix of the rows, which keeps `Ends` because it leads
from what was there to what the passes made of it, and never back.

`SeenIsKept` needs `SeenInv`: every work that was read stands, or was part of a longer
title (`Standing`), through each pass. The two assumptions are what the code takes for granted, and without
either of them TLC finds a way to lose a work that an earlier, failed run has read.
`OneVerbatim`: no two captions read the same when normalised. With two such captions of
different works, an outage of TMDB merges them; if the write of the outcome then throws and
the retry reads only one, the work of the other is proposed for removal.
`LinesApart`: a screenshot that was not measured gives one line. With more, a reading can take its screenshot
from one place and its line from another (`Near` compares them one by one), so that a title is collapsed into
a longer one it never stood beside. The instance of the `extraction` run satisfies both.

`CombinedList_proofs`, for any finite sets of works and services (`FiniteAssumption`, which
lets a close be handed as many ids as it lists works), any batches, bounds, faults and number of
requests in progress, of any kinds unless the table says otherwise:

| Theorem | Says | Assumes |
|---|---|---|
| `TypesHold` | `TypeOK` | |
| `ForeignKeys` | `ReferencesHold` | |
| `CompleteLedger` | `LedgerIsComplete` | |
| `UndoIsComplete` | `UndoneLeavesNothing` | |
| `UndoIsItsOwn` | `UndoTakesItsOwn` | |
| `ClosesAreGated` | `CloseGatesSuppressed` | |
| `GroupsAreUndoneWhole` | `GroupUndoneWhole` | |
| `RemovalsInScope` | `RemovalsAreScoped` | `"fix" \notin Asked` |
| `BatchesApplyOnce` | `AppliedOnce` | `"fix" \notin Asked` |

`LedgerInv` carries the first half. Undo deletes what its *read* found on record, so `UndoneLeavesNothing`
is not inductive: `UndoTakesAll` says that an undo which can still be written names every row its batch
made that is there. It holds when the undo is read because the record is complete (`OnRecord`), and
stays true because only the close of that batch makes rows of it, and that close is over:
an undo is of a batch that was applied. The record stays complete under the deletions of *other* undos
because ids are used once (`UniqueIds`), so what they detach names no row that is left. `GroupInv` is the
same argument for groups: the undo of a group in progress holds, in what it restores and what it holds back,
all members, and no close can add one. With it every step is a close, a read, or one of the steps `Others`
describes: it makes rows by hand only, and of the listings that were there it can only
take some out of their groups. `ScopeInv` then ties a close that has read, and a group, to
its batch's service and works; a corrected match breaks it (the listing's work changes under the
group), hence the assumption, and `list_races` leaves `fix` out for the same reason.
The steps of a close are described once, by `Closed`, for all four invariants. The fourth, `OwnInv`, is about the other
half of undo: a row on record as made by a batch, or held by an undo of it, is the batch's as long as it is there. It
stays so because no id is handed out twice; hence what an undo takes is its own, or a listing
of a title that is. That those go along is what `batchUndo.ts:286-291` says: a title the batch made takes the
listings other batches gave it.

`ListStates_proofs`, about the same module and for the same constants:

| Theorem | Says | Assumes |
|---|---|---|
| `MirrorSurvivesRaces` | `ListMirrorsListings` | no restores, no badges (`NoLooseEnds`) |
| `MirrorHolds` | `ListMirrorsListings` | `OneAtATime`, `MaxFaults = 0` |
| `ServiceStateIsCurrent` | `ServiceStateCurrent` | `OneAtATime` |
| `SuppressedStaysAway` | `NothingSuppressedReturns` | `OneAtATime` |

`OneAtATime` says there is one handler; why it is needed is in section 3. The model still takes
every request apart into its read and its writes, so what is to be shown is that nothing a request
relies on goes out of date by its own doing. `AsRead` says for each kind what that is: a close has seen
every completion, so it is appended to the history; the predecessor an undo has looked up is still the latest; what a
group undo or a restore brings back, or an add or a badge lists, is not suppressed; a
restore that met no active title still meets none, so its last statement
is never refused (`NeverRejected`). `Tables` adds what this takes of the rows: a ledger row names a listing under
the title the listing has (`Tied`), and an acknowledgement is the title's own. `Mirrored` is kept by
every write of one transaction (`Steady`), and between the statements of a restore for every title but its own
(`MirroredBut`), which is where a stop in between would leave it: hence `MaxFaults = 0`.

With any number of requests at once less is left of `AsRead`, but one part is: `Named`, that the
listings an undo or a removal is about to take are of the titles it will bring up to date. Listings never
change titles and ids are used once, so no other request can make it wrong. With it
`RaceInv` is inductive for all requests that write the title in the transaction that
writes the listing. The two that do not, restoring and adding a badge, are excluded by `NoLooseEnds`.
Transactions are atomic here; what READ COMMITTED lets two of them do to one title is the
hazard at `batchUndo.ts:320`.

`WatchIntents_proofs`, for any services, bounds and number of requests in progress, of any kinds:

| Theorem | Says | Assumes |
|---|---|---|
| `TypesHold` | `TypeOK` | |
| `WaitedForOnce` | `OneIntentPerWork` | |
| `TitlesFollow` | `TitlesFollowListings` | `BlindAlone`, `~MixedRoutes` |
| `IntentsGraduate` | `GraduatesWithListing` | the same |
| `WhatIsPlacedIsShown` | `PlacedIsShown` | the same |
| `NothingIsLost` | `NothingVanishes` | the same |

The database refuses a second waiting intent of one *title*; that a *work* waits once (`Single`)
holds because each write that opens an intent looks for one of the whole work in its own transaction
(`OpenInv`, `MoveInv`), and an auto-detect close keeps count itself: `Good` says that of its
state part-way, one reading at a time. The other four need the two assumptions the run makes too, for the
reasons given in section 3. `Alone` says that a request whose writes look at nothing again
is by itself; so between its statements no title changes (`BlindUndisturbed`), and all other writes find every title
as its listings say (`NobodyRestores`). `LandInv` adds what the last statement of a restore or
a return relies on: the work has a listing when its intents are ended. A step that ends intents then
leaves a listing (`EndedIsListed`) on an active title; a close of an auto-detect batch is followed
through its readings by `Knows`, which says what it believes of the work is so.

`AvailabilityWalk_proofs`, for any finite set of rows, any screens, requests and size of a tap:

| Theorem | Says |
|---|---|
| `WalkIsComplete` | `WalkCoversAll` |
| `NoRowIsAskedTwice` | `AsksOnce` |

The walk's cursor splits the rows (`Split`): what the walk owes an answer comes after it, what it has
tried does not, unless a stamp of the walk's time or later says it was answered. The same
holds of the walk a request is about to answer with, which is what survives a lost answer and a tap that
died half-way. `TapKeepsSound` is the step that matters: `SelectedFirst` says a row a tap leaves out comes after
all it picks, and `LastExists`, by well-founded induction on the rows that come after, that the new cursor is one
of them. A check beside the walk writes the time it began, which may be before the walk did: the
row then lies where it lay or before, and is struck from both `owed` and `tried`.

`ReviewTab_proofs`, for any candidates, works, captures and clients, any number of choices, lost answers and
returns to the screen, and whatever other tabs and the rest of the program write:

| Theorem | Says |
|---|---|
| `TypesHold` | `TypeOK` |
| `NoChoiceIsDropped` | `ChoicesAreKept` |
| `ClosesApplyTheDialog` | `AppliedAsConfirmed` |
| `DecisionsAreNotTakenBack` | `ExplicitStands` |

`Kept` says that a choice is held by the tab, or else by the batch. It is not inductive alone: the
tab forgets a choice when it has seen it in a review, and the batch could lose it again between
that and the forgetting, were the two not one step of the screen (`Looked` and `Verified` take the
review and forget at once). `Control` says what the tab waits for, what it has asked, and that with
its dialog open it asks for no write but the close. `Synced` says that the review behind an open dialog
is the one of now unless somebody else has written, and that a close that was let in applies it. Every
request the API serves keeps the batch's types, the other clients' requests and the batch closed once it is
(`Served`); the three families of steps, of the API, of the screen and of others, are taken one by one.

Every safety property that a passing run checks is stated by a theorem, some under the
hypotheses above. Model-checked only: liveness under fairness (`NeverSilentlyStops`, `RunEnds`, `WalkEnds`,
`TabComesBack`), which the provers cannot do, and the disagreements. No theorem says what a fold computes for every
input: what the proofs use of the folds (that flattening a sequence of sequences
gives a sequence of the same type, for one) is proved from their definitions in each case.

## 5. Plan

Order: what a wrong step costs the owner.

1. *Done:* `BatchContract`, `BatchLifecycle` and `CaptureIntake` with their proofs;
   `CombinedList` with service closes, undos, restores, edits, suppressions;
   `WatchIntents`: waiting, moving and graduating, with the closes of discovery and
   auto-detect batches; `ExtractionRun`; `ReviewServer` and
   `ReviewTab`; `AvailabilityWalk`; fix-match, badges and permanent delete in `CombinedList`,
   and a module of proofs for each component, two for the list.
2. `WatchIntents` with its two assumptions weakened: which of its theorems survive a
   second request beside a restore, and closes that send one work both ways.
3. The bulk answers of the availability screen and the upload screen's checkpoint.

Not planned: list queries, display metadata, catalogue clients, authentication and
the other screens. They keep no state that these properties depend on.
