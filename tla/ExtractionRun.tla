---------------------------- MODULE ExtractionRun ----------------------------
(***************************************************************************)
(* What an extraction run does between its claim and its outcome: the      *)
(* screenshots are read one after another, every reading becomes a         *)
(* candidate row, stage 3 collapses the rows that are readings of one      *)
(* title and resolves the rest against TMDB, and the outcome stores the    *)
(* verdict that decides whether absence may be read as removal.            *)
(*                                                                         *)
(* One full-update batch.  A failed run leaves its rows, and a retry adds  *)
(* to them.  A reading is a caption: the normalised text with the verbatim *)
(* text beside it.  Chrome, years, scores and providers are left out.      *)
(***************************************************************************)
EXTENDS Naturals, Sequences, FiniteSets, SequencesExt

CONSTANTS Images,    \* number of screenshots, in capture order
          Captions,  \* what a reader can read
          Blank,     \* the caption of a tile nobody could read
          Text,      \* caption -> its normalisedText
          Within,    \* pairs of texts: the first is in the second at token boundaries
          Catalogue, \* captions TMDB has a match for -> the work and its edition
          None,      \* no identity yet; no edition
          Listed,    \* works with an active listing on the service of the batch
          Screens,   \* what reading one screenshot can find
          MaxRuns,   \* bound: runs of the batch
          MaxFaults  \* bound: calls of the store or of TMDB that throw

Outcomes == {"ok", "ocr-unavailable", "llm-unavailable"}
Identity == [work : Range(Text) \cup {m.work : m \in Range(Catalogue)},
             edition : {None} \cup {m.edition : m \in Range(Catalogue)}]

\* A screenshot the layout was measured on has one part per tile, each cropped
\* and read by itself; any other has one per line, read in one call.  "none" is
\* a call in which both readers failed.
ASSUME ImagesAssumption == Images \in Nat \ {0}
ASSUME BoundsAssumption == MaxRuns \in Nat /\ MaxFaults \in Nat
ASSUME CaptionsAssumption ==
  /\ Blank \in Captions /\ DOMAIN Text = Captions
  /\ DOMAIN Catalogue \subseteq Captions \ {Blank} /\ Range(Catalogue) \subseteq Identity
ASSUME NoneAssumption == None \notin Screens /\ None \notin Identity
\* "tmdb:..." and "unmatched:..." are identities of two kinds.
ASSUME WorksAssumption == \A c \in DOMAIN Catalogue : Catalogue[c].work \notin Range(Text)
ASSUME ScreensAssumption ==
  \A s \in Screens :
    /\ s.grid \in BOOLEAN /\ s.parts \in Seq(Range(s.parts))
    /\ s.grid => s.parts # <<>>
    /\ \A part \in Range(s.parts) :
         part.cross \in Outcomes \cup {"none"} /\ part.captions \in Seq(Captions)
    /\ ~s.grid => \A p, q \in Range(s.parts) : p.cross = q.cross

VARIABLES status,   \* upload_batch.status
          rows,     \* extraction_candidate rows, oldest first
          verdict,  \* upload_batch.lowYield and crossCheck
          stage3,   \* how stage 3 went; the code keeps part of it in extractionStats
          run,      \* the run in progress
          mem,      \* the candidates of stage 3 while it computes
          read,     \* history: image -> what this run found on it
          earlier,  \* history: how many rows the runs that failed have left
          late,     \* readers still working for a run that has given up on them
          runs,     \* runs claimed so far
          faults    \* calls that have thrown

batchVars == <<status, rows, verdict, stage3>>
vars == <<batchVars, run, mem, read, earlier, late, runs, faults>>

----------------------------------------------------------------------------
(* Stage 1: what reading one screenshot gives (HybridExtractor)            *)

\* CROSS_CHECK_SEVERITY, worstCrossCheck
Severity(c) == CASE c = "ok" -> 0 [] c = "ocr-unavailable" -> 1 [] OTHER -> 2
\* Mutant of Worst: the last answer stands for all.
WorstLast(a, b) == b
Worst(a, b) == IF Severity(b) > Severity(a) THEN b ELSE a

Throws(s) == \E part \in Range(s.parts) : part.cross = "none"
CrossCheck(s) ==
  LET found == {part.cross : part \in Range(s.parts)} IN
  IF "llm-unavailable" \in found THEN "llm-unavailable"
  ELSE IF "ocr-unavailable" \in found THEN "ocr-unavailable" ELSE "ok"
\* locatedTiles = detectedTiles: every tile gave a title.
Located(s) == s.grid => \A part \in Range(s.parts) : Range(part.captions) \ {Blank} # {}

\* A tile on which nothing was read counts as an unreadable one.
Readings(s, part) == IF s.grid /\ part.captions = <<>> THEN <<Blank>> ELSE part.captions
Row(c, i, k, s) ==
  [caption |-> c, place |-> [image |-> i, spot |-> k, tiled |-> s.grid], work |-> None, into |-> 0]
RowsOf(i, s) ==
  FlattenSeq([k \in DOMAIN s.parts |->
    [n \in DOMAIN Readings(s, s.parts[k]) |-> Row(Readings(s, s.parts[k])[n], i, k, s)]])

----------------------------------------------------------------------------
(* Stage 3: collapse, match, collapse (resolveCandidates)                  *)

\* In memory a row is a candidate, with every place its losers were read at.
Candidate(row) ==
  [caption |-> row.caption, places |-> {row.place}, work |-> row.work, into |-> row.into]
Survivors(cs) == {i \in DOMAIN cs : cs[i].into = 0}

\* compareOrderKeys: image, then position, then id.
Image(c) == Min({p.image : p \in c.places})
Spot(c) == Min({p.spot : p \in c.places})
Precedes(cs, i, j) ==
  \/ Image(cs[i]) < Image(cs[j])
  \/ /\ Image(cs[i]) = Image(cs[j])
     /\ \/ Spot(cs[i]) < Spot(cs[j])
        \/ Spot(cs[i]) = Spot(cs[j]) /\ i < j
First(cs, S) == CHOOSE i \in S : \A j \in S \ {i} : Precedes(cs, i, j)

\* A loser points at its host, and a host takes over the places of its losers.
Join(c, host) == [c EXCEPT !.into = host]
Absorb(c, losers) == [c EXCEPT !.places = @ \cup UNION {l.places : l \in losers}]

\* collapseOverlap: of the survivors of one key the first stands for all.  A
\* candidate outside the domain of key has none.
Collapse(cs, key, live) ==
  LET Same(i) == {j \in live : key[j] = key[i]}
      Lost(i) == \E j \in Same(i) : Precedes(cs, j, i)
  IN [i \in DOMAIN cs |->
        CASE i \notin live -> cs[i]
          [] i \in live /\ Lost(i) -> Join(cs[i], First(cs, Same(i)))
          [] OTHER -> Absorb(cs[i], {cs[j] : j \in Same(i)})]

\* Mutant of CollapseOverlap: a candidate that has collapsed is grouped again.
CollapseOverlapAgain(cs, key) == Collapse(cs, key, DOMAIN key)

CollapseOverlap(cs, key) == Collapse(cs, key, DOMAIN key \cap Survivors(cs))

\* sharesAnImage, compatibleInputTiles, verticalGap
Near(a, b) ==
  /\ {p.image : p \in a.places} \cap {p.image : p \in b.places} # {}
  /\ \/ \A p \in a.places \cup b.places : ~p.tiled
     \/ \E p \in a.places \cap b.places : p.tiled
  /\ {p.spot : p \in a.places} \cap {p.spot : p \in b.places} # {}

\* Mutant of IsFragment: text alone decides.
IsFragmentByText(cs, i, j) == <<Text[cs[i].caption], Text[cs[j].caption]>> \in Within
IsFragment(cs, i, j) ==
  <<Text[cs[i].caption], Text[cs[j].caption]>> \in Within /\ Near(cs[j], cs[i])

\* collapseFragments: only a host that is no fragment itself adopts.
CollapseFragments(cs) ==
  LET live == {i \in Survivors(cs) : cs[i].caption # Blank}
      Hosts(i) == {j \in live : IsFragment(cs, i, j)}
      whole == {i \in live : Hosts(i) = {}}
      adopted == {i \in live : Hosts(i) \cap whole # {}}
      Host(i) == First(cs, Hosts(i) \cap whole)
  IN [i \in DOMAIN cs |->
        IF i \in adopted THEN Join(cs[i], Host(i))
        ELSE Absorb(cs[i], {cs[j] : j \in {k \in adopted : Host(k) = i}})]

\* The hash of a text that matched nothing is an identity of its own.
Unmatched(c) == [work |-> Text[c], edition |-> None]
Match(c) == IF c \in DOMAIN Catalogue THEN Catalogue[c] ELSE Unmatched(c)

\* The survivors with a text are matched in order; from the first search that
\* throws on, nothing is searched for.
Matched(cs, down) ==
  [i \in DOMAIN cs |->
     IF i \in Survivors(cs) /\ cs[i].caption # Blank
     THEN [cs[i] EXCEPT !.work = IF i < down THEN Match(cs[i].caption) ELSE Unmatched(cs[i].caption)]
     ELSE cs[i]]

CaptionKey(cs) == [i \in {k \in DOMAIN cs : cs[k].caption # Blank} |-> cs[i].caption]
WorkKey(cs) == [i \in {k \in DOMAIN cs : cs[k].work # None} |-> cs[i].work]

----------------------------------------------------------------------------
NoRun == [at |-> "idle", image |-> 0, cross |-> "ok", processed |-> 0, empty |-> 0, kept |-> 0,
          failed |-> 0, unsegmented |-> 0, unlocated |-> 0]

\* Before the next screenshot; waiting for its reader; deciding the outcome; the
\* steps of stage 3; with an outcome to record; with a failure to record; in the
\* catch block.
Stage3 == {"collapsing", "joining", "matching", "merging", "storing"}
Stages == {"idle", "next", "waiting", "deciding", "finishing", "failing", "catching"} \cup Stage3

Counts == 0..Images
TypeOK ==
  /\ status \in {"submitted", "extracting", "in-review", "extraction-failed"}
  /\ rows \in Seq([caption : Captions,
                   place : [image : 1..Images, spot : Nat, tiled : BOOLEAN],
                   work : Identity \cup {None}, into : Nat])
  /\ \A i \in DOMAIN rows : rows[i].into <= Len(rows)
  /\ verdict \in [lowYield : BOOLEAN, cross : Outcomes]
  /\ stage3 \in {"none", "whole", "outage", "torn"}
  /\ run \in [at : Stages, image : Counts, cross : Outcomes, processed : Counts, empty : Counts,
              kept : Counts, failed : Counts, unsegmented : Counts, unlocated : Counts]
  /\ DOMAIN mem = IF run.at \in Stage3 \ {"collapsing"} THEN DOMAIN rows ELSE {}
  /\ read \in [1..Images -> Screens \cup {None}]
  /\ earlier \in 0..Len(rows)
  /\ late \in 0..MaxRuns
  /\ runs \in 0..MaxRuns
  /\ faults \in 0..MaxFaults

Init ==
  /\ status = "submitted"
  /\ rows = <<>>
  /\ verdict = [lowYield |-> FALSE, cross |-> "ok"]
  /\ stage3 = "none"
  /\ run = NoRun
  /\ mem = <<>>
  /\ read = [i \in 1..Images |-> None]
  /\ earlier = 0
  /\ late = 0
  /\ runs = 0
  /\ faults = 0

At(stages) == run.at \in stages
GoTo(stage) == run' = [run EXCEPT !.at = stage]
Throw == faults < MaxFaults /\ faults' = faults + 1
Screenshot == run.image + 1
\* The run is done with a screenshot.
NextImage(r) ==
  [r EXCEPT !.image = @ + 1, !.at = IF r.image + 1 = Images THEN "deciding" ELSE "next"]

----------------------------------------------------------------------------
\* The claim, and what a run starts from.
Claim ==
  /\ status = "submitted"
  /\ runs < MaxRuns
  /\ status' = "extracting"
  /\ stage3' = "none"
  /\ run' = [NoRun EXCEPT !.at = "next"]
  /\ read' = [i \in 1..Images |-> None]
  /\ runs' = runs + 1
  /\ UNCHANGED <<rows, verdict, mem, earlier, late, faults>>

\* POST /batches/:batchId/retry-extraction
Retry ==
  /\ status = "extraction-failed"
  /\ runs < MaxRuns
  /\ status' = "submitted"
  /\ UNCHANGED <<rows, verdict, stage3, run, mem, read, earlier, late, runs, faults>>

----------------------------------------------------------------------------
(* runExtraction                                                           *)

\* No reader is configured, the screenshots are purged, or the time is up.
Stop ==
  /\ At({"next"})
  /\ GoTo("failing")
  /\ UNCHANGED <<batchVars, mem, read, earlier, late, runs, faults>>

StartReader ==
  /\ At({"next"})
  /\ GoTo("waiting")
  /\ UNCHANGED <<batchVars, mem, read, earlier, late, runs, faults>>

\* Mutant of OutOfTime: the time is looked at between screenshots only.
OutOfTimeBetween ==
  /\ At({"next"})
  /\ GoTo("failing")
  /\ UNCHANGED <<batchVars, mem, read, earlier, late, runs, faults>>

\* withinBudget: the timer wins, and the reader works on.
OutOfTime ==
  /\ At({"waiting"})
  /\ GoTo("failing")
  /\ late' = late + 1
  /\ UNCHANGED <<batchVars, mem, read, earlier, runs, faults>>

\* Out of memory, or not to be decoded: this screenshot alone is lost.
ImageFails ==
  /\ At({"waiting"})
  /\ run' = NextImage([run EXCEPT !.failed = @ + 1])
  /\ UNCHANGED <<batchVars, mem, read, earlier, late, runs, faults>>

\* Both readers failed on some part.
ReaderFails(s) ==
  /\ At({"waiting"})
  /\ Throws(s)
  /\ GoTo("failing")
  /\ UNCHANGED <<batchVars, mem, read, earlier, late, runs, faults>>

\* nothing: the screenshot gave no row.
Count(r, s, nothing) ==
  [r EXCEPT !.cross = Worst(@, CrossCheck(s)),
            !.processed = @ + 1,
            !.empty = @ + (IF nothing THEN 1 ELSE 0),
            !.kept = @ + (IF nothing THEN 0 ELSE 1),
            !.unsegmented = @ + (IF s.grid THEN 0 ELSE 1),
            !.unlocated = @ + (IF Located(s) THEN 0 ELSE 1)]

\* The answer, with the rows that recordItems inserts for it.
ReaderAnswers(s) ==
  LET items == RowsOf(Screenshot, s) IN
  /\ At({"waiting"})
  /\ ~Throws(s)
  /\ rows' = rows \o items
  /\ run' = NextImage(Count(run, s, items = <<>>))
  /\ read' = [read EXCEPT ![Screenshot] = s]
  /\ UNCHANGED <<status, verdict, stage3, mem, earlier, late, runs, faults>>

\* An insert throws: the rows inserted before it stay.
RecordThrows(s) ==
  LET items == RowsOf(Screenshot, s) IN
  /\ At({"waiting"})
  /\ ~Throws(s)
  /\ Throw
  /\ \E n \in 0..Len(items) : rows' = rows \o SubSeq(items, 1, n)
  /\ GoTo("catching")
  /\ UNCHANGED <<status, verdict, stage3, mem, read, earlier, late, runs>>

\* Mutant of LateAnswer: what a reader found after its time is recorded too.
LateAnswerRecorded(s) ==
  /\ late > 0
  /\ late' = late - 1
  /\ rows' = rows \o RowsOf(Images, s)
  /\ UNCHANGED <<status, verdict, stage3, run, mem, read, earlier, runs, faults>>

\* The race is lost, and nobody takes the answer.
LateAnswer(s) ==
  /\ late > 0
  /\ late' = late - 1
  /\ UNCHANGED <<batchVars, run, mem, read, earlier, runs, faults>>

Decide ==
  /\ At({"deciding"})
  /\ GoTo(IF run.processed = 0 THEN "failing" ELSE "collapsing")
  /\ UNCHANGED <<batchVars, mem, read, earlier, late, runs, faults>>

----------------------------------------------------------------------------
(* startExtraction: stage 3 and the outcome                                *)

\* One pass of stage 3, in memory: from one stage to the next.
Pass(from, to, out) ==
  /\ At({from})
  /\ GoTo(to)
  /\ mem' = out
  /\ UNCHANGED <<status, rows, verdict, read, earlier, late, runs>>

\* Pass A reads all rows of the batch, those of earlier runs too, and makes one
\* of the readings of one caption.
CollapseCaptions ==
  LET cs == [i \in DOMAIN rows |-> Candidate(rows[i])] IN
  /\ Pass("collapsing", "joining", CollapseOverlap(cs, CaptionKey(cs)))
  /\ UNCHANGED <<stage3, faults>>

JoinFragments ==
  /\ Pass("joining", "matching", CollapseFragments(mem))
  /\ UNCHANGED <<stage3, faults>>

MatchAll ==
  /\ Pass("matching", "merging", Matched(mem, Len(rows) + 1))
  /\ UNCHANGED <<stage3, faults>>

\* TMDB is gone from some search on.
MatchUntilOutage ==
  /\ At({"matching"})
  /\ \E down \in Survivors(mem) :
       mem[down].caption # Blank /\ Pass("matching", "merging", Matched(mem, down))
  /\ Throw
  /\ stage3' = "outage"

\* Pass B makes one of the candidates of one work.
CollapseWorks ==
  /\ Pass("merging", "storing", CollapseOverlap(mem, WorkKey(mem)))
  /\ UNCHANGED <<stage3, faults>>

\* What stage 3 computed is written row by row; a row in lost stays as it was.
Store(lost) ==
  /\ At({"storing"})
  /\ GoTo("finishing")
  /\ rows' = [i \in DOMAIN rows |->
                IF i \in lost THEN rows[i]
                ELSE [rows[i] EXCEPT !.work = mem[i].work, !.into = mem[i].into]]
  /\ mem' = <<>>
  /\ UNCHANGED <<status, verdict, read, earlier, late, runs>>

\* Mutant of Persist: only what was matched is written.
PersistMatched ==
  /\ At({"storing"})
  /\ Store({i \in DOMAIN rows : mem[i].work = None})
  /\ stage3' = IF stage3 = "none" THEN "whole" ELSE stage3
  /\ UNCHANGED faults

Persist ==
  /\ Store({})
  /\ stage3' = IF stage3 = "none" THEN "whole" ELSE stage3
  /\ UNCHANGED faults

\* A write that throws is logged and skipped.
PersistTorn ==
  /\ At({"storing"})
  /\ \E i \in DOMAIN rows :
       (mem[i].work # rows[i].work \/ mem[i].into # rows[i].into) /\ Store({i})
  /\ Throw
  /\ stage3' = "torn"

\* Stage 3 cannot read its rows, or has a bug: the batch does not fail with it.
Stage3Throws ==
  /\ At({"collapsing"})
  /\ Throw
  /\ GoTo("finishing")
  /\ UNCHANGED <<batchVars, mem, read, earlier, late, runs>>

LowYield(r) ==
  \/ r.processed = 0 \/ r.kept = 0 \/ 2 * r.empty >= r.processed
  \/ r.failed > 0 \/ r.unsegmented > 0 \/ r.unlocated > 0

RecordOutcome ==
  /\ At({"finishing"})
  /\ status' = "in-review"
  /\ verdict' = [lowYield |-> LowYield(run), cross |-> run.cross]
  /\ run' = NoRun
  /\ UNCHANGED <<rows, stage3, mem, read, earlier, late, runs, faults>>

RecordFailure ==
  /\ At({"failing", "catching"})
  /\ status' = "extraction-failed"
  /\ run' = NoRun
  /\ earlier' = Len(rows)
  /\ UNCHANGED <<rows, verdict, stage3, mem, read, late, runs, faults>>

\* Anything that throws lands in the catch block, the failure write included.
RunThrows ==
  /\ At({"next", "waiting", "finishing", "failing"})
  /\ Throw
  /\ GoTo("catching")
  /\ UNCHANGED <<batchVars, mem, read, earlier, late, runs>>

\* The failure write of the catch block is logged and swallowed.
FailureWriteThrows ==
  /\ At({"catching"})
  /\ Throw
  /\ run' = NoRun
  /\ UNCHANGED <<batchVars, mem, read, earlier, late, runs>>

----------------------------------------------------------------------------
Stage3Step ==
  \/ CollapseCaptions \/ JoinFragments \/ MatchAll \/ MatchUntilOutage \/ CollapseWorks
  \/ Persist \/ PersistTorn \/ Stage3Throws

Next ==
  \/ Claim \/ Retry
  \/ Stop \/ StartReader \/ OutOfTime \/ ImageFails
  \/ \E s \in Screens :
       ReaderFails(s) \/ ReaderAnswers(s) \/ RecordThrows(s) \/ LateAnswer(s)
  \/ Decide \/ Stage3Step
  \/ RecordOutcome \/ RecordFailure \/ RunThrows \/ FailureWriteThrows

\* The process goes on with what is its own to do, and its timer runs; a reader
\* may never answer.
Fairness ==
  /\ WF_vars(Claim)
  /\ WF_vars(StartReader \/ Stop)
  /\ WF_vars(OutOfTime)
  /\ WF_vars(Decide \/ CollapseCaptions \/ JoinFragments \/ MatchAll \/ CollapseWorks \/ Persist)
  /\ WF_vars(RecordOutcome \/ RecordFailure)

Spec == Init /\ [][Next]_vars
FairSpec == Spec /\ Fairness

----------------------------------------------------------------------------
(* What the review may conclude                                            *)

Withheld == verdict.lowYield \/ verdict.cross = "llm-unavailable"
Identified == {rows[i].work.work : i \in {i \in Survivors(rows) : rows[i].work # None}}
\* reconcile, computeRemovals: what the review proposes to remove, ticked.
ProposedRemovals == IF status # "in-review" \/ Withheld THEN {} ELSE Listed \ Identified

\* Removals are proposed only when this very run saw everything: each
\* screenshot was measured and read by the primary reader, and every tile of it
\* gave a title.
AbsenceIsEvidence ==
  status = "in-review" /\ ~Withheld =>
    \A i \in 1..Images :
      /\ read[i] # None
      /\ read[i].grid
      /\ \A part \in Range(read[i].parts) :
           part.cross \in {"ok", "ocr-unavailable"} /\ Range(part.captions) \ {Blank} # {}

\* Following collapsedIntoCandidateId from any row ends at a survivor, over
\* retries and lost writes: nothing that was read is absorbed by itself.
CollapsesEnd ==
  \A S \in SUBSET (DOMAIN rows \ Survivors(rows)) :
    S # {} => \E i \in S : rows[i].into \notin S

\* A row of the same place has the text of this one within its own.
Part(i) ==
  \E j \in DOMAIN rows :
    rows[i].place = rows[j].place /\ <<Text[rows[i].caption], Text[rows[j].caption]>> \in Within
\* The rows in which a work was read.
ReadAs(w) == {i \in DOMAIN rows : rows[i].caption # Blank /\ Match(rows[i].caption).work = w}

\* A title that was read on its own is not proposed for removal.
ReadWholeIsKept ==
  \A w \in ProposedRemovals : \A i \in ReadAs(w) : Part(i)

\* When stage 3 went through, no listed work that was read is proposed for
\* removal, unless some reading of it was part of a longer one.
SeenIsKept ==
  stage3 = "whole" => \A w \in ProposedRemovals : ReadAs(w) # {} => \E i \in ReadAs(w) : Part(i)

\* When stage 3 went through, the review shows each caption and each edition of a
\* work once.
ShownOnce ==
  status = "in-review" /\ stage3 = "whole" =>
    \A i, j \in {k \in Survivors(rows) : rows[k].caption # Blank} :
      rows[i].caption = rows[j].caption \/ rows[i].work = rows[j].work => i = j

AsRead(r) == <<r.caption, r.place>>

\* Whatever late readers answer, and whenever - between two runs, while the next one
\* reads, or after it - a batch in review holds, besides the rows that failed runs
\* left, the readings of its last run and no others.
HoldsItsReadings ==
  status = "in-review" =>
    {AsRead(rows[k]) : k \in (earlier + 1)..Len(rows)} =
      UNION {{AsRead(r) : r \in Range(RowsOf(i, read[i]))} : i \in {j \in 1..Images : read[j] # None}}

\* An extracting batch leaves that status, though its readers may never answer;
\* it stays in it only if the failure write of the catch block throws too.
RunEnds == status = "extracting" ~> status # "extracting" \/ faults > 1
=============================================================================
