------------------------ MODULE ExtractionRun_proofs ------------------------
(***************************************************************************)
(* Proofs about the verdict of an extraction run, for any number of        *)
(* screenshots, whatever the readers find on them, and any number of runs  *)
(* and of calls that throw.                                                *)
(*                                                                         *)
(* The verdict is decided from counters that the run keeps; Accounted says *)
(* what they owe to the screenshots behind the run.                        *)
(***************************************************************************)
EXTENDS ExtractionRun, TLAPS, FiniteSetTheorems, WellFoundedInduction

RunType == [at : Stages, image : 0..Images, cross : Outcomes, processed : Nat, empty : Nat,
            kept : Nat, failed : Nat, unsegmented : Nat, unlocated : Nat]

\* What the counters of the run r say of a screenshot on which it found f.
Accounted(r, f) ==
  IF f = None THEN r.failed > 0
  ELSE /\ ~Throws(f)
       /\ ~f.grid => r.unsegmented > 0
       /\ ~Located(f) => r.unlocated > 0
       /\ CrossCheck(f) = "llm-unavailable" => r.cross = "llm-unavailable"

Progress(r, f) ==
  /\ r \in RunType
  /\ f \in [1..Images -> Screens \cup {None}]
  /\ r.at \in {"next", "waiting"} => r.image < Images
  /\ r.at \in Stage3 \cup {"deciding", "finishing"} => r.image = Images
  /\ r.at # "idle" => \A i \in 1..Images :
       IF i <= r.image THEN Accounted(r, f[i]) ELSE f[i] = None

Inv ==
  /\ Progress(run, read)
  /\ run.at # "idle" => status = "extracting"
  /\ AbsenceIsEvidence

----------------------------------------------------------------------------
\* A run whose counters have nothing to report has seen everything.
LEMMA AccountedFacts ==
  ASSUME NEW r \in RunType, NEW f \in Screens \cup {None}, Accounted(r, f),
         ~LowYield(r), r.cross # "llm-unavailable"
  PROVE  /\ f # None
         /\ f.grid
         /\ \A part \in Range(f.parts) :
              part.cross \in {"ok", "ocr-unavailable"} /\ Range(part.captions) \ {Blank} # {}
<1>1. r.failed = 0 /\ r.unsegmented = 0 /\ r.unlocated = 0
  BY DEF LowYield, RunType
<1>2. f # None
  BY <1>1 DEF Accounted
<1>3. f.grid /\ Located(f) /\ ~Throws(f) /\ CrossCheck(f) # "llm-unavailable"
  BY <1>1, <1>2, ScreensAssumption DEF Accounted
<1>4. ASSUME NEW part \in Range(f.parts)
      PROVE  part.cross \in {"ok", "ocr-unavailable"} /\ Range(part.captions) \ {Blank} # {}
  <2>1. part.cross \in Outcomes \cup {"none"}
    BY <1>2, ScreensAssumption
  <2>2. part.cross # "none"
    BY <1>3 DEF Throws
  <2>3. part.cross # "llm-unavailable"
    BY <1>3 DEF CrossCheck
  <2> QED
    BY <1>3, <2>1, <2>2, <2>3 DEF Outcomes, Located
<1> QED
  BY <1>2, <1>3, <1>4

\* Counting a screenshot accounts for it, and forgets none of those before.
LEMMA CountFacts ==
  ASSUME NEW r \in RunType, NEW s \in Screens, ~Throws(s), NEW n \in BOOLEAN
  PROVE  /\ Count(r, s, n) \in RunType
         /\ Count(r, s, n).image = r.image
         /\ Accounted(Count(r, s, n), s)
         /\ \A f : Accounted(r, f) => Accounted(Count(r, s, n), f)
<1> DEFINE q == Count(r, s, n)
<1>1. CrossCheck(s) \in Outcomes /\ r.cross \in Outcomes
  BY DEF CrossCheck, Outcomes, RunType
<1>2. /\ Worst(r.cross, CrossCheck(s)) \in Outcomes
      /\ r.cross = "llm-unavailable" => Worst(r.cross, CrossCheck(s)) = "llm-unavailable"
      /\ CrossCheck(s) = "llm-unavailable" => Worst(r.cross, CrossCheck(s)) = "llm-unavailable"
  BY <1>1 DEF Worst, Severity, Outcomes
<1> DEFINE u == IF s.grid THEN 0 ELSE 1
           l == IF Located(s) THEN 0 ELSE 1
           e == IF n THEN 1 ELSE 0
           k == IF n THEN 0 ELSE 1
           c == Worst(r.cross, CrossCheck(s))
<1>n. u \in Nat /\ l \in Nat /\ e \in Nat /\ k \in Nat /\ c \in Outcomes
  BY <1>2
<1>t. q = [r EXCEPT !.cross = c, !.processed = r.processed + 1, !.empty = r.empty + e,
                    !.kept = r.kept + k, !.unsegmented = r.unsegmented + u,
                    !.unlocated = r.unlocated + l]
  BY DEF Count
<1>v. /\ q \in RunType
      /\ q.image = r.image
      /\ q.cross = c
      /\ q.failed = r.failed
      /\ q.unsegmented = r.unsegmented + u
      /\ q.unlocated = r.unlocated + l
  <2> HIDE DEF q, u, l, e, k, c
  <2>1. q = [at |-> r.at, image |-> r.image, cross |-> c, processed |-> r.processed + 1,
             empty |-> r.empty + e, kept |-> r.kept + k, failed |-> r.failed,
             unsegmented |-> r.unsegmented + u, unlocated |-> r.unlocated + l]
    BY <1>t DEF RunType
  <2>2. /\ r.processed + 1 \in Nat /\ r.empty + e \in Nat /\ r.kept + k \in Nat
        /\ r.unsegmented + u \in Nat /\ r.unlocated + l \in Nat
    BY <1>n DEF RunType
  <2> QED
    BY <1>n, <2>1, <2>2 DEF RunType
<1>3. /\ q \in RunType
      /\ q.image = r.image
      /\ q.cross = Worst(r.cross, CrossCheck(s))
      /\ q.failed = r.failed
      /\ q.unsegmented = r.unsegmented + (IF s.grid THEN 0 ELSE 1)
      /\ q.unlocated = r.unlocated + (IF Located(s) THEN 0 ELSE 1)
  BY <1>v
<1>4. r.unsegmented \in Nat /\ r.unlocated \in Nat
  BY DEF RunType
<1>5. Accounted(q, s)
  BY <1>2, <1>3, <1>4, NoneAssumption DEF Accounted
<1>6. ASSUME NEW f, Accounted(r, f) PROVE Accounted(q, f)
  BY <1>2, <1>3, <1>4, <1>6 DEF Accounted
<1> QED
  BY <1>3, <1>5, <1>6

\* Moving on to the next screenshot.
LEMMA NextImageFacts ==
  ASSUME NEW r \in RunType, NEW f \in [1..Images -> Screens \cup {None}], r.image < Images,
         \A i \in 1..Images :
           IF i <= r.image + 1 THEN Accounted(r, f[i]) ELSE f[i] = None
  PROVE  Progress(NextImage(r), f)
<1> DEFINE q == NextImage(r)
<1>1. /\ q \in RunType
      /\ q.image = r.image + 1
      /\ \/ q.at = "deciding" /\ q.image = Images
         \/ q.at = "next" /\ q.image < Images
      /\ q.failed = r.failed /\ q.unsegmented = r.unsegmented /\ q.unlocated = r.unlocated
      /\ q.cross = r.cross
  <2> DEFINE to == IF r.image + 1 = Images THEN "deciding" ELSE "next"
  <2>1. q = [r EXCEPT !.image = r.image + 1, !.at = to]
    BY DEF NextImage
  <2>2. to \in Stages /\ r.image + 1 \in 0..Images
    BY ImagesAssumption DEF Stages, RunType
  <2>3. /\ q \in RunType /\ q.image = r.image + 1 /\ q.at = to
        /\ q.failed = r.failed /\ q.unsegmented = r.unsegmented /\ q.unlocated = r.unlocated
        /\ q.cross = r.cross
    <3> HIDE DEF q, to
    <3> QED BY <2>1, <2>2 DEF RunType
  <2> QED
    BY <2>2, <2>3, ImagesAssumption
<1>2. \A g : Accounted(r, g) => Accounted(q, g)
  BY <1>1 DEF Accounted
<1> QED
  BY <1>1, <1>2, ImagesAssumption DEF Progress, RunType, Stage3

\* A step that only moves the run to another stage.
LEMMA GoToFacts ==
  ASSUME Progress(run, read), NEW stage \in Stages, GoTo(stage), UNCHANGED read,
         run.at # "idle",
         stage \in {"next", "waiting"} => run.image < Images,
         stage \in Stage3 \cup {"deciding", "finishing"} => run.image = Images
  PROVE  Progress(run, read)' /\ run'.at = stage
<1>1. /\ run' \in RunType /\ run'.at = stage /\ run'.image = run.image
      /\ \A f : Accounted(run, f) => Accounted(run', f)
  BY DEF GoTo, Progress, RunType, Accounted
<1> QED
  BY <1>1 DEF Progress

----------------------------------------------------------------------------
LEMMA InitInv == Init => Inv
BY ImagesAssumption DEF Init, Inv, Progress, NoRun, RunType, Stages, Stage3, Outcomes, AbsenceIsEvidence

LEMMA NextInv == Inv /\ [Next]_vars => Inv'
<1> SUFFICES ASSUME Inv, [Next]_vars PROVE Inv'
  OBVIOUS
<1> USE DEF Inv, At
<1>0. Images \in Nat /\ run \in RunType /\ read \in [1..Images -> Screens \cup {None}]
  BY ImagesAssumption DEF Progress
\* While the batch is extracting, nothing is claimed of absence.
<1> DEFINE Running == run.at # "idle" /\ status' = status
<1>r. ASSUME Running, Progress(run, read)' PROVE Inv'
  BY <1>r DEF AbsenceIsEvidence
<1>1. CASE Claim
  <2>1. /\ run' = [NoRun EXCEPT !.at = "next"]
        /\ read' = [i \in 1..Images |-> None] /\ status' = "extracting"
    BY <1>1 DEF Claim
  <2>2. run' \in RunType /\ run'.at = "next" /\ run'.image = 0
    BY <2>1, <1>0 DEF NoRun, RunType, Stages, Outcomes
  <2>3. Progress(run, read)'
    BY <2>1, <2>2, ImagesAssumption DEF Progress, Stage3
  <2> QED
    BY <2>1, <2>3 DEF AbsenceIsEvidence
<1>2. CASE Retry
  BY <1>2, <1>0 DEF Retry, AbsenceIsEvidence
<1>3. CASE Stop \/ OutOfTime
  <2>1. GoTo("failing") /\ run.at # "idle" /\ UNCHANGED <<status, read>>
    BY <1>3 DEF Stop, OutOfTime, batchVars
  <2> QED
    BY <2>1, <1>r, GoToFacts DEF Stages, Stage3
<1>4. CASE StartReader
  <2>1. /\ GoTo("waiting") /\ run.at = "next" /\ UNCHANGED <<status, read>>
        /\ run.image < Images
    BY <1>4 DEF StartReader, batchVars, Progress
  <2> QED
    BY <2>1, <1>r, GoToFacts DEF Stages, Stage3
<1>5. CASE ImageFails
  <2> DEFINE r == [run EXCEPT !.failed = @ + 1]
  <2>1. /\ run' = NextImage(r) /\ run.at = "waiting" /\ UNCHANGED <<status, read>>
        /\ run.image < Images
    BY <1>5 DEF ImageFails, batchVars, Progress
  <2>2. /\ r \in RunType /\ r.image = run.image /\ r.failed > 0
        /\ \A f : Accounted(run, f) => Accounted(r, f)
    BY <1>0 DEF RunType, Accounted
  <2>3. ASSUME NEW i \in 1..Images
        PROVE  IF i <= r.image + 1 THEN Accounted(r, read[i]) ELSE read[i] = None
    <3> HIDE DEF r
    <3>1. CASE i <= run.image
      BY <3>1, <2>1, <2>2, <1>0 DEF Progress, RunType
    <3>2. CASE ~(i <= run.image)
      <4>1. read[i] = None /\ r.failed > 0
        BY <3>2, <2>1, <2>2 DEF Progress
      <4> QED
        BY <4>1, <3>2, <2>2 DEF Accounted
    <3> QED
      BY <3>1, <3>2
  <2> QED
    BY <2>1, <2>2, <2>3, <1>0, <1>r, NextImageFacts
<1>6. ASSUME NEW s \in Screens, ReaderFails(s) PROVE Inv'
  <2>1. GoTo("failing") /\ run.at # "idle" /\ UNCHANGED <<status, read>>
    BY <1>6 DEF ReaderFails, batchVars
  <2> QED
    BY <2>1, <1>r, GoToFacts DEF Stages, Stage3
<1>7. ASSUME NEW s \in Screens, ReaderAnswers(s) PROVE Inv'
  <2> DEFINE n == RowsOf(Screenshot, s) = <<>>
             r == Count(run, s, n)
  <2>1. /\ run' = NextImage(r) /\ run.at = "waiting" /\ status' = status
        /\ ~Throws(s)
        /\ read' = [read EXCEPT ![run.image + 1] = s]
        /\ run.image < Images
    BY <1>7 DEF ReaderAnswers, Progress, Screenshot
  <2>2. n \in BOOLEAN
    OBVIOUS
  <2>3. /\ r \in RunType /\ r.image = run.image /\ Accounted(r, s)
        /\ \A f : Accounted(run, f) => Accounted(r, f)
    BY <2>1, <2>2, <1>0, CountFacts
  <2>4. read' \in [1..Images -> Screens \cup {None}]
    BY <2>1, <1>0
  <2>5. ASSUME NEW i \in 1..Images
        PROVE  IF i <= r.image + 1 THEN Accounted(r, read'[i]) ELSE read'[i] = None
    <3> HIDE DEF r
    <3>1. CASE i <= run.image
      BY <3>1, <2>1, <2>3, <1>0 DEF Progress, RunType
    <3>2. CASE i = run.image + 1
      BY <3>2, <2>1, <2>3, <1>0 DEF RunType
    <3>3. CASE i > run.image + 1
      BY <3>3, <2>1, <2>3, <1>0 DEF Progress, RunType
    <3> QED
      BY <3>1, <3>2, <3>3, <1>0 DEF RunType
  <2>6. Progress(NextImage(r), read')
    <3> HIDE DEF r
    <3> QED BY <2>1, <2>3, <2>4, <2>5, NextImageFacts
  <2> QED
    BY <2>1, <2>6, <1>r
<1>8. ASSUME NEW s \in Screens, RecordThrows(s) PROVE Inv'
  <2>1. GoTo("catching") /\ run.at # "idle" /\ UNCHANGED <<status, read>>
    BY <1>8 DEF RecordThrows
  <2> QED
    BY <2>1, <1>r, GoToFacts DEF Stages, Stage3
<1>9. ASSUME NEW s \in Screens, LateAnswer(s) PROVE Inv'
  BY <1>9 DEF LateAnswer, batchVars, AbsenceIsEvidence, Withheld
<1>10. CASE Decide
  <2>1. /\ \E stage \in {"failing", "collapsing"} : GoTo(stage)
        /\ run.at = "deciding" /\ UNCHANGED <<status, read>>
        /\ run.image = Images
    BY <1>10 DEF Decide, batchVars, Progress
  <2> QED
    BY <2>1, <1>r, GoToFacts DEF Stages, Stage3
<1>11. CASE Stage3Step
  <2>1. /\ \E stage \in Stage3 \cup {"finishing"} : GoTo(stage)
        /\ run.at \in Stage3 /\ UNCHANGED <<status, read>>
    BY <1>11 DEF Stage3Step, CollapseCaptions, JoinFragments, MatchAll, MatchUntilOutage,
                 CollapseWorks, Persist, PersistTorn, Stage3Throws, Pass, Store, Stage3, batchVars
  <2>2. run.image = Images /\ run.at # "idle"
    BY <2>1 DEF Progress, Stage3
  <2> QED
    BY <2>1, <2>2, <1>r, GoToFacts DEF Stages, Stage3
<1>12. CASE RecordOutcome
  <2>1. /\ run.at = "finishing" /\ run.image = Images
        /\ run' = NoRun /\ UNCHANGED read
        /\ verdict' = [lowYield |-> LowYield(run), cross |-> run.cross]
    BY <1>12 DEF RecordOutcome, Progress
  <2>2. Progress(run, read)'
    BY <2>1, <1>0 DEF Progress, NoRun, RunType, Stages, Stage3, Outcomes
  <2>3. ~Withheld' => ~LowYield(run) /\ run.cross # "llm-unavailable"
    BY <2>1 DEF Withheld
  <2>4. \A i \in 1..Images : Accounted(run, read[i])
    BY <2>1 DEF Progress
  <2>5. AbsenceIsEvidence'
    BY <2>1, <2>3, <2>4, <1>0, AccountedFacts DEF AbsenceIsEvidence
  <2> QED
    BY <2>1, <2>2, <2>5 DEF NoRun
<1>13. CASE RecordFailure \/ FailureWriteThrows
  <2>1. /\ run.at # "idle" /\ run' = NoRun /\ UNCHANGED read
        /\ status' \in {"extraction-failed", status}
    BY <1>13 DEF RecordFailure, FailureWriteThrows, batchVars
  <2>2. Progress(run, read)'
    BY <2>1, <1>0 DEF Progress, NoRun, RunType, Stages, Stage3, Outcomes
  <2> QED
    BY <2>1, <2>2 DEF NoRun, AbsenceIsEvidence
<1>14. CASE RunThrows
  <2>1. GoTo("catching") /\ run.at # "idle" /\ UNCHANGED <<status, read>>
    BY <1>14 DEF RunThrows, batchVars
  <2> QED
    BY <2>1, <1>r, GoToFacts DEF Stages, Stage3
<1>15. CASE UNCHANGED vars
  BY <1>15 DEF vars, batchVars, AbsenceIsEvidence, Withheld
<1> QED
  BY <1>1, <1>2, <1>3, <1>4, <1>5, <1>6, <1>7, <1>8, <1>9, <1>10, <1>11, <1>12, <1>13, <1>14,
     <1>15 DEF Next

\* Removals are proposed only by a run that read every screenshot with its
\* primary reader, measured it, and found a title on every tile.
THEOREM AbsenceIsEvidenceAlways == Spec => []AbsenceIsEvidence
<1>1. Init => Inv
  BY InitInv
<1>2. Inv /\ [Next]_vars => Inv'
  BY NextInv
<1>3. Inv => AbsenceIsEvidence
  BY DEF Inv
<1> QED
  BY <1>1, <1>2, <1>3, PTL DEF Spec

----------------------------------------------------------------------------
(* Rows, candidates and their order                                        *)

Place == [image : 1..Images, spot : Nat, tiled : BOOLEAN]
RowType == [caption : Captions, place : Place, work : Identity \cup {None}, into : Nat]
CandidateType ==
  [caption : Captions, places : SUBSET Place, work : Identity \cup {None}, into : Nat]
Cands(cs, n) == cs \in [1..n -> CandidateType] /\ \A i \in 1..n : cs[i].places # {}

\* A set of numbers that is not empty has a least one.
LEMMA LeastNat ==
  ASSUME NEW S \in SUBSET Nat, S # {}
  PROVE  \E m \in S : \A k \in S : m <= k
<1> DEFINE T == {0..k : k \in S}
<1>1. T \subseteq FiniteSubsetsOf(Nat) /\ T # {}
  <2>1. ASSUME NEW k \in S PROVE 0..k \in FiniteSubsetsOf(Nat)
    BY FS_Interval DEF FiniteSubsetsOf
  <2> QED BY <2>1
<1>2. \E x \in T : \A y \in T : <<y, x>> \notin StrictSubsetOrdering(Nat)
  <2> HIDE DEF T
  <2> QED BY <1>1, FS_StrictSubsetOrderingWellFounded, WFMin
<1>3. PICK m \in S : \A k \in S : <<0..k, 0..m>> \notin StrictSubsetOrdering(Nat)
  BY <1>2
<1>4. ASSUME NEW k \in S, ~(m <= k) PROVE FALSE
  <2>1. 0..k \subseteq 0..m /\ 0..k # 0..m /\ 0..m \subseteq Nat
    BY <1>4
  <2> QED BY <2>1, <1>3 DEF StrictSubsetOrdering
<1> QED
  BY <1>4

\* What Min gives.
LEMMA MinFacts ==
  ASSUME NEW S \in SUBSET Nat, S # {}
  PROVE  Min(S) \in S /\ \A k \in S : Min(S) <= k
BY LeastNat DEF Min

\* The place of a candidate is known: compareOrderKeys never meets a hole.
LEMMA KeysAreNumbers ==
  ASSUME NEW n \in Nat, NEW cs, Cands(cs, n), NEW i \in 1..n
  PROVE  Image(cs[i]) \in Nat /\ Spot(cs[i]) \in Nat
<1> DEFINE P == cs[i].places
<1>1. P \in SUBSET Place /\ P # {}
  BY DEF Cands, CandidateType
<1>2. \A p \in P : p.image \in Nat /\ p.spot \in Nat
  BY <1>1, ImagesAssumption DEF Place
<1>3. {p.image : p \in P} \in SUBSET Nat /\ {p.image : p \in P} # {}
  BY <1>1, <1>2
<1>4. {p.spot : p \in P} \in SUBSET Nat /\ {p.spot : p \in P} # {}
  BY <1>1, <1>2
<1> QED
  BY <1>3, <1>4, MinFacts DEF Image, Spot

\* The order of candidates is strict and total.
LEMMA PrecedesOrder ==
  ASSUME NEW n \in Nat, NEW cs, Cands(cs, n), NEW i \in 1..n, NEW j \in 1..n
  PROVE  /\ ~Precedes(cs, i, i)
         /\ Precedes(cs, i, j) => ~Precedes(cs, j, i)
         /\ i # j => Precedes(cs, i, j) \/ Precedes(cs, j, i)
<1>1. /\ Image(cs[i]) \in Nat /\ Spot(cs[i]) \in Nat
      /\ Image(cs[j]) \in Nat /\ Spot(cs[j]) \in Nat
  BY KeysAreNumbers
<1> QED
  BY <1>1 DEF Precedes

\* Any candidates have a first one, and it is in no need of being the only one.
LEMMA FirstFacts ==
  ASSUME NEW n \in Nat, NEW cs, Cands(cs, n), NEW S \in SUBSET (1..n), S # {}
  PROVE  First(cs, S) \in S /\ \A j \in S \ {First(cs, S)} : Precedes(cs, First(cs, S), j)
<1>0. \A i \in S : Image(cs[i]) \in Nat /\ Spot(cs[i]) \in Nat
  BY KeysAreNumbers
<1> DEFINE A == {Image(cs[i]) : i \in S}
<1>1. PICK a \in A : \A k \in A : a <= k
  <2>1. A \in SUBSET Nat /\ A # {}
    BY <1>0
  <2> QED
    BY <2>1, LeastNat
<1> DEFINE T == {i \in S : Image(cs[i]) = a}
           B == {Spot(cs[i]) : i \in T}
<1>2. PICK b \in B : \A k \in B : b <= k
  <2>1. B \in SUBSET Nat /\ B # {}
    BY <1>0, <1>1
  <2> QED
    BY <2>1, LeastNat
<1> DEFINE U == {i \in T : Spot(cs[i]) = b}
<1>3. PICK m \in U : \A k \in U : m <= k
  <2>1. U \in SUBSET Nat /\ U # {}
    BY <1>2
  <2> HIDE DEF U
  <2> QED
    BY <2>1, LeastNat
<1>4. m \in S /\ Image(cs[m]) = a /\ Spot(cs[m]) = b
  BY <1>3
<1>5. ASSUME NEW j \in S \ {m} PROVE Precedes(cs, m, j)
  <2>1. Image(cs[j]) \in Nat /\ Spot(cs[j]) \in Nat /\ a \in Nat /\ b \in Nat /\ j \in Nat /\ m \in Nat
    BY <1>0, <1>4
  <2>2. a <= Image(cs[j])
    BY <1>1
  <2>3. Image(cs[j]) = a => b <= Spot(cs[j])
    BY <1>2
  <2>4. Image(cs[j]) = a /\ Spot(cs[j]) = b => m <= j
    BY <1>3
  <2> QED
    BY <1>4, <2>1, <2>2, <2>3, <2>4 DEF Precedes
<1>6. \E i \in S : \A j \in S \ {i} : Precedes(cs, i, j)
  BY <1>4, <1>5
<1> QED
  BY <1>6 DEF First

----------------------------------------------------------------------------
(* The passes of stage 3                                                   *)

\* What every pass does: a candidate that is lost was a survivor, and is lost to
\* one that is left; those lost before stay where they were.
Passes(cs, ds, n) ==
  /\ Cands(ds, n)
  /\ \A i \in 1..n :
       /\ ds[i].caption = cs[i].caption
       /\ ds[i].into = 0 => cs[i].into = 0
       /\ ds[i].into # 0 => IF cs[i].into = 0
                            THEN ds[i].into \in 1..n /\ ds[ds[i].into].into = 0
                            ELSE ds[i].into = cs[i].into

\* Of the survivors that have a key none shares it.
Unique(cs, key) ==
  \A i, j \in Survivors(cs) \cap DOMAIN key : key[i] = key[j] => i = j

\* What collapseOverlap brings together has one key.
SameKey(cs, ds, key) ==
  \A i \in DOMAIN ds :
    /\ ds[i].into # 0 /\ cs[i].into = 0 =>
         i \in DOMAIN key /\ ds[i].into \in DOMAIN key /\ key[ds[i].into] = key[i]
    /\ \A p \in ds[i].places \ cs[i].places :
         i \in DOMAIN key /\ \E j \in DOMAIN key : key[j] = key[i] /\ p \in cs[j].places

\* Joining a host and absorbing losers keep a candidate one.
LEMMA JoinFacts ==
  ASSUME NEW c \in CandidateType, NEW host \in Nat
  PROVE  /\ Join(c, host) \in CandidateType
         /\ Join(c, host).into = host /\ Join(c, host).caption = c.caption
         /\ Join(c, host).work = c.work /\ Join(c, host).places = c.places
BY DEF Join, CandidateType

LEMMA AbsorbFacts ==
  ASSUME NEW c \in CandidateType, NEW losers \in SUBSET CandidateType
  PROVE  /\ Absorb(c, losers) \in CandidateType
         /\ Absorb(c, losers).into = c.into /\ Absorb(c, losers).caption = c.caption
         /\ Absorb(c, losers).work = c.work
         /\ Absorb(c, losers).places = c.places \cup UNION {l.places : l \in losers}
<1> DEFINE all == c.places \cup UNION {l.places : l \in losers}
<1>1. all \in SUBSET Place /\ c.places \subseteq all
  BY DEF CandidateType
<1>2. Absorb(c, losers) = [c EXCEPT !.places = all]
  BY DEF Absorb
<1> HIDE DEF all
<1>3. /\ Absorb(c, losers) \in CandidateType
      /\ Absorb(c, losers).into = c.into /\ Absorb(c, losers).caption = c.caption
      /\ Absorb(c, losers).work = c.work /\ Absorb(c, losers).places = all
  BY <1>1, <1>2 DEF CandidateType
<1> QED
  BY <1>3 DEF all

\* collapseOverlap leaves one survivor of each key: what is lost is lost to one of
\* its key, and places are taken over within a key.
LEMMA CollapseFacts ==
  ASSUME NEW n \in Nat, NEW cs, Cands(cs, n), NEW key, DOMAIN key \subseteq 1..n
  PROVE  /\ Passes(cs, CollapseOverlap(cs, key), n)
         /\ Unique(CollapseOverlap(cs, key), key)
         /\ \A i \in 1..n : CollapseOverlap(cs, key)[i].work = cs[i].work
         /\ SameKey(cs, CollapseOverlap(cs, key), key)
<1> DEFINE live == DOMAIN key \cap Survivors(cs)
           ds == CollapseOverlap(cs, key)
           Same(i) == {j \in live : key[j] = key[i]}
           Lost(i) == \E j \in Same(i) : Precedes(cs, j, i)
<1>0. DOMAIN cs = 1..n /\ live \in SUBSET (1..n) /\ \A i \in 1..n : cs[i] \in CandidateType
  BY DEF Cands, Survivors
<1>a. ds = [i \in 1..n |-> CASE i \notin live -> cs[i]
                             [] i \in live /\ Lost(i) -> Join(cs[i], First(cs, Same(i)))
                             [] OTHER -> Absorb(cs[i], {cs[j] : j \in Same(i)})]
  BY <1>0, Zenon DEF CollapseOverlap, Collapse
<1> HIDE DEF ds
<1>1. ASSUME NEW i \in 1..n, i \notin live
      PROVE  ds[i] = cs[i]
  BY <1>1, <1>a
<1>2. ASSUME NEW i \in live, Lost(i)
      PROVE  /\ ds[i] = Join(cs[i], First(cs, Same(i)))
             /\ First(cs, Same(i)) \in live /\ ~Lost(First(cs, Same(i)))
             /\ First(cs, Same(i)) \in 1..n /\ key[First(cs, Same(i))] = key[i]
  <2> DEFINE f == First(cs, Same(i))
  <2>1. ds[i] = Join(cs[i], f)
    BY <1>2, <1>a, <1>0
  <2>2. Same(i) \in SUBSET (1..n) /\ Same(i) # {}
    BY <1>0
  <2>3. f \in Same(i) /\ \A j \in Same(i) \ {f} : Precedes(cs, f, j)
    <3> HIDE DEF Same
    <3> QED BY <2>2, FirstFacts
  <2>4. Same(f) = Same(i) /\ f \in live /\ f \in 1..n /\ key[f] = key[i]
    BY <2>3, <1>0
  <2>5. ASSUME NEW j \in Same(i), Precedes(cs, j, f) PROVE FALSE
    <3>1. j \in 1..n /\ f \in 1..n
      BY <1>0, <2>4
    <3> QED BY <3>1, <2>3, <2>5, PrecedesOrder
  <2> QED BY <2>1, <2>4, <2>5
<1>3. ASSUME NEW i \in live, ~Lost(i)
      PROVE  ds[i] = Absorb(cs[i], {cs[j] : j \in Same(i)})
             /\ {cs[j] : j \in Same(i)} \in SUBSET CandidateType
  BY <1>3, <1>a, <1>0
<1>4. ASSUME NEW i \in 1..n
      PROVE  /\ ds[i] \in CandidateType /\ cs[i].places \subseteq ds[i].places
             /\ ds[i].caption = cs[i].caption /\ ds[i].work = cs[i].work
  <2> HIDE DEF live, Same, Lost
  <2>1. CASE i \notin live
    BY <2>1, <1>0, <1>1
  <2>2. CASE i \in live /\ Lost(i)
    <3>1. PICK h \in Nat : ds[i] = Join(cs[i], h)
      BY <2>2, <1>2
    <3>2. cs[i] \in CandidateType
      BY <1>0
    <3> HIDE DEF ds
    <3>3. /\ Join(cs[i], h) \in CandidateType /\ Join(cs[i], h).places = cs[i].places
          /\ Join(cs[i], h).caption = cs[i].caption /\ Join(cs[i], h).work = cs[i].work
      BY <3>2, JoinFacts
    <3> QED BY <3>1, <3>3
  <2>3. CASE i \in live /\ ~Lost(i)
    <3>1. PICK L \in SUBSET CandidateType : ds[i] = Absorb(cs[i], L)
      BY <2>3, <1>3
    <3>2. cs[i] \in CandidateType
      BY <1>0
    <3> HIDE DEF ds
    <3>3. /\ Absorb(cs[i], L) \in CandidateType /\ cs[i].places \subseteq Absorb(cs[i], L).places
          /\ Absorb(cs[i], L).caption = cs[i].caption /\ Absorb(cs[i], L).work = cs[i].work
      BY <3>2, AbsorbFacts
    <3> QED BY <3>1, <3>3
  <2> QED BY <2>1, <2>2, <2>3
<1>5. \A i \in live : ~Lost(i) => ds[i].into = 0
  <2> SUFFICES ASSUME NEW i \in live, ~Lost(i) PROVE ds[i].into = 0
    OBVIOUS
  <2>1. ds[i].into = cs[i].into /\ cs[i].into = 0
    <3>1. cs[i].into = 0 /\ cs[i] \in CandidateType
      BY <1>0 DEF Survivors
    <3> HIDE DEF live, Same, Lost
    <3> QED BY <3>1, <1>3, AbsorbFacts
  <2> QED BY <2>1
<1>6. \A i \in live : Lost(i) => /\ ds[i].into \in 1..n /\ ds[ds[i].into].into = 0
                                 /\ ds[i].into \in live /\ key[ds[i].into] = key[i]
  <2> SUFFICES ASSUME NEW i \in live, Lost(i)
               PROVE  /\ ds[i].into \in 1..n /\ ds[ds[i].into].into = 0
                      /\ ds[i].into \in live /\ key[ds[i].into] = key[i]
    OBVIOUS
  <2>1. i \in 1..n /\ cs[i] \in CandidateType
    BY <1>0
  <2>2. ds[i].into = First(cs, Same(i))
    <3> HIDE DEF live, Same, Lost
    <3>1. PICK h \in Nat : ds[i] = Join(cs[i], h) /\ h = First(cs, Same(i))
      BY <1>2
    <3> QED BY <3>1, <2>1, JoinFacts
  <2> QED
    <3> HIDE DEF live, Same, Lost
    <3> QED BY <2>2, <1>2, <1>5
<1>7. DOMAIN ds = 1..n /\ \A i \in 1..n : i \in live => cs[i].into = 0
  BY <1>a DEF Survivors
<1>8. Passes(cs, ds, n)
  <2>1. Cands(ds, n)
    <3>1. ds \in [1..n -> CandidateType]
      BY <1>a, <1>4
    <3> QED BY <3>1, <1>4 DEF Cands
  <2>2. ASSUME NEW i \in 1..n
        PROVE  /\ ds[i].into = 0 => cs[i].into = 0
               /\ ds[i].into # 0 => IF cs[i].into = 0
                                    THEN ds[i].into \in 1..n /\ ds[ds[i].into].into = 0
                                    ELSE ds[i].into = cs[i].into
    <3> HIDE DEF live, Same, Lost
    <3> QED BY <1>1, <1>5, <1>6, <1>7
  <2> QED BY <2>1, <2>2, <1>4 DEF Passes
<1>9. Unique(ds, key)
  <2> SUFFICES ASSUME NEW i \in Survivors(ds) \cap DOMAIN key, NEW j \in Survivors(ds) \cap DOMAIN key,
                      key[i] = key[j], i # j
               PROVE  FALSE
    BY DEF Unique
  <2>1. i \in 1..n /\ j \in 1..n /\ ds[i].into = 0 /\ ds[j].into = 0
    BY <1>7 DEF Survivors
  <2>2. i \in live /\ j \in live
    BY <2>1, <1>8, <1>0 DEF Passes, Survivors
  <2>3. ~Lost(i) /\ ~Lost(j)
    <3>1. 0 \notin 1..n
      OBVIOUS
    <3> HIDE DEF live, Lost
    <3> QED BY <3>1, <2>1, <2>2, <1>6
  <2>4. Precedes(cs, i, j) \/ Precedes(cs, j, i)
    BY <2>1, PrecedesOrder
  <2> QED BY <2>2, <2>3, <2>4
<1>10. SameKey(cs, ds, key)
  <2>1. ASSUME NEW i \in 1..n, ds[i].into # 0, cs[i].into = 0
        PROVE  i \in DOMAIN key /\ ds[i].into \in DOMAIN key /\ key[ds[i].into] = key[i]
    <3>1. i \in live /\ Lost(i)
      <4> HIDE DEF Lost
      <4> QED BY <2>1, <1>1, <1>5
    <3>2. ds[i].into \in live /\ key[ds[i].into] = key[i]
      <4> HIDE DEF live, Lost
      <4> QED BY <3>1, <1>6
    <3> QED BY <3>1, <3>2
  <2>2. ASSUME NEW i \in 1..n, NEW p \in ds[i].places \ cs[i].places
        PROVE  i \in DOMAIN key /\ \E j \in DOMAIN key : key[j] = key[i] /\ p \in cs[j].places
    <3>0. cs[i] \in CandidateType
      BY <1>0
    <3>1. i \in live /\ ~Lost(i)
      <4>1. CASE i \notin live
        BY <4>1, <1>1
      <4>2. CASE i \in live /\ Lost(i)
        <5>1. PICK h \in Nat : ds[i] = Join(cs[i], h)
          <6> HIDE DEF live, Same, Lost
          <6> QED BY <4>2, <1>2
        <5>2. ds[i].places = cs[i].places
          BY <3>0, <5>1, JoinFacts
        <5> QED BY <5>2
      <4> HIDE DEF live, Lost
      <4> QED BY <4>1, <4>2
    <3>2. ds[i] = Absorb(cs[i], {cs[j] : j \in Same(i)}) /\ {cs[j] : j \in Same(i)} \in SUBSET CandidateType
      <4> HIDE DEF live, Same, Lost
      <4> QED BY <3>1, <1>3
    <3>3. ds[i].places = cs[i].places \cup UNION {l.places : l \in {cs[j] : j \in Same(i)}}
      <4> HIDE DEF Same
      <4> QED BY <3>0, <3>2, AbsorbFacts
    <3>4. PICK j \in Same(i) : p \in cs[j].places
      BY <3>3
    <3> QED BY <3>1, <3>4
  <2> QED BY <2>1, <2>2, <1>7 DEF SameKey
<1> QED
  BY <1>4, <1>8, <1>9, <1>10 DEF ds

\* collapseFragments takes survivors away and changes nothing else: a host is no
\* fragment itself, so it is left.
LEMMA FragmentFacts ==
  ASSUME NEW n \in Nat, NEW cs, Cands(cs, n)
  PROVE  /\ Passes(cs, CollapseFragments(cs), n)
         /\ \A i \in 1..n : CollapseFragments(cs)[i].work = cs[i].work
         /\ \A i \in 1..n : CollapseFragments(cs)[i].into # 0 /\ cs[i].into = 0 =>
              \E j \in 1..n : IsFragment(cs, i, j)
<1> DEFINE live == {i \in Survivors(cs) : cs[i].caption # Blank}
           Hosts(i) == {j \in live : IsFragment(cs, i, j)}
           whole == {i \in live : Hosts(i) = {}}
           adopted == {i \in live : Hosts(i) \cap whole # {}}
           Host(i) == First(cs, Hosts(i) \cap whole)
           ds == CollapseFragments(cs)
<1>0. /\ DOMAIN cs = 1..n /\ live \in SUBSET (1..n) /\ \A i \in 1..n : cs[i] \in CandidateType
      /\ \A i \in live : cs[i].into = 0
  BY DEF Cands, Survivors
<1>a. ds = [i \in 1..n |->
              IF i \in adopted THEN Join(cs[i], Host(i))
              ELSE Absorb(cs[i], {cs[j] : j \in {k \in adopted : Host(k) = i}})]
  BY <1>0, Zenon DEF CollapseFragments
<1>1. ASSUME NEW i \in adopted
      PROVE  /\ Host(i) \in 1..n /\ Host(i) \notin adopted /\ cs[Host(i)].into = 0
             /\ IsFragment(cs, i, Host(i))
  <2>1. (Hosts(i) \cap whole) \in SUBSET (1..n) /\ Hosts(i) \cap whole # {}
    BY <1>0
  <2>2. Host(i) \in Hosts(i) \cap whole
    <3> HIDE DEF Hosts, whole
    <3> QED BY <2>1, FirstFacts
  <2>3. /\ Host(i) \in 1..n /\ Host(i) \in live /\ Hosts(Host(i)) = {}
        /\ IsFragment(cs, i, Host(i))
    <3> HIDE DEF Host
    <3> QED BY <2>1, <2>2
  <2> HIDE DEF Host
  <2> QED BY <2>3, <1>0
<1> HIDE DEF ds, Host, Hosts, whole
<1>2. ASSUME NEW i \in adopted
      PROVE  i \in 1..n /\ ds[i] = Join(cs[i], Host(i)) /\ cs[i].into = 0
  BY <1>a, <1>0
<1>3. ASSUME NEW i \in (1..n) \ adopted
      PROVE  \E L \in SUBSET CandidateType : ds[i] = Absorb(cs[i], L)
  BY <1>a, <1>0
<1> HIDE DEF adopted, live
<1>4. ASSUME NEW i \in 1..n
      PROVE  /\ ds[i] \in CandidateType /\ cs[i].places \subseteq ds[i].places
             /\ ds[i].caption = cs[i].caption /\ ds[i].work = cs[i].work
             /\ ds[i].into = IF i \in adopted THEN Host(i) ELSE cs[i].into
  <2>1. cs[i] \in CandidateType
    BY <1>0
  <2>2. CASE i \in adopted
    <3>1. PICK h \in Nat : ds[i] = Join(cs[i], h) /\ h = Host(i)
      BY <2>2, <1>1, <1>2
    <3>2. /\ Join(cs[i], h) \in CandidateType /\ Join(cs[i], h).into = h
          /\ Join(cs[i], h).caption = cs[i].caption /\ Join(cs[i], h).work = cs[i].work
          /\ Join(cs[i], h).places = cs[i].places
      BY <2>1, JoinFacts
    <3> QED BY <2>2, <3>1, <3>2
  <2>3. CASE i \notin adopted
    <3>1. PICK L \in SUBSET CandidateType : ds[i] = Absorb(cs[i], L)
      BY <2>3, <1>3
    <3> QED BY <2>1, <2>3, <3>1, AbsorbFacts
  <2> QED BY <2>2, <2>3
<1>5. Cands(ds, n)
  <2>1. ds \in [1..n -> CandidateType]
    BY <1>a, <1>4
  <2> QED BY <2>1, <1>4 DEF Cands
<1>6. ASSUME NEW i \in 1..n
      PROVE  /\ ds[i].into = 0 => cs[i].into = 0
             /\ ds[i].into # 0 => IF cs[i].into = 0
                                  THEN ds[i].into \in 1..n /\ ds[ds[i].into].into = 0
                                  ELSE ds[i].into = cs[i].into
  <2>1. CASE i \in adopted
    BY <2>1, <1>1, <1>2, <1>4
  <2>2. CASE i \notin adopted
    BY <2>2, <1>4
  <2> QED BY <2>1, <2>2
<1>7. ASSUME NEW i \in 1..n, ds[i].into # 0, cs[i].into = 0
      PROVE  \E j \in 1..n : IsFragment(cs, i, j)
  <2>1. i \in adopted
    BY <1>7, <1>4
  <2> QED BY <2>1, <1>1
<1> QED
  BY <1>4, <1>5, <1>6, <1>7 DEF Passes, ds

LEMMA MatchIsIdentity == \A c \in Captions : Match(c) \in Identity /\ Unmatched(c) \in Identity
BY CaptionsAssumption DEF Match, Unmatched, Identity, Range

\* Matching gives works and changes nothing else.
LEMMA MatchedFacts ==
  ASSUME NEW n \in Nat, NEW cs, Cands(cs, n), NEW down \in Nat
  PROVE  /\ Passes(cs, Matched(cs, down), n)
         /\ \A i \in 1..n :
              /\ Matched(cs, down)[i].into = cs[i].into
              /\ Matched(cs, down)[i].work =
                   IF i \in Survivors(cs) /\ cs[i].caption # Blank
                   THEN IF i < down THEN Match(cs[i].caption) ELSE Unmatched(cs[i].caption)
                   ELSE cs[i].work
         /\ \A i \in Survivors(Matched(cs, down)) :
              cs[i].caption # Blank => Matched(cs, down)[i].work # None
<1> DEFINE ds == Matched(cs, down)
<1>0. DOMAIN cs = 1..n /\ \A i \in 1..n : cs[i] \in CandidateType
  BY DEF Cands
<1>1. \A c \in Captions : Match(c) \in Identity /\ Unmatched(c) \in Identity
  BY MatchIsIdentity
<1>2. ASSUME NEW i \in 1..n
      PROVE  /\ ds[i] \in CandidateType
             /\ ds[i].places = cs[i].places /\ ds[i].caption = cs[i].caption /\ ds[i].into = cs[i].into
             /\ i \in Survivors(cs) /\ cs[i].caption # Blank => ds[i].work \in Identity
             /\ ds[i].work = IF i \in Survivors(cs) /\ cs[i].caption # Blank
                             THEN IF i < down THEN Match(cs[i].caption) ELSE Unmatched(cs[i].caption)
                             ELSE cs[i].work
  <2>1. cs[i] \in CandidateType /\ cs[i].caption \in Captions
    BY <1>0 DEF CandidateType
  <2>2. CASE i \in Survivors(cs) /\ cs[i].caption # Blank
    <3>1. PICK w \in Identity :
            /\ ds[i] = [cs[i] EXCEPT !.work = w]
            /\ w = IF i < down THEN Match(cs[i].caption) ELSE Unmatched(cs[i].caption)
      BY <1>0, <1>1, <2>1, <2>2 DEF Matched
    <3> HIDE DEF ds
    <3> QED BY <2>1, <2>2, <3>1 DEF CandidateType
  <2>3. CASE ~(i \in Survivors(cs) /\ cs[i].caption # Blank)
    <3>1. ds[i] = cs[i]
      BY <1>0, <2>3 DEF Matched
    <3> HIDE DEF ds
    <3> QED BY <2>1, <2>3, <3>1
  <2> QED BY <2>2, <2>3
<1>3. DOMAIN ds = 1..n /\ ds = [i \in 1..n |-> ds[i]]
  BY <1>0 DEF Matched
<1> HIDE DEF ds
<1>4. Cands(ds, n)
  <2>1. ds \in [1..n -> CandidateType]
    BY <1>2, <1>3
  <2> QED BY <2>1, <1>2 DEF Cands
<1>5. Passes(cs, ds, n)
  BY <1>2, <1>4 DEF Passes
<1>6. ASSUME NEW i \in Survivors(ds), cs[i].caption # Blank PROVE ds[i].work # None
  BY <1>0, <1>2, <1>3, <1>6, NoneAssumption DEF Survivors
<1> QED
  BY <1>2, <1>5, <1>6 DEF ds

----------------------------------------------------------------------------
(* The rows that one screenshot gives                                      *)

\* A screenshot that was not measured has its lines far apart: at most one is read.
LinesApart == \A s \in Screens : s.grid \/ Len(s.parts) <= 1

NewRow == {r \in RowType : /\ r.into = 0 /\ r.work = None
                           /\ LinesApart => r.place.tiled \/ r.place.spot = 1}

\* Sequences put one after another are a sequence.
LEMMA FlattenFacts ==
  ASSUME NEW S, NEW seqs \in Seq(Seq(S))
  PROVE  FlattenSeq(seqs) \in Seq(S)
<1> DEFINE N == Len(seqs)
           Is(f, m) == f = [i \in 1..m |-> IF i = 1 THEN seqs[i] ELSE f[i-1] \o seqs[i]]
           g == CHOOSE f : Is(f, N)
<1>0. N \in Nat /\ \A i \in 1..N : seqs[i] \in Seq(S)
  OBVIOUS
<1>1. CASE N = 0
  BY <1>1 DEF FlattenSeq
<1>2. CASE N # 0
  <2>1. FlattenSeq(seqs) = g[N]
    BY <1>2 DEF FlattenSeq
  <2> HIDE DEF N
  <2> DEFINE Bad == {m \in 1..N : ~ \E f : Is(f, m) /\ \A i \in 1..m : f[i] \in Seq(S)}
  <2>2. ASSUME Bad # {} PROVE FALSE
    <3>1. Bad \in SUBSET Nat
      <4> HIDE DEF Is
      <4> QED BY <1>0
    <3>2. PICK m \in Bad : \A k \in Bad : m <= k
      <4> HIDE DEF Bad
      <4> QED BY <2>2, <3>1, LeastNat
    <3>3. m \in 1..N
      OBVIOUS
    <3>4. CASE m = 1
      <4> DEFINE f == [i \in 1..1 |-> seqs[i]]
      <4>1. Is(f, 1) /\ \A i \in 1..1 : f[i] \in Seq(S)
        BY <1>0, <1>2
      <4> QED BY <3>4, <4>1
    <3>5. CASE m # 1
      <4>1. m - 1 \in 1..N /\ ~(m <= m - 1)
        BY <1>0, <3>3, <3>5
      <4>2. PICK f : Is(f, m - 1) /\ \A i \in 1..(m - 1) : f[i] \in Seq(S)
        BY <3>2, <4>1
      <4> DEFINE h == [i \in 1..m |-> IF i = m THEN f[m - 1] \o seqs[m] ELSE f[i]]
      <4>3. \A i \in 1..(m - 1) : h[i] = f[i]
        BY <4>1
      <4>4. \A i \in 1..(m - 1) : f[i] = IF i = 1 THEN seqs[i] ELSE f[i-1] \o seqs[i]
        BY <4>2
      <4>5. ASSUME NEW i \in 1..m
            PROVE  h[i] = (IF i = 1 THEN seqs[i] ELSE h[i-1] \o seqs[i]) /\ h[i] \in Seq(S)
        <5>1. CASE i = m
          <6>1. m - 1 \in 1..(m - 1) /\ h[m - 1] = f[m - 1] /\ f[m - 1] \in Seq(S) /\ seqs[m] \in Seq(S)
            BY <1>0, <3>3, <3>5, <4>2, <4>3
          <6>2. m \in 1..m
            BY <1>0, <3>3
          <6>3. h[m] = f[m - 1] \o seqs[m]
            BY <6>2
          <6> HIDE DEF h
          <6>4. h[m] = h[m - 1] \o seqs[m] /\ h[m] \in Seq(S)
            BY <6>1, <6>3
          <6> QED BY <5>1, <6>4, <3>5
        <5>2. CASE i # m
          <6>1. i \in 1..(m - 1) /\ (i # 1 => i - 1 \in 1..(m - 1))
            BY <3>3, <5>2
          <6>2. f[i] \in Seq(S)
            BY <4>2, <6>1
          <6> HIDE DEF h
          <6> QED BY <6>1, <6>2, <4>3, <4>4
        <5> QED BY <5>1, <5>2
      <4>6. Is(h, m)
        <5> DEFINE q == [i \in 1..m |-> IF i = 1 THEN seqs[i] ELSE h[i-1] \o seqs[i]]
        <5>1. DOMAIN h = 1..m /\ h = [i \in 1..m |-> h[i]]
          OBVIOUS
        <5>2. q = [i \in 1..m |-> h[i]]
          <6> HIDE DEF h
          <6> QED BY <4>5
        <5> QED BY <5>1, <5>2
      <4> HIDE DEF h, Is
      <4> QED BY <4>5, <4>6
    <3> QED BY <3>4, <3>5
  <2>3. PICK f : Is(f, N)
    <3>1. N \in 1..N
      BY <1>0, <1>2
    <3> HIDE DEF Is
    <3> QED BY <2>2, <3>1
  <2>4. Is(g, N)
    <3> HIDE DEF Is
    <3> QED BY <2>3
  <2> HIDE DEF g
  <2>5. \A i \in 1..N : g[i] = IF i = 1 THEN seqs[i] ELSE g[i-1] \o seqs[i]
    BY <2>4
  <2> HIDE DEF Is
  <2> DEFINE Odd == {i \in 1..N : g[i] \notin Seq(S)}
  <2>6. ASSUME Odd # {} PROVE FALSE
    <3>1. Odd \in SUBSET Nat
      BY <1>0
    <3>2. PICK m \in Odd : \A k \in Odd : m <= k
      <4> HIDE DEF Odd
      <4> QED BY <2>6, <3>1, LeastNat
    <3>3. m \in 1..N /\ m # 1
      BY <1>0, <2>5
    <3>4. m - 1 \in 1..N /\ ~(m <= m - 1)
      BY <1>0, <3>3
    <3>5. g[m - 1] \in Seq(S)
      BY <3>2, <3>4
    <3>6. g[m] = g[m-1] \o seqs[m] /\ seqs[m] \in Seq(S)
      BY <2>5, <3>3, <1>0
    <3>7. g[m] \in Seq(S)
      <4> HIDE DEF Odd
      <4>1. \A x, y \in Seq(S) : x \o y \in Seq(S)
        OBVIOUS
      <4> QED BY <3>5, <3>6, <4>1
    <3>8. g[m] \notin Seq(S)
      BY <3>2
    <3> QED BY <3>7, <3>8
  <2> QED BY <1>0, <1>2, <2>1, <2>6
<1> QED BY <1>1, <1>2

\* What is inserted for a screenshot are rows that have not collapsed.
LEMMA RowsOfFacts ==
  ASSUME NEW s \in Screens, NEW i \in 1..Images
  PROVE  RowsOf(i, s) \in Seq(NewRow)
<1> DEFINE Of(k) == [n \in DOMAIN Readings(s, s.parts[k]) |-> Row(Readings(s, s.parts[k])[n], i, k, s)]
<1>1. s.parts \in Seq(Range(s.parts)) /\ s.grid \in BOOLEAN
  BY ScreensAssumption
<1>2. ASSUME NEW k \in DOMAIN s.parts PROVE Of(k) \in Seq(NewRow)
  <2> DEFINE R == Readings(s, s.parts[k])
  <2>1. s.parts[k] \in Range(s.parts) /\ k \in Nat
    BY <1>1 DEF Range
  <2>2. R \in Seq(Captions)
    BY <2>1, ScreensAssumption, CaptionsAssumption DEF Readings
  <2> HIDE DEF R
  <2>3. ASSUME NEW n \in DOMAIN R PROVE Row(R[n], i, k, s) \in NewRow
    <3>1. R[n] \in Captions
      BY <2>2
    <3>2. LinesApart => s.grid \/ k = 1
      BY <1>1 DEF LinesApart
    <3> QED BY <3>1, <3>2, <2>1, <1>1 DEF Row, NewRow, RowType, Place
  <2>4. [n \in DOMAIN R |-> Row(R[n], i, k, s)] \in Seq(NewRow)
    BY <2>2, <2>3
  <2> QED BY <2>4 DEF R
<1> HIDE DEF Of
<1>3. [k \in DOMAIN s.parts |-> Of(k)] \in Seq(Seq(NewRow))
  BY <1>1, <1>2
<1>4. FlattenSeq([k \in DOMAIN s.parts |-> Of(k)]) \in Seq(NewRow)
  <2> DEFINE q == [k \in DOMAIN s.parts |-> Of(k)]
  <2> HIDE DEF q
  <2>1. q \in Seq(Seq(NewRow))
    BY <1>3 DEF q
  <2>2. FlattenSeq(q) \in Seq(NewRow)
    BY <2>1, FlattenFacts
  <2> QED BY <2>2 DEF q
<1> QED
  BY <1>4 DEF RowsOf, Of

----------------------------------------------------------------------------
(* Where collapses lead, and what a review shows                           *)

\* CollapsesEnd, of rows or candidates 1 to n.
Ends(cs, n) ==
  \A S \in SUBSET {i \in 1..n : cs[i].into # 0} : S # {} => \E i \in S : cs[i].into \notin S

\* Every survivor with a text is identified.
AllMatched(cs) == \A i \in Survivors(cs) : cs[i].caption # Blank => cs[i].work # None

\* What the review shows of rows or candidates it shows once.
Once(cs) ==
  \A i, j \in {k \in Survivors(cs) : cs[k].caption # Blank} :
    cs[i].caption = cs[j].caption \/ cs[i].work = cs[j].work => i = j

Early == {"next", "waiting", "deciding"}
Computing == Stage3 \ {"collapsing"}

RowsType ==
  /\ rows \in Seq(RowType)
  /\ \A i \in DOMAIN rows : rows[i].into <= Len(rows)

\* The candidates of stage 3 carry on from the rows: a row that is lost stays where it is.
CandidatesFollow ==
  /\ Cands(mem, Len(rows))
  /\ \A i \in DOMAIN rows :
       /\ mem[i].into <= Len(rows)
       /\ mem[i].caption = rows[i].caption
       /\ rows[i].into # 0 => mem[i].into = rows[i].into
  /\ Ends(mem, Len(rows))

\* How far the passes of stage 3 are.
PassesDone ==
  /\ Unique(mem, CaptionKey(mem))
  /\ run.at \in {"merging", "storing"} /\ stage3 = "none" => AllMatched(mem)
  /\ run.at = "storing" => Unique(mem, WorkKey(mem))

RowsInv ==
  /\ RowsType
  /\ Ends(rows, Len(rows))
  /\ stage3 \in {"none", "whole", "outage", "torn"}
  /\ run.at \in Early \cup Stage3 => stage3 # "whole"
  /\ stage3 = "whole" => Once(rows)
  /\ IF run.at \in Computing THEN CandidatesFollow /\ PassesDone ELSE mem = <<>>

----------------------------------------------------------------------------
\* A pass keeps what the passes before it have reached.
LEMMA PassKeeps ==
  ASSUME NEW n \in Nat, NEW cs, Cands(cs, n), NEW ds, Passes(cs, ds, n),
         Ends(cs, n), \A i \in 1..n : cs[i].into <= n
  PROVE  /\ Ends(ds, n)
         /\ \A i \in 1..n : ds[i].into <= n /\ (cs[i].into # 0 => ds[i].into = cs[i].into)
         /\ Unique(cs, CaptionKey(cs)) => Unique(ds, CaptionKey(ds))
         /\ Survivors(ds) \subseteq Survivors(cs)
<1>0. DOMAIN cs = 1..n /\ DOMAIN ds = 1..n
  BY DEF Passes, Cands
<1>t. \A i \in 1..n : cs[i].into \in Nat /\ ds[i].into \in Nat
  BY DEF Passes, Cands, CandidateType
<1>1. ASSUME NEW i \in 1..n PROVE ds[i].into <= n /\ (cs[i].into # 0 => ds[i].into = cs[i].into)
  BY <1>t DEF Passes
<1>2. Survivors(ds) \subseteq Survivors(cs)
  BY <1>0 DEF Passes, Survivors
<1>3. ASSUME NEW S \in SUBSET {i \in 1..n : ds[i].into # 0}, S # {}
      PROVE  \E i \in S : ds[i].into \notin S
  <2>1. CASE \E i \in S : cs[i].into = 0
    <3>1. PICK i \in S : cs[i].into = 0
      BY <2>1
    <3>2. i \in 1..n /\ ds[i].into # 0
      OBVIOUS
    <3>3. ds[ds[i].into].into = 0
      BY <3>1, <3>2 DEF Passes
    <3> QED BY <3>3
  <2>2. CASE \A i \in S : cs[i].into # 0
    <3>1. PICK i \in S : cs[i].into \notin S
      BY <2>2, <1>3 DEF Ends
    <3> QED BY <3>1, <2>2, <1>1
  <2> QED BY <2>1, <2>2
<1>4. ASSUME Unique(cs, CaptionKey(cs)) PROVE Unique(ds, CaptionKey(ds))
  <2> SUFFICES ASSUME NEW i \in Survivors(ds) \cap DOMAIN CaptionKey(ds),
                      NEW j \in Survivors(ds) \cap DOMAIN CaptionKey(ds),
                      CaptionKey(ds)[i] = CaptionKey(ds)[j]
               PROVE  i = j
    BY DEF Unique
  <2>1. /\ i \in 1..n /\ j \in 1..n /\ ds[i].caption # Blank /\ ds[j].caption # Blank
        /\ ds[i].caption = ds[j].caption
    BY <1>0 DEF CaptionKey
  <2>2. cs[i].caption = ds[i].caption /\ cs[j].caption = ds[j].caption
    BY <2>1 DEF Passes
  <2>3. /\ i \in Survivors(cs) \cap DOMAIN CaptionKey(cs) /\ j \in Survivors(cs) \cap DOMAIN CaptionKey(cs)
        /\ CaptionKey(cs)[i] = CaptionKey(cs)[j]
    BY <1>0, <1>2, <2>1, <2>2 DEF CaptionKey
  <2> QED BY <2>3, <1>4 DEF Unique
<1>5. Ends(ds, n)
  BY <1>3 DEF Ends
<1> QED
  BY <1>1, <1>2, <1>4, <1>5

\* The key of pass A after it: captions have not changed.
LEMMA CaptionsOnce ==
  ASSUME NEW n \in Nat, NEW cs, Cands(cs, n), NEW ds, Passes(cs, ds, n),
         Unique(ds, CaptionKey(cs))
  PROVE  Unique(ds, CaptionKey(ds))
<1>0. DOMAIN cs = 1..n /\ DOMAIN ds = 1..n /\ \A i \in 1..n : ds[i].caption = cs[i].caption
  BY DEF Passes, Cands
<1>1. DOMAIN CaptionKey(ds) = DOMAIN CaptionKey(cs)
      /\ \A i \in DOMAIN CaptionKey(ds) : CaptionKey(ds)[i] = CaptionKey(cs)[i]
  BY <1>0 DEF CaptionKey
<1> QED BY <1>1 DEF Unique

\* The same for the key of pass B.
LEMMA WorksOnce ==
  ASSUME NEW n \in Nat, NEW cs, Cands(cs, n), NEW ds, Passes(cs, ds, n),
         Unique(ds, WorkKey(cs)), \A i \in 1..n : ds[i].work = cs[i].work
  PROVE  /\ Unique(ds, WorkKey(ds))
         /\ AllMatched(cs) => AllMatched(ds)
<1>0. DOMAIN cs = 1..n /\ DOMAIN ds = 1..n /\ \A i \in 1..n : ds[i].caption = cs[i].caption
  BY DEF Passes, Cands
<1>1. DOMAIN WorkKey(ds) = DOMAIN WorkKey(cs)
      /\ \A i \in DOMAIN WorkKey(ds) : WorkKey(ds)[i] = WorkKey(cs)[i]
  BY <1>0 DEF WorkKey
<1>2. Survivors(ds) \subseteq Survivors(cs)
  BY <1>0 DEF Passes, Survivors
<1> QED BY <1>0, <1>1, <1>2 DEF Unique, AllMatched, Survivors

\* Rows that are added have not collapsed, so no chain of collapses gets longer.
LEMMA RowsAdded ==
  ASSUME RowsType, Ends(rows, Len(rows)), NEW more \in Seq(NewRow), rows' = rows \o more
  PROVE  RowsType' /\ Ends(rows, Len(rows))'
<1> DEFINE n == Len(rows)
           m == Len(rows')
<1>0. /\ rows \in Seq(RowType) /\ n \in Nat /\ DOMAIN rows = 1..n
      /\ \A i \in 1..n : rows[i] \in RowType
  BY DEF RowsType
<1>1. more \in Seq(RowType) /\ Len(more) \in Nat /\ \A i \in 1..Len(more) : more[i].into = 0
  BY DEF NewRow
<1>2. /\ rows' \in Seq(RowType) /\ m = n + Len(more) /\ DOMAIN rows' = 1..m
      /\ \A i \in 1..n : rows'[i] = rows[i]
      /\ \A i \in (n + 1)..m : rows'[i] = more[i - n]
  BY <1>0, <1>1
<1>3. ASSUME NEW i \in 1..m, i \notin 1..n PROVE rows'[i].into = 0
  <2>1. i \in (n + 1)..m /\ i - n \in 1..Len(more)
    BY <1>0, <1>1, <1>2, <1>3
  <2> QED BY <2>1, <1>1, <1>2
<1> HIDE DEF n, m
<1>4. ASSUME NEW i \in 1..m PROVE rows'[i].into <= m
  <2>1. CASE i \in 1..n
    <3>1. rows[i].into <= n /\ rows[i].into \in Nat
      BY <2>1, <1>0 DEF RowsType, RowType, n
    <3> QED BY <3>1, <2>1, <1>0, <1>1, <1>2
  <2>2. CASE i \notin 1..n
    BY <2>2, <1>0, <1>1, <1>2, <1>3
  <2> QED BY <2>1, <2>2
<1>5. ASSUME NEW S \in SUBSET {i \in 1..m : rows'[i].into # 0}, S # {}
      PROVE  \E i \in S : rows'[i].into \notin S
  <2>1. S \in SUBSET {i \in 1..n : rows[i].into # 0}
    BY <1>2, <1>3
  <2>2. PICK i \in S : rows[i].into \notin S
    BY <2>1, <1>5 DEF Ends, n
  <2> QED BY <2>1, <2>2, <1>2
<1> QED
  BY <1>2, <1>4, <1>5 DEF RowsType, Ends, m

----------------------------------------------------------------------------
(* The steps of stage 3                                                    *)

\* Pass A begins from the rows as they are stored.
LEMMA CandidatesOfRows ==
  ASSUME RowsType, Ends(rows, Len(rows)),
         NEW cs, cs = [i \in DOMAIN rows |-> Candidate(rows[i])]
  PROVE  /\ Len(rows) \in Nat /\ DOMAIN rows = 1..Len(rows)
         /\ Cands(cs, Len(rows)) /\ Ends(cs, Len(rows))
         /\ \A i \in DOMAIN rows :
              cs[i].caption = rows[i].caption /\ cs[i].into = rows[i].into /\ cs[i].into <= Len(rows)
<1> DEFINE n == Len(rows)
<1>0. n \in Nat /\ DOMAIN rows = 1..n /\ \A i \in 1..n : rows[i] \in RowType
  BY DEF RowsType
<1> HIDE DEF n
<1>1. ASSUME NEW i \in 1..n
      PROVE  /\ cs[i] \in CandidateType /\ cs[i].places # {}
             /\ cs[i].caption = rows[i].caption /\ cs[i].into = rows[i].into
  <2>1. cs[i] = Candidate(rows[i]) /\ rows[i] \in RowType
    BY <1>0
  <2>2. /\ rows[i].caption \in Captions /\ {rows[i].place} \in SUBSET Place
        /\ rows[i].work \in Identity \cup {None} /\ rows[i].into \in Nat
    BY <2>1 DEF RowType
  <2>3. cs[i] = [caption |-> rows[i].caption, places |-> {rows[i].place},
                 work |-> rows[i].work, into |-> rows[i].into]
    BY <2>1 DEF Candidate
  <2>4. cs[i] \in CandidateType
    <3>1. \A a \in Captions, b \in SUBSET Place, w \in Identity \cup {None}, t \in Nat :
            [caption |-> a, places |-> b, work |-> w, into |-> t] \in CandidateType
      BY DEF CandidateType
    <3> QED BY <2>2, <2>3, <3>1
  <2>5. /\ cs[i].places = {rows[i].place} /\ cs[i].caption = rows[i].caption
        /\ cs[i].into = rows[i].into
    BY <2>3
  <2> QED BY <2>4, <2>5
<1>2. Cands(cs, n)
  <2>1. cs \in [1..n -> CandidateType]
    BY <1>0, <1>1
  <2> QED BY <2>1, <1>1 DEF Cands
<1>3. Ends(cs, n)
  <2> SUFFICES ASSUME NEW S \in SUBSET {i \in 1..n : cs[i].into # 0}, S # {}
               PROVE  \E i \in S : cs[i].into \notin S
    BY DEF Ends
  <2>1. S \in SUBSET {i \in 1..n : rows[i].into # 0}
    BY <1>1
  <2>2. PICK i \in S : rows[i].into \notin S
    BY <2>1 DEF Ends, n
  <2> QED BY <2>2, <1>1
<1>4. \A i \in 1..n : rows[i].into <= n
  BY <1>0 DEF RowsType, n
<1> QED
  BY <1>0, <1>1, <1>2, <1>3, <1>4 DEF n

\* A pass over candidates that follow the rows leaves candidates that do.
LEMMA StillFollow ==
  ASSUME RowsType, CandidatesFollow, UNCHANGED rows, Passes(mem, mem', Len(rows))
  PROVE  /\ CandidatesFollow'
         /\ Unique(mem, CaptionKey(mem)) => Unique(mem, CaptionKey(mem))'
<1>0. Len(rows) \in Nat /\ DOMAIN rows = 1..Len(rows) /\ Cands(mem', Len(rows))
  BY DEF RowsType, Passes
<1>1. \A i \in DOMAIN rows : mem[i].into <= Len(rows)
  BY DEF CandidatesFollow
<1>2. /\ Ends(mem', Len(rows))
      /\ \A i \in DOMAIN rows :
           mem'[i].into <= Len(rows) /\ (mem[i].into # 0 => mem'[i].into = mem[i].into)
      /\ Unique(mem, CaptionKey(mem)) => Unique(mem', CaptionKey(mem'))
  BY <1>0, <1>1, PassKeeps DEF CandidatesFollow
<1>3. \A i \in DOMAIN rows : mem'[i].caption = rows[i].caption
  BY <1>0 DEF Passes, CandidatesFollow
<1>4. \A i \in DOMAIN rows : rows[i].into # 0 => mem'[i].into = rows[i].into
  BY <1>0, <1>2 DEF CandidatesFollow
<1> QED
  BY <1>0, <1>2, <1>3, <1>4 DEF CandidatesFollow

LEMMA CollapseCaptionsInv ==
  ASSUME RowsInv, run \in RunType, CollapseCaptions
  PROVE  RowsInv'
<1> DEFINE cs == [i \in DOMAIN rows |-> Candidate(rows[i])]
<1>0. /\ RowsType /\ Ends(rows, Len(rows)) /\ UNCHANGED <<rows, stage3>>
      /\ mem' = CollapseOverlap(cs, CaptionKey(cs)) /\ run'.at = "joining"
      /\ run.at = "collapsing"
  BY DEF RowsInv, CollapseCaptions, Pass, At, GoTo, RunType
<1> HIDE DEF cs
<1>1. /\ Len(rows) \in Nat /\ DOMAIN rows = 1..Len(rows)
      /\ Cands(cs, Len(rows)) /\ Ends(cs, Len(rows))
      /\ \A i \in DOMAIN rows :
           cs[i].caption = rows[i].caption /\ cs[i].into = rows[i].into /\ cs[i].into <= Len(rows)
  BY <1>0, CandidatesOfRows DEF cs
<1>2. DOMAIN CaptionKey(cs) \subseteq 1..Len(rows)
  BY <1>1 DEF CaptionKey, Cands
<1>3. Passes(cs, mem', Len(rows)) /\ Unique(mem', CaptionKey(cs))
  BY <1>0, <1>1, <1>2, CollapseFacts
<1>4. /\ Ends(mem', Len(rows))
      /\ \A i \in DOMAIN rows :
           mem'[i].into <= Len(rows) /\ (cs[i].into # 0 => mem'[i].into = cs[i].into)
  BY <1>1, <1>3, PassKeeps
<1>5. CandidatesFollow'
  BY <1>0, <1>1, <1>3, <1>4 DEF CandidatesFollow, Passes
<1>6. Unique(mem, CaptionKey(mem))'
  BY <1>1, <1>3, CaptionsOnce
<1> QED
  BY <1>0, <1>5, <1>6 DEF RowsInv, RowsType, PassesDone, Stage3, Early, Computing

LEMMA JoinFragmentsInv ==
  ASSUME RowsInv, run \in RunType, JoinFragments
  PROVE  RowsInv'
<1>0. /\ RowsType /\ UNCHANGED <<rows, stage3>>
      /\ mem' = CollapseFragments(mem) /\ run'.at = "matching" /\ run.at = "joining"
      /\ CandidatesFollow /\ PassesDone
  BY DEF RowsInv, JoinFragments, Pass, At, GoTo, RunType, Computing, Stage3
<1>1. Len(rows) \in Nat /\ Cands(mem, Len(rows))
  BY <1>0 DEF RowsType, CandidatesFollow
<1>2. Passes(mem, mem', Len(rows))
  BY <1>0, <1>1, FragmentFacts
<1>3. CandidatesFollow' /\ Unique(mem, CaptionKey(mem))'
  BY <1>0, <1>2, StillFollow DEF PassesDone
<1> QED
  BY <1>0, <1>3 DEF RowsInv, RowsType, PassesDone, Stage3, Early, Computing

LEMMA MatchInv ==
  ASSUME RowsInv, run \in RunType, MatchAll \/ MatchUntilOutage
  PROVE  RowsInv'
<1>0. /\ RowsType /\ UNCHANGED rows /\ CandidatesFollow /\ PassesDone
      /\ run'.at = "merging" /\ run.at = "matching"
      /\ stage3' \in {stage3, "outage"}
  BY DEF RowsInv, MatchAll, MatchUntilOutage, Pass, At, GoTo, RunType, Computing, Stage3
<1>1. Len(rows) \in Nat /\ Cands(mem, Len(rows))
  BY <1>0 DEF RowsType, CandidatesFollow
<1>2. \E down \in Nat : mem' = Matched(mem, down)
  <2>1. CASE MatchAll
    BY <2>1, <1>1 DEF MatchAll, Pass
  <2>2. CASE MatchUntilOutage
    <3>1. PICK down \in Survivors(mem) : mem' = Matched(mem, down)
      BY <2>2 DEF MatchUntilOutage, Pass
    <3>2. down \in Nat
      BY <1>1 DEF Survivors, Cands
    <3> QED BY <3>1, <3>2
  <2> QED BY <2>1, <2>2
<1>3. PICK down \in Nat : mem' = Matched(mem, down)
  BY <1>2
<1>4. /\ Passes(mem, mem', Len(rows))
      /\ \A i \in Survivors(mem') : mem[i].caption # Blank => mem'[i].work # None
  BY <1>1, <1>3, MatchedFacts
<1>5. CandidatesFollow' /\ Unique(mem, CaptionKey(mem))'
  BY <1>0, <1>4, StillFollow DEF PassesDone
<1>6. AllMatched(mem)'
  BY <1>4 DEF AllMatched, Passes, Survivors, Cands
<1> QED
  BY <1>0, <1>5, <1>6 DEF RowsInv, RowsType, PassesDone, Stage3, Early, Computing

LEMMA CollapseWorksInv ==
  ASSUME RowsInv, run \in RunType, CollapseWorks
  PROVE  RowsInv'
<1>0. /\ RowsType /\ UNCHANGED <<rows, stage3>> /\ CandidatesFollow /\ PassesDone
      /\ mem' = CollapseOverlap(mem, WorkKey(mem)) /\ run'.at = "storing" /\ run.at = "merging"
  BY DEF RowsInv, CollapseWorks, Pass, At, GoTo, RunType, Computing, Stage3
<1>1. Len(rows) \in Nat /\ Cands(mem, Len(rows))
  BY <1>0 DEF RowsType, CandidatesFollow
<1>2. DOMAIN WorkKey(mem) \subseteq 1..Len(rows)
  BY <1>1 DEF WorkKey, Cands
<1>3. /\ Passes(mem, mem', Len(rows)) /\ Unique(mem', WorkKey(mem))
      /\ \A i \in 1..Len(rows) : mem'[i].work = mem[i].work
  BY <1>0, <1>1, <1>2, CollapseFacts
<1>4. CandidatesFollow' /\ Unique(mem, CaptionKey(mem))'
  BY <1>0, <1>3, StillFollow DEF PassesDone
<1>5. Unique(mem, WorkKey(mem))' /\ (AllMatched(mem) => AllMatched(mem)')
  BY <1>1, <1>3, WorksOnce
<1> QED
  BY <1>0, <1>4, <1>5 DEF RowsInv, RowsType, PassesDone, Stage3, Early, Computing

\* The rows that are written end where the candidates do; a row whose write is lost
\* has not collapsed.
LEMMA StoreInv ==
  ASSUME RowsInv, run \in RunType, Persist \/ PersistTorn
  PROVE  RowsInv'
<1>0. /\ RowsType /\ CandidatesFollow /\ PassesDone /\ Ends(rows, Len(rows))
      /\ run'.at = "finishing" /\ run.at = "storing" /\ mem' = <<>>
  BY DEF RowsInv, Persist, PersistTorn, Store, At, GoTo, RunType, Computing, Stage3
<1>1. PICK lost \in SUBSET DOMAIN rows :
        /\ rows' = [i \in DOMAIN rows |->
                      IF i \in lost THEN rows[i]
                      ELSE [rows[i] EXCEPT !.work = mem[i].work, !.into = mem[i].into]]
        /\ stage3' = IF lost = {} THEN (IF stage3 = "none" THEN "whole" ELSE stage3) ELSE "torn"
  <2>1. CASE Persist
    <3>1. Store({}) /\ stage3' = IF stage3 = "none" THEN "whole" ELSE stage3
      BY <2>1 DEF Persist
    <3>2. {} \in SUBSET DOMAIN rows
      OBVIOUS
    <3> QED BY <3>1, <3>2 DEF Store
  <2>2. CASE PersistTorn
    <3>1. PICK i \in DOMAIN rows : Store({i}) /\ stage3' = "torn"
      BY <2>2 DEF PersistTorn
    <3>2. {i} \in SUBSET DOMAIN rows /\ {i} # {}
      BY <3>1
    <3> QED BY <3>1, <3>2 DEF Store
  <2> QED BY <2>1, <2>2, <1>0
<1> DEFINE n == Len(rows)
<1>2. /\ n \in Nat /\ DOMAIN rows = 1..n /\ \A i \in 1..n : rows[i] \in RowType
      /\ DOMAIN mem = 1..n /\ \A i \in 1..n : mem[i] \in CandidateType
  BY <1>0 DEF RowsType, CandidatesFollow, Cands
<1>3. ASSUME NEW i \in 1..n
      PROVE  /\ rows'[i] \in RowType /\ rows'[i].caption = rows[i].caption
             /\ i \in lost => rows'[i] = rows[i]
             /\ i \notin lost => rows'[i].into = mem[i].into /\ rows'[i].work = mem[i].work
  <2>1. rows[i] \in RowType /\ mem[i] \in CandidateType
    BY <1>2
  <2>2. CASE i \in lost
    BY <2>1, <2>2, <1>1, <1>2
  <2>3. CASE i \notin lost
    <3>1. rows'[i] = [rows[i] EXCEPT !.work = mem[i].work, !.into = mem[i].into]
      BY <2>3, <1>1, <1>2
    <3> QED BY <2>1, <2>3, <3>1 DEF RowType, CandidateType
  <2> QED BY <2>2, <2>3
<1>4. rows' \in Seq(RowType) /\ Len(rows') = n /\ DOMAIN rows' = 1..n
  <2>1. rows' \in [1..n -> RowType]
    BY <1>1, <1>2, <1>3
  <2> HIDE DEF n
  <2> QED BY <2>1, <1>2
<1> HIDE DEF n
<1>5. \A i \in 1..n : rows'[i].into <= n
  <2> SUFFICES ASSUME NEW i \in 1..n PROVE rows'[i].into <= n
    OBVIOUS
  <2>1. rows[i].into <= n /\ mem[i].into <= n
    BY <1>0, <1>2 DEF RowsType, CandidatesFollow, n
  <2> QED BY <2>1, <1>3
<1>6. Ends(rows', n)
  <2> SUFFICES ASSUME NEW S \in SUBSET {i \in 1..n : rows'[i].into # 0}, S # {}
               PROVE  \E i \in S : rows'[i].into \notin S
    BY DEF Ends
  <2>1. ASSUME NEW i \in S PROVE i \in 1..n /\ rows'[i].into = mem[i].into
    BY <1>2, <1>3, <1>0 DEF CandidatesFollow
  <2>2. S \in SUBSET {i \in 1..n : mem[i].into # 0}
    BY <2>1
  <2>3. Ends(mem, n)
    BY <1>0 DEF CandidatesFollow, n
  <2>4. PICK i \in S : mem[i].into \notin S
    BY <2>2, <2>3 DEF Ends
  <2> QED BY <2>1, <2>4
<1>7. ASSUME stage3' = "whole" PROVE Once(rows')
  <2>1. lost = {} /\ stage3 = "none"
    BY <1>0, <1>1, <1>7 DEF RowsInv, Stage3
  <2>2. AllMatched(mem) /\ Unique(mem, WorkKey(mem)) /\ Unique(mem, CaptionKey(mem))
    BY <2>1, <1>0 DEF PassesDone
  <2> SUFFICES ASSUME NEW i \in Survivors(rows'), NEW j \in Survivors(rows'),
                      rows'[i].caption # Blank, rows'[j].caption # Blank,
                      rows'[i].caption = rows'[j].caption \/ rows'[i].work = rows'[j].work
               PROVE  i = j
    BY DEF Once
  <2>3. /\ i \in 1..n /\ j \in 1..n /\ i \in Survivors(mem) /\ j \in Survivors(mem)
        /\ mem[i].caption # Blank /\ mem[j].caption # Blank
        /\ mem[i].caption = mem[j].caption \/ mem[i].work = mem[j].work
    <3>1. i \in 1..n /\ j \in 1..n
      BY <1>4 DEF Survivors
    <3>2. \A k \in 1..n : mem[k].caption = rows[k].caption
      BY <1>0, <1>2 DEF CandidatesFollow
    <3> QED BY <3>1, <3>2, <2>1, <1>2, <1>3 DEF Survivors
  <2>4. mem[i].work # None /\ mem[j].work # None
    BY <2>2, <2>3 DEF AllMatched
  <2>5. CASE mem[i].caption = mem[j].caption
    BY <2>2, <2>3, <2>5, <1>2 DEF Unique, CaptionKey
  <2>6. CASE mem[i].work = mem[j].work
    BY <2>2, <2>3, <2>4, <2>6, <1>2 DEF Unique, WorkKey
  <2> QED BY <2>3, <2>5, <2>6
<1>8. stage3' \in {"none", "whole", "outage", "torn"}
  BY <1>1 DEF RowsInv
<1> QED
  BY <1>0, <1>4, <1>5, <1>6, <1>7, <1>8 DEF RowsInv, RowsType, Stage3, Early, Computing

----------------------------------------------------------------------------
(* The invariant of the rows                                               *)

\* A step that leaves the rows alone, outside the passes of stage 3.
LEMMA QuietInv ==
  ASSUME RowsInv, run.at \notin Computing, run'.at \notin Computing,
         UNCHANGED <<rows, mem>>, stage3' \in {stage3, "none"},
         run'.at \in Early \cup Stage3 => stage3' # "whole"
  PROVE  RowsInv'
BY DEF RowsInv, RowsType

\* The rows of a screenshot, all of them or as many as were inserted.
LEMMA AnswerInv ==
  ASSUME RowsInv, run.at = "waiting", run'.at \notin Computing,
         UNCHANGED <<mem, stage3>>, NEW more \in Seq(NewRow), rows' = rows \o more
  PROVE  RowsInv'
<1>1. stage3 # "whole" /\ RowsType /\ Ends(rows, Len(rows)) /\ mem = <<>>
  BY DEF RowsInv, Early, Computing, Stage3
<1>2. RowsType' /\ Ends(rows, Len(rows))'
  BY <1>1, RowsAdded
<1> QED
  BY <1>1, <1>2 DEF RowsInv

LEMMA InitRows == Init => RowsInv
<1> SUFFICES ASSUME Init PROVE RowsInv
  OBVIOUS
<1>1. rows = <<>> /\ Len(rows) = 0 /\ mem = <<>> /\ stage3 = "none" /\ run.at = "idle"
  BY DEF Init, NoRun
<1>2. RowsType
  BY <1>1 DEF RowsType
<1>3. Ends(rows, Len(rows))
  <2>1. 1..Len(rows) = {}
    BY <1>1
  <2> QED BY <2>1 DEF Ends
<1> QED
  BY <1>1, <1>2, <1>3 DEF RowsInv, Computing, Stage3

LEMMA NextRows == Inv /\ RowsInv /\ [Next]_vars => RowsInv'
<1> SUFFICES ASSUME Inv, RowsInv, [Next]_vars PROVE RowsInv'
  OBVIOUS
<1> USE DEF At
<1>0. run \in RunType /\ run.image \in Nat
  BY DEF Inv, Progress, RunType
<1>s. run.at \in Early \cup Stage3 => stage3 # "whole"
  BY DEF RowsInv
<1>1. CASE Claim
  <2>1. run.at = "idle" \/ run.at # "idle"
    OBVIOUS
  <2>2. run.at = "idle"
    BY <1>1 DEF Claim, Inv
  <2> QED
    BY <1>1, <2>2, QuietInv DEF Claim, NoRun, Early, Computing, Stage3
<1>2. CASE Retry
  <2>1. run.at = "idle"
    BY <1>2 DEF Retry, Inv
  <2> QED
    BY <1>2, <2>1, QuietInv DEF Retry, Early, Computing, Stage3
<1>3. CASE Stop \/ OutOfTime \/ \E s \in Screens : ReaderFails(s)
  BY <1>0, <1>3, QuietInv DEF Stop, OutOfTime, ReaderFails, GoTo, RunType, batchVars, Early, Computing, Stage3
<1>4. CASE StartReader
  BY <1>0, <1>s, <1>4, QuietInv DEF StartReader, GoTo, RunType, batchVars, Early, Computing, Stage3
<1>5. CASE ImageFails
  <2>1. run'.at \in {"deciding", "next"} /\ run.at = "waiting"
    BY <1>0, <1>5 DEF ImageFails, NextImage, RunType
  <2> QED
    BY <1>s, <1>5, <2>1, QuietInv DEF ImageFails, batchVars, Early, Computing, Stage3
<1>6. ASSUME NEW s \in Screens, ReaderAnswers(s) PROVE RowsInv'
  <2>1. run'.at \in {"deciding", "next"} /\ run.at = "waiting"
    <3> DEFINE r == Count(run, s, RowsOf(Screenshot, s) = <<>>)
    <3>1. r \in RunType /\ run' = NextImage(r) /\ run.at = "waiting"
      BY <1>0, <1>6, CountFacts DEF ReaderAnswers
    <3> HIDE DEF r
    <3> QED BY <3>1 DEF NextImage, RunType
  <2>2. Screenshot \in 1..Images
    BY <1>0, <2>1, ImagesAssumption DEF Screenshot, Inv, Progress
  <2>3. RowsOf(Screenshot, s) \in Seq(NewRow)
    BY <2>2, RowsOfFacts
  <2>4. rows' = rows \o RowsOf(Screenshot, s) /\ UNCHANGED <<mem, stage3>>
    BY <1>6 DEF ReaderAnswers
  <2> QED
    BY <2>1, <2>3, <2>4, AnswerInv DEF Computing, Stage3
<1>7. ASSUME NEW s \in Screens, RecordThrows(s) PROVE RowsInv'
  <2>1. run'.at = "catching" /\ run.at = "waiting"
    BY <1>0, <1>7 DEF RecordThrows, GoTo, RunType
  <2>2. Screenshot \in 1..Images
    BY <1>0, <2>1, ImagesAssumption DEF Screenshot, Inv, Progress
  <2> DEFINE items == RowsOf(Screenshot, s)
  <2>3. items \in Seq(NewRow)
    BY <2>2, RowsOfFacts
  <2>4. UNCHANGED <<mem, stage3>> /\ \E n \in 0..Len(items) : rows' = rows \o SubSeq(items, 1, n)
    BY <1>7 DEF RecordThrows
  <2> HIDE DEF items
  <2>5. \E more \in Seq(NewRow) : rows' = rows \o more
    <3>1. PICK n \in 0..Len(items) : rows' = rows \o SubSeq(items, 1, n)
      BY <2>4
    <3>2. SubSeq(items, 1, n) \in Seq(NewRow)
      BY <2>3
    <3> QED BY <3>1, <3>2
  <2>6. PICK more \in Seq(NewRow) : rows' = rows \o more
    BY <2>5
  <2> QED
    BY <2>1, <2>4, <2>6, AnswerInv DEF Computing, Stage3
<1>8. ASSUME NEW s \in Screens, LateAnswer(s) PROVE RowsInv'
  BY <1>8 DEF LateAnswer, batchVars, RowsInv, RowsType, CandidatesFollow, PassesDone
<1>9. CASE Decide
  <2>1. run'.at \in {"failing", "collapsing"} /\ run.at = "deciding"
    BY <1>0, <1>9 DEF Decide, GoTo, RunType
  <2> QED
    BY <1>s, <1>9, <2>1, QuietInv DEF Decide, batchVars, Early, Computing, Stage3
<1>10. CASE Stage3Throws
  <2>1. run'.at = "finishing" /\ run.at = "collapsing"
    BY <1>0, <1>10 DEF Stage3Throws, GoTo, RunType
  <2> QED
    BY <1>10, <2>1, QuietInv DEF Stage3Throws, batchVars, Early, Computing, Stage3
<1>11. CASE Stage3Step
  BY <1>0, <1>10, <1>11, CollapseCaptionsInv, JoinFragmentsInv, MatchInv, CollapseWorksInv, StoreInv
     DEF Stage3Step
<1>12. CASE RecordOutcome \/ RecordFailure \/ FailureWriteThrows
  <2>1. run'.at = "idle" /\ run.at \in {"finishing", "failing", "catching"} /\ UNCHANGED <<rows, mem, stage3>>
    BY <1>12 DEF RecordOutcome, RecordFailure, FailureWriteThrows, NoRun, batchVars
  <2> QED
    BY <2>1, QuietInv DEF Early, Computing, Stage3
<1>13. CASE RunThrows
  <2>1. /\ run'.at = "catching" /\ run.at \in {"next", "waiting", "finishing", "failing"}
        /\ UNCHANGED <<rows, mem, stage3>>
    BY <1>0, <1>13 DEF RunThrows, GoTo, RunType, batchVars
  <2> QED
    BY <2>1, QuietInv DEF Early, Computing, Stage3
<1>14. CASE UNCHANGED vars
  BY <1>14 DEF vars, batchVars, RowsInv, RowsType, CandidatesFollow, PassesDone
<1> QED
  BY <1>1, <1>2, <1>3, <1>4, <1>5, <1>6, <1>7, <1>8, <1>9, <1>11, <1>12, <1>13, <1>14 DEF Next

LEMMA RowsHold == Spec => [](Inv /\ RowsInv)
<1>1. Init => Inv /\ RowsInv
  BY InitInv, InitRows
<1>2. Inv /\ RowsInv /\ [Next]_vars => (Inv /\ RowsInv)'
  BY NextInv, NextRows
<1> QED
  BY <1>1, <1>2, PTL DEF Spec

\* CollapsesEnd for every instance: after any number of runs, torn writes and
\* outages, following a collapsed row from host to host ends at one that stands.
THEOREM CollapsesEndAlways == Spec => []CollapsesEnd
<1>1. RowsInv => CollapsesEnd
  <2> SUFFICES ASSUME RowsInv, NEW S \in SUBSET (DOMAIN rows \ Survivors(rows)), S # {}
               PROVE  \E i \in S : rows[i].into \notin S
    BY DEF CollapsesEnd
  <2>1. DOMAIN rows = 1..Len(rows)
    BY DEF RowsInv, RowsType
  <2>2. S \in SUBSET {i \in 1..Len(rows) : rows[i].into # 0}
    BY <2>1 DEF Survivors
  <2> QED BY <2>2 DEF RowsInv, Ends
<1> QED
  BY <1>1, RowsHold, PTL

\* ShownOnce for every instance: when stage 3 went through, the review shows no
\* caption and no edition of a work twice, whatever rows earlier runs left.
THEOREM ShownOnceAlways == Spec => []ShownOnce
<1>1. RowsInv => ShownOnce
  BY DEF RowsInv, Once, ShownOnce
<1> QED
  BY <1>1, RowsHold, PTL

----------------------------------------------------------------------------
(* The readings of the last run                                            *)

TakenFrom(rs, e) == {AsRead(rs[k]) : k \in (e + 1)..Len(rs)}
FoundOn(f) == UNION {{AsRead(r) : r \in Range(RowsOf(i, f[i]))} : i \in {j \in 1..Images : f[j] # None}}

\* A run that may still succeed has added exactly what it read; between a failed
\* run and the next one every row is a row left behind.
Going == Early \cup Stage3 \cup {"finishing"}
OwnInv ==
  /\ earlier \in 0..Len(rows)
  /\ run.at \in Going \/ status = "in-review" => TakenFrom(rows, earlier) = FoundOn(read)
  /\ run.at = "idle" /\ status \in {"submitted", "extraction-failed"} => earlier = Len(rows)

\* A step of a run that adds no row and does not end the run.
LEMMA OwnQuiet ==
  ASSUME OwnInv, run.at # "idle", run'.at # "idle", UNCHANGED <<status, rows, read, earlier>>,
         run'.at \in Going => run.at \in Going
  PROVE  OwnInv'
BY DEF OwnInv

\* The rows of the next screenshot are added with what was found on it.
LEMMA OwnAdded ==
  ASSUME RowsType, earlier \in 0..Len(rows), TakenFrom(rows, earlier) = FoundOn(read),
         NEW i \in 1..Images, NEW s \in Screens, read \in [1..Images -> Screens \cup {None}],
         read[i] = None, rows' = rows \o RowsOf(i, s), read' = [read EXCEPT ![i] = s],
         earlier' = earlier
  PROVE  TakenFrom(rows, earlier)' = FoundOn(read)' /\ earlier' \in 0..Len(rows')
<1> DEFINE more == RowsOf(i, s)
           n == Len(rows)
           m == Len(rows')
<1>1. more \in Seq(NewRow) /\ Len(more) \in Nat /\ DOMAIN more = 1..Len(more)
  BY RowsOfFacts
<1>2. rows \in Seq(RowType) /\ n \in Nat /\ earlier \in Nat /\ earlier <= n
  BY DEF RowsType
<1>3. more \in Seq(RowType)
  BY <1>1 DEF NewRow
<1> HIDE DEF more
<1>4. /\ m = n + Len(more)
      /\ \A k \in 1..n : rows'[k] = rows[k]
      /\ \A k \in 1..Len(more) : rows'[n + k] = more[k]
  BY <1>1, <1>2, <1>3 DEF more
<1> DEFINE mine == {AsRead(r) : r \in Range(more)}
<1>b. Len(more) \in Nat
  BY <1>1
<1>c. n \in Nat /\ earlier \in Nat /\ earlier <= n
  BY <1>2
<1> HIDE DEF n, m
<1>5. TakenFrom(rows', earlier) = TakenFrom(rows, earlier) \cup mine
  <2>1. ASSUME NEW k \in (earlier + 1)..m
        PROVE  AsRead(rows'[k]) \in TakenFrom(rows, earlier) \cup mine
    <3>1. CASE k <= n
      <4>1. k \in (earlier + 1)..n /\ k \in 1..n
        BY <3>1, <1>2
      <4>2. rows'[k] = rows[k]
        BY <4>1, <1>4
      <4> QED BY <4>1, <4>2 DEF TakenFrom, n
    <3>2. CASE ~(k <= n)
      <4>1. k - n \in 1..Len(more) /\ n + (k - n) = k
        BY <3>2, <1>1, <1>2, <1>4
      <4>2. rows'[k] = more[k - n]
        BY <4>1, <1>4
      <4>3. more[k - n] \in Range(more)
        BY <4>1, <1>1 DEF Range
      <4> QED BY <4>2, <4>3
    <3> QED BY <3>1, <3>2
  <2>2. ASSUME NEW k \in (earlier + 1)..n PROVE AsRead(rows[k]) \in TakenFrom(rows', earlier)
    <3>1. k \in (earlier + 1)..m /\ k \in 1..n
      BY <1>b, <1>c, <1>4
    <3>2. rows'[k] = rows[k]
      BY <3>1, <1>4
    <3> QED BY <3>1, <3>2 DEF TakenFrom, m
  <2>3. ASSUME NEW r \in Range(more) PROVE AsRead(r) \in TakenFrom(rows', earlier)
    <3>1. PICK k \in 1..Len(more) : r = more[k]
      BY <1>1 DEF Range
    <3>2. n + k \in (earlier + 1)..m
      BY <3>1, <1>b, <1>c, <1>4
    <3>3. rows'[n + k] = r
      BY <3>1, <1>4
    <3> QED BY <3>2, <3>3 DEF TakenFrom, m
  <2>4. TakenFrom(rows', earlier) \subseteq TakenFrom(rows, earlier) \cup mine
    BY <2>1 DEF TakenFrom, m
  <2>5. TakenFrom(rows, earlier) \subseteq TakenFrom(rows', earlier)
    BY <2>2 DEF TakenFrom, n
  <2>6. mine \subseteq TakenFrom(rows', earlier)
    BY <2>3
  <2> QED BY <2>4, <2>5, <2>6
<1>6. FoundOn(read') = FoundOn(read) \cup mine
  <2> DEFINE On(f, j) == {AsRead(r) : r \in Range(RowsOf(j, f[j]))}
  <2>1. {j \in 1..Images : read'[j] # None} = {j \in 1..Images : read[j] # None} \cup {i}
    BY NoneAssumption
  <2>2. On(read', i) = mine
    BY DEF more
  <2>3. \A j \in 1..Images \ {i} : read'[j] = read[j]
    OBVIOUS
  <2>4. \A j \in {k \in 1..Images : read[k] # None} : On(read', j) = On(read, j)
    BY <2>3
  <2> HIDE DEF mine
  <2>5. FoundOn(read') = UNION {On(read', j) : j \in {k \in 1..Images : read[k] # None} \cup {i}}
    BY <2>1 DEF FoundOn
  <2>6. FoundOn(read) = UNION {On(read, j) : j \in {k \in 1..Images : read[k] # None}}
    BY DEF FoundOn
  <2> HIDE DEF On
  <2> QED BY <2>2, <2>4, <2>5, <2>6
<1>7. earlier \in 0..m
  BY <1>b, <1>c, <1>4
<1>8. TakenFrom(rows', earlier) = FoundOn(read')
  BY <1>5, <1>6
<1> QED
  BY <1>7, <1>8 DEF m

\* Stage 3 writes neither caption nor place.
LEMMA OwnStored ==
  ASSUME Inv, RowsInv, OwnInv, Persist \/ PersistTorn
  PROVE  OwnInv'
<1>s. \E lost : Store(lost)
  BY DEF Persist, PersistTorn
<1>1. /\ run.at = "storing" /\ run'.at = "finishing" /\ UNCHANGED <<status, read, earlier>>
      /\ \E lost : rows' = [i \in DOMAIN rows |->
                      IF i \in lost THEN rows[i]
                      ELSE [rows[i] EXCEPT !.work = mem[i].work, !.into = mem[i].into]]
  BY <1>s DEF Inv, Progress, RunType, Store, At, GoTo
<1>2. rows \in Seq(RowType) /\ DOMAIN rows = 1..Len(rows) /\ Len(rows) \in Nat
      /\ \A k \in 1..Len(rows) : rows[k] \in RowType
  BY DEF RowsInv, RowsType
<1>3. DOMAIN rows' = 1..Len(rows)
  BY <1>1, <1>2
<1>4. \A k \in 1..Len(rows) : AsRead(rows'[k]) = AsRead(rows[k])
  BY <1>1, <1>2 DEF AsRead, RowType
<1>5. rows' \in Seq(RowType)
  BY StoreInv DEF RowsInv, RowsType, Inv, Progress
<1>6. Len(rows') = Len(rows)
  BY <1>2, <1>3, <1>5
<1>7. \A k \in (earlier + 1)..Len(rows) : k \in 1..Len(rows)
  <2>1. earlier \in 0..Len(rows)
    BY DEF OwnInv
  <2>2. Len(rows) \in Nat
    BY <1>2
  <2> HIDE DEF OwnInv
  <2>3. earlier \in Nat
    BY <2>1, <2>2
  <2> QED BY <2>2, <2>3
<1>8. TakenFrom(rows', earlier) = TakenFrom(rows, earlier)
  BY <1>4, <1>6, <1>7 DEF TakenFrom
<1>9. run.at \in Going /\ run.at # "idle" /\ run'.at # "idle" /\ status = "extracting"
  BY <1>1 DEF Going, Stage3, Inv
<1> QED
  BY <1>1, <1>6, <1>8, <1>9 DEF OwnInv

LEMMA NextOwn == Inv /\ RowsInv /\ OwnInv /\ [Next]_vars => OwnInv'
<1> SUFFICES ASSUME Inv, RowsInv, OwnInv, [Next]_vars PROVE OwnInv'
  OBVIOUS
<1> USE DEF At
<1>0. run \in RunType /\ run.image \in Nat /\ Len(rows) \in Nat
  BY DEF Inv, Progress, RunType, RowsInv, RowsType
<1>1. CASE Claim
  <2>1. run.at = "idle" /\ earlier = Len(rows) /\ UNCHANGED <<rows, earlier>>
    BY <1>1 DEF Claim, Inv, OwnInv
  <2>2. (earlier + 1)..Len(rows) = {}
    BY <1>0, <2>1
  <2>3. TakenFrom(rows, earlier)' = {} /\ FoundOn(read)' = {}
    BY <1>1, <2>1, <2>2 DEF TakenFrom, FoundOn, Claim
  <2>4. run'.at = "next" /\ status' = "extracting"
    BY <1>1 DEF Claim, NoRun
  <2> QED
    BY <1>0, <2>1, <2>3, <2>4 DEF OwnInv
<1>2. CASE Retry
  <2>1. run.at = "idle" /\ status = "extraction-failed"
    BY <1>2 DEF Retry, Inv
  <2> QED
    BY <1>2, <2>1 DEF Retry, OwnInv, Going, Early, Stage3
<1>3. CASE Stop \/ OutOfTime \/ RunThrows \/ \E s \in Screens : ReaderFails(s)
  BY <1>0, <1>3, OwnQuiet DEF Stop, OutOfTime, RunThrows, ReaderFails, GoTo, RunType, batchVars,
     Going, Early, Stage3
<1>4. CASE StartReader
  BY <1>0, <1>4, OwnQuiet DEF StartReader, GoTo, RunType, batchVars, Going, Early
<1>5. CASE ImageFails
  <2>1. run'.at \in {"deciding", "next"} /\ run.at = "waiting"
    BY <1>0, <1>5 DEF ImageFails, NextImage, RunType
  <2> QED
    BY <1>5, <2>1, OwnQuiet DEF ImageFails, batchVars, Going, Early
<1>6. ASSUME NEW s \in Screens, ReaderAnswers(s) PROVE OwnInv'
  <2>1. run'.at \in {"deciding", "next"} /\ run.at = "waiting"
    <3> DEFINE r == Count(run, s, RowsOf(Screenshot, s) = <<>>)
    <3>1. r \in RunType /\ run' = NextImage(r) /\ run.at = "waiting"
      BY <1>0, <1>6, CountFacts DEF ReaderAnswers
    <3> HIDE DEF r
    <3> QED BY <3>1 DEF NextImage, RunType
  <2>2. /\ Screenshot \in 1..Images /\ read[Screenshot] = None
        /\ read \in [1..Images -> Screens \cup {None}]
    BY <1>0, <2>1, ImagesAssumption DEF Screenshot, Inv, Progress
  <2>3. /\ rows' = rows \o RowsOf(Screenshot, s) /\ read' = [read EXCEPT ![Screenshot] = s]
        /\ earlier' = earlier /\ status' = status
    BY <1>6 DEF ReaderAnswers
  <2>4. RowsType /\ earlier \in 0..Len(rows) /\ TakenFrom(rows, earlier) = FoundOn(read)
    BY <2>1 DEF RowsInv, OwnInv, Going, Early
  <2>5. TakenFrom(rows, earlier)' = FoundOn(read)' /\ earlier' \in 0..Len(rows')
    BY <2>2, <2>3, <2>4, OwnAdded
  <2> QED
    BY <2>1, <2>5 DEF OwnInv
<1>7. ASSUME NEW s \in Screens, RecordThrows(s) PROVE OwnInv'
  <2>1. run'.at = "catching" /\ run.at = "waiting" /\ UNCHANGED <<status, earlier>>
    BY <1>0, <1>7 DEF RecordThrows, GoTo, RunType
  <2>2. Screenshot \in 1..Images
    BY <1>0, <2>1, ImagesAssumption DEF Screenshot, Inv, Progress
  <2> DEFINE items == RowsOf(Screenshot, s)
  <2>3. items \in Seq(NewRow) /\ Len(items) \in Nat
    BY <2>2, RowsOfFacts
  <2>4. PICK n \in 0..Len(items) : rows' = rows \o SubSeq(items, 1, n)
    BY <1>7 DEF RecordThrows
  <2> HIDE DEF items
  <2>5. SubSeq(items, 1, n) \in Seq(RowType)
    BY <2>3, <2>4 DEF NewRow
  <2>6. Len(rows') \in Nat /\ Len(rows) <= Len(rows')
    BY <2>4, <2>5 DEF RowsInv, RowsType
  <2>7. status' = "extracting"
    BY <2>1 DEF Inv
  <2> QED
    BY <1>0, <2>1, <2>6, <2>7 DEF OwnInv, Going, Early, Stage3
<1>8. ASSUME NEW s \in Screens, LateAnswer(s) PROVE OwnInv'
  BY <1>8 DEF LateAnswer, batchVars, OwnInv
<1>9. CASE Decide \/ Stage3Throws
  BY <1>0, <1>9, OwnQuiet DEF Decide, Stage3Throws, GoTo, RunType, batchVars, Going, Early, Stage3
<1>10. CASE CollapseCaptions \/ JoinFragments \/ MatchAll \/ MatchUntilOutage \/ CollapseWorks
  BY <1>0, <1>10, OwnQuiet DEF CollapseCaptions, JoinFragments, MatchAll, MatchUntilOutage,
     CollapseWorks, Pass, GoTo, RunType, Going, Early, Stage3
<1>11. CASE Stage3Step
  BY <1>9, <1>10, <1>11, OwnStored DEF Stage3Step
<1>12. CASE RecordOutcome
  <2>1. run.at = "finishing" /\ run'.at = "idle" /\ status' = "in-review" /\ UNCHANGED <<rows, read, earlier>>
    BY <1>12 DEF RecordOutcome, NoRun
  <2> QED
    BY <2>1 DEF OwnInv, Going
<1>13. CASE RecordFailure
  <2>1. run'.at = "idle" /\ status' = "extraction-failed" /\ rows' = rows /\ earlier' = Len(rows)
    BY <1>13 DEF RecordFailure, NoRun
  <2> QED
    BY <1>0, <2>1 DEF OwnInv, Going, Early, Stage3
<1>14. CASE FailureWriteThrows
  <2>1. run'.at = "idle" /\ status' = "extracting" /\ UNCHANGED <<rows, earlier>>
    BY <1>14 DEF FailureWriteThrows, NoRun, batchVars, Inv
  <2> QED
    BY <2>1 DEF OwnInv, Going, Early, Stage3
<1>15. CASE UNCHANGED vars
  BY <1>15 DEF vars, batchVars, OwnInv
<1> QED
  BY <1>1, <1>2, <1>3, <1>4, <1>5, <1>6, <1>7, <1>8, <1>9, <1>11, <1>12, <1>13, <1>14, <1>15 DEF Next

LEMMA OwnHolds == Spec => [](Inv /\ RowsInv /\ OwnInv)
<1>1. Init => OwnInv
  BY DEF Init, NoRun, OwnInv, Going, Early, Stage3
<1> QED
  BY <1>1, NextOwn, InitInv, InitRows, NextInv, NextRows, PTL DEF Spec

\* HoldsItsReadings for every instance: however many runs fail before it and however
\* late their readers answer, the run that ends well leaves its own readings.
THEOREM HoldsItsReadingsAlways == Spec => []HoldsItsReadings
<1>1. OwnInv => HoldsItsReadings
  BY DEF OwnInv, HoldsItsReadings, TakenFrom, FoundOn
<1> QED
  BY <1>1, OwnHolds, PTL

----------------------------------------------------------------------------
(* Types and counts                                                        *)

\* No counter of a run exceeds the screenshots behind it.
Counted(r) ==
  /\ r.processed <= r.image /\ r.empty <= r.image /\ r.kept <= r.image
  /\ r.failed <= r.image /\ r.unsegmented <= r.image /\ r.unlocated <= r.image

CountsInv ==
  /\ Counted(run)
  /\ status \in {"submitted", "extracting", "in-review", "extraction-failed"}
  /\ verdict \in [lowYield : BOOLEAN, cross : Outcomes]
  /\ late \in Nat /\ runs \in 0..MaxRuns /\ late <= runs
  /\ run.at \in {"next", "waiting"} => late < runs
  /\ faults \in 0..MaxFaults

\* A step that leaves the counts of the run where they are.
LEMMA SameCounts ==
  ASSUME CountsInv, run \in RunType, run' \in RunType,
         \E stage \in Stages : run' = [run EXCEPT !.at = stage],
         run'.at \in {"next", "waiting"} => run.at \in {"next", "waiting"},
         UNCHANGED <<verdict, runs, late, status>>,
         faults' \in 0..MaxFaults
  PROVE  CountsInv'
<1>1. Counted(run')
  BY DEF Counted, CountsInv, RunType
<1> QED
  BY <1>1 DEF CountsInv

\* What is counted of one screenshot is at most one, of each.
LEMMA CountedImage ==
  ASSUME NEW r \in RunType, Counted(r), r.image < Images,
         NEW q \in RunType, q.image = r.image,
         q.processed <= r.processed + 1, q.empty <= r.empty + 1, q.kept <= r.kept + 1,
         q.failed <= r.failed + 1, q.unsegmented <= r.unsegmented + 1,
         q.unlocated <= r.unlocated + 1
  PROVE  Counted(NextImage(q))
<1>1. /\ NextImage(q).image = q.image + 1
      /\ NextImage(q).processed = q.processed /\ NextImage(q).empty = q.empty
      /\ NextImage(q).kept = q.kept /\ NextImage(q).failed = q.failed
      /\ NextImage(q).unsegmented = q.unsegmented /\ NextImage(q).unlocated = q.unlocated
  BY DEF NextImage, RunType
<1> QED
  BY <1>1, ImagesAssumption DEF Counted, RunType

LEMMA CountBounds ==
  ASSUME NEW r \in RunType, NEW s \in Screens, NEW n \in BOOLEAN
  PROVE  LET q == Count(r, s, n) IN
         /\ q.processed <= r.processed + 1 /\ q.empty <= r.empty + 1 /\ q.kept <= r.kept + 1
         /\ q.failed <= r.failed + 1 /\ q.unsegmented <= r.unsegmented + 1
         /\ q.unlocated <= r.unlocated + 1
<1> DEFINE u == IF s.grid THEN 0 ELSE 1
           l == IF Located(s) THEN 0 ELSE 1
           e == IF n THEN 1 ELSE 0
           k == IF n THEN 0 ELSE 1
           c == Worst(r.cross, CrossCheck(s))
           q == Count(r, s, n)
<1>1. u \in 0..1 /\ l \in 0..1 /\ e \in 0..1 /\ k \in 0..1
  OBVIOUS
<1>2. q = [r EXCEPT !.cross = c, !.processed = r.processed + 1, !.empty = r.empty + e,
                    !.kept = r.kept + k, !.unsegmented = r.unsegmented + u,
                    !.unlocated = r.unlocated + l]
  BY DEF Count
<1> HIDE DEF u, l, e, k, c, q
<1>3. /\ q.processed = r.processed + 1 /\ q.empty = r.empty + e /\ q.kept = r.kept + k
      /\ q.failed = r.failed /\ q.unsegmented = r.unsegmented + u /\ q.unlocated = r.unlocated + l
  BY <1>2 DEF RunType
<1>4. /\ q.processed <= r.processed + 1 /\ q.empty <= r.empty + 1 /\ q.kept <= r.kept + 1
      /\ q.failed <= r.failed + 1 /\ q.unsegmented <= r.unsegmented + 1
      /\ q.unlocated <= r.unlocated + 1
  BY <1>1, <1>3 DEF RunType
<1> QED
  BY <1>4 DEF q

LEMMA InitCounts == Init => CountsInv
BY BoundsAssumption DEF Init, CountsInv, Counted, NoRun, Outcomes

LEMMA NextCounts == Inv /\ CountsInv /\ [Next]_vars => CountsInv'
<1> SUFFICES ASSUME Inv, CountsInv, [Next]_vars PROVE CountsInv'
  OBVIOUS
<1> USE DEF At
<1>0. run \in RunType /\ run' \in RunType /\ Images \in Nat
  <2>1. Inv'
    BY NextInv
  <2> QED BY <2>1, ImagesAssumption DEF Inv, Progress
<1>f. faults' \in 0..MaxFaults
  <2>1. Throw => faults' \in 0..MaxFaults
    BY BoundsAssumption DEF Throw, CountsInv
  <2> QED
    BY <2>1 DEF CountsInv, Next, Claim, Retry, Stop, StartReader, OutOfTime, ImageFails, ReaderFails,
       ReaderAnswers, RecordThrows, LateAnswer, Decide, Stage3Step, CollapseCaptions, JoinFragments,
       MatchAll, MatchUntilOutage, CollapseWorks, Persist, PersistTorn, Stage3Throws, RecordOutcome,
       RecordFailure, RunThrows, FailureWriteThrows, vars
<1>n. Counted(NoRun)
  BY DEF Counted, NoRun
<1>1. CASE Claim
  <2>1. run' = [NoRun EXCEPT !.at = "next"] /\ runs < MaxRuns /\ runs' = runs + 1
        /\ status' = "extracting" /\ UNCHANGED <<verdict, late>>
    BY <1>1 DEF Claim
  <2>2. Counted(run')
    BY <2>1 DEF Counted, NoRun
  <2> QED
    BY <1>f, <2>1, <2>2, BoundsAssumption DEF CountsInv
<1>2. CASE Retry
  BY <1>2, <1>f DEF Retry, CountsInv
<1>3. CASE OutOfTime
  <2>1. /\ run' = [run EXCEPT !.at = "failing"] /\ run.at = "waiting" /\ late' = late + 1
        /\ UNCHANGED <<status, verdict, runs>>
    BY <1>3 DEF OutOfTime, GoTo, batchVars
  <2>2. Counted(run') /\ run'.at = "failing"
    BY <2>1, <1>0 DEF CountsInv, Counted, RunType
  <2> QED
    BY <1>f, <2>1, <2>2 DEF CountsInv
<1>4. CASE ImageFails
  <2> DEFINE q == [run EXCEPT !.failed = @ + 1]
  <2>1. run' = NextImage(q) /\ run.at = "waiting" /\ UNCHANGED <<status, verdict, runs, late>>
    BY <1>4 DEF ImageFails, batchVars
  <2>2. q \in RunType /\ q.image = run.image
        /\ q.processed <= run.processed + 1 /\ q.empty <= run.empty + 1 /\ q.kept <= run.kept + 1
        /\ q.failed <= run.failed + 1 /\ q.unsegmented <= run.unsegmented + 1
        /\ q.unlocated <= run.unlocated + 1
    BY <1>0 DEF RunType
  <2> HIDE DEF q
  <2>3. Counted(run')
    BY <2>1, <2>2, <1>0, CountedImage DEF CountsInv, Inv, Progress
  <2> QED
    BY <1>f, <2>1, <2>3 DEF CountsInv
<1>5. ASSUME NEW s \in Screens, ReaderAnswers(s) PROVE CountsInv'
  <2> DEFINE n == RowsOf(Screenshot, s) = <<>>
             q == Count(run, s, n)
  <2>1. run' = NextImage(q) /\ run.at = "waiting" /\ ~Throws(s)
        /\ UNCHANGED <<status, verdict, runs, late>>
    BY <1>5 DEF ReaderAnswers
  <2>2. n \in BOOLEAN
    OBVIOUS
  <2> HIDE DEF n
  <2>3. /\ q \in RunType /\ q.image = run.image
        /\ q.processed <= run.processed + 1 /\ q.empty <= run.empty + 1 /\ q.kept <= run.kept + 1
        /\ q.failed <= run.failed + 1 /\ q.unsegmented <= run.unsegmented + 1
        /\ q.unlocated <= run.unlocated + 1
    BY <2>1, <2>2, <1>0, CountFacts, CountBounds
  <2> HIDE DEF q
  <2>4. Counted(run')
    BY <2>1, <2>3, <1>0, CountedImage DEF CountsInv, Inv, Progress
  <2> QED
    BY <1>f, <2>1, <2>4 DEF CountsInv
<1>6. ASSUME NEW s \in Screens, LateAnswer(s) PROVE CountsInv'
  BY <1>6, <1>f, BoundsAssumption DEF LateAnswer, CountsInv, batchVars
<1>7. CASE Stop \/ StartReader \/ (\E s \in Screens : ReaderFails(s) \/ RecordThrows(s))
           \/ Decide \/ Stage3Step \/ RunThrows
  <2>1. UNCHANGED <<verdict, runs, late, status>>
    BY <1>7 DEF Stop, StartReader, ReaderFails, RecordThrows, Decide, Stage3Step, CollapseCaptions,
       JoinFragments, MatchAll, MatchUntilOutage, CollapseWorks, Pass, Persist, PersistTorn, Store,
       Stage3Throws, RunThrows, batchVars
  <2>2. \E stage \in Stages : /\ run' = [run EXCEPT !.at = stage]
                              /\ stage \in {"next", "waiting"} => run.at \in {"next", "waiting"}
    BY <1>7 DEF Stop, StartReader, ReaderFails, RecordThrows, Decide, Stage3Step, CollapseCaptions,
       JoinFragments, MatchAll, MatchUntilOutage, CollapseWorks, Pass, Persist, PersistTorn, Store,
       Stage3Throws, RunThrows, GoTo, Stages, Stage3
  <2>3. \A stage \in Stages : run' = [run EXCEPT !.at = stage] => run'.at = stage
    BY <1>0 DEF RunType
  <2> QED
    BY <1>0, <1>f, <2>1, <2>2, <2>3, SameCounts
<1>8. CASE RecordOutcome
  <2>1. LowYield(run) \in BOOLEAN /\ run.cross \in Outcomes
    BY <1>0 DEF LowYield, RunType
  <2>2. /\ run' = NoRun /\ verdict' \in [lowYield : BOOLEAN, cross : Outcomes]
        /\ status' = "in-review" /\ UNCHANGED <<late, runs>>
    BY <2>1, <1>8 DEF RecordOutcome
  <2> QED
    BY <1>f, <1>n, <2>2 DEF CountsInv, NoRun
<1>9. CASE RecordFailure \/ FailureWriteThrows
  <2>1. /\ run' = NoRun /\ status' \in {status, "extraction-failed"}
        /\ UNCHANGED <<verdict, late, runs>>
    BY <1>9 DEF RecordFailure, FailureWriteThrows, batchVars
  <2> QED
    BY <1>f, <1>n, <2>1 DEF CountsInv, NoRun
<1>10. CASE UNCHANGED vars
  BY <1>10 DEF vars, batchVars, CountsInv, Counted
<1> QED
  BY <1>1, <1>2, <1>3, <1>4, <1>5, <1>6, <1>7, <1>8, <1>9, <1>10 DEF Next

\* Rows, candidates and the counters of a run stay in their types and bounds: what
\* a row has collapsed into is a row, and no more readers are late than runs were
\* claimed.
THEOREM TypesHold == Spec => []TypeOK
<1>1. Init => CountsInv
  BY InitCounts
<1>2. Inv /\ CountsInv /\ [Next]_vars => CountsInv'
  BY NextCounts
<1>3. Inv /\ RowsInv /\ OwnInv /\ CountsInv => TypeOK
  <2> SUFFICES ASSUME Inv, RowsInv, OwnInv, CountsInv PROVE TypeOK
    OBVIOUS
  <2>1. rows \in Seq([caption : Captions, place : [image : 1..Images, spot : Nat, tiled : BOOLEAN],
                      work : Identity \cup {None}, into : Nat])
        /\ \A i \in DOMAIN rows : rows[i].into <= Len(rows)
    BY DEF RowsInv, RowsType, RowType, Place
  <2>2. run \in [at : Stages, image : Counts, cross : Outcomes, processed : Counts, empty : Counts,
                 kept : Counts, failed : Counts, unsegmented : Counts, unlocated : Counts]
    BY ImagesAssumption DEF Inv, Progress, CountsInv, Counted, RunType, Counts
  <2>3. DOMAIN mem = IF run.at \in Stage3 \ {"collapsing"} THEN DOMAIN rows ELSE {}
    <3>1. CASE run.at \in Computing
      BY <3>1 DEF RowsInv, RowsType, CandidatesFollow, Cands, Computing
    <3>2. CASE run.at \notin Computing
      <4>1. mem = <<>>
        BY <3>2 DEF RowsInv
      <4> QED BY <3>2, <4>1 DEF Computing
    <3> QED BY <3>1, <3>2
  <2>4. late \in 0..MaxRuns
    BY BoundsAssumption DEF CountsInv
  <2> QED
    BY <2>1, <2>2, <2>3, <2>4 DEF TypeOK, Inv, Progress, RowsInv, OwnInv, CountsInv
<1> QED
  BY <1>1, <1>2, <1>3, OwnHolds, PTL DEF Spec

----------------------------------------------------------------------------
(* What was read stands                                                    *)

\* No two captions differ in their verbatim text alone.
OneVerbatim == \A c, d \in Captions : Text[c] = Text[d] => c = d

SameWork(c, d) == Match(c).work = Match(d).work

\* Every work that was read stands, as rows or candidates, or was part of a longer title.
Standing(cs) ==
  \A i \in DOMAIN rows : rows[i].caption # Blank =>
    \E j \in DOMAIN rows : /\ rows[j].caption # Blank /\ SameWork(rows[i].caption, rows[j].caption)
                           /\ cs[j].into = 0 \/ Part(j)

\* The places of a candidate are places its caption was read at.
Placed ==
  \A i \in DOMAIN rows : \A p \in mem[i].places :
    \E k \in DOMAIN rows : rows[k].caption = rows[i].caption /\ rows[k].place = p

\* What a survivor was identified as; whole: TMDB was there for all of them.
IdentifiedAs(cs, whole) ==
  \A i \in DOMAIN rows : rows[i].caption # Blank /\ cs[i].into = 0 =>
    IF whole THEN cs[i].work = Match(rows[i].caption)
    ELSE cs[i].work \in {Match(rows[i].caption), Unmatched(rows[i].caption)}

BlankUnidentified(cs) == \A i \in DOMAIN rows : rows[i].caption = Blank => cs[i].work = None

SeenInv ==
  /\ Standing(rows) /\ BlankUnidentified(rows)
  /\ \A i \in DOMAIN rows : rows[i].place.tiled \/ rows[i].place.spot = 1
  /\ run.at \in Computing => Standing(mem) /\ BlankUnidentified(mem)
  /\ run.at = "joining" => Placed
  /\ run.at \in {"merging", "storing"} => IdentifiedAs(mem, stage3 = "none")
  /\ stage3 = "whole" => IdentifiedAs(rows, TRUE)

\* An identity tells the work, whether TMDB was asked or gone.
LEMMA WorksAgree ==
  ASSUME OneVerbatim, NEW c \in Captions, NEW d \in Captions, NEW a,
         a \in {Match(c), Unmatched(c)}, a \in {Match(d), Unmatched(d)}
  PROVE  SameWork(c, d)
<1>1. CASE a = Match(c) /\ a = Match(d)
  BY <1>1 DEF SameWork
<1>2. ASSUME NEW x \in Captions, NEW y \in Captions, Unmatched(x) = Match(y) PROVE x = y
  <2>1. Unmatched(x).work = Text[x] /\ Text[x] \in Range(Text)
    BY CaptionsAssumption DEF Unmatched, Range
  <2>2. y \notin DOMAIN Catalogue
    BY <1>2, <2>1, WorksAssumption DEF Match
  <2>3. Unmatched(x) = Unmatched(y)
    BY <1>2, <2>2 DEF Match
  <2>4. Text[x] = Text[y]
    BY <2>3 DEF Unmatched
  <2> QED BY <2>4 DEF OneVerbatim
<1>3. ASSUME Unmatched(c) = Unmatched(d) PROVE c = d
  <2>1. Text[c] = Text[d]
    BY <1>3 DEF Unmatched
  <2> QED BY <2>1 DEF OneVerbatim
<1> QED
  BY <1>1, <1>2, <1>3 DEF SameWork

\* Candidates that are near each other share a place, when lines are apart.
LEMMA NearShares ==
  ASSUME NEW a \in CandidateType, NEW b \in CandidateType, Near(a, b),
         \A p \in a.places \cup b.places : p.tiled \/ p.spot = 1
  PROVE  \E p \in a.places : p \in b.places
<1>1. CASE \A p \in a.places \cup b.places : ~p.tiled
  <2>1. PICK p \in a.places, q \in b.places : p.image = q.image
    BY DEF Near
  <2>2. p \in Place /\ q \in Place
    BY DEF CandidateType
  <2>3. p.spot = 1 /\ q.spot = 1 /\ p.tiled = FALSE /\ q.tiled = FALSE
    BY <1>1, <2>2 DEF Place
  <2>4. p = q
    BY <2>1, <2>2, <2>3 DEF Place
  <2> QED BY <2>4
<1>2. CASE \E p \in a.places \cap b.places : p.tiled
  BY <1>2
<1> QED
  BY <1>1, <1>2 DEF Near

\* A place more is a place a row may be part of a longer title at.
LEMMA PartStays ==
  ASSUME RowsType, RowsType', DOMAIN rows \subseteq DOMAIN rows',
         \A i \in DOMAIN rows : rows'[i].caption = rows[i].caption /\ rows'[i].place = rows[i].place,
         NEW j \in DOMAIN rows, Part(j)
  PROVE  Part(j)'
BY DEF Part

LEMMA SeenAdded ==
  ASSUME LinesApart, RowsType, SeenInv, run.at = "waiting", run'.at \notin Computing, stage3 # "whole",
         UNCHANGED stage3, NEW more \in Seq(NewRow), rows' = rows \o more, RowsType'
  PROVE  SeenInv'
<1> DEFINE n == Len(rows)
<1>0. /\ rows \in Seq(RowType) /\ n \in Nat /\ DOMAIN rows = 1..n
      /\ \A i \in 1..n : rows[i] \in RowType
  BY DEF RowsType
<1>1. /\ Len(more) \in Nat
      /\ \A i \in 1..Len(more) : /\ more[i].into = 0 /\ more[i].work = None
                                 /\ more[i].place.tiled \/ more[i].place.spot = 1
  BY DEF NewRow
<1>2. /\ DOMAIN rows' = 1..(n + Len(more))
      /\ \A i \in 1..n : rows'[i] = rows[i]
      /\ \A i \in (n + 1)..(n + Len(more)) : rows'[i] = more[i - n]
  BY <1>0, <1>1
<1> HIDE DEF n
<1>3. ASSUME NEW i \in DOMAIN rows', i \notin DOMAIN rows
      PROVE  /\ rows'[i].into = 0 /\ rows'[i].work = None
             /\ rows'[i].place.tiled \/ rows'[i].place.spot = 1
  <2>1. i \in (n + 1)..(n + Len(more)) /\ i - n \in 1..Len(more)
    BY <1>0, <1>1, <1>2, <1>3
  <2> QED BY <2>1, <1>1, <1>2
<1>4. DOMAIN rows \subseteq DOMAIN rows' /\ \A i \in DOMAIN rows : rows'[i] = rows[i]
  BY <1>0, <1>1, <1>2
<1>5. \A j \in DOMAIN rows : Part(j) => Part(j)'
  BY <1>4, PartStays
<1>6. Standing(rows)'
  <2> SUFFICES ASSUME NEW i \in DOMAIN rows', rows'[i].caption # Blank
               PROVE  \E j \in DOMAIN rows' :
                        /\ rows'[j].caption # Blank /\ SameWork(rows'[i].caption, rows'[j].caption)
                        /\ rows'[j].into = 0 \/ Part(j)'
    BY DEF Standing
  <2>1. CASE i \notin DOMAIN rows
    BY <2>1, <1>3 DEF SameWork
  <2>2. CASE i \in DOMAIN rows
    <3>1. PICK j \in DOMAIN rows :
            /\ rows[j].caption # Blank /\ SameWork(rows[i].caption, rows[j].caption)
            /\ rows[j].into = 0 \/ Part(j)
      BY <2>2, <1>4 DEF SeenInv, Standing
    <3> QED BY <2>2, <3>1, <1>4, <1>5
  <2> QED BY <2>1, <2>2
<1>7. BlankUnidentified(rows)'
  BY <1>3, <1>4 DEF BlankUnidentified, SeenInv
<1>8. \A i \in DOMAIN rows' : rows'[i].place.tiled \/ rows'[i].place.spot = 1
  BY <1>3, <1>4 DEF SeenInv
<1> QED
  BY <1>6, <1>7, <1>8 DEF SeenInv, Computing, Stage3

LEMMA SeenCaptions ==
  ASSUME RowsInv, SeenInv, run \in RunType, CollapseCaptions
  PROVE  SeenInv'
<1> DEFINE cs == [i \in DOMAIN rows |-> Candidate(rows[i])]
           n == Len(rows)
<1>0. /\ RowsType /\ Ends(rows, Len(rows)) /\ UNCHANGED <<rows, stage3>>
      /\ mem' = CollapseOverlap(cs, CaptionKey(cs)) /\ run'.at = "joining"
      /\ run.at = "collapsing"
  BY DEF RowsInv, CollapseCaptions, Pass, At, GoTo, RunType
<1>p. \A i \in DOMAIN rows : cs[i].places = {rows[i].place} /\ cs[i].work = rows[i].work
  BY DEF Candidate
<1> HIDE DEF cs
<1>1. /\ n \in Nat /\ DOMAIN rows = 1..n /\ Cands(cs, n)
      /\ \A i \in DOMAIN rows : cs[i].caption = rows[i].caption /\ cs[i].into = rows[i].into
  BY <1>0, CandidatesOfRows DEF cs
<1> HIDE DEF n
<1>2. /\ DOMAIN CaptionKey(cs) = {i \in 1..n : rows[i].caption # Blank}
      /\ \A i \in DOMAIN CaptionKey(cs) : CaptionKey(cs)[i] = rows[i].caption
  BY <1>1 DEF CaptionKey, Cands
<1>3. /\ Passes(cs, mem', n) /\ \A i \in 1..n : mem'[i].work = cs[i].work
      /\ SameKey(cs, mem', CaptionKey(cs))
  <2>1. DOMAIN CaptionKey(cs) \subseteq 1..n
    BY <1>2
  <2> QED BY <1>0, <1>1, <2>1, CollapseFacts
<1>4. DOMAIN mem' = 1..n
  BY <1>3 DEF Passes, Cands
<1>5. Standing(mem)'
  <2> SUFFICES ASSUME NEW i \in DOMAIN rows, rows[i].caption # Blank
               PROVE  \E j \in DOMAIN rows :
                        /\ rows[j].caption # Blank /\ SameWork(rows[i].caption, rows[j].caption)
                        /\ mem'[j].into = 0 \/ Part(j)
    BY <1>0 DEF Standing, Part
  <2>1. PICK j \in DOMAIN rows :
          /\ rows[j].caption # Blank /\ SameWork(rows[i].caption, rows[j].caption)
          /\ rows[j].into = 0 \/ Part(j)
    BY DEF SeenInv, Standing
  <2>2. CASE Part(j) \/ mem'[j].into = 0
    BY <2>1, <2>2
  <2>3. CASE ~Part(j) /\ mem'[j].into # 0
    <3> DEFINE h == mem'[j].into
    <3>1. j \in 1..n /\ cs[j].into = 0
      BY <2>1, <2>3, <1>1
    <3>2. h \in 1..n /\ mem'[h].into = 0
      BY <2>3, <3>1, <1>3 DEF Passes
    <3>3. h \in DOMAIN CaptionKey(cs) /\ j \in DOMAIN CaptionKey(cs) /\ CaptionKey(cs)[h] = CaptionKey(cs)[j]
      BY <2>3, <3>1, <1>3, <1>4 DEF SameKey
    <3>4. rows[h].caption = rows[j].caption
      BY <3>3, <1>2
    <3> QED BY <2>1, <3>2, <3>4, <1>1
  <2> QED BY <2>2, <2>3
<1>6. Placed'
  <2> SUFFICES ASSUME NEW i \in DOMAIN rows, NEW p \in mem'[i].places
               PROVE  \E k \in DOMAIN rows : rows[k].caption = rows[i].caption /\ rows[k].place = p
    BY <1>0 DEF Placed
  <2>1. CASE p \in cs[i].places
    BY <2>1, <1>p
  <2>2. CASE p \notin cs[i].places
    <3>1. /\ i \in DOMAIN CaptionKey(cs)
          /\ \E j \in DOMAIN CaptionKey(cs) : CaptionKey(cs)[j] = CaptionKey(cs)[i] /\ p \in cs[j].places
      BY <2>2, <1>1, <1>3, <1>4 DEF SameKey
    <3>2. PICK j \in DOMAIN CaptionKey(cs) : CaptionKey(cs)[j] = CaptionKey(cs)[i] /\ p \in cs[j].places
      BY <3>1
    <3>3. j \in DOMAIN rows /\ rows[j].caption = rows[i].caption
      BY <3>1, <3>2, <1>1, <1>2
    <3> QED BY <3>2, <3>3, <1>p
  <2> QED BY <2>1, <2>2
<1>7. BlankUnidentified(mem)'
  BY <1>0, <1>1, <1>3, <1>p DEF BlankUnidentified, SeenInv
<1> QED
  BY <1>0, <1>5, <1>6, <1>7 DEF SeenInv, Standing, Part, BlankUnidentified, IdentifiedAs

LEMMA SeenFragments ==
  ASSUME RowsInv, SeenInv, run \in RunType, JoinFragments
  PROVE  SeenInv'
<1> DEFINE n == Len(rows)
<1>0. /\ RowsType /\ UNCHANGED <<rows, stage3>> /\ CandidatesFollow
      /\ mem' = CollapseFragments(mem) /\ run'.at = "matching" /\ run.at = "joining"
  BY DEF RowsInv, JoinFragments, Pass, At, GoTo, RunType, Computing, Stage3
<1>1. /\ n \in Nat /\ DOMAIN rows = 1..n /\ Cands(mem, n)
      /\ \A i \in 1..n : mem[i].caption = rows[i].caption /\ mem[i] \in CandidateType
  BY <1>0 DEF RowsType, CandidatesFollow, Cands
<1> HIDE DEF n
<1>2. /\ \A i \in 1..n : mem'[i].work = mem[i].work
      /\ \A i \in 1..n : mem'[i].into # 0 /\ mem[i].into = 0 => \E j \in 1..n : IsFragment(mem, i, j)
  BY <1>0, <1>1, FragmentFacts
<1>3. Standing(mem) /\ Placed /\ BlankUnidentified(mem)
  BY <1>0 DEF SeenInv, Computing, Stage3
<1>4. ASSUME NEW j \in 1..n, rows[j].caption # Blank, mem[j].into = 0, mem'[j].into # 0
      PROVE  \E k \in 1..n : rows[k].caption = rows[j].caption /\ Part(k)
  <2>1. PICK h \in 1..n : IsFragment(mem, j, h)
    BY <1>2, <1>4
  <2>2. <<Text[rows[j].caption], Text[rows[h].caption]>> \in Within /\ Near(mem[h], mem[j])
    BY <2>1, <1>1 DEF IsFragment
  <2>3. \A p \in mem[h].places \cup mem[j].places : p.tiled \/ p.spot = 1
    BY <1>1, <1>3 DEF Placed, SeenInv
  <2>4. PICK p \in mem[h].places : p \in mem[j].places
    BY <1>1, <2>2, <2>3, NearShares
  <2>5. PICK k \in 1..n : rows[k].caption = rows[j].caption /\ rows[k].place = p
    BY <1>1, <1>3, <2>4 DEF Placed
  <2>6. PICK m \in 1..n : rows[m].caption = rows[h].caption /\ rows[m].place = p
    BY <1>1, <1>3, <2>4 DEF Placed
  <2>7. Part(k)
    BY <1>1, <2>2, <2>5, <2>6 DEF Part
  <2> QED BY <2>5, <2>7
<1>5. Standing(mem)'
  <2> SUFFICES ASSUME NEW i \in DOMAIN rows, rows[i].caption # Blank
               PROVE  \E j \in DOMAIN rows :
                        /\ rows[j].caption # Blank /\ SameWork(rows[i].caption, rows[j].caption)
                        /\ mem'[j].into = 0 \/ Part(j)
    BY <1>0 DEF Standing, Part
  <2>1. PICK j \in DOMAIN rows :
          /\ rows[j].caption # Blank /\ SameWork(rows[i].caption, rows[j].caption)
          /\ mem[j].into = 0 \/ Part(j)
    BY <1>3 DEF Standing
  <2> QED BY <2>1, <1>1, <1>4
<1>6. BlankUnidentified(mem)'
  BY <1>0, <1>1, <1>2, <1>3 DEF BlankUnidentified
<1> QED
  BY <1>0, <1>5, <1>6 DEF SeenInv, Standing, Part, BlankUnidentified, IdentifiedAs

LEMMA SeenMatched ==
  ASSUME RowsInv, SeenInv, run \in RunType, MatchAll \/ MatchUntilOutage
  PROVE  SeenInv'
<1> DEFINE n == Len(rows)
<1>0. /\ RowsType /\ UNCHANGED rows /\ CandidatesFollow
      /\ run'.at = "merging" /\ run.at = "matching" /\ stage3 # "whole"
  BY DEF RowsInv, MatchAll, MatchUntilOutage, Pass, At, GoTo, RunType, Computing, Stage3
<1>1. /\ n \in Nat /\ DOMAIN rows = 1..n /\ Cands(mem, n) /\ DOMAIN mem = 1..n
      /\ \A i \in 1..n : mem[i].caption = rows[i].caption
  BY <1>0 DEF RowsType, CandidatesFollow, Cands
<1>2. \E down \in Nat : /\ mem' = Matched(mem, down) /\ stage3' \in {stage3, "outage"}
                        /\ stage3' = "none" => down = n + 1
  <2>1. CASE MatchAll
    <3>1. mem' = Matched(mem, n + 1) /\ stage3' = stage3
      BY <2>1 DEF MatchAll, Pass
    <3> QED BY <3>1, <1>1
  <2>2. CASE MatchUntilOutage
    <3>1. PICK down \in Survivors(mem) : mem' = Matched(mem, down)
      BY <2>2 DEF MatchUntilOutage, Pass
    <3>2. down \in Nat /\ stage3' = "outage"
      BY <1>1, <2>2 DEF Survivors, MatchUntilOutage
    <3> QED BY <3>1, <3>2
  <2> QED BY <2>1, <2>2
<1> HIDE DEF n
<1>3. PICK down \in Nat : /\ mem' = Matched(mem, down) /\ stage3' \in {stage3, "outage"}
                          /\ stage3' = "none" => down = n + 1
  BY <1>2
<1>4. \A i \in 1..n :
        /\ mem'[i].into = mem[i].into
        /\ mem'[i].work = IF i \in Survivors(mem) /\ mem[i].caption # Blank
                          THEN IF i < down THEN Match(mem[i].caption) ELSE Unmatched(mem[i].caption)
                          ELSE mem[i].work
  BY <1>1, <1>3, MatchedFacts
<1>5. Standing(mem) /\ BlankUnidentified(mem)
  BY <1>0 DEF SeenInv, Computing, Stage3
<1>6. Standing(mem)'
  BY <1>0, <1>1, <1>4, <1>5 DEF Standing, Part
<1>7. BlankUnidentified(mem)'
  BY <1>0, <1>1, <1>4, <1>5 DEF BlankUnidentified
<1>8. ASSUME NEW i \in 1..n, rows[i].caption # Blank, mem'[i].into = 0
      PROVE  IF stage3' = "none" THEN mem'[i].work = Match(rows[i].caption)
             ELSE mem'[i].work \in {Match(rows[i].caption), Unmatched(rows[i].caption)}
  <2>1. i \in Survivors(mem)
    BY <1>1, <1>4, <1>8 DEF Survivors
  <2>2. mem'[i].work = IF i < down THEN Match(rows[i].caption) ELSE Unmatched(rows[i].caption)
    BY <1>1, <1>4, <1>8, <2>1
  <2>3. stage3' = "none" => i < down
    BY <1>1, <1>3
  <2> QED BY <2>2, <2>3
<1>9. IdentifiedAs(mem, stage3 = "none")'
  BY <1>0, <1>1, <1>8 DEF IdentifiedAs
<1>10. stage3' # "whole"
  BY <1>0, <1>3
<1> QED
  BY <1>0, <1>6, <1>7, <1>9, <1>10 DEF SeenInv, Standing, Part, BlankUnidentified, IdentifiedAs

LEMMA SeenWorks ==
  ASSUME OneVerbatim, RowsInv, SeenInv, run \in RunType, CollapseWorks
  PROVE  SeenInv'
<1> DEFINE n == Len(rows)
<1>0. /\ RowsType /\ UNCHANGED <<rows, stage3>> /\ CandidatesFollow
      /\ mem' = CollapseOverlap(mem, WorkKey(mem)) /\ run'.at = "storing" /\ run.at = "merging"
  BY DEF RowsInv, CollapseWorks, Pass, At, GoTo, RunType, Computing, Stage3
<1>1. /\ n \in Nat /\ DOMAIN rows = 1..n /\ Cands(mem, n) /\ DOMAIN mem = 1..n
      /\ \A i \in 1..n : mem[i].caption = rows[i].caption /\ rows[i] \in RowType
  BY <1>0 DEF RowsType, CandidatesFollow, Cands
<1> HIDE DEF n
<1>2. /\ DOMAIN WorkKey(mem) = {i \in 1..n : mem[i].work # None}
      /\ \A i \in DOMAIN WorkKey(mem) : WorkKey(mem)[i] = mem[i].work
  BY <1>1 DEF WorkKey
<1>3. /\ Passes(mem, mem', n) /\ \A i \in 1..n : mem'[i].work = mem[i].work
      /\ SameKey(mem, mem', WorkKey(mem)) /\ DOMAIN mem' = 1..n
  <2>1. DOMAIN WorkKey(mem) \subseteq 1..n
    BY <1>2
  <2>2. /\ Passes(mem, mem', n) /\ \A i \in 1..n : mem'[i].work = mem[i].work
        /\ SameKey(mem, mem', WorkKey(mem))
    BY <1>0, <1>1, <2>1, CollapseFacts
  <2> QED BY <2>2 DEF Passes, Cands
<1>4. Standing(mem) /\ BlankUnidentified(mem) /\ IdentifiedAs(mem, stage3 = "none")
  BY <1>0 DEF SeenInv, Computing, Stage3
<1>a. ASSUME NEW i \in 1..n, rows[i].caption # Blank, mem[i].into = 0
      PROVE  mem[i].work \in {Match(rows[i].caption), Unmatched(rows[i].caption)}
  BY <1>1, <1>4, <1>a DEF IdentifiedAs
<1>5. ASSUME NEW j \in 1..n, rows[j].caption # Blank, mem[j].into = 0, mem'[j].into # 0
      PROVE  \E h \in 1..n : /\ rows[h].caption # Blank /\ SameWork(rows[j].caption, rows[h].caption)
                             /\ mem'[h].into = 0
  <2> DEFINE h == mem'[j].into
  <2>1. h \in 1..n /\ mem'[h].into = 0
    BY <1>3, <1>5 DEF Passes
  <2>2. h \in DOMAIN WorkKey(mem) /\ j \in DOMAIN WorkKey(mem) /\ WorkKey(mem)[h] = WorkKey(mem)[j]
    BY <1>3, <1>5 DEF SameKey
  <2>3. mem[h].work # None /\ mem[h].work = mem[j].work
    BY <1>2, <2>2
  <2>4. mem[h].into = 0
    BY <1>3, <2>1 DEF Passes
  <2>5. rows[h].caption # Blank
    BY <1>1, <1>4, <2>1, <2>3 DEF BlankUnidentified
  <2> HIDE DEF h
  <2>6. /\ mem[j].work \in {Match(rows[j].caption), Unmatched(rows[j].caption)}
        /\ mem[j].work \in {Match(rows[h].caption), Unmatched(rows[h].caption)}
    BY <1>5, <1>a, <2>1, <2>3, <2>4, <2>5
  <2>7. rows[j].caption \in Captions /\ rows[h].caption \in Captions
    BY <1>1, <2>1 DEF RowType
  <2>8. SameWork(rows[j].caption, rows[h].caption)
    BY <2>6, <2>7, WorksAgree
  <2> QED BY <2>1, <2>5, <2>8
<1>6. Standing(mem)'
  <2> SUFFICES ASSUME NEW i \in DOMAIN rows, rows[i].caption # Blank
               PROVE  \E j \in DOMAIN rows :
                        /\ rows[j].caption # Blank /\ SameWork(rows[i].caption, rows[j].caption)
                        /\ mem'[j].into = 0 \/ Part(j)
    BY <1>0 DEF Standing, Part
  <2>1. PICK j \in DOMAIN rows :
          /\ rows[j].caption # Blank /\ SameWork(rows[i].caption, rows[j].caption)
          /\ mem[j].into = 0 \/ Part(j)
    BY <1>4 DEF Standing
  <2>2. CASE Part(j) \/ mem'[j].into = 0
    BY <2>1, <2>2
  <2>3. CASE ~Part(j) /\ mem'[j].into # 0
    <3>1. PICK h \in 1..n : /\ rows[h].caption # Blank /\ SameWork(rows[j].caption, rows[h].caption)
                            /\ mem'[h].into = 0
      BY <2>1, <2>3, <1>1, <1>5
    <3> QED BY <2>1, <3>1, <1>1 DEF SameWork
  <2> QED BY <2>2, <2>3
<1>7. BlankUnidentified(mem)'
  BY <1>0, <1>1, <1>3, <1>4 DEF BlankUnidentified
<1>8. IdentifiedAs(mem, stage3 = "none")'
  <2>1. \A i \in 1..n : mem'[i].into = 0 => mem[i].into = 0
    BY <1>3 DEF Passes
  <2> QED BY <2>1, <1>0, <1>1, <1>3, <1>4 DEF IdentifiedAs
<1> QED
  BY <1>0, <1>6, <1>7, <1>8 DEF SeenInv, Standing, Part, BlankUnidentified, IdentifiedAs

LEMMA SeenStored ==
  ASSUME RowsInv, SeenInv, run \in RunType, Persist \/ PersistTorn
  PROVE  SeenInv'
<1> DEFINE n == Len(rows)
<1>0. /\ RowsType /\ CandidatesFollow /\ RowsInv' /\ stage3 # "whole"
      /\ run'.at = "finishing" /\ run.at = "storing"
  BY StoreInv DEF RowsInv, Persist, PersistTorn, Store, At, GoTo, RunType, Computing, Stage3
<1>1. PICK lost \in SUBSET DOMAIN rows :
        /\ rows' = [i \in DOMAIN rows |->
                      IF i \in lost THEN rows[i]
                      ELSE [rows[i] EXCEPT !.work = mem[i].work, !.into = mem[i].into]]
        /\ stage3' = "whole" => lost = {} /\ stage3 = "none"
  <2>1. CASE Persist
    <3>1. Store({}) /\ stage3' = IF stage3 = "none" THEN "whole" ELSE stage3
      BY <2>1 DEF Persist
    <3>2. {} \in SUBSET DOMAIN rows
      OBVIOUS
    <3> QED BY <3>1, <3>2, <1>0 DEF Store
  <2>2. CASE PersistTorn
    <3>1. PICK i \in DOMAIN rows : Store({i}) /\ stage3' = "torn"
      BY <2>2 DEF PersistTorn
    <3>2. {i} \in SUBSET DOMAIN rows
      BY <3>1
    <3> QED BY <3>1, <3>2 DEF Store
  <2> QED BY <2>1, <2>2
<1>2. /\ DOMAIN rows = 1..n /\ \A i \in 1..n : rows[i] \in RowType
      /\ DOMAIN rows' = 1..n
      /\ \A i \in 1..n : rows[i].into # 0 => mem[i].into = rows[i].into
  <2>1. rows \in Seq(RowType) /\ DOMAIN rows = 1..n
    BY <1>0 DEF RowsType
  <2>2. DOMAIN rows' = DOMAIN rows
    BY <1>1
  <2>3. \A i \in 1..n : rows[i] \in RowType
    BY <2>1
  <2>4. \A i \in DOMAIN rows : rows[i].into # 0 => mem[i].into = rows[i].into
    BY <1>0 DEF CandidatesFollow
  <2> QED BY <2>1, <2>2, <2>3, <2>4
<1> HIDE DEF n
<1>3. ASSUME NEW i \in 1..n
      PROVE  /\ rows'[i].caption = rows[i].caption /\ rows'[i].place = rows[i].place
             /\ i \in lost => rows'[i] = rows[i]
             /\ i \notin lost => rows'[i].into = mem[i].into /\ rows'[i].work = mem[i].work
  <2>1. rows[i] \in RowType
    BY <1>2
  <2>2. CASE i \in lost
    BY <2>2, <1>1, <1>2
  <2>3. CASE i \notin lost
    <3>1. rows'[i] = [rows[i] EXCEPT !.work = mem[i].work, !.into = mem[i].into]
      BY <2>3, <1>1, <1>2
    <3> QED BY <2>1, <2>3, <3>1 DEF RowType
  <2> QED BY <2>2, <2>3
<1>4. \A i \in 1..n : mem[i].into = 0 => rows'[i].into = 0
  BY <1>2, <1>3
<1>5. \A j \in DOMAIN rows : Part(j) => Part(j)'
  <2>1. RowsType'
    BY <1>0 DEF RowsInv
  <2> QED BY <1>0, <1>2, <1>3, <2>1, PartStays
<1>6. Standing(mem) /\ BlankUnidentified(mem) /\ IdentifiedAs(mem, stage3 = "none")
  BY <1>0 DEF SeenInv, Computing, Stage3
<1>7. Standing(rows)'
  <2> SUFFICES ASSUME NEW i \in 1..n, rows[i].caption # Blank
               PROVE  \E j \in 1..n :
                        /\ rows'[j].caption # Blank /\ SameWork(rows'[i].caption, rows'[j].caption)
                        /\ rows'[j].into = 0 \/ Part(j)'
    BY <1>2, <1>3 DEF Standing
  <2>1. PICK j \in 1..n :
          /\ rows[j].caption # Blank /\ SameWork(rows[i].caption, rows[j].caption)
          /\ mem[j].into = 0 \/ Part(j)
    BY <1>2, <1>6 DEF Standing
  <2> QED BY <2>1, <1>2, <1>3, <1>4, <1>5
<1>8. BlankUnidentified(rows)'
  BY <1>2, <1>3, <1>6 DEF BlankUnidentified, SeenInv
<1>9. \A i \in DOMAIN rows' : rows'[i].place.tiled \/ rows'[i].place.spot = 1
  BY <1>2, <1>3 DEF SeenInv
<1>10. ASSUME stage3' = "whole" PROVE IdentifiedAs(rows, TRUE)'
  <2>1. lost = {} /\ IdentifiedAs(mem, TRUE)
    BY <1>1, <1>6, <1>10
  <2>2. ASSUME NEW i \in 1..n, rows[i].caption # Blank, rows'[i].into = 0
        PROVE  rows'[i].work = Match(rows[i].caption)
    <3>1. rows'[i].into = mem[i].into /\ rows'[i].work = mem[i].work
      BY <1>3, <2>1
    <3> QED BY <1>2, <2>1, <2>2, <3>1 DEF IdentifiedAs
  <2> QED BY <1>2, <1>3, <2>2 DEF IdentifiedAs
<1> QED
  BY <1>0, <1>7, <1>8, <1>9, <1>10 DEF SeenInv, Computing, Stage3

\* A step that leaves the rows alone, outside the passes of stage 3.
LEMMA SeenQuiet ==
  ASSUME SeenInv, run.at \notin Computing, run'.at \notin Computing,
         UNCHANGED <<rows, mem>>, stage3' \in {stage3, "none"}
  PROVE  SeenInv'
<1>1. Standing(rows)'
  BY DEF SeenInv, Standing, Part
<1>2. BlankUnidentified(rows)'
  BY DEF SeenInv, BlankUnidentified
<1>3. stage3' = "whole" => IdentifiedAs(rows, TRUE)'
  BY DEF SeenInv, IdentifiedAs
<1> QED
  BY <1>1, <1>2, <1>3 DEF SeenInv, Computing, Stage3

LEMMA InitSeen == Init => SeenInv
<1> SUFFICES ASSUME Init PROVE SeenInv
  OBVIOUS
<1>1. DOMAIN rows = {} /\ run.at = "idle" /\ stage3 = "none"
  BY DEF Init, NoRun
<1> QED
  BY <1>1 DEF SeenInv, Standing, BlankUnidentified, Computing, Stage3

LEMMA NextSeen ==
  ASSUME OneVerbatim, LinesApart, Inv, RowsInv, SeenInv, [Next]_vars
  PROVE  SeenInv'
<1> USE DEF At
<1>0. run \in RunType /\ run.image \in Nat
  BY DEF Inv, Progress, RunType
<1>s. run.at \in Early \cup Stage3 => stage3 # "whole"
  BY DEF RowsInv
<1>t. RowsType /\ RowsType'
  BY NextRows DEF RowsInv
<1>1. CASE Claim \/ Retry
  <2>1. /\ run.at = "idle" /\ run'.at \in {"idle", "next"}
        /\ UNCHANGED <<rows, mem>> /\ stage3' \in {stage3, "none"}
    BY <1>1 DEF Claim, Retry, Inv, NoRun
  <2> QED BY <2>1, SeenQuiet DEF Computing, Stage3
<1>2. CASE \/ Stop \/ StartReader \/ OutOfTime \/ (\E s \in Screens : ReaderFails(s))
           \/ Decide \/ Stage3Throws \/ RunThrows
  <2>1. /\ run.at \in {"next", "waiting", "deciding", "collapsing", "finishing", "failing"}
        /\ \E stage \in {"waiting", "failing", "collapsing", "finishing", "catching"} :
             run' = [run EXCEPT !.at = stage]
        /\ UNCHANGED <<rows, mem, stage3>>
    BY <1>2 DEF Stop, StartReader, OutOfTime, ReaderFails, Decide, Stage3Throws, RunThrows, GoTo, batchVars
  <2>2. run'.at \in {"waiting", "failing", "collapsing", "finishing", "catching"}
    BY <1>0, <2>1 DEF RunType
  <2> QED BY <2>1, <2>2, SeenQuiet DEF Computing, Stage3
<1>3. CASE ImageFails
  <2>1. run'.at \in {"deciding", "next"} /\ run.at = "waiting" /\ UNCHANGED <<rows, mem, stage3>>
    BY <1>0, <1>3 DEF ImageFails, NextImage, RunType, batchVars
  <2> QED BY <2>1, SeenQuiet DEF Computing, Stage3
<1>4. ASSUME NEW s \in Screens, ReaderAnswers(s) PROVE SeenInv'
  <2>1. run'.at \in {"deciding", "next"} /\ run.at = "waiting"
    <3> DEFINE r == Count(run, s, RowsOf(Screenshot, s) = <<>>)
    <3>1. r \in RunType /\ run' = NextImage(r) /\ run.at = "waiting"
      BY <1>0, <1>4, CountFacts DEF ReaderAnswers
    <3> HIDE DEF r
    <3> QED BY <3>1 DEF NextImage, RunType
  <2>2. Screenshot \in 1..Images
    BY <1>0, <2>1, ImagesAssumption DEF Screenshot, Inv, Progress
  <2>3. RowsOf(Screenshot, s) \in Seq(NewRow)
    BY <2>2, RowsOfFacts
  <2>4. rows' = rows \o RowsOf(Screenshot, s) /\ UNCHANGED stage3
    BY <1>4 DEF ReaderAnswers
  <2> QED
    BY <1>s, <1>t, <2>1, <2>3, <2>4, SeenAdded DEF Early, Computing, Stage3
<1>5. ASSUME NEW s \in Screens, RecordThrows(s) PROVE SeenInv'
  <2>1. run'.at = "catching" /\ run.at = "waiting"
    BY <1>0, <1>5 DEF RecordThrows, GoTo, RunType
  <2>2. Screenshot \in 1..Images
    BY <1>0, <2>1, ImagesAssumption DEF Screenshot, Inv, Progress
  <2> DEFINE items == RowsOf(Screenshot, s)
  <2>3. items \in Seq(NewRow)
    BY <2>2, RowsOfFacts
  <2>4. UNCHANGED stage3 /\ \E n \in 0..Len(items) : rows' = rows \o SubSeq(items, 1, n)
    BY <1>5 DEF RecordThrows
  <2> HIDE DEF items
  <2>5. PICK n \in 0..Len(items) : rows' = rows \o SubSeq(items, 1, n)
    BY <2>4
  <2>6. SubSeq(items, 1, n) \in Seq(NewRow)
    BY <2>3
  <2> QED
    BY <1>s, <1>t, <2>1, <2>4, <2>5, <2>6, SeenAdded DEF Early, Computing, Stage3
<1>6. CASE (\E s \in Screens : LateAnswer(s)) \/ UNCHANGED vars
  <2>1. UNCHANGED <<rows, mem, run, stage3>>
    BY <1>6 DEF LateAnswer, vars, batchVars
  <2> QED
    BY <2>1 DEF SeenInv, Standing, Part, Placed, IdentifiedAs, BlankUnidentified
<1>7. CASE Stage3Step
  BY <1>0, <1>2, <1>7, SeenCaptions, SeenFragments, SeenMatched, SeenWorks, SeenStored DEF Stage3Step
<1>8. CASE RecordOutcome \/ RecordFailure \/ FailureWriteThrows
  <2>1. run'.at = "idle" /\ run.at \in {"finishing", "failing", "catching"} /\ UNCHANGED <<rows, mem, stage3>>
    BY <1>8 DEF RecordOutcome, RecordFailure, FailureWriteThrows, NoRun, batchVars
  <2> QED BY <2>1, SeenQuiet DEF Computing, Stage3
<1> QED
  BY <1>1, <1>2, <1>3, <1>4, <1>5, <1>6, <1>7, <1>8 DEF Next

\* SeenIsKept for every catalogue, any number of screenshots and any run, where
\* captions that read the same are written the same and every screenshot was
\* measured or gave one line: no listed work that was read is then proposed for
\* removal, unless some reading of it was part of a longer one.  Without either
\* hypothesis stage 3 can lose a work it has read in an earlier, failed run.
THEOREM SeenIsKeptApart ==
  ASSUME OneVerbatim, LinesApart
  PROVE  Spec => []SeenIsKept
<1>1. Init => Inv /\ RowsInv /\ SeenInv
  BY InitInv, InitRows, InitSeen
<1>2. Inv /\ RowsInv /\ SeenInv /\ [Next]_vars => (Inv /\ RowsInv /\ SeenInv)'
  BY NextInv, NextRows, NextSeen
<1>3. RowsInv /\ SeenInv => SeenIsKept
  <2> SUFFICES ASSUME RowsInv, SeenInv, stage3 = "whole", NEW w \in ProposedRemovals, NEW i \in ReadAs(w)
               PROVE  \E j \in ReadAs(w) : Part(j)
    BY DEF SeenIsKept
  <2>1. i \in DOMAIN rows /\ rows[i].caption # Blank /\ Match(rows[i].caption).work = w
    BY DEF ReadAs
  <2>2. PICK j \in DOMAIN rows : /\ rows[j].caption # Blank /\ SameWork(rows[i].caption, rows[j].caption)
                                 /\ rows[j].into = 0 \/ Part(j)
    BY <2>1 DEF SeenInv, Standing
  <2>3. j \in ReadAs(w)
    BY <2>1, <2>2 DEF ReadAs, SameWork
  <2>4. ASSUME rows[j].into = 0 PROVE FALSE
    <3>1. rows[j].work = Match(rows[j].caption)
      BY <2>2, <2>4 DEF SeenInv, IdentifiedAs
    <3>2. Match(rows[j].caption) # None
      <4>1. rows[j].caption \in Captions
        <5>1. rows \in Seq(RowType)
          BY DEF RowsInv, RowsType
        <5>2. rows[j] \in RowType
          BY <2>2, <5>1
        <5> QED BY <5>2 DEF RowType
      <4> QED BY <4>1, MatchIsIdentity, NoneAssumption
    <3>3. w = rows[j].work.work /\ j \in Survivors(rows)
      BY <2>2, <2>3, <2>4, <3>1 DEF ReadAs, Survivors
    <3>4. w \in Identified
      BY <3>1, <3>2, <3>3 DEF Identified
    <3> QED BY <3>4 DEF ProposedRemovals
  <2> QED BY <2>2, <2>3, <2>4
<1> QED
  BY <1>1, <1>2, <1>3, PTL DEF Spec
=============================================================================
