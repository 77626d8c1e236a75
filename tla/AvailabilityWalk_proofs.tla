---------------------- MODULE AvailabilityWalk_proofs ----------------------
(***************************************************************************)
(* Proofs about the walk of "Re-check everything", for any rows, screens,  *)
(* requests and batch size, and any number of checks beside it, deaths,    *)
(* lost answers, and rows that come and go.                                *)
(*                                                                         *)
(* The cursor splits the rows of a walk in two: what the walk still owes   *)
(* an answer lies after it, what the walk has tried does not, unless a     *)
(* stamp of the walk's own time or later says that it was answered.        *)
(***************************************************************************)
EXTENDS AvailabilityWalk, FiniteSetTheorems, WellFoundedInduction, TLAPS

Keys == Nat \X Nat

WalkType == [since : Nat, after : Keys, done : BOOLEAN,
             owed : SUBSET Rows, tried : SUBSET Rows]
PageType == [waits : BOOLEAN, walk : WalkType]
WalkRequest == [op : {"all"}, page : SUBSET Pages, at : Nat, due : SUBSET Rows,
                left : SUBSET Rows, walk : WalkType]
OtherRequest == [op : {"stale", "look"}, page : SUBSET Pages, at : Nat, left : SUBSET Rows]

\* What the walk w says of the stamps s and of the rows that are live.
Split(w, s) ==
  /\ \A r \in w.owed : s[r] >= w.since \/ (~w.done /\ Before(w.after, Key(s, r)))
  /\ \A r \in w.tried : s[r] >= w.since \/ ~Before(w.after, Key(s, r))
Sound(w, s, live) ==
  /\ Split(w, s)
  /\ w.owed \subseteq live
  /\ w.since = 0 => w.tried = {}

Types ==
  /\ clock \in Nat \ {0}
  /\ present \subseteq Rows
  /\ stamp \in [Rows -> Nat]
  /\ page \in [Pages -> PageType]
  /\ request \in [Handlers -> {Free} \cup WalkRequest \cup OtherRequest]
Inv ==
  /\ Types
  /\ \A p \in Pages : page[p].walk.since <= clock /\ Sound(page[p].walk, stamp, present)
  /\ \A h \in Handlers : Doing(h, "all") =>
       /\ request[h].walk.since <= request[h].at /\ request[h].at <= clock
       /\ Sound(request[h].walk, stamp, present)

----------------------------------------------------------------------------
(* The order of the keys                                                   *)

\* Before is a strict total order of keys.
LEMMA BeforeOrder ==
  ASSUME NEW a \in Keys, NEW b \in Keys, NEW c \in Keys
  PROVE  /\ ~Before(a, a)
         /\ Before(a, b) /\ Before(b, c) => Before(a, c)
         /\ a = b \/ Before(a, b) \/ Before(b, a)
BY DEF Before, Keys

\* Rows are numbers, and their keys are keys.
LEMMA RowKeys ==
  ASSUME NEW D \in SUBSET Rows, NEW s \in [D -> Nat], NEW r \in D
  PROVE  /\ Key(s, r) \in Keys
         /\ Before(Start, Key(s, r))
         /\ \A q \in D : Key(s, q) = Key(s, r) => q = r
BY RowsAssumption DEF Key, Keys, Before, Start

\* A set of rows that is not empty has a last one.
LEMMA LastExists ==
  ASSUME NEW D \in SUBSET Rows, NEW s \in [D -> Nat], NEW due \in SUBSET D, due # {}
  PROVE  \E r \in due : \A q \in due : ~Before(Key(s, r), Key(s, q))
<1> DEFINE After(r) == {q \in due : Before(Key(s, r), Key(s, q))}
           T == {After(r) : r \in due}
<1>1. IsFiniteSet(due)
  BY RowsAssumption, FS_Subset
<1>2. T \subseteq FiniteSubsetsOf(due) /\ T # {}
  <2>1. ASSUME NEW r \in due PROVE After(r) \in FiniteSubsetsOf(due)
    <3>1. After(r) \in SUBSET due
      OBVIOUS
    <3> HIDE DEF After
    <3> QED BY <3>1, <1>1, FS_Subset DEF FiniteSubsetsOf
  <2> QED BY <2>1
<1>3. IsWellFoundedOn(StrictSubsetOrdering(due), FiniteSubsetsOf(due))
  BY FS_StrictSubsetOrderingWellFounded
<1>4. \E x \in T : \A y \in T : <<y, x>> \notin StrictSubsetOrdering(due)
  <2> HIDE DEF T
  <2> QED BY <1>2, <1>3, WFMin
<1>5. PICK r \in due : \A q \in due : <<After(q), After(r)>> \notin StrictSubsetOrdering(due)
  BY <1>4
<1>6. ASSUME NEW q \in due, Before(Key(s, r), Key(s, q)) PROVE FALSE
  <2>1. After(q) \subseteq After(r)
    BY <1>6, BeforeOrder, RowKeys
  <2>2. q \in After(r) /\ q \notin After(q)
    BY <1>6, BeforeOrder, RowKeys
  <2>3. <<After(q), After(r)>> \in StrictSubsetOrdering(due)
    BY <2>1, <2>2 DEF StrictSubsetOrdering
  <2> QED BY <2>3, <1>5
<1> QED BY <1>6

\* Where a walk is after a tap: at a row of it that no row of it comes after.
LEMMA LastOfDue ==
  ASSUME NEW D \in SUBSET Rows, NEW s \in [D -> Nat], NEW due \in SUBSET D, NEW a \in Keys
  PROVE  /\ due = {} => LastOf(s, due, a) = a
         /\ due # {} => \E q \in due : LastOf(s, due, a) = Key(s, q)
         /\ LastOf(s, due, a) \in Keys
         /\ \A q \in due : ~Before(LastOf(s, due, a), Key(s, q))
<1>1. CASE due = {}
  BY <1>1 DEF LastOf
<1>2. CASE due # {}
  <2> DEFINE last == CHOOSE r \in due : \A q \in due : ~Before(Key(s, r), Key(s, q))
  <2>1. last \in due /\ \A q \in due : ~Before(Key(s, last), Key(s, q))
    BY <1>2, LastExists
  <2>2. LastOf(s, due, a) = Key(s, last)
    BY <1>2 DEF LastOf
  <2> HIDE DEF last
  <2> QED BY <1>2, <2>1, <2>2, RowKeys
<1> QED BY <1>1, <1>2

\* A row that is left, and that a tap does not look at, comes after those it does.
LEMMA SelectedFirst ==
  ASSUME NEW D \in SUBSET Rows, NEW s \in [D -> Nat], NEW since \in Nat, NEW a \in Keys,
         NEW q \in Selected(s, since, a),
         NEW r \in Remaining(s, since, a) \ Selected(s, since, a)
  PROVE  Before(Key(s, q), Key(s, r))
<1> DEFINE rows == Remaining(s, since, a)
           Ahead(x) == {y \in rows : Before(Key(s, y), Key(s, x))}
<1>1. rows \subseteq D /\ q \in rows /\ r \in rows
  BY DEF Remaining, Selected
<1>2. IsFiniteSet(rows)
  BY <1>1, RowsAssumption, FS_Subset
<1>3. Cardinality(Ahead(q)) < Batch /\ ~(Cardinality(Ahead(r)) < Batch)
  BY DEF Selected
<1>4. ASSUME Before(Key(s, r), Key(s, q)) PROVE FALSE
  <2>1. Ahead(r) \subseteq Ahead(q)
    <3> SUFFICES ASSUME NEW y \in rows, Before(Key(s, y), Key(s, r))
                 PROVE  Before(Key(s, y), Key(s, q))
      OBVIOUS
    <3>1. Key(s, y) \in Keys /\ Key(s, r) \in Keys /\ Key(s, q) \in Keys
      BY <1>1, RowKeys
    <3> QED BY <3>1, <1>4, BeforeOrder
  <2>2. IsFiniteSet(Ahead(q)) /\ IsFiniteSet(Ahead(r))
    BY <1>2, FS_Subset
  <2>3. Cardinality(Ahead(r)) <= Cardinality(Ahead(q))
    <3> HIDE DEF Ahead
    <3> QED BY <2>1, <2>2, FS_Subset
  <2>4. Cardinality(Ahead(r)) \in Nat /\ Cardinality(Ahead(q)) \in Nat
    BY <2>2, FS_CardinalityType
  <2> QED BY <1>3, <2>3, <2>4, BatchAssumption
<1>5. q # r
  OBVIOUS
<1> QED BY <1>1, <1>4, <1>5, BeforeOrder, RowKeys

----------------------------------------------------------------------------
(* One tap                                                                 *)

Read == [r \in present |-> stamp[r]]

\* What Recheck makes of the walk w, when the lookups of `ok` are answered.
Tapped(w, ok) ==
  LET due    == Selected(Read, w.since, w.after)
      cursor == Cursor(Read, due, ok, w.after)
  IN  [since |-> w.since, after |-> cursor, done |-> Done(Read, ok, w.since, cursor),
       owed |-> w.owed \ due, tried |-> w.tried \cup due]

\* What a read says of the stamps it was made from.
LEMMA ReadFacts ==
  ASSUME Types
  PROVE  /\ Read \in [present -> Nat] /\ DOMAIN Read = present
         /\ \A r \in present : Read[r] = stamp[r] /\ Key(Read, r) = Key(stamp, r)
BY DEF Types, Read, Key

\* A tap keeps a walk sound, and asks about nothing the walk has tried.
LEMMA TapKeepsSound ==
  ASSUME Types, NEW w \in WalkType, Sound(w, stamp, present), ~w.done, w.since # 0,
         NEW ok \in SUBSET Selected(Read, w.since, w.after)
  PROVE  /\ Tapped(w, ok) \in WalkType
         /\ Sound(Tapped(w, ok), stamp, present)
         /\ Selected(Read, w.since, w.after) \in SUBSET Rows
         /\ Selected(Read, w.since, w.after) \cap w.tried = {}
<1> DEFINE due    == Selected(Read, w.since, w.after)
           left   == Remaining(Read, w.since, w.after)
           cursor == LastOf(Read, due, w.after)
           v      == Tapped(w, ok)
<1>1. /\ w.since \in Nat /\ w.after \in Keys /\ w.owed \subseteq present
      /\ w.owed \subseteq Rows /\ w.tried \subseteq Rows /\ present \subseteq Rows
      /\ stamp \in [Rows -> Nat]
  BY DEF WalkType, Sound, Types
<1>2. /\ Read \in [present -> Nat] /\ DOMAIN Read = present
      /\ \A r \in present : Read[r] = stamp[r] /\ Key(Read, r) = Key(stamp, r)
  BY ReadFacts
<1>3. /\ due \subseteq left /\ left \subseteq present
      /\ \A r \in left : stamp[r] < w.since /\ Before(w.after, Key(stamp, r))
      /\ \A r \in present \ left : ~(stamp[r] < w.since /\ Before(w.after, Key(stamp, r)))
  BY <1>2 DEF Selected, Remaining
<1>4. /\ due = {} => cursor = w.after
      /\ due # {} => \E q \in due : cursor = Key(Read, q)
      /\ cursor \in Keys
      /\ \A q \in due : ~Before(cursor, Key(Read, q))
  <2> HIDE DEF due, cursor
  <2>1. due \in SUBSET present
    BY <1>3
  <2> QED BY <2>1, <1>1, <1>2, LastOfDue DEF cursor
<1>5. /\ v.since = w.since /\ v.after = cursor /\ v.owed = w.owed \ due
      /\ v.tried = w.tried \cup due /\ v.done = Done(Read, ok, w.since, cursor)
      /\ v \in WalkType
  BY <1>1, <1>3, <1>4 DEF Tapped, Cursor, WalkType, Done
<1>6. \A r \in Rows : Key(stamp, r) \in Keys
  BY <1>1, RowKeys
<1>7. ASSUME NEW r \in w.owed \ due, stamp[r] < w.since
      PROVE  Before(cursor, Key(stamp, r)) /\ ~v.done
  <2>1. Before(w.after, Key(stamp, r)) /\ r \in present
    BY <1>1, <1>7 DEF Sound, Split
  <2>2. r \in left
    BY <2>1, <1>3, <1>7
  <2>3. Before(cursor, Key(stamp, r))
    <3>1. CASE due = {}
      BY <3>1, <1>4, <2>1
    <3>2. CASE due # {}
      <4>1. PICK q \in due : cursor = Key(Read, q)
        BY <3>2, <1>4
      <4>2. Before(Key(Read, q), Key(Read, r))
        BY <1>1, <1>2, <2>2, <1>7, SelectedFirst
      <4> QED BY <4>1, <4>2, <1>2, <2>1
    <3> QED BY <3>1, <3>2
  <2>4. r \in Remaining([x \in DOMAIN Read |-> IF x \in ok THEN clock ELSE Read[x]],
                        w.since, cursor)
    BY <2>1, <2>3, <1>2, <1>7 DEF Remaining, Key
  <2> QED BY <2>3, <2>4, <1>5 DEF Done
<1>8. ASSUME NEW r \in w.tried \cup due, stamp[r] < w.since
      PROVE  ~Before(cursor, Key(stamp, r))
  <2>1. CASE r \in due
    BY <2>1, <1>2, <1>3, <1>4
  <2>2. CASE r \in w.tried /\ due = {}
    BY <2>2, <1>1, <1>4, <1>8 DEF Sound, Split
  <2>3. CASE r \in w.tried /\ due # {}
    <3>1. PICK q \in due : cursor = Key(Read, q)
      BY <2>3, <1>4
    <3>2. Before(w.after, cursor)
      BY <3>1, <1>2, <1>3
    <3>3. ~Before(w.after, Key(stamp, r))
      BY <2>3, <1>1, <1>8 DEF Sound, Split
    <3>4. Key(stamp, r) \in Keys
      BY <2>3, <1>1, <1>6
    <3> QED BY <3>2, <3>3, <3>4, <1>1, <1>4, BeforeOrder
  <2> QED BY <2>1, <2>2, <2>3
<1>9. Sound(v, stamp, present)
  <2>1. \A r \in Rows : stamp[r] \in Nat
    BY <1>1
  <2> HIDE DEF due, cursor, v, left
  <2> QED BY <1>1, <1>3, <1>5, <1>7, <1>8, <2>1 DEF Sound, Split
<1>10. due \cap w.tried = {}
  BY <1>1, <1>3 DEF Sound, Split
<1> QED BY <1>1, <1>3, <1>5, <1>9, <1>10

----------------------------------------------------------------------------
(* The actions                                                             *)

\* A write to one row leaves a walk sound that forgets it owes the row, and that
\* remembers to have tried it only if the stamp is of its own time.
LEMMA WriteKeepsSound ==
  ASSUME NEW w \in WalkType, NEW v \in WalkType, NEW s \in [Rows -> Nat],
         NEW live \in SUBSET Rows, NEW r \in Rows, NEW t \in Nat, Sound(w, s, live),
         v.since = w.since, v.after = w.after, v.done = w.done,
         v.owed = w.owed \ {r}, v.tried \subseteq w.tried,
         r \in v.tried => t >= w.since
  PROVE  Sound(v, [s EXCEPT ![r] = t], live)
BY DEF Sound, Split, Key, WalkType

\* A walk that owes and has tried less, and a row set that still holds what it owes.
LEMMA LessKeepsSound ==
  ASSUME NEW w \in WalkType, NEW v \in WalkType, NEW s, NEW live, NEW live2, Sound(w, s, live),
         v.since = w.since, v.after = w.after, v.done = w.done,
         v.owed \subseteq w.owed, v.tried = w.tried, v.owed \subseteq live2
  PROVE  Sound(v, s, live2)
BY DEF Sound, Split

\* A screen without a walk claims nothing.
LEMMA NoWalkSound ==
  /\ NoWalk \in WalkType /\ NoWalk.since = 0
  /\ \A s, live : Sound(NoWalk, s, live)
BY DEF NoWalk, WalkType, Sound, Split, Start, Keys

\* What a request is, by its kind.
LEMMA RequestKinds ==
  ASSUME Types, NEW h \in Handlers, ~Doing(h, "none")
  PROVE  /\ Doing(h, "all") => request[h] \in WalkRequest
         /\ ~Doing(h, "all") => request[h] \in OtherRequest
         /\ request[h].at \in Nat /\ request[h].left \subseteq Rows
         /\ request[h].page \subseteq Pages
BY DEF Types, Doing, Free, WalkRequest, OtherRequest

\* No walk has begun.
LEMMA InitInv == Init => Inv
<1> SUFFICES ASSUME Init PROVE Inv
  OBVIOUS
<1>1. Types
  BY NoWalkSound DEF Init, Types, PageType
<1>2. \A h \in Handlers : ~Doing(h, "all")
  BY DEF Init, Doing, Free
<1>3. \A p \in Pages : page[p].walk.since <= clock /\ Sound(page[p].walk, stamp, present)
  BY NoWalkSound DEF Init
<1> QED BY <1>1, <1>2, <1>3 DEF Inv

\* A tap of "Re-check everything" or of "Continue" computes where its walk will be.
LEMMA RecheckInv ==
  ASSUME Inv, NEW p \in Pages, NEW h \in Handlers, Recheck(p, h)
  PROVE  Inv'
<1> DEFINE w == IF Walking(p) THEN page[p].walk
                ELSE [NoWalk EXCEPT !.since = clock, !.owed = present]
<1>1. Types /\ page[p] \in PageType /\ page[p].walk \in WalkType
  BY DEF Inv, Types, PageType
<1>2. w \in WalkType /\ Sound(w, stamp, present) /\ ~w.done /\ w.since # 0
      /\ w.since <= clock
  <2>1. CASE Walking(p)
    BY <2>1, <1>1 DEF Inv, Recheck, Walking
  <2>2. CASE ~Walking(p)
    <3>1. w = [since |-> clock, after |-> Start, done |-> FALSE, owed |-> present, tried |-> {}]
      BY <2>2 DEF NoWalk
    <3>2. \A r \in present : Before(Start, Key(stamp, r))
      BY <1>1, RowKeys DEF Types
    <3>3. clock \in Nat \ {0} /\ present \subseteq Rows
      BY <1>1 DEF Types
    <3> HIDE DEF w
    <3>4. w \in WalkType
      BY <3>1, <3>3 DEF WalkType, Start, Keys
    <3>5. /\ w.since = clock /\ w.after = Start /\ w.done = FALSE
          /\ w.owed = present /\ w.tried = {}
      BY <3>1
    <3> QED BY <3>2, <3>3, <3>4, <3>5 DEF Sound, Split
  <2> QED BY <2>1, <2>2
<1>3. PICK ok \in SUBSET Selected(Read, w.since, w.after) :
        request' = [request EXCEPT ![h] =
          [op |-> "all", page |-> {p}, at |-> clock,
           due |-> Selected(Read, w.since, w.after), left |-> ok, walk |-> Tapped(w, ok)]]
  BY DEF Recheck, Read, Tapped
<1>4. /\ Tapped(w, ok) \in WalkType /\ Sound(Tapped(w, ok), stamp, present)
      /\ Selected(Read, w.since, w.after) \in SUBSET Rows
  <2> HIDE DEF w
  <2> QED BY <1>1, <1>2, TapKeepsSound
<1>5. /\ page' = [page EXCEPT ![p].waits = TRUE]
      /\ UNCHANGED <<clock, present, stamp>>
  BY DEF Recheck
<1> HIDE DEF w
<1>6. \A q \in Pages : page'[q] \in PageType /\ page'[q].walk = page[q].walk
  BY <1>1, <1>5 DEF Types, PageType
<1>7. Types'
  BY <1>1, <1>3, <1>4, <1>5, <1>6 DEF Types, WalkRequest, PageType
<1>8. \A q \in Pages : page'[q].walk.since <= clock' /\ Sound(page'[q].walk, stamp', present')
  BY <1>5, <1>6 DEF Inv
<1>9. ASSUME NEW k \in Handlers, Doing(k, "all")'
      PROVE  /\ request'[k].walk.since <= request'[k].at /\ request'[k].at <= clock'
             /\ Sound(request'[k].walk, stamp', present')
  <2>1. CASE k = h
    <3>1. request'[k].at = clock /\ request'[k].walk = Tapped(w, ok)
      BY <2>1, <1>1, <1>3 DEF Types
    <3>2. Tapped(w, ok).since <= clock
      BY <1>2 DEF Tapped
    <3>3. clock \in Nat
      BY <1>1 DEF Types
    <3> QED BY <3>1, <3>2, <3>3, <1>4, <1>5
  <2>2. CASE k # h
    BY <2>2, <1>1, <1>3, <1>5, <1>9 DEF Inv, Types, Doing
  <2> QED BY <2>1, <2>2
<1> QED BY <1>7, <1>8, <1>9 DEF Inv

\* The write of one stamp: of a walk, or of any check beside it.
LEMMA WriteOneInv ==
  ASSUME Inv, NEW h \in Handlers, NEW r \in Rows, WriteOne(h, r)
  PROVE  Inv'
<1>1. Types /\ ~Doing(h, "none") /\ request[h].at \in Nat /\ stamp \in [Rows -> Nat]
      /\ present \subseteq Rows
  BY RequestKinds DEF Inv, WriteOne, Types
<1>2. stamp' = [stamp EXCEPT ![r] = request[h].at] /\ UNCHANGED <<clock, present>>
  BY DEF WriteOne
<1>3. ASSUME NEW p \in Pages
      PROVE  /\ page'[p] \in PageType
             /\ page'[p].walk.since <= clock' /\ Sound(page'[p].walk, stamp', present')
  <2>1. page'[p] = [page[p] EXCEPT !.walk.owed = @ \ {r}, !.walk.tried = @ \ {r}]
    BY DEF WriteOne
  <2>2. page[p] \in PageType /\ page[p].walk \in WalkType
    BY <1>1 DEF Types, PageType
  <2> DEFINE v == [page[p].walk EXCEPT !.owed = @ \ {r}, !.tried = @ \ {r}]
  <2>3. page'[p] = [page[p] EXCEPT !.walk = v]
    BY <2>1, <2>2 DEF PageType, WalkType
  <2>4. /\ v \in WalkType /\ v.since = page[p].walk.since /\ v.after = page[p].walk.after
        /\ v.done = page[p].walk.done /\ v.owed = page[p].walk.owed \ {r}
        /\ v.tried = page[p].walk.tried \ {r}
    BY <2>2 DEF WalkType
  <2> HIDE DEF v
  <2>5. page'[p] \in PageType /\ page'[p].walk = v
    BY <2>2, <2>3, <2>4 DEF PageType
  <2>6. Sound(v, stamp', present')
    BY <1>1, <1>2, <2>2, <2>4, WriteKeepsSound DEF Inv
  <2> QED BY <1>2, <2>4, <2>5, <2>6 DEF Inv
<1>4. ASSUME NEW k \in Handlers
      PROVE  /\ request'[k] \in {Free} \cup WalkRequest \cup OtherRequest
             /\ request'[k].op = "all" =>
                  /\ request'[k].walk.since <= request'[k].at /\ request'[k].at <= clock'
                  /\ Sound(request'[k].walk, stamp', present')
  <2>1. CASE ~Doing(k, "all")
    <3>1. CASE k = h
      <4>1. request'[k] = [request[h] EXCEPT !.left = @ \ {r}]
        BY <2>1, <3>1 DEF WriteOne
      <4>2. request[h] \in OtherRequest
        BY <1>1, <2>1, <3>1, RequestKinds
      <4> QED BY <4>1, <4>2 DEF OtherRequest
    <3>2. CASE k # h
      BY <1>1, <2>1, <3>2 DEF WriteOne, Types, Doing
    <3> QED BY <3>1, <3>2
  <2>2. CASE Doing(k, "all")
    <3> DEFINE v == request'[k].walk
    <3>1. request[k] \in WalkRequest /\ request[k].walk \in WalkType
      BY <1>1, <2>2, RequestKinds DEF WalkRequest, Doing
    <3>2. /\ request'[k] \in WalkRequest
          /\ v \in WalkType /\ v.since = request[k].walk.since
          /\ v.after = request[k].walk.after /\ v.done = request[k].walk.done
          /\ v.owed = request[k].walk.owed \ {r} /\ v.tried \subseteq request[k].walk.tried
          /\ r \in v.tried => k = h
          /\ request'[k].at = request[k].at
      <4>1. CASE k = h
        <5>1. request'[k] = [request[k] EXCEPT !.left = @ \ {r}, !.walk.owed = @ \ {r}]
          BY <2>2, <4>1 DEF WriteOne
        <5> DEFINE u == [request[k].walk EXCEPT !.owed = @ \ {r}]
        <5>2. request'[k] = [[request[k] EXCEPT !.left = @ \ {r}] EXCEPT !.walk = u]
          BY <3>1, <5>1 DEF WalkRequest, WalkType
        <5>3. u \in WalkType /\ u.since = request[k].walk.since
              /\ u.after = request[k].walk.after /\ u.done = request[k].walk.done
              /\ u.owed = request[k].walk.owed \ {r}
              /\ u.tried = request[k].walk.tried
          BY <3>1 DEF WalkType
        <5> HIDE DEF u
        <5> QED BY <3>1, <4>1, <5>2, <5>3 DEF WalkRequest
      <4>2. CASE k # h
        <5>1. request'[k] = [request[k] EXCEPT !.walk.owed = @ \ {r}, !.walk.tried = @ \ {r}]
          BY <2>2, <4>2 DEF WriteOne
        <5> DEFINE u == [request[k].walk EXCEPT !.owed = @ \ {r}, !.tried = @ \ {r}]
        <5>2. request'[k] = [request[k] EXCEPT !.walk = u]
          BY <3>1, <5>1 DEF WalkRequest, WalkType
        <5>3. u \in WalkType /\ u.since = request[k].walk.since
              /\ u.after = request[k].walk.after /\ u.done = request[k].walk.done
              /\ u.owed = request[k].walk.owed \ {r}
              /\ u.tried = request[k].walk.tried \ {r}
          BY <3>1 DEF WalkType
        <5> HIDE DEF u
        <5> QED BY <3>1, <4>2, <5>2, <5>3 DEF WalkRequest
      <4> QED BY <4>1, <4>2
    <3>3. /\ request[k].walk.since <= request[k].at /\ request[k].at <= clock
          /\ Sound(request[k].walk, stamp, present)
      BY <2>2 DEF Inv
    <3>4. r \in v.tried => request[h].at >= v.since
      <4> HIDE DEF v
      <4> QED BY <3>2, <3>3
    <3>5. Sound(v, stamp', present')
      <4> HIDE DEF v
      <4> QED BY <1>1, <1>2, <3>1, <3>2, <3>3, <3>4, WriteKeepsSound
    <3> QED BY <1>2, <3>2, <3>3, <3>5
  <2> QED BY <2>1, <2>2
<1>5. Types'
  BY <1>1, <1>2, <1>3, <1>4 DEF WriteOne, Types
<1> QED BY <1>3, <1>4, <1>5 DEF Inv, Doing

\* A step that leaves rows and stamps alone, begins no tap, and gives a screen no walk
\* but its own, none, or the one a request computed.
LEMMA QuietInv ==
  ASSUME Inv, UNCHANGED <<present, stamp>>, clock' \in {clock, clock + 1},
         page' \in [Pages -> PageType],
         \A p \in Pages : \/ page'[p].walk = page[p].walk
                          \/ page'[p].walk = NoWalk
                          \/ \E h \in Handlers : Doing(h, "all") /\ page'[p].walk = request[h].walk,
         request' \in [Handlers -> {Free} \cup WalkRequest \cup OtherRequest],
         \A h \in Handlers : request'[h] = request[h] \/ ~Doing(h, "all")'
  PROVE  Inv'
<1>1. Types /\ clock \in Nat \ {0}
  BY DEF Inv, Types
<1>2. Types'
  BY <1>1 DEF Types
<1>3. ASSUME NEW p \in Pages
      PROVE  page'[p].walk.since <= clock' /\ Sound(page'[p].walk, stamp', present')
  <2>1. CASE page'[p].walk = page[p].walk
    BY <2>1, <1>1 DEF Inv, Types, PageType, WalkType
  <2>2. CASE page'[p].walk = NoWalk
    BY <2>2, <1>1, NoWalkSound
  <2>3. ASSUME NEW h \in Handlers, Doing(h, "all"), page'[p].walk = request[h].walk
        PROVE  page'[p].walk.since <= clock' /\ Sound(page'[p].walk, stamp', present')
    <3>1. request[h] \in WalkRequest
      BY <1>1, <2>3, RequestKinds DEF Doing
    <3>2. request[h].at \in Nat /\ request[h].walk.since \in Nat
      BY <3>1 DEF WalkRequest, WalkType
    <3> QED BY <1>1, <2>3, <3>2 DEF Inv
  <2> QED BY <2>1, <2>2, <2>3
<1>4. ASSUME NEW h \in Handlers, Doing(h, "all")'
      PROVE  /\ request'[h].walk.since <= request'[h].at /\ request'[h].at <= clock'
             /\ Sound(request'[h].walk, stamp', present')
  <2>1. request'[h] = request[h] /\ Doing(h, "all")
    BY <1>4 DEF Doing
  <2>2. request[h] \in WalkRequest
    BY <1>1, <2>1, RequestKinds DEF Doing
  <2>3. request[h].at \in Nat /\ request[h].walk.since \in Nat
    BY <2>2 DEF WalkRequest, WalkType
  <2> QED BY <1>1, <2>1, <2>3 DEF Inv
<1> QED BY <1>2, <1>3, <1>4 DEF Inv

\* The check of the stale rows drops the walk of its screen.
LEMMA CheckMoreInv ==
  ASSUME Inv, NEW p \in Pages, NEW h \in Handlers, CheckMore(p, h)
  PROVE  Inv'
<1>1. Types /\ page[p] \in PageType
  BY DEF Inv, Types
<1>2. UNCHANGED <<clock, present, stamp>> /\ page' = [page EXCEPT ![p].waits = TRUE]
  BY DEF CheckMore
<1>3. PICK due \in Oldest : \E ok \in SUBSET due :
        request' = [request EXCEPT ![h] =
          [op |-> "stale", page |-> {p}, at |-> clock, left |-> ok]]
  BY DEF CheckMore
<1>4. due \subseteq Rows
  BY <1>1, <1>3 DEF Oldest, StaleRows, Types
<1>5. request' \in [Handlers -> {Free} \cup WalkRequest \cup OtherRequest]
  BY <1>1, <1>3, <1>4 DEF Types, OtherRequest
<1>6. \A k \in Handlers : request'[k] = request[k] \/ ~Doing(k, "all")'
  BY <1>1, <1>3 DEF Types, Doing
<1>7. page' \in [Pages -> PageType] /\ \A q \in Pages : page'[q].walk = page[q].walk
  BY <1>1, <1>2 DEF Types, PageType
<1> QED BY <1>2, <1>5, <1>6, <1>7, QuietInv

\* A check outside every walk.
LEMMA LookInv ==
  ASSUME Inv, NEW h \in Handlers, Look(h)
  PROVE  Inv'
<1>1. Types /\ UNCHANGED <<clock, present, stamp, page>>
  BY DEF Inv, Look
<1>2. PICK due \in SUBSET present : request' = [request EXCEPT ![h] = Unasked(clock, due)]
  BY DEF Look
<1>3. Unasked(clock, due) \in OtherRequest /\ Unasked(clock, due).op # "all"
  BY <1>1, <1>2 DEF Unasked, OtherRequest, Types
<1>4. request' \in [Handlers -> {Free} \cup WalkRequest \cup OtherRequest]
  BY <1>1, <1>2, <1>3 DEF Types
<1>5. \A k \in Handlers : request'[k] = request[k] \/ ~Doing(k, "all")'
  BY <1>1, <1>2, <1>3 DEF Types, Doing
<1>6. page' \in [Pages -> PageType] /\ \A q \in Pages : page'[q].walk = page[q].walk
  BY <1>1 DEF Types
<1> QED BY <1>1, <1>4, <1>5, <1>6, QuietInv

\* Freeing a handler keeps the requests well formed.
LEMMA FreeRequest ==
  ASSUME Types, NEW h \in Handlers, request' = [request EXCEPT ![h] = Free]
  PROVE  /\ request' \in [Handlers -> {Free} \cup WalkRequest \cup OtherRequest]
         /\ \A k \in Handlers : request'[k] = request[k] \/ ~Doing(k, "all")'
BY DEF Types, Doing, Free

\* The answer gives the screen the walk the request computed.
LEMMA RespondInv ==
  ASSUME Inv, NEW h \in Handlers, Respond(h)
  PROVE  Inv'
<1>1. Types /\ UNCHANGED <<clock, present, stamp>> /\ request' = [request EXCEPT ![h] = Free]
  BY DEF Inv, Respond
<1>2. ASSUME NEW p \in Pages
      PROVE  /\ page'[p] \in PageType
             /\ \/ page'[p].walk = page[p].walk
                \/ page'[p].walk = NoWalk
                \/ Doing(h, "all") /\ page'[p].walk = request[h].walk
  <2>1. Doing(h, "all") => request[h].walk \in WalkType
    BY <1>1, RequestKinds DEF Respond, WalkRequest
  <2>2. page[p] \in PageType
    BY <1>1 DEF Types
  <2>3. page'[p] = IF p \in request[h].page
                   THEN [waits |-> FALSE,
                         walk |-> IF Doing(h, "all") THEN request[h].walk ELSE NoWalk]
                   ELSE page[p]
    BY DEF Respond, Doing
  <2> QED BY <2>1, <2>2, <2>3, NoWalkSound DEF PageType
<1>3. page' \in [Pages -> PageType]
  BY <1>2 DEF Respond
<1> QED BY <1>1, <1>2, <1>3, FreeRequest, QuietInv

\* A request that dies leaves its walk where it was.
LEMMA DieInv ==
  ASSUME Inv, NEW h \in Handlers, Die(h)
  PROVE  Inv'
<1>1. Types /\ UNCHANGED <<clock, present, stamp>> /\ request' = [request EXCEPT ![h] = Free]
  BY DEF Inv, Die
<1>2. \A p \in Pages : page'[p] \in PageType /\ page'[p].walk = page[p].walk
  BY <1>1 DEF Die, Types, PageType
<1>3. page' \in [Pages -> PageType]
  BY <1>2 DEF Die
<1> QED BY <1>1, <1>2, <1>3, FreeRequest, QuietInv

\* A request whose answer reaches nobody is one more check beside the walks.
LEMMA DisconnectedRequests ==
  ASSUME Types, NEW p \in Pages, Disconnected(p)
  PROVE  /\ request' \in [Handlers -> {Free} \cup WalkRequest \cup OtherRequest]
         /\ \A k \in Handlers : request'[k] = request[k] \/ ~Doing(k, "all")'
<1>1. ASSUME NEW k \in Handlers
      PROVE  /\ request'[k] \in {Free} \cup WalkRequest \cup OtherRequest
             /\ request'[k] = request[k] \/ request'[k].op # "all"
  <2>1. CASE request'[k] = request[k]
    BY <2>1 DEF Types
  <2>2. CASE ~Doing(k, "none") /\ request'[k] = Unasked(request[k].at, request[k].left)
    BY <2>2, RequestKinds DEF Unasked, OtherRequest
  <2> QED BY <2>1, <2>2 DEF Disconnected
<1>2. request' \in [Handlers -> {Free} \cup WalkRequest \cup OtherRequest]
  BY <1>1 DEF Disconnected
<1> QED BY <1>1, <1>2 DEF Doing

\* A lost answer, and an owner who leaves.
LEMMA DisconnectInv ==
  ASSUME Inv, NEW p \in Pages, Disconnect(p) \/ Leave(p)
  PROVE  Inv'
<1>1. Types /\ UNCHANGED <<clock, present, stamp>> /\ Disconnected(p)
  BY DEF Inv, Disconnect, Leave
<1>2. /\ page' \in [Pages -> PageType]
      /\ \A q \in Pages : page'[q].walk = page[q].walk \/ page'[q].walk = NoWalk
  <2>1. CASE Disconnect(p)
    BY <1>1, <2>1 DEF Types, PageType, Disconnect
  <2>2. CASE Leave(p)
    BY <1>1, <2>2, NoWalkSound DEF Types, PageType, Leave
  <2> QED BY <2>1, <2>2
<1> QED BY <1>1, <1>2, DisconnectedRequests, QuietInv

\* Time passes.
LEMMA TickInv ==
  ASSUME Inv, Tick
  PROVE  Inv'
<1>1. Types /\ UNCHANGED <<present, stamp, page, request>> /\ clock' = clock + 1
  BY DEF Inv, Tick
<1> QED BY <1>1, QuietInv DEF Types

\* A row that comes is owed nothing by the walks under way.
LEMMA ComeInv ==
  ASSUME Inv, NEW r \in Rows, Come(r)
  PROVE  Inv'
<1>1. /\ Types /\ UNCHANGED <<clock, stamp, page, request>> /\ present' = present \cup {r}
  BY DEF Inv, Come
<1>2. \A w : Sound(w, stamp, present) => Sound(w, stamp', present')
  BY <1>1 DEF Sound
<1>3. Types'
  BY <1>1 DEF Types
<1> QED BY <1>1, <1>2, <1>3 DEF Inv, Doing

\* A row that goes is owed nothing any more.
LEMMA GoInv ==
  ASSUME Inv, NEW r \in Rows, Go(r)
  PROVE  Inv'
<1>1. /\ Types /\ UNCHANGED <<clock, stamp>> /\ present' = present \ {r}
  BY DEF Inv, Go
<1>2. ASSUME NEW w \in WalkType, Sound(w, stamp, present)
      PROVE  /\ [w EXCEPT !.owed = @ \ {r}] \in WalkType
             /\ [w EXCEPT !.owed = @ \ {r}].since = w.since
             /\ Sound([w EXCEPT !.owed = @ \ {r}], stamp', present')
  BY <1>1, <1>2 DEF WalkType, Sound, Split
<1>3. ASSUME NEW p \in Pages
      PROVE  /\ page'[p] \in PageType /\ page'[p].walk.since <= clock'
             /\ Sound(page'[p].walk, stamp', present')
  <2> DEFINE v == [page[p].walk EXCEPT !.owed = @ \ {r}]
  <2>1. page[p] \in PageType /\ page[p].walk \in WalkType
    BY <1>1 DEF Types, PageType
  <2>2. page'[p] = [page[p] EXCEPT !.walk = v]
    BY <2>1 DEF Go
  <2>3. v \in WalkType /\ v.since = page[p].walk.since /\ Sound(v, stamp', present')
    BY <1>2, <2>1 DEF Inv
  <2> HIDE DEF v
  <2> QED BY <1>1, <2>1, <2>2, <2>3 DEF Inv, PageType
<1>4. ASSUME NEW h \in Handlers, Doing(h, "all")
      PROVE  /\ request'[h] \in WalkRequest
             /\ request'[h].walk.since <= request'[h].at /\ request'[h].at <= clock'
             /\ Sound(request'[h].walk, stamp', present')
  <2> DEFINE v == [request[h].walk EXCEPT !.owed = @ \ {r}]
  <2>1. request[h] \in WalkRequest /\ request[h].walk \in WalkType
    BY <1>1, <1>4, RequestKinds DEF WalkRequest, Doing
  <2>2. request'[h] = [request[h] EXCEPT !.walk = v]
    BY <1>4, <2>1 DEF Go
  <2>3. v \in WalkType /\ v.since = request[h].walk.since /\ Sound(v, stamp', present')
    BY <1>2, <1>4, <2>1 DEF Inv
  <2> HIDE DEF v
  <2> QED BY <1>1, <1>4, <2>1, <2>2, <2>3 DEF Inv, WalkRequest
<1>5. \A h \in Handlers : ~Doing(h, "all") => request'[h] = request[h]
  BY DEF Go
<1>6. Types'
  <2>1. request' \in [Handlers -> {Free} \cup WalkRequest \cup OtherRequest]
    BY <1>1, <1>4, <1>5 DEF Go, Types
  <2>2. page' \in [Pages -> PageType]
    BY <1>3 DEF Go
  <2> QED BY <1>1, <2>1, <2>2 DEF Types
<1> QED BY <1>3, <1>4, <1>5, <1>6 DEF Inv, Doing

----------------------------------------------------------------------------
(* The theorems                                                            *)

\* Every step keeps the invariant.
LEMMA NextInv == Inv /\ [Next]_vars => Inv'
<1> SUFFICES ASSUME Inv, [Next]_vars PROVE Inv'
  OBVIOUS
<1>1. ASSUME NEW h \in Handlers, Look(h) \/ Respond(h) \/ Die(h) PROVE Inv'
  BY <1>1, LookInv, RespondInv, DieInv
<1>2. ASSUME NEW h \in Handlers, NEW r \in Rows, WriteOne(h, r) PROVE Inv'
  BY <1>2, WriteOneInv
<1>3. ASSUME NEW h \in Handlers, NEW p \in Pages, Recheck(p, h) \/ CheckMore(p, h) PROVE Inv'
  BY <1>3, RecheckInv, CheckMoreInv
<1>4. ASSUME NEW p \in Pages, Disconnect(p) \/ Leave(p) PROVE Inv'
  BY <1>4, DisconnectInv
<1>5. ASSUME NEW r \in Rows, Come(r) \/ Go(r) PROVE Inv'
  BY <1>5, ComeInv, GoInv
<1>6. CASE Tick
  BY <1>6, TickInv
<1>7. CASE UNCHANGED vars
  <2>1. UNCHANGED <<clock, present, stamp, page, request>>
    BY <1>7 DEF vars
  <2>2. /\ page \in [Pages -> PageType]
        /\ request \in [Handlers -> {Free} \cup WalkRequest \cup OtherRequest]
    BY DEF Inv, Types
  <2> QED BY <2>1, <2>2, QuietInv
<1> QED BY <1>1, <1>2, <1>3, <1>4, <1>5, <1>6, <1>7 DEF Next

\* The invariant holds in every reachable state.
LEMMA InvHolds == Spec => []Inv
BY InitInv, NextInv, PTL DEF Spec

\* WalkCoversAll for every instance: a walk that says it is done owes no row of its
\* beginning an answer, except those it asked about and that failed.
THEOREM WalkIsComplete == Spec => []WalkCoversAll
<1>1. Inv => WalkCoversAll
  BY DEF Inv, Sound, Split, WalkCoversAll
<1> QED BY <1>1, InvHolds, PTL

\* AsksOnce for every instance: no tap of a walk asks about what the walk has tried.
THEOREM NoRowIsAskedTwice == Spec => AsksOnce
<1> DEFINE Once == \A h \in Handlers : Doing(h, "none") /\ request'[h].op = "all" =>
                     \A p \in request'[h].page : request'[h].due \cap page[p].walk.tried = {}
<1>1. ASSUME Inv, Next, NEW h \in Handlers, Doing(h, "none"), request'[h].op = "all",
             NEW p \in request'[h].page
      PROVE  request'[h].due \cap page[p].walk.tried = {}
  <2>1. Types
    BY <1>1 DEF Inv
  <2>2. PICK q \in Pages : Recheck(q, h)
    <3>1. ASSUME NEW k \in Handlers, Look(k) \/ Respond(k) \/ Die(k) PROVE FALSE
      BY <3>1, <1>1, <2>1 DEF Look, Respond, Die, Types, Doing, Free, Unasked
    <3>2. ASSUME NEW k \in Handlers, NEW r \in Rows, WriteOne(k, r) PROVE FALSE
      BY <3>2, <1>1 DEF WriteOne, Doing
    <3>3. ASSUME NEW k \in Handlers, NEW q \in Pages, CheckMore(q, k) PROVE FALSE
      BY <3>3, <1>1, <2>1 DEF CheckMore, Types, Doing
    <3>4. ASSUME NEW q \in Pages, Disconnect(q) \/ Leave(q) PROVE FALSE
      BY <3>4, <1>1 DEF Disconnect, Leave, Disconnected, Doing
    <3>5. ASSUME NEW r \in Rows, Come(r) \/ Go(r) PROVE FALSE
      BY <3>5, <1>1 DEF Come, Go, Doing
    <3>6. CASE Tick
      BY <3>6, <1>1 DEF Tick, Doing
    <3>7. ASSUME NEW k \in Handlers, NEW q \in Pages, Recheck(q, k), k # h PROVE FALSE
      BY <3>7, <1>1, <2>1 DEF Recheck, Types, Doing
    <3> QED BY <1>1, <3>1, <3>2, <3>3, <3>4, <3>5, <3>6, <3>7 DEF Next
  <2> DEFINE w == IF Walking(q) THEN page[q].walk
                  ELSE [NoWalk EXCEPT !.since = clock, !.owed = present]
  <2>3. p = q /\ request'[h].due = Selected(Read, w.since, w.after)
    BY <1>1, <2>1, <2>2 DEF Recheck, Types, Read
  <2>4. CASE Walking(q)
    <3>1. page[q].walk \in WalkType /\ Sound(page[q].walk, stamp, present)
      BY <1>1, <2>1 DEF Inv, Types, PageType
    <3>2. ~page[q].walk.done /\ page[q].walk.since # 0 /\ w = page[q].walk
      BY <2>2, <2>4 DEF Recheck, Walking
    <3>3. Selected(Read, page[q].walk.since, page[q].walk.after) \cap page[q].walk.tried = {}
      BY <2>1, <3>1, <3>2, TapKeepsSound
    <3> QED BY <2>3, <3>2, <3>3
  <2>5. CASE ~Walking(q)
    BY <1>1, <2>3, <2>5 DEF Inv, Sound, Walking
  <2> QED BY <2>4, <2>5
<1>2. Inv /\ [Next]_vars => [Once]_vars
  BY <1>1
<1> QED BY <1>2, InvHolds, PTL DEF Spec, AsksOnce
=============================================================================
