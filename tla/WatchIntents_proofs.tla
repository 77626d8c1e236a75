------------------------ MODULE WatchIntents_proofs ------------------------
(***************************************************************************)
(* Proofs about the titles and intents of a work, for any services, any    *)
(* number of requests at once and of any kinds, and any bounds.            *)
(*                                                                         *)
(* An index keeps a work to one waiting intent per title; that it waits    *)
(* once, whatever titles it has, rests on what each write looks at.        *)
(***************************************************************************)
EXTENDS WatchIntents, FiniteSetTheorems, TLAPS

\* No two of the intents `is` are waiting.
Single(is) ==
  \A i, j \in DOMAIN is : is[i].state = "waiting" /\ is[j].state = "waiting" => i = j

Types ==
  /\ titles \in Seq(Title) /\ Len(titles) <= MaxTitles
  /\ intents \in Seq(Intent) /\ Len(intents) <= MaxIntents
  /\ hidden \in BOOLEAN
  /\ suppressed \in BOOLEAN
  /\ handler \in [Handlers -> Request]
Inv == Types /\ Single(intents)

----------------------------------------------------------------------------
(* The operators                                                           *)

\* What a request holds, by its kind.
LEMMA RequestKinds ==
  ASSUME NEW q \in Request
  PROVE  /\ q.op = "auto" => q.route \in Routes
         /\ q.op \in {"close", "add", "promote"} => q.services \subseteq Services
         /\ q.op \in {"move", "drop", "absent", "undoGroup", "restore", "restored"}
              => q.at \in Places
         /\ q.op \in {"restore", "restored"}
              => q \in [op : {"restore", "restored"}, at : Places, duplicate : BOOLEAN]
BY DEF Request, Idle

\* The titles of a write: still titles, and no fewer.
LEMMA HomedType ==
  ASSUME NEW ts \in Seq(Title)
  PROVE  /\ Homed(ts) \in Seq(Title) /\ Homed(ts) # <<>>
         /\ Len(Homed(ts)) \in DOMAIN Homed(ts)
         /\ Last(Homed(ts)) = Homed(ts)[Len(Homed(ts))]
         /\ Last(Homed(ts)).state = "active"
         /\ Last(Homed(ts)) \in Title
<1>1. New("active") \in Title /\ New("active").state = "active"
  BY DEF New, Title
<1>2. CASE ts # <<>> /\ Last(ts).state = "active"
  BY <1>2 DEF Homed, Last
<1>3. CASE ~(ts # <<>> /\ Last(ts).state = "active")
  <2>1. Homed(ts) = Append(ts, New("active"))
    BY <1>3 DEF Homed
  <2> QED BY <1>1, <2>1 DEF Last
<1> QED BY <1>2, <1>3

\* The title an intent is put on exists.
LEMMA HousedType ==
  ASSUME NEW ts \in Seq(Title)
  PROVE  /\ Housed(ts) \in Seq(Title)
         /\ Len(Housed(ts)) \in Nat \ {0}
<1>1. New("removed") \in Title
  BY DEF New, Title
<1>2. CASE ts # <<>>
  BY <1>2 DEF Housed
<1>3. CASE ts = <<>>
  BY <1>1, <1>3 DEF Housed
<1> QED BY <1>2, <1>3

\* What is made of one title, whatever its place.
LEMMA ChangedType ==
  ASSUME NEW ts \in Seq(Title), NEW i, NEW t, i \in DOMAIN ts => t \in Title
  PROVE  /\ [ts EXCEPT ![i] = t] \in Seq(Title)
         /\ Len([ts EXCEPT ![i] = t]) = Len(ts)
<1>1. CASE i \in DOMAIN ts
  BY <1>1
<1>2. CASE i \notin DOMAIN ts
  <2>1. [ts EXCEPT ![i] = t] = ts
    BY <1>2
  <2> QED BY <2>1
<1> QED BY <1>1, <1>2

\* After the intents of a work are satisfied none waits.
LEMMA SatisfiedType ==
  ASSUME NEW is \in Seq(Intent)
  PROVE  /\ Satisfied(is) \in Seq(Intent) /\ Len(Satisfied(is)) = Len(is)
         /\ \A i \in DOMAIN Satisfied(is) : Satisfied(is)[i].state = "satisfied"
         /\ Single(Satisfied(is))
<1>0. \A x \in Intent : /\ [x EXCEPT !.state = "satisfied"] \in Intent
                       /\ [x EXCEPT !.state = "satisfied"].state = "satisfied"
  BY DEF Intent
<1>1. \A i \in DOMAIN is : /\ [is[i] EXCEPT !.state = "satisfied"] \in Intent
                          /\ [is[i] EXCEPT !.state = "satisfied"].state = "satisfied"
  BY <1>0
<1>2. Satisfied(is) \in Seq(Intent) /\ Len(Satisfied(is)) = Len(is)
  BY <1>1 DEF Satisfied
<1>3. \A i \in DOMAIN Satisfied(is) : Satisfied(is)[i].state = "satisfied"
  BY <1>1 DEF Satisfied
<1> QED BY <1>2, <1>3 DEF Single

\* An intent is opened where none is waiting.
LEMMA OpenedType ==
  ASSUME NEW is \in Seq(Intent), NEW t \in 1..MaxTitles,
         \A i \in DOMAIN is : is[i].state # "waiting"
  PROVE  Opened(is, t) \in Seq(Intent) /\ Single(Opened(is, t))
<1>1. [title |-> t, state |-> "waiting"] \in Intent
  BY DEF Intent
<1> QED BY <1>1 DEF Opened, Single

\* A title that loses, gains or re-derives listings is a title.
LEMMA TitleChanges ==
  ASSUME NEW t \in Title, NEW S \in SUBSET Listing
  PROVE  /\ Rederived(t) \in Title
         /\ ToOff(t, S) \in Title /\ ToHeld(t, S) \in Title
         /\ FromOff(t, S) \in Title /\ FromHeld(t, S) \in Title
         /\ \A b \in BOOLEAN : Settled(t, b) \in Title
BY DEF Rederived, Settled, ToOff, ToHeld, FromOff, FromHeld, Title

\* A title that is given listings has them, and keeps its state.
LEMMA AddedType ==
  ASSUME NEW t \in Title, NEW S \in SUBSET Services
  PROVE  /\ Added(t, S) \in Title
         /\ Added(t, S).state = t.state
         /\ S # {} => Added(t, S).on # {}
         /\ S # {} => Added(t, S \ On(t)).on # {}
<1>1. ASSUME NEW R \in SUBSET Services, R # {}
      PROVE  /\ Added(t, R) \in Title
             /\ Added(t, R).state = t.state
             /\ Added(t, R).on # {}
  <2>1. R \X {t.made + 1} \subseteq Listing
    BY DEF Title, Listing
  <2>2. R \X {t.made + 1} # {}
    <3>1. PICK s \in R : TRUE
      BY <1>1
    <3>2. <<s, t.made + 1>> \in R \X {t.made + 1}
      BY <3>1
    <3> QED BY <3>2
  <2> DEFINE new == t.on \cup (R \X {t.made + 1})
  <2>3. new \in SUBSET Listing /\ new # {}
    BY <2>1, <2>2 DEF Title
  <2>4. Added(t, R) = [t EXCEPT !.on = new, !.made = @ + 1]
    BY <1>1 DEF Added
  <2> HIDE DEF new
  <2>5. t.made + 1 \in Nat
    BY DEF Title
  <2>6. [t EXCEPT !.on = new, !.made = @ + 1] \in Title
    BY <2>3, <2>5 DEF Title
  <2>7. /\ [t EXCEPT !.on = new, !.made = @ + 1].state = t.state
        /\ [t EXCEPT !.on = new, !.made = @ + 1].on = new
    BY DEF Title
  <2> QED BY <2>3, <2>4, <2>6, <2>7
<1>2. Added(t, {}) = t
  BY DEF Added
<1>3. ASSUME S # {}, S \subseteq On(t) PROVE t.on # {}
  BY <1>3 DEF On
<1>4. S \ On(t) \in SUBSET Services
  OBVIOUS
<1>5. Added(t, S) \in Title /\ Added(t, S).state = t.state /\ (S # {} => Added(t, S).on # {})
  BY <1>1, <1>2
<1>6. S # {} => Added(t, S \ On(t)).on # {}
  <2>1. CASE S \ On(t) = {}
    BY <1>2, <1>3, <2>1
  <2>2. CASE S \ On(t) # {}
    BY <1>1, <1>4, <2>2
  <2> QED BY <2>1, <2>2
<1> QED BY <1>5, <1>6

\* A listing taken off leaves as many titles.
LEMMA DroppedType ==
  ASSUME titles \in Seq(Title), NEW p \in Places
  PROVE  Dropped(p) \in Seq(Title) /\ Len(Dropped(p)) = Len(titles)
<1> DEFINE t == titles[p.title]
           u == Rederived(ToOff(t, p.listings \cap t.on))
<1>1. p.listings \cap t.on \in SUBSET Listing
  BY DEF Places
<1>2. Dropped(p) = [titles EXCEPT ![p.title] = u]
  BY DEF Dropped
<1>3. p.title \in DOMAIN titles => u \in Title
  <2> SUFFICES ASSUME t \in Title PROVE u \in Title
    OBVIOUS
  <2> HIDE DEF t
  <2> QED BY <1>1, TitleChanges
<1> HIDE DEF u
<1> QED BY <1>2, <1>3, ChangedType

----------------------------------------------------------------------------
(* The close of an auto-detect batch                                       *)

AnyIntent == [title : Nat, state : {"waiting", "satisfied"}]
Accs == [titles : Seq(Title), intents : Seq(AnyIntent),
         seen : Nat, listed : BOOLEAN, waiting : BOOLEAN, lists : BOOLEAN]

\* What holds of a close part-way: it knows of an intent that waits, and it has
\* opened none beside one.
Good(acc) ==
  /\ acc \in Accs
  /\ Len(acc.titles) <= MaxTitles => acc.intents \in Seq(Intent)
  /\ Single(acc.intents)
  /\ ~acc.waiting => \A i \in DOMAIN acc.intents : acc.intents[i].state # "waiting"

\* What a close sees of the work before its first reading.
LEMMA BeforeGood ==
  ASSUME Inv
  PROVE  Good(Before)
<1>1. Listed \in BOOLEAN /\ (Waiting # {}) \in BOOLEAN
  BY DEF Listed
<1>2. intents \in Seq(AnyIntent)
  <2>1. Intent \subseteq AnyIntent
    BY DEF Intent, AnyIntent
  <2>2. intents \in Seq(Intent)
    BY DEF Inv, Types
  <2>3. \A i \in DOMAIN intents : intents[i] \in AnyIntent
    BY <2>1, <2>2
  <2> QED BY <2>2, <2>3
<1>3. Before \in Accs
  BY <1>1, <1>2 DEF Before, Accs, Inv, Types
<1>4. Before.titles = titles /\ Before.intents = intents /\ Before.waiting = (Waiting # {})
  BY DEF Before
<1> QED BY <1>3, <1>4 DEF Good, Inv, Types, Waiting

\* A reading sent to the waiting view opens an intent only where none waits.
LEMMA ToWaitingGood ==
  ASSUME NEW acc, Good(acc)
  PROVE  /\ Good(ToWaiting(acc))
         /\ Len(ToWaiting(acc).titles) >= Len(acc.titles)
<1>1. CASE acc.seen # 0 \/ acc.listed \/ acc.waiting
  BY <1>1 DEF ToWaiting, Good, Accs
<1>2. CASE ~(acc.seen # 0 \/ acc.listed \/ acc.waiting)
  <2> DEFINE ts == Housed(acc.titles)
             is == Opened(acc.intents, Len(ts))
             new == [title |-> Len(ts), state |-> "waiting"]
             out == ToWaiting(acc)
  <2>1. /\ acc.titles \in Seq(Title)
        /\ acc.intents \in Seq(AnyIntent)
    BY DEF Good, Accs
  <2>2. ts \in Seq(Title) /\ Len(ts) \in Nat \ {0} /\ Len(ts) >= Len(acc.titles)
    <3>1. Len(ts) >= Len(acc.titles)
      BY <2>1 DEF Housed
    <3> QED BY <2>1, <3>1, HousedType
  <2> HIDE DEF ts
  <2>3. is \in Seq(AnyIntent)
    BY <2>1, <2>2 DEF Opened, AnyIntent
  <2>4. out = [acc EXCEPT !.titles = ts, !.intents = is, !.seen = Len(ts), !.waiting = TRUE]
    BY <1>2 DEF ToWaiting, ts
  <2>5. Len(ts) <= MaxTitles => is \in Seq(Intent)
    <3> SUFFICES ASSUME Len(ts) <= MaxTitles PROVE is \in Seq(Intent)
      OBVIOUS
    <3>1. new \in Intent
      BY <2>2, BoundsAssumption DEF Intent
    <3>2. acc.intents \in Seq(Intent)
      BY <2>1, <2>2, BoundsAssumption DEF Good
    <3> QED BY <3>1, <3>2 DEF Opened
  <2>6. Single(is)
    BY <1>2, <2>1 DEF Good, Single, Opened
  <2> HIDE DEF is
  <2>7. out \in Accs /\ out.titles = ts /\ out.intents = is /\ out.waiting = TRUE
    BY <2>2, <2>3, <2>4 DEF Good, Accs
  <2> QED BY <2>2, <2>5, <2>6, <2>7 DEF Good
<1> QED BY <1>1, <1>2

\* A reading sent to services satisfies whatever waits.
LEMMA ToServicesGood ==
  ASSUME NEW acc, Good(acc), NEW d \in SUBSET Services
  PROVE  /\ Good(ToServices(acc, d))
         /\ Len(ToServices(acc, d).titles) >= Len(acc.titles)
         /\ ToServices(acc, d).lists = TRUE
<1> DEFINE ts == IF acc.seen # 0 THEN acc.titles ELSE Homed(acc.titles)
           i  == IF acc.seen # 0 THEN acc.seen ELSE Len(ts)
           u  == Added(ts[i], d \ On(ts[i]))
           us == [ts EXCEPT ![i] = u]
           out == ToServices(acc, d)
<1>1. /\ acc.titles \in Seq(Title) /\ acc.seen \in Nat
      /\ acc.intents \in Seq(AnyIntent)
  BY DEF Good, Accs
<1>2. ts \in Seq(Title) /\ Len(ts) \in Nat /\ Len(ts) >= Len(acc.titles) /\ i \in Nat
  <2>1. Homed(acc.titles) \in Seq(Title) /\ Len(Homed(acc.titles)) >= Len(acc.titles)
    BY <1>1, HomedType DEF Homed
  <2> QED BY <1>1, <2>1
<1> HIDE DEF ts, i
<1>3. us \in Seq(Title) /\ Len(us) = Len(ts)
  <2>1. i \in DOMAIN ts => u \in Title
    BY <1>2, AddedType
  <2> HIDE DEF u
  <2> QED BY <1>2, <2>1, ChangedType
<1>4. out = [acc EXCEPT !.titles = us, !.seen = i, !.listed = TRUE, !.lists = TRUE]
  BY DEF ToServices, ts, i
<1> HIDE DEF us
<1>5. /\ out \in Accs /\ out.titles = us /\ out.intents = acc.intents
      /\ out.waiting = acc.waiting /\ out.lists = TRUE
  BY <1>1, <1>2, <1>3, <1>4 DEF Good, Accs
<1> QED BY <1>1, <1>2, <1>3, <1>5, BoundsAssumption DEF Good

\* A route has one or two destinations.
LEMMA RouteLengths ==
  ASSUME NEW route \in Routes
  PROVE  /\ Len(route) \in {1, 2}
         /\ route[1] \in SUBSET Services
         /\ Len(route) = 2 => route[2] \in SUBSET Services
BY DEF Routes, Destinations

\* All readings of an auto-detect close.
LEMMA PlacedGood ==
  ASSUME Inv, NEW route \in Routes
  PROVE  Good(Placed(route))
<1>1. \A acc, d : Good(acc) /\ d \in SUBSET Services => Good(Place(acc, d))
  BY ToWaitingGood, ToServicesGood DEF Place
<1> QED BY <1>1, BeforeGood, RouteLengths DEF Placed

----------------------------------------------------------------------------
(* The actions                                                             *)

\* What a handler is about stays a request.
LEMMA AnswerType ==
  ASSUME Types, NEW h \in Handlers, NEW q \in Request, handler' = [handler EXCEPT ![h] = q]
  PROVE  handler' \in [Handlers -> Request]
BY DEF Types

\* A handler may end, or have the intents left to satisfy.
LEMMA IdleRequest == Idle \in Request /\ [op |-> "graduate"] \in Request
BY DEF Idle, Request

\* A write keeps the invariant if the rows it stores are rows, one intent of them
\* waiting at most.
LEMMA StoreInv ==
  ASSUME Inv, NEW ts, NEW is, Store(ts, is), ts \in Seq(Title), Single(is),
         Len(ts) <= MaxTitles => is \in Seq(Intent),
         hidden' \in BOOLEAN, suppressed' \in BOOLEAN,
         handler' \in [Handlers -> Request]
  PROVE  Inv'
BY DEF Inv, Types, Store

\* An empty list is well formed.
LEMMA InitInv == Init => Inv
<1> SUFFICES ASSUME Init PROVE Inv
  OBVIOUS
<1>1. /\ titles \in Seq(Title) /\ intents \in Seq(Intent)
      /\ Len(titles) = 0 /\ Len(intents) = 0 /\ DOMAIN intents = {}
  BY DEF Init
<1>2. hidden = FALSE /\ suppressed = FALSE /\ handler = [h \in Handlers |-> Idle]
  BY DEF Init
<1>3. handler \in [Handlers -> Request]
  BY <1>2, IdleRequest
<1>4. Single(intents)
  BY <1>1 DEF Single
<1>5. Len(titles) <= MaxTitles /\ Len(intents) <= MaxIntents
  BY <1>1, BoundsAssumption
<1> QED BY <1>1, <1>2, <1>3, <1>4, <1>5 DEF Inv, Types

\* A read writes nothing.
LEMMA AskInv ==
  ASSUME Inv, NEW h \in Handlers, NEW kind, NEW q \in Request, Ask(h, kind, q)
  PROVE  Inv'
BY DEF Ask, Inv, Types

\* What a read may ask for.
Fresh(q) ==
  /\ q.op \notin {"none", "restored", "graduate"}
  /\ q.op \in {"close", "promote"} => q.services # {}
  /\ q.op = "restore" => q.at.title \in DOMAIN titles /\ q.at.listings # {}
  /\ q.op = "unhide" => Listed

\* Every read that lets a request in is an Ask, of a request such as Fresh says.
LEMMA ReadAsks ==
  ASSUME Inv, NEW h \in Handlers, Read(h)
  PROVE  \E q \in Request, kind \in Asked : Ask(h, kind, q) /\ Fresh(q)
<1> DEFINE Asks(q) == q \in Request /\ Fresh(q)
           Goal == \E q, kind : Ask(h, kind, q) /\ Asks(q)
<1>1. ASSUME WaitRead(h) \/ TrackRead(h) PROVE Goal
  <2>1. Asks([op |-> "wait"])
    BY DEF Request, Fresh
  <2> QED BY <1>1, <2>1 DEF WaitRead, TrackRead
<1>2. ASSUME DiscoverRead(h) PROVE Goal
  <2>1. \A op \in {"discover", "discard"} : Asks([op |-> op])
    BY DEF Request, Fresh
  <2> QED BY <1>2, <2>1 DEF DiscoverRead
<1>3. ASSUME NEW route \in Routes, AutoRead(h, route) PROVE Goal
  <2>1. Asks([op |-> "auto", route |-> route])
    BY DEF Request, Fresh
  <2> QED BY <1>3, <2>1 DEF AutoRead
<1>4. ASSUME NEW services \in SUBSET Services, AddRead(h, services) PROVE Goal
  <2>1. Asks([op |-> "add", services |-> services])
    BY DEF Request, Fresh
  <2> QED BY <1>4, <2>1 DEF AddRead
<1>5. ASSUME NEW s \in Services, CloseRead(h, s) \/ PromoteRead(h, s) PROVE Goal
  <2>1. \A op \in {"close", "promote"} : Asks([op |-> op, services |-> {s}])
    BY DEF Request, Fresh
  <2> QED BY <1>5, <2>1 DEF CloseRead, PromoteRead
<1>6. ASSUME NEW i \in DOMAIN titles PROVE titles[i] \in Title /\ i \in 1..MaxTitles
  BY BoundsAssumption DEF Inv, Types
<1>7. ASSUME NEW i \in DOMAIN titles, MoveRead(h, i) PROVE Goal
  <2>1. [title |-> i, listings |-> titles[i].on] \in Places
    BY <1>6 DEF Places, Title
  <2>2. Asks([op |-> "move", at |-> [title |-> i, listings |-> titles[i].on]])
    BY <2>1 DEF Request, Fresh
  <2> QED BY <1>7, <2>2 DEF MoveRead
<1>8. ASSUME NEW i \in DOMAIN titles, NEW hide \in BOOLEAN, HideRead(h, i, hide) PROVE Goal
  <2>1. Asks([op |-> IF hide THEN "hide" ELSE "unhide"])
    BY <1>8 DEF Request, Fresh, HideRead
  <2> QED BY <1>8, <2>1 DEF HideRead
<1>9. ASSUME NEW i \in DOMAIN titles, NEW ls \in SUBSET titles[i].on, DropRead(h, i, ls)
      PROVE  Goal
  <2>1. [title |-> i, listings |-> ls] \in Places
    BY <1>6 DEF Places, Title
  <2>2. Asks([op |-> "drop", at |-> [title |-> i, listings |-> ls]])
    BY <2>1 DEF Request, Fresh
  <2> QED BY <1>9, <2>2 DEF DropRead
<1> DEFINE AnyOf(i) == titles[i].on \cup titles[i].off \cup titles[i].held
<1>10. ASSUME NEW i \in DOMAIN titles, NEW l \in AnyOf(i)
       PROVE  [title |-> i, listings |-> {l}] \in Places
  BY <1>6 DEF Places, Title
<1>11. ASSUME NEW i \in DOMAIN titles, NEW l \in AnyOf(i),
              AbsentRead(h, i, l) \/ UndoGroupRead(h, i, l)
       PROVE  Goal
  <2>1. \A op \in {"absent", "undoGroup"} :
          Asks([op |-> op, at |-> [title |-> i, listings |-> {l}]])
    BY <1>10 DEF Request, Fresh
  <2> QED BY <1>11, <2>1 DEF AbsentRead, UndoGroupRead
<1>12. ASSUME NEW i \in DOMAIN titles, NEW l \in AnyOf(i), NEW c \in BOOLEAN,
              RestoreRead(h, i, l, c)
       PROVE  Goal
  <2>1. Asks([op |-> "restore", at |-> [title |-> i, listings |-> {l}],
              duplicate |-> Active(titles) # {}])
    BY <1>10 DEF Request, Fresh
  <2> QED BY <1>12, <2>1 DEF RestoreRead
<1> HIDE DEF Asks
<1>13. Goal
  BY <1>1, <1>2, <1>3, <1>4, <1>5, <1>7, <1>8, <1>9, <1>11, <1>12 DEF Read
<1> QED BY <1>13 DEF Ask, Asks

\* A read changes no row.
LEMMA ReadInv ==
  ASSUME Inv, NEW h \in Handlers, Read(h)
  PROVE  Inv'
BY ReadAsks, AskInv

\* An intent opened where the work waits for nothing.
LEMMA OpenInv ==
  ASSUME Inv, NEW h \in Handlers, WaitWrite(h) \/ DiscoverWrite(h)
  PROVE  Inv'
<1> DEFINE ts == Housed(titles)
           is == Opened(intents, Len(ts))
<1>1. titles \in Seq(Title) /\ intents \in Seq(Intent) /\ Types
  BY DEF Inv, Types
<1>2. ts \in Seq(Title) /\ Len(ts) \in Nat \ {0}
  BY <1>1, HousedType
<1> HIDE DEF ts
<1>3. Store(ts, is) /\ Waiting = {} /\ UNCHANGED <<hidden, suppressed>> /\ Answer(h)
  BY DEF WaitWrite, DiscoverWrite, ts
<1>4. \A i \in DOMAIN intents : intents[i].state # "waiting"
  BY <1>3 DEF Waiting
<1>5. Len(ts) <= MaxTitles
  BY <1>3 DEF Store
<1>6. is \in Seq(Intent) /\ Single(is)
  BY <1>1, <1>2, <1>4, <1>5, OpenedType, BoundsAssumption
<1> HIDE DEF is
<1>7. handler' \in [Handlers -> Request]
  BY <1>1, <1>3, AnswerType, IdleRequest DEF Answer
<1> QED BY <1>1, <1>2, <1>3, <1>6, <1>7, StoreInv DEF Types

\* A move looks again at what waits, in its transaction, before it opens an intent.
LEMMA MoveInv ==
  ASSUME Inv, NEW h \in Handlers, MoveWrite(h)
  PROVE  Inv'
<1> DEFINE p == handler[h].at
           is == IF Waiting = {} THEN Opened(intents, p.title) ELSE intents
<1>1. /\ titles \in Seq(Title) /\ intents \in Seq(Intent) /\ Types /\ Single(intents)
      /\ handler[h] \in Request /\ handler[h].op = "move"
  BY DEF Inv, Types, MoveWrite, Doing
<1>2. p \in Places /\ p.title \in 1..MaxTitles
  BY <1>1, RequestKinds DEF Places
<1> HIDE DEF p
<1>3. Store(Dropped(p), is) /\ UNCHANGED <<hidden, suppressed>> /\ Answer(h)
  BY DEF MoveWrite, p
<1>4. Dropped(p) \in Seq(Title)
  BY <1>1, <1>2, DroppedType
<1>5. is \in Seq(Intent) /\ Single(is)
  <2>1. CASE Waiting = {}
    BY <1>1, <1>2, <2>1, OpenedType DEF Waiting
  <2>2. CASE Waiting # {}
    BY <1>1, <2>2
  <2> QED BY <2>1, <2>2
<1> HIDE DEF is
<1>6. handler' \in [Handlers -> Request]
  BY <1>1, <1>3, AnswerType, IdleRequest DEF Answer
<1> QED BY <1>1, <1>3, <1>4, <1>5, <1>6, StoreInv DEF Types

\* Listing the work: no intent is left waiting.
LEMMA ListInv ==
  ASSUME Inv, NEW services \in SUBSET Services, List(services),
         hidden' \in BOOLEAN, suppressed' \in BOOLEAN, handler' \in [Handlers -> Request]
  PROVE  Inv'
<1> DEFINE ts == Homed(titles)
           u  == Added(ts[Len(ts)], services)
           us == [ts EXCEPT ![Len(ts)] = u]
<1>1. titles \in Seq(Title) /\ intents \in Seq(Intent)
  BY DEF Inv, Types
<1>2. ts \in Seq(Title) /\ ts[Len(ts)] \in Title
  BY <1>1, HomedType
<1> HIDE DEF ts
<1>3. us \in Seq(Title)
  <2>1. u \in Title
    BY <1>2, AddedType
  <2> HIDE DEF u
  <2> QED BY <1>2, <2>1, ChangedType
<1>4. Store(us, Satisfied(intents))
  BY DEF List, ts
<1> HIDE DEF us
<1> QED BY <1>1, <1>3, <1>4, SatisfiedType, StoreInv

\* A close, an add and a promotion list the work.
LEMMA ListingInv ==
  ASSUME Inv, NEW h \in Handlers, CloseWrite(h) \/ AddWrite(h) \/ PromoteWrite(h)
  PROVE  Inv'
<1>1. Types /\ handler[h] \in Request /\ handler[h].op \in {"close", "add", "promote"}
  BY DEF Inv, Types, CloseWrite, AddWrite, PromoteWrite, Doing
<1>2. handler[h].services \subseteq Services
  BY <1>1, RequestKinds
<1>3. PICK services \in SUBSET handler[h].services : List(services)
  BY DEF CloseWrite, AddWrite, PromoteWrite
<1>4. Answer(h) /\ hidden' \in {hidden, FALSE} /\ suppressed' = suppressed
  BY DEF CloseWrite, AddWrite, PromoteWrite
<1>5. handler' \in [Handlers -> Request]
  BY <1>1, <1>4, AnswerType, IdleRequest DEF Answer
<1> QED BY <1>1, <1>2, <1>3, <1>4, <1>5, ListInv DEF Types

\* The close of an auto-detect batch.
LEMMA AutoInv ==
  ASSUME Inv, NEW h \in Handlers, AutoWrite(h)
  PROVE  Inv'
<1> DEFINE acc == Placed(handler[h].route)
<1>1. Types /\ handler[h] \in Request /\ handler[h].op = "auto"
  BY DEF Inv, Types, AutoWrite, Doing
<1>2. Good(acc)
  BY <1>1, RequestKinds, PlacedGood
<1> HIDE DEF acc
<1>3. Store(acc.titles, Graduated(acc)) /\ Answer(h) /\ UNCHANGED <<hidden, suppressed>>
  BY DEF AutoWrite, acc
<1>4. acc.titles \in Seq(Title) /\ (Len(acc.titles) <= MaxTitles => acc.intents \in Seq(Intent))
  BY <1>2 DEF Good, Accs
<1>5. Len(acc.titles) <= MaxTitles
  BY <1>3 DEF Store
<1>6. Graduated(acc) \in Seq(Intent) /\ Single(Graduated(acc))
  BY <1>2, <1>4, <1>5, SatisfiedType DEF Graduated, Good
<1>7. handler' \in [Handlers -> Request]
  BY <1>1, <1>3, AnswerType, IdleRequest DEF Answer
<1> QED BY <1>1, <1>3, <1>4, <1>6, <1>7, StoreInv DEF Types

\* The writes that change one title and no intent.
LEMMA ChangeInv ==
  ASSUME Inv, NEW ts \in Seq(Title), Store(ts, intents), UNCHANGED <<hidden, suppressed>>,
         handler' \in [Handlers -> Request]
  PROVE  Inv'
BY StoreInv DEF Inv, Types

\* Listings taken off or brought back touch no intent.
LEMMA RemovalInv ==
  ASSUME Inv, NEW h \in Handlers,
         \/ DropWrite(h) \/ AbsentWrite(h) \/ UndoGroupWrite(h)
         \/ RestoreListing(h) \/ RestoreTitle(h)
  PROVE  Inv'
<1> DEFINE p == handler[h].at
           t == titles[p.title]
<1>1. /\ Types /\ titles \in Seq(Title) /\ handler[h] \in Request
      /\ handler[h].op \in {"drop", "absent", "undoGroup", "restore", "restored"}
  BY DEF Inv, Types, DropWrite, AbsentWrite, UndoGroupWrite, RestoreListing, RestoreTitle, Doing
<1>2. p \in Places /\ p.listings \subseteq Listing
  BY <1>1, RequestKinds DEF Places
<1>3. ASSUME t \in Title
      PROVE  /\ Rederived(ToHeld(t, p.listings)) \in Title
             /\ Rederived(FromHeld(t, p.listings)) \in Title
             /\ FromOff(t, p.listings) \in Title /\ FromHeld(t, p.listings) \in Title
             /\ \A b \in BOOLEAN : Settled(t, b) \in Title
  <2> HIDE DEF t, p
  <2> QED BY <1>2, <1>3, TitleChanges
<1>4. p.title \in DOMAIN titles => t \in Title
  BY <1>1
<1>5. /\ [titles EXCEPT ![p.title] = Rederived(ToHeld(t, p.listings))] \in Seq(Title)
      /\ [titles EXCEPT ![p.title] = Rederived(FromHeld(t, p.listings))] \in Seq(Title)
      /\ [titles EXCEPT ![p.title] = FromOff(t, p.listings)] \in Seq(Title)
      /\ [titles EXCEPT ![p.title] = FromHeld(t, p.listings)] \in Seq(Title)
      /\ \A b \in BOOLEAN : [titles EXCEPT ![p.title] = Settled(t, b)] \in Seq(Title)
  <2> HIDE DEF t, p
  <2> QED BY <1>1, <1>3, <1>4, ChangedType
<1>6. Answer(h) => handler' \in [Handlers -> Request]
  BY <1>1, AnswerType, IdleRequest DEF Answer
<1>7. CASE DropWrite(h)
  BY <1>1, <1>2, <1>6, <1>7, DroppedType, ChangeInv DEF DropWrite
<1>8. CASE AbsentWrite(h)
  BY <1>5, <1>6, <1>8, ChangeInv DEF AbsentWrite
<1>9. CASE UndoGroupWrite(h)
  BY <1>5, <1>6, <1>9, ChangeInv DEF UndoGroupWrite
<1>10. CASE RestoreListing(h)
  <2>1. [handler[h] EXCEPT !.op = "restored"] \in Request
    <3>1. handler[h] \in [op : {"restore", "restored"}, at : Places, duplicate : BOOLEAN]
      BY <1>1, <1>10, RequestKinds DEF RestoreListing, Doing
    <3>2. [handler[h] EXCEPT !.op = "restored"]
            \in [op : {"restore", "restored"}, at : Places, duplicate : BOOLEAN]
      BY <3>1
    <3> QED BY <3>2 DEF Request
  <2>2. handler' \in [Handlers -> Request]
    BY <1>1, <1>10, <2>1, AnswerType DEF RestoreListing
  <2>3. UNCHANGED <<hidden, suppressed>>
    BY <1>10 DEF RestoreListing
  <2>4. \/ Store([titles EXCEPT ![p.title] = FromOff(t, p.listings)], intents)
        \/ Store([titles EXCEPT ![p.title] = FromHeld(t, p.listings)], intents)
    BY <1>10 DEF RestoreListing
  <2> HIDE DEF t, p
  <2> QED BY <1>5, <2>2, <2>3, <2>4, ChangeInv
<1>11. CASE RestoreTitle(h)
  <2>1. handler[h].duplicate \in BOOLEAN
    BY <1>1, <1>11, RequestKinds DEF RestoreTitle, Doing
  <2>2. handler' \in [Handlers -> Request]
    BY <1>1, <1>11, IdleRequest, AnswerType DEF RestoreTitle
  <2>3. Store([titles EXCEPT ![p.title] = Settled(t, handler[h].duplicate)], intents)
        /\ UNCHANGED <<hidden, suppressed>>
    BY <1>11 DEF RestoreTitle
  <2> HIDE DEF t, p
  <2> QED BY <1>5, <2>1, <2>2, <2>3, ChangeInv
<1> QED BY <1>7, <1>8, <1>9, <1>10, <1>11

\* The writes that change no title.
LEMMA OtherInv ==
  ASSUME Inv, NEW h \in Handlers,
         \/ DiscardWrite(h) \/ HideWrite(h) \/ UnhideWrite(h) \/ Graduate(h)
         \/ Suppress(h) \/ Unsuppress(h) \/ Refuse(h)
  PROVE  Inv'
<1>1. Types /\ titles \in Seq(Title) /\ intents \in Seq(Intent)
  BY DEF Inv, Types
<1>2. handler' \in [Handlers -> Request]
  BY <1>1, IdleRequest DEF Types, DiscardWrite, HideWrite, UnhideWrite, Graduate,
                           Suppress, Unsuppress, Refuse, Answer
<1>3. hidden' \in BOOLEAN /\ suppressed' \in BOOLEAN
  BY <1>1 DEF Types, DiscardWrite, HideWrite, UnhideWrite, Graduate, Suppress, Unsuppress, Refuse
<1>4. CASE Graduate(h)
  BY <1>1, <1>2, <1>3, <1>4, SatisfiedType, StoreInv DEF Graduate
<1>5. CASE UNCHANGED <<titles, intents>>
  BY <1>1, <1>2, <1>3, <1>5 DEF Inv, Types
<1> QED BY <1>4, <1>5 DEF DiscardWrite, HideWrite, UnhideWrite, Suppress, Unsuppress, Refuse

\* Every step keeps the invariant.
LEMMA NextInv == Inv /\ [Next]_vars => Inv'
<1> SUFFICES ASSUME Inv, [Next]_vars PROVE Inv'
  OBVIOUS
<1>1. ASSUME NEW h \in Handlers,
             Read(h) \/ Write(h) \/ Suppress(h) \/ Unsuppress(h) \/ Refuse(h)
      PROVE  Inv'
  BY <1>1, ReadInv, OpenInv, MoveInv, ListingInv, AutoInv, RemovalInv, OtherInv DEF Write
<1>2. CASE UNCHANGED vars
  BY <1>2 DEF vars, Inv, Types
<1> QED BY <1>1, <1>2 DEF Next

\* The invariant holds in every reachable state.
LEMMA InvHolds == Spec => []Inv
BY InitInv, NextInv, PTL DEF Spec

----------------------------------------------------------------------------
(* The theorems                                                            *)

\* The rows and requests stay in their types.
THEOREM TypesHold == Spec => []TypeOK
<1>1. Inv => TypeOK
  BY DEF Inv, Types, TypeOK
<1> QED BY <1>1, InvHolds, PTL

\* OneIntentPerWork for every instance: no two intents of the work wait, on one title
\* or on two, whichever requests wrote between a request's gates and its write.
THEOREM WaitedForOnce == Spec => []OneIntentPerWork
<1>1. ASSUME Inv PROVE OneIntentPerWork
  <2>1. \A i, j \in Waiting : i = j
    BY <1>1 DEF Inv, Single, Waiting
  <2>2. CASE Waiting = {}
    BY <2>2, FS_EmptySet DEF OneIntentPerWork
  <2>3. CASE Waiting # {}
    <3>1. PICK i \in Waiting : Waiting = {i}
      BY <2>1, <2>3
    <3> QED BY <3>1, FS_Singleton DEF OneIntentPerWork
  <2> QED BY <2>2, <2>3
<1> QED BY <1>1, InvHolds, PTL

----------------------------------------------------------------------------
(* Titles and their listings, if a request whose writes look at nothing    *)
(* again is alone, and a close sends its readings one way                  *)

Follows(t) == t.state = "active" <=> t.on # {}
AllFollow(ts) == \A i \in DOMAIN ts : Follows(ts[i])

Alone ==
  \A h, k \in Handlers : handler[h].op \in Blind /\ k # h => handler[k].op = "none"

FollowInv ==
  /\ Inv
  /\ Alone
  /\ \A h \in Handlers : handler[h].op \in {"close", "promote"} => handler[h].services # {}
  /\ TitlesFollowListings

\* One title is changed into one that follows its listings.
LEMMA ChangeFollows ==
  ASSUME NEW ts \in Seq(Title), NEW i, NEW t,
         i \in DOMAIN ts => Follows(t),
         \A j \in DOMAIN ts : j # i => Follows(ts[j])
  PROVE  AllFollow([ts EXCEPT ![i] = t])
BY DEF AllFollow

\* A state derived from the listings follows them.
LEMMA RederivedFollows == \A t \in Title : Follows(Rederived(t)) /\ \A b : Follows(Settled(t, b))
BY DEF Rederived, Settled, Follows, Title

\* The home of a new listing is active, whether or not it had listings.
LEMMA HomedFollows ==
  ASSUME NEW ts \in Seq(Title), AllFollow(ts), NEW S \in SUBSET Services, S # {}
  PROVE  AllFollow([Homed(ts) EXCEPT ![Len(Homed(ts))] = Added(@, S)])
<1> DEFINE us == Homed(ts)
           t  == us[Len(us)]
           u  == Added(t, S)
<1>1. us \in Seq(Title) /\ t \in Title /\ t.state = "active"
  BY HomedType
<1>2. \A j \in DOMAIN us : j # Len(us) => Follows(us[j])
  BY DEF Homed, AllFollow
<1>3. Follows(u)
  BY <1>1, AddedType DEF Follows
<1> HIDE DEF us, u
<1>4. AllFollow([us EXCEPT ![Len(us)] = u])
  BY <1>1, <1>2, <1>3, ChangeFollows
<1> QED BY <1>4 DEF us, u

\* An intent's new title is removed and bare.
LEMMA HousedFollows ==
  ASSUME NEW ts \in Seq(Title), AllFollow(ts)
  PROVE  AllFollow(Housed(ts))
BY DEF Housed, AllFollow, Follows, New

\* The readings of a close that all go to services, or all to the waiting view.
LEMMA ServicesFollow ==
  ASSUME NEW acc \in Accs, AllFollow(acc.titles), NEW d \in SUBSET Services, d # {},
         acc.seen # 0 => acc.seen \in DOMAIN acc.titles /\ acc.titles[acc.seen].state = "active"
  PROVE  LET out == ToServices(acc, d) IN
         /\ out \in Accs /\ AllFollow(out.titles)
         /\ out.seen \in DOMAIN out.titles /\ out.titles[out.seen].state = "active"
<1> DEFINE ts == IF acc.seen # 0 THEN acc.titles ELSE Homed(acc.titles)
           i  == IF acc.seen # 0 THEN acc.seen ELSE Len(ts)
           t  == ts[i]
           u  == Added(t, d \ On(t))
           us == [ts EXCEPT ![i] = u]
           out == ToServices(acc, d)
<1>1. acc.titles \in Seq(Title) /\ acc.seen \in Nat
  BY DEF Accs
<1>2. ts \in Seq(Title) /\ i \in DOMAIN ts /\ t.state = "active" /\ i \in Nat
  BY <1>1, HomedType
<1>3. t \in Title
  BY <1>2
<1>4. \A j \in DOMAIN ts : j # i => Follows(ts[j])
  BY <1>1 DEF AllFollow, Homed
<1>5. Follows(u) /\ u \in Title /\ u.state = "active"
  BY <1>2, <1>3, AddedType DEF Follows
<1>6. out = [acc EXCEPT !.titles = us, !.seen = i, !.listed = TRUE, !.lists = TRUE]
  BY DEF ToServices
<1> HIDE DEF ts, i, t, u
<1>7. us \in Seq(Title) /\ AllFollow(us) /\ i \in DOMAIN us /\ us[i] = u
  BY <1>2, <1>4, <1>5, ChangeFollows, ChangedType
<1> HIDE DEF us
<1>8. out \in Accs /\ out.titles = us /\ out.seen = i
  BY <1>2, <1>6, <1>7 DEF Accs
<1> QED BY <1>5, <1>7, <1>8

\* A title made for an intent is removed and has no listing.
LEMMA WaitingFollows ==
  ASSUME NEW acc \in Accs, AllFollow(acc.titles)
  PROVE  ToWaiting(acc) \in Accs /\ AllFollow(ToWaiting(acc).titles)
<1>1. CASE acc.seen # 0 \/ acc.listed \/ acc.waiting
  BY <1>1 DEF ToWaiting
<1>2. CASE ~(acc.seen # 0 \/ acc.listed \/ acc.waiting)
  <2> DEFINE ts == Housed(acc.titles)
             is == Opened(acc.intents, Len(ts))
  <2>1. ts \in Seq(Title) /\ Len(ts) \in Nat /\ AllFollow(ts)
    BY HousedType, HousedFollows DEF Accs
  <2>2. ToWaiting(acc) = [acc EXCEPT !.titles = ts, !.intents = is, !.seen = Len(ts),
                                     !.waiting = TRUE]
    BY <1>2 DEF ToWaiting
  <2> HIDE DEF ts
  <2>3. is \in Seq(AnyIntent)
    BY <2>1 DEF Opened, Accs, AnyIntent
  <2> HIDE DEF is
  <2> QED BY <2>1, <2>2, <2>3 DEF Accs
<1> QED BY <1>1, <1>2

\* The readings of one close, all to services or all to the waiting view.
LEMMA PlacedFollows ==
  ASSUME Inv, AllFollow(titles), ~MixedRoutes, NEW route \in Routes
  PROVE  AllFollow(Placed(route).titles)
<1>1. Before \in Accs /\ Before.titles = titles /\ Before.seen = 0
  BY BeforeGood DEF Good, Before
<1>2. /\ Len(route) \in {1, 2} /\ route[1] \in SUBSET Services
      /\ Len(route) = 2 => route[2] \in SUBSET Services /\ (route[1] = {} <=> route[2] = {})
  BY RouteLengths DEF Routes, Destinations
<1> DEFINE first == Place(Before, route[1])
<1>3. CASE route[1] = {}
  <2>1. first \in Accs /\ AllFollow(first.titles)
    BY <1>1, <1>3, WaitingFollows DEF Place
  <2> HIDE DEF first
  <2>2. Len(route) = 2 => AllFollow(Place(first, route[2]).titles)
    BY <1>2, <1>3, <2>1, WaitingFollows DEF Place
  <2> QED BY <1>2, <2>1, <2>2 DEF Placed, first
<1>4. CASE route[1] # {}
  <2>1. /\ first \in Accs /\ AllFollow(first.titles)
        /\ first.seen \in DOMAIN first.titles /\ first.titles[first.seen].state = "active"
    BY <1>1, <1>2, <1>4, ServicesFollow DEF Place
  <2> HIDE DEF first
  <2>2. Len(route) = 2 => AllFollow(Place(first, route[2]).titles)
    BY <1>2, <1>4, <2>1, ServicesFollow DEF Place
  <2> QED BY <1>2, <2>1, <2>2 DEF Placed, first
<1> QED BY <1>3, <1>4

\* A handler that ends, or goes on to its next statement, leaves others as alone.
LEMMA AloneKept ==
  ASSUME Alone, Types, NEW h \in Handlers, NEW q, handler' = [handler EXCEPT ![h] = q],
         q.op \in Blind => handler[h].op \in Blind,
         q.op # "none" => handler[h].op # "none"
  PROVE  Alone'
BY DEF Alone, Types, Blind

\* What a handler of a close or a promotion lists is kept by the others' steps.
LEMMA FollowStep ==
  ASSUME FollowInv, Inv', NEW h \in Handlers, NEW q, handler' = [handler EXCEPT ![h] = q],
         q.op \in Blind => handler[h].op \in Blind,
         q.op # "none" => handler[h].op # "none",
         q.op \notin {"close", "promote"},
         TitlesFollowListings'
  PROVE  FollowInv'
<1>1. Types /\ Alone
  BY DEF FollowInv, Inv
<1>2. Alone'
  BY <1>1, AloneKept
<1>3. ASSUME NEW k \in Handlers, handler'[k].op \in {"close", "promote"}
      PROVE  handler'[k].services # {}
  BY <1>1, <1>3 DEF Types, FollowInv
<1> QED BY <1>2, <1>3 DEF FollowInv

\* While a request other than a restore is about to write, no restore is under way,
\* so every title follows its listings.
LEMMA NobodyRestores ==
  ASSUME FollowInv, NEW h \in Handlers, handler[h].op \notin {"none", "restored"}
  PROVE  AllFollow(titles)
<1>1. \A k \in Handlers : ~Doing(k, "restored")
  BY DEF FollowInv, Alone, Doing, Blind
<1> QED BY <1>1 DEF FollowInv, TitlesFollowListings, AllFollow, Follows

\* Titles that follow their listings do so also while a restore is under way.
LEMMA AllFollowSuffices == AllFollow(titles') => TitlesFollowListings'
BY DEF AllFollow, Follows, TitlesFollowListings

\* A blind request is let in only alone, and nothing is let in beside it.
LEMMA AskFollow ==
  ASSUME FollowInv, Inv', BlindAlone, NEW h \in Handlers, NEW kind, NEW q \in Request,
         Ask(h, kind, q), Fresh(q)
  PROVE  FollowInv'
<1>1. /\ handler \in [Handlers -> Request] /\ handler' = [handler EXCEPT ![h] = q]
      /\ UNCHANGED titles /\ Doing(h, "none")
  BY DEF Ask, FollowInv, Inv, Types
<1>2. \A k \in Handlers : handler[k].op \notin Blind /\ (q.op \in Blind => Doing(k, "none"))
  BY DEF Ask
<1>3. Alone'
  BY <1>1, <1>2 DEF Alone, Doing
<1>4. \A k \in Handlers : handler'[k].op \in {"close", "promote"} => handler'[k].services # {}
  BY <1>1 DEF FollowInv, Fresh
<1>5. \A k \in Handlers : ~Doing(k, "restored")
  BY <1>2 DEF Doing, Blind
<1>6. TitlesFollowListings'
  BY <1>1, <1>5 DEF FollowInv, TitlesFollowListings
<1> QED BY <1>3, <1>4, <1>6 DEF FollowInv

\* Hence so for every read.
LEMMA ReadFollow ==
  ASSUME FollowInv, Inv', BlindAlone, NEW h \in Handlers, Read(h)
  PROVE  FollowInv'
<1>1. Inv
  BY DEF FollowInv
<1>2. PICK q \in Request, kind \in Asked : Ask(h, kind, q) /\ Fresh(q)
  BY <1>1, ReadAsks
<1> QED BY <1>2, AskFollow

\* A write of a request that ends, and that keeps every title with its listings.
LEMMA EndFollows ==
  ASSUME FollowInv, Inv', NEW h \in Handlers, Answer(h), handler[h].op # "none",
         TitlesFollowListings'
  PROVE  FollowInv'
BY FollowStep DEF Answer, Idle, Blind

\* Opening intents, and the close of an auto-detect batch.
LEMMA IntentFollow ==
  ASSUME FollowInv, Inv', ~MixedRoutes, NEW h \in Handlers,
         WaitWrite(h) \/ DiscoverWrite(h) \/ AutoWrite(h)
  PROVE  FollowInv'
<1>1. Inv /\ titles \in Seq(Title) /\ handler[h] \in Request
  BY DEF FollowInv, Inv, Types
<1>2. handler[h].op \in {"wait", "discover", "auto"} /\ Answer(h)
  BY DEF WaitWrite, DiscoverWrite, AutoWrite, Doing
<1>3. AllFollow(titles)
  BY <1>2, NobodyRestores
<1>4. AllFollow(titles')
  <2>1. CASE WaitWrite(h) \/ DiscoverWrite(h)
    BY <1>1, <1>3, <2>1, HousedFollows DEF WaitWrite, DiscoverWrite, Store
  <2>2. CASE AutoWrite(h)
    <3>1. handler[h].route \in Routes
      BY <1>1, <2>2, RequestKinds DEF AutoWrite, Doing
    <3>2. titles' = Placed(handler[h].route).titles
      BY <2>2 DEF AutoWrite, Store
    <3> QED BY <1>1, <1>3, <3>1, <3>2, PlacedFollows
  <2> QED BY <2>1, <2>2
<1> QED BY <1>2, <1>4, AllFollowSuffices, EndFollows

\* Listing the work on its newest title, or on a new one.
LEMMA ListingFollow ==
  ASSUME FollowInv, Inv', NEW h \in Handlers, CloseWrite(h) \/ AddWrite(h) \/ PromoteWrite(h)
  PROVE  FollowInv'
<1>1. Inv /\ titles \in Seq(Title) /\ handler[h] \in Request
  BY DEF FollowInv, Inv, Types
<1>2. handler[h].op \in {"close", "add", "promote"} /\ Answer(h)
  BY DEF CloseWrite, AddWrite, PromoteWrite, Doing
<1>3. AllFollow(titles)
  BY <1>2, NobodyRestores
<1>4. handler[h].services \subseteq Services
  BY <1>1, <1>2, RequestKinds
<1>5. PICK services \in SUBSET handler[h].services : List(services) /\ services # {}
  BY DEF CloseWrite, AddWrite, PromoteWrite, Doing, FollowInv
<1>6. AllFollow(titles')
  BY <1>1, <1>3, <1>4, <1>5, HomedFollows DEF List, Store
<1> QED BY <1>2, <1>6, AllFollowSuffices, EndFollows

\* Taking listings off, or a group back, each with the state derived from them.
LEMMA RemovalFollow ==
  ASSUME FollowInv, Inv', NEW h \in Handlers,
         MoveWrite(h) \/ DropWrite(h) \/ AbsentWrite(h) \/ UndoGroupWrite(h)
  PROVE  FollowInv'
<1> DEFINE p == handler[h].at
           t == titles[p.title]
<1>1. titles \in Seq(Title) /\ handler[h] \in Request
  BY DEF FollowInv, Inv, Types
<1>2. handler[h].op \in {"move", "drop", "absent", "undoGroup"} /\ Answer(h)
  BY DEF MoveWrite, DropWrite, AbsentWrite, UndoGroupWrite, Doing
<1>3. AllFollow(titles)
  BY <1>2, NobodyRestores
<1>4. p \in Places /\ p.listings \subseteq Listing
  BY <1>1, <1>2, RequestKinds DEF Places
<1>5. PICK u : titles' = [titles EXCEPT ![p.title] = Rederived(u)] /\ (t \in Title => u \in Title)
  <2>1. ASSUME t \in Title
        PROVE  /\ ToOff(t, p.listings \cap t.on) \in Title
               /\ ToHeld(t, p.listings) \in Title /\ FromHeld(t, p.listings) \in Title
    <3> HIDE DEF t, p
    <3> QED BY <1>4, <2>1, TitleChanges
  <2>2. CASE MoveWrite(h) \/ DropWrite(h)
    <3>1. titles' = [titles EXCEPT ![p.title] = Rederived(ToOff(t, p.listings \cap t.on))]
      BY <2>2 DEF MoveWrite, DropWrite, Store, Dropped
    <3> QED BY <2>1, <3>1
  <2>3. CASE AbsentWrite(h)
    BY <2>1, <2>3 DEF AbsentWrite, Store
  <2>4. CASE UndoGroupWrite(h)
    BY <2>1, <2>4 DEF UndoGroupWrite, Store
  <2> QED BY <2>2, <2>3, <2>4
<1>6. p.title \in DOMAIN titles => Follows(Rederived(u))
  BY <1>1, <1>5, RederivedFollows
<1>7. AllFollow([titles EXCEPT ![p.title] = Rederived(u)])
  <2> HIDE DEF p
  <2> QED BY <1>1, <1>3, <1>6, ChangeFollows DEF AllFollow
<1>8. AllFollow(titles')
  BY <1>5, <1>7
<1> QED BY <1>2, <1>8, AllFollowSuffices, EndFollows

\* The title of a listing that comes back is not looked at until the next statement.
LEMMA RestoreListingFollow ==
  ASSUME FollowInv, Inv', NEW h \in Handlers, RestoreListing(h)
  PROVE  FollowInv'
<1> DEFINE p == handler[h].at
<1>1. titles \in Seq(Title) /\ handler \in [Handlers -> Request]
  BY DEF FollowInv, Inv, Types
<1>2. handler[h].op = "restore" /\ AllFollow(titles)
  BY NobodyRestores DEF RestoreListing, Doing
<1>3. handler[h] \in [op : {"restore", "restored"}, at : Places, duplicate : BOOLEAN]
  BY <1>1, <1>2, RequestKinds
<1>4. handler' = [handler EXCEPT ![h] = [handler[h] EXCEPT !.op = "restored"]]
  BY DEF RestoreListing
<1>5. /\ [handler[h] EXCEPT !.op = "restored"].op = "restored"
      /\ [handler[h] EXCEPT !.op = "restored"].at = p
  BY <1>3
<1>6. Doing(h, "restored")' /\ handler'[h].at = p
  BY <1>1, <1>4, <1>5 DEF Doing
<1>7. DOMAIN titles' = DOMAIN titles /\ \A i \in DOMAIN titles : i # p.title => titles'[i] = titles[i]
  BY <1>1 DEF RestoreListing, Store
<1>8. TitlesFollowListings'
  BY <1>2, <1>6, <1>7 DEF TitlesFollowListings, AllFollow, Follows
<1> QED BY <1>2, <1>4, <1>5, <1>8, FollowStep DEF Blind

\* The last update of a restore gives its title the state its listing asks for.
LEMMA RestoreTitleFollow ==
  ASSUME FollowInv, Inv', NEW h \in Handlers, RestoreTitle(h)
  PROVE  FollowInv'
<1> DEFINE p == handler[h].at
           t == titles[p.title]
           b == handler[h].duplicate
<1>1. titles \in Seq(Title) /\ handler[h].op = "restored"
  BY DEF FollowInv, Inv, Types, RestoreTitle, Doing
<1>2. \A k \in Handlers : Doing(k, "restored") => k = h
  BY <1>1 DEF FollowInv, Alone, Blind, Doing
<1>3. \A i \in DOMAIN titles : i # p.title => Follows(titles[i])
  BY <1>2 DEF FollowInv, TitlesFollowListings, Follows
<1>4. p.title \in DOMAIN titles => Follows(Settled(t, b))
  BY <1>1, RederivedFollows
<1>5. AllFollow([titles EXCEPT ![p.title] = Settled(t, b)])
  <2> HIDE DEF p, t, b
  <2> QED BY <1>1, <1>3, <1>4, ChangeFollows
<1>6. titles' = [titles EXCEPT ![p.title] = Settled(t, b)]
  BY DEF RestoreTitle, Store
<1>7. handler' = [handler EXCEPT ![h] = [op |-> "graduate"]]
  BY DEF RestoreTitle
<1> QED BY <1>1, <1>5, <1>6, <1>7, AllFollowSuffices, FollowStep DEF Blind

\* The steps that change no title.
LEMMA OtherFollow ==
  ASSUME FollowInv, Inv', NEW h \in Handlers,
         \/ DiscardWrite(h) \/ HideWrite(h) \/ UnhideWrite(h) \/ Graduate(h)
         \/ Suppress(h) \/ Unsuppress(h) \/ Refuse(h)
  PROVE  FollowInv'
<1>1. titles' = titles
  BY DEF DiscardWrite, HideWrite, UnhideWrite, Graduate, Store, Suppress, Unsuppress, Refuse
<1>2. CASE UNCHANGED handler
  BY <1>1, <1>2 DEF FollowInv, Alone, TitlesFollowListings, Doing
<1>3. CASE ~(UNCHANGED handler)
  <2>1. /\ handler[h].op \notin {"none", "restored"}
        /\ \/ Answer(h)
           \/ /\ handler[h].op = "unhide"
              /\ handler' = [handler EXCEPT ![h] = [op |-> "graduate"]]
    BY <1>3 DEF DiscardWrite, HideWrite, UnhideWrite, Graduate, Suppress, Unsuppress, Refuse, Doing
  <2>2. TitlesFollowListings'
    BY <1>1, <2>1, NobodyRestores, AllFollowSuffices
  <2> QED BY <2>1, <2>2, EndFollows, FollowStep DEF Blind
<1> QED BY <1>2, <1>3

\* Every step keeps it.
LEMMA FollowNext ==
  ASSUME BlindAlone, ~MixedRoutes
  PROVE  FollowInv /\ [Next]_vars => FollowInv'
<1> SUFFICES ASSUME FollowInv, [Next]_vars PROVE FollowInv'
  OBVIOUS
<1>1. Inv'
  BY NextInv DEF FollowInv
<1>2. ASSUME NEW h \in Handlers,
             Read(h) \/ Write(h) \/ Suppress(h) \/ Unsuppress(h) \/ Refuse(h)
      PROVE  FollowInv'
  BY <1>1, <1>2, ReadFollow, IntentFollow, ListingFollow, RemovalFollow, RestoreListingFollow,
     RestoreTitleFollow, OtherFollow DEF Write
<1>3. CASE UNCHANGED vars
  BY <1>1, <1>3 DEF vars, FollowInv, Alone, TitlesFollowListings, Doing
<1> QED BY <1>2, <1>3 DEF Next

\* TitlesFollowListings for every instance in which restores and the like run alone
\* and no close sends two readings of a work different ways: a title is active exactly
\* while it has a listing, whichever closes, moves, undos and edits race.
THEOREM TitlesFollow ==
  ASSUME BlindAlone, ~MixedRoutes
  PROVE  Spec => []TitlesFollowListings
<1>1. Init => FollowInv
  <2> SUFFICES ASSUME Init PROVE FollowInv
    OBVIOUS
  <2>1. \A h \in Handlers : handler[h].op = "none"
    BY DEF Init, Idle
  <2>2. DOMAIN titles = {}
    BY DEF Init
  <2> QED BY <2>1, <2>2, InitInv DEF FollowInv, Alone, TitlesFollowListings, Blind
<1>2. FollowInv /\ [Next]_vars => FollowInv'
  BY FollowNext
<1>3. FollowInv => TitlesFollowListings
  BY DEF FollowInv
<1> QED BY <1>1, <1>2, <1>3, PTL DEF Spec

----------------------------------------------------------------------------
(* Where the work is shown, under the same assumptions                     *)

HasListing(ts) == \E i \in DOMAIN ts : ts[i].on # {}
SomeWait(is) == \E i \in DOMAIN is : is[i].state = "waiting"

\* The work is somewhere, if it is not set aside or suppressed.
Landed == HasListing(titles) \/ SomeWait(intents)

\* A restore has a title to put its listing on, and what ends the intents of a work
\* has a listing of it.
LandInv ==
  /\ FollowInv
  /\ \A h \in Handlers :
       /\ Doing(h, "restore") => /\ handler[h].at.title \in DOMAIN titles
                                 /\ handler[h].at.listings # {}
       /\ Doing(h, "restored") => /\ handler[h].at.title \in DOMAIN titles
                                  /\ titles[handler[h].at.title].on # {}
       /\ handler[h].op \in {"unhide", "graduate"} => HasListing(titles)

Act(h) == Read(h) \/ Write(h) \/ Suppress(h) \/ Unsuppress(h) \/ Refuse(h)

\* Listed and Waiting, as said of the sequences.
LEMMA ListedWaiting ==
  /\ Listed <=> HasListing(titles)
  /\ Waiting # {} <=> SomeWait(intents)
BY DEF Listed, HasListing, Waiting, SomeWait

\* A work that has landed is in a view, its titles being as their listings say.
LEMMA LandedIsShown == AllFollow(titles) /\ Landed => Shown \/ hidden \/ suppressed
BY ListedWaiting DEF AllFollow, Follows, Landed, HasListing, Shown, Library, WaitingView, Active, Visible

\* What a view shows has a listing or an intent.
LEMMA ShownHasLanded == Shown => Landed
BY ListedWaiting DEF Shown, Library, WaitingView, Landed, HasListing, Active

\* A step is of one handler.
LEMMA OneActs ==
  ASSUME Inv, NEW h \in Handlers, Act(h)
  PROVE  \A k \in Handlers \ {h} : handler'[k] = handler[k]
<1>1. handler \in [Handlers -> Request]
  BY DEF Inv, Types
<1>2. CASE Read(h)
  BY <1>1, <1>2, ReadAsks DEF Ask
<1>3. CASE Write(h)
  BY <1>1, <1>3 DEF Write, WaitWrite, DiscoverWrite, DiscardWrite, MoveWrite, CloseWrite, AddWrite,
     PromoteWrite, AutoWrite, DropWrite, AbsentWrite, UndoGroupWrite, RestoreListing, RestoreTitle,
     HideWrite, UnhideWrite, Graduate, Answer
<1> QED BY <1>1, <1>2, <1>3 DEF Act, Suppress, Unsuppress, Refuse, Answer

\* Only a request in progress ends, and writes.
LEMMA WhoWrites ==
  ASSUME Inv, NEW h \in Handlers, Act(h)
  PROVE  /\ Write(h) \/ Refuse(h) => handler[h].op # "none"
         /\ ~Write(h) => UNCHANGED <<titles, intents, hidden>>
         /\ ~Write(h) /\ ~Refuse(h) => handler[h].op = "none"
<1>1. Read(h) => UNCHANGED <<titles, intents, hidden>> /\ handler[h].op = "none"
  BY ReadAsks DEF Ask, Doing
<1>2. Write(h) => handler[h].op # "none"
  BY DEF Write, WaitWrite, DiscoverWrite, DiscardWrite, MoveWrite, CloseWrite, AddWrite,
     PromoteWrite, AutoWrite, DropWrite, AbsentWrite, UndoGroupWrite, RestoreListing, RestoreTitle,
     HideWrite, UnhideWrite, Graduate, Doing
<1> QED BY <1>1, <1>2 DEF Act, Suppress, Unsuppress, Refuse, Doing

\* While a request that looks at nothing again is in progress, nobody else writes.
LEMMA BlindUndisturbed ==
  ASSUME FollowInv, NEW h \in Handlers, Act(h), NEW k \in Handlers \ {h}, handler[k].op \in Blind
  PROVE  handler'[k] = handler[k] /\ titles' = titles /\ handler[h].op = "none"
BY OneActs, WhoWrites DEF FollowInv, Alone

\* A step keeps what restores and returns rely on: nobody disturbs a blind request.
LEMMA LandStep ==
  ASSUME LandInv, FollowInv', NEW h \in Handlers, Act(h)
  PROVE  LandInv'
<1>1. Inv /\ FollowInv /\ titles \in Seq(Title) /\ handler \in [Handlers -> Request]
  BY DEF LandInv, FollowInv, Inv, Types
<1> DEFINE Fine(k) ==
      /\ handler'[k].op = "restore" => /\ handler'[k].at.title \in DOMAIN titles'
                                       /\ handler'[k].at.listings # {}
      /\ handler'[k].op = "restored" => /\ handler'[k].at.title \in DOMAIN titles'
                                        /\ titles'[handler'[k].at.title].on # {}
      /\ handler'[k].op \in {"unhide", "graduate"} => HasListing(titles')
<1>2. ASSUME NEW k \in Handlers \ {h} PROVE Fine(k)
  <2>1. handler'[k] = handler[k]
    BY <1>1, <1>2, OneActs
  <2>2. CASE handler[k].op \notin Blind
    BY <2>1, <2>2 DEF Blind
  <2>3. CASE handler[k].op \in Blind
    BY <1>1, <2>1, <2>3, BlindUndisturbed DEF LandInv, Doing
  <2> QED BY <2>2, <2>3
<1>3. Fine(h)
  <2>1. CASE Read(h)
    <3>1. PICK q \in Request, kind \in Asked : Ask(h, kind, q) /\ Fresh(q)
      BY <1>1, <2>1, ReadAsks
    <3>2. handler'[h] = q /\ titles' = titles
      BY <1>1, <3>1 DEF Ask
    <3> QED BY <3>1, <3>2, ListedWaiting DEF Fresh
  <2>2. CASE RestoreListing(h)
    <3> DEFINE p == handler[h].at
               t == titles[p.title]
    <3>1. handler[h] \in [op : {"restore", "restored"}, at : Places, duplicate : BOOLEAN]
          /\ handler[h].op = "restore"
      BY <1>1, <2>2, RequestKinds DEF RestoreListing, Doing
    <3>2. handler' = [handler EXCEPT ![h] = [handler[h] EXCEPT !.op = "restored"]]
      BY <2>2 DEF RestoreListing
    <3>3. handler'[h].op = "restored" /\ handler'[h].at = p
      BY <1>1, <3>1, <3>2
    <3>4. p.title \in DOMAIN titles /\ p.listings # {} /\ t \in Title
      BY <1>1, <2>2, <3>1 DEF LandInv, Doing
    <3>5. FromOff(t, p.listings).on # {} /\ FromHeld(t, p.listings).on # {}
      <4> HIDE DEF t, p
      <4> QED BY <3>4 DEF FromOff, FromHeld, Title
    <3>6. \/ titles' = [titles EXCEPT ![p.title] = FromOff(t, p.listings)]
          \/ titles' = [titles EXCEPT ![p.title] = FromHeld(t, p.listings)]
      BY <2>2 DEF RestoreListing, Store
    <3>7. p.title \in DOMAIN titles' /\ titles'[p.title].on # {}
      <4> HIDE DEF t, p
      <4> QED BY <1>1, <3>4, <3>5, <3>6
    <3> QED BY <3>3, <3>7
  <2>3. CASE RestoreTitle(h)
    <3> DEFINE p == handler[h].at
               t == titles[p.title]
               b == handler[h].duplicate
    <3>1. p.title \in DOMAIN titles /\ t \in Title /\ t.on # {}
      BY <1>1, <2>3 DEF LandInv, RestoreTitle, Doing
    <3>2. Settled(t, b).on # {}
      <4> HIDE DEF t, p
      <4> QED BY <3>1 DEF Settled, Rederived, Title
    <3>3. titles' = [titles EXCEPT ![p.title] = Settled(t, b)]
      BY <2>3 DEF RestoreTitle, Store
    <3>4. HasListing(titles')
      <4> HIDE DEF t, p, b
      <4> QED BY <1>1, <3>1, <3>2, <3>3 DEF HasListing
    <3>5. handler'[h] = [op |-> "graduate"]
      BY <1>1, <2>3 DEF RestoreTitle
    <3> QED BY <3>4, <3>5
  <2>4. CASE UnhideWrite(h)
    <3>1. HasListing(titles) /\ titles' = titles
      BY <2>4 DEF LandInv, UnhideWrite, Doing
    <3>2. handler'[h] = [op |-> "graduate"]
      BY <1>1, <2>4 DEF UnhideWrite
    <3> QED BY <3>1, <3>2
  <2>5. CASE Answer(h)
    BY <1>1, <2>5 DEF Answer, Idle
  <2>6. CASE Suppress(h) \/ Unsuppress(h)
    BY <2>6 DEF Suppress, Unsuppress, LandInv, Doing
  <2> QED BY <2>1, <2>2, <2>3, <2>4, <2>5, <2>6
      DEF Act, Write, Refuse, WaitWrite, DiscoverWrite, DiscardWrite, MoveWrite, CloseWrite, AddWrite,
          PromoteWrite, AutoWrite, DropWrite, AbsentWrite, UndoGroupWrite, HideWrite, Graduate
<1> HIDE DEF Fine
<1>4. \A k \in Handlers : Fine(k)
  BY <1>2, <1>3
<1> USE DEF Fine
<1> QED BY <1>4 DEF LandInv, Doing

\* A listing of one title is a listing of the work.
LEMMA StoreLists ==
  ASSUME NEW ts \in Seq(Title), NEW i \in DOMAIN ts, NEW u, u.on # {}
  PROVE  HasListing([ts EXCEPT ![i] = u])
BY DEF HasListing

\* An intent opened waits, and those before it are as they were.
LEMMA OpenedWaits ==
  ASSUME NEW is \in Seq(AnyIntent), NEW t \in Nat
  PROVE  /\ SomeWait(Opened(is, t))
         /\ \A i \in DOMAIN is : i \in DOMAIN Opened(is, t) /\ Opened(is, t)[i] = is[i]
<1> DEFINE new == [title |-> t, state |-> "waiting"]
<1>1. new \in AnyIntent /\ new.state = "waiting"
  BY DEF AnyIntent
<1>2. Opened(is, t) = Append(is, new)
  BY DEF Opened
<1> HIDE DEF new
<1>3. Len(is) + 1 \in DOMAIN Append(is, new) /\ Append(is, new)[Len(is) + 1] = new
  BY <1>1
<1>4. \A i \in DOMAIN is : i \in DOMAIN Append(is, new) /\ Append(is, new)[i] = is[i]
  BY <1>1
<1> QED BY <1>1, <1>2, <1>3, <1>4 DEF SomeWait

\* The listings of title j, none if there is no such title.
OnAt(ts, j) == IF j \in DOMAIN ts THEN ts[j].on ELSE {}

\* The close of an auto-detect batch part-way: what it believes of the work is so,
\* and until it has listed the work it has changed no listing and no intent.
Knows(acc) ==
  /\ Good(acc)
  /\ acc.seen # 0 => acc.seen \in DOMAIN acc.titles /\ (acc.waiting \/ acc.listed)
  /\ acc.listed <=> HasListing(acc.titles)
  /\ acc.waiting <=> SomeWait(acc.intents)
  /\ acc.lists => acc.listed
  /\ ~acc.lists => /\ \A j \in Nat : OnAt(acc.titles, j) = OnAt(titles, j)
                   /\ \A i \in DOMAIN intents :
                        i \in DOMAIN acc.intents /\ acc.intents[i] = intents[i]

\* Before its first reading a close believes what is so.
LEMMA BeforeKnows ==
  ASSUME Inv
  PROVE  Knows(Before)
BY BeforeGood, ListedWaiting DEF Knows, Before

\* After a reading sent to the waiting view the work is listed or waited for.
LEMMA ToWaitingKnows ==
  ASSUME Inv, NEW acc, Knows(acc)
  PROVE  Knows(ToWaiting(acc)) /\ (ToWaiting(acc).listed \/ ToWaiting(acc).waiting)
<1>1. CASE acc.seen # 0 \/ acc.listed \/ acc.waiting
  BY <1>1 DEF ToWaiting, Knows
<1>2. CASE ~(acc.seen # 0 \/ acc.listed \/ acc.waiting)
  <2> DEFINE ts == Housed(acc.titles)
             is == Opened(acc.intents, Len(ts))
             out == ToWaiting(acc)
  <2>1. acc.titles \in Seq(Title) /\ acc.intents \in Seq(AnyIntent) /\ acc \in Accs
    BY DEF Knows, Good, Accs
  <2>2. ts \in Seq(Title) /\ Len(ts) \in DOMAIN ts /\ \A j \in Nat : OnAt(ts, j) = OnAt(acc.titles, j)
    <3>1. CASE acc.titles # <<>>
      BY <2>1, <3>1, HousedType DEF Housed
    <3>2. CASE acc.titles = <<>>
      <4>1. ts = <<New("removed")>>
        BY <2>1, <3>2 DEF Housed
      <4>2. Len(ts) = 1 /\ DOMAIN ts = {1} /\ ts[1].on = {} /\ DOMAIN acc.titles = {}
        BY <3>2, <4>1 DEF New
      <4>3. ts \in Seq(Title)
        BY <2>1, HousedType
      <4> HIDE DEF ts
      <4> QED BY <4>2, <4>3 DEF OnAt
    <3> QED BY <3>1, <3>2
  <2>3. HasListing(ts) <=> HasListing(acc.titles)
    <3>1. \A us \in Seq(Title) : HasListing(us) <=> \E j \in Nat : OnAt(us, j) # {}
      BY DEF HasListing, OnAt
    <3> HIDE DEF ts
    <3> QED BY <2>1, <2>2, <3>1
  <2> HIDE DEF ts
  <2>4. /\ SomeWait(is)
        /\ \A i \in DOMAIN acc.intents : i \in DOMAIN is /\ is[i] = acc.intents[i]
    BY <2>1, OpenedWaits
  <2>5. out = [acc EXCEPT !.titles = ts, !.intents = is, !.seen = Len(ts), !.waiting = TRUE]
    BY <1>2 DEF ToWaiting, ts
  <2>6. Good(out)
    BY ToWaitingGood DEF Knows
  <2> HIDE DEF is
  <2>7. /\ out.titles = ts /\ out.intents = is /\ out.seen = Len(ts) /\ out.waiting = TRUE
        /\ out.listed = acc.listed /\ out.lists = acc.lists
    BY <2>1, <2>5 DEF Accs
  <2> HIDE DEF out
  <2>8. ~acc.lists => /\ \A j \in Nat : OnAt(ts, j) = OnAt(titles, j)
                      /\ \A j \in DOMAIN intents : j \in DOMAIN is /\ is[j] = intents[j]
    BY <2>2, <2>4 DEF Knows
  <2>9. (acc.listed <=> HasListing(ts)) /\ (acc.lists => acc.listed)
    BY <2>3 DEF Knows
  <2>10. Knows(out)
    BY <2>2, <2>4, <2>6, <2>7, <2>8, <2>9 DEF Knows
  <2> QED BY <2>7, <2>10 DEF out
<1> QED BY <1>1, <1>2

\* After a reading sent to services the work is listed.
LEMMA ToServicesKnows ==
  ASSUME Inv, NEW acc, Knows(acc), NEW d \in SUBSET Services, d # {}
  PROVE  Knows(ToServices(acc, d)) /\ ToServices(acc, d).listed
<1> DEFINE ts == IF acc.seen # 0 THEN acc.titles ELSE Homed(acc.titles)
           i  == IF acc.seen # 0 THEN acc.seen ELSE Len(ts)
           u  == Added(ts[i], d \ On(ts[i]))
           us == [ts EXCEPT ![i] = u]
           out == ToServices(acc, d)
<1>1. acc.titles \in Seq(Title) /\ acc \in Accs
  BY DEF Knows, Good, Accs
<1>2. ts \in Seq(Title) /\ i \in DOMAIN ts /\ i # 0
  BY <1>1, HomedType DEF Knows
<1>3. out = [acc EXCEPT !.titles = us, !.seen = i, !.listed = TRUE, !.lists = TRUE]
  BY DEF ToServices
<1> HIDE DEF ts, i
<1>4. HasListing(us) /\ i \in DOMAIN us
  <2>1. u.on # {}
    <3>1. ts[i] \in Title
      BY <1>2
    <3> QED BY <3>1, AddedType
  <2> HIDE DEF u
  <2>2. HasListing(us)
    BY <1>2, <2>1, StoreLists
  <2>3. DOMAIN us = DOMAIN ts
    OBVIOUS
  <2> QED BY <1>2, <2>2, <2>3
<1>5. Good(out)
  BY ToServicesGood DEF Knows
<1> HIDE DEF us
<1>6. /\ out.titles = us /\ out.intents = acc.intents /\ out.seen = i /\ out.waiting = acc.waiting
      /\ out.listed = TRUE /\ out.lists = TRUE
  BY <1>1, <1>3 DEF Accs
<1> HIDE DEF out
<1>7. out.listed /\ Knows(out)
  BY <1>2, <1>4, <1>5, <1>6 DEF Knows
<1> QED BY <1>7 DEF out

\* The whole close: the work has landed, and is not forgotten on the way.
LEMMA PlacedKnows ==
  ASSUME Inv, NEW route \in Routes
  PROVE  /\ Knows(Placed(route))
         /\ Placed(route).listed \/ Placed(route).waiting
<1>1. \A acc, d : Knows(acc) /\ d \in SUBSET Services =>
        Knows(Place(acc, d)) /\ (Place(acc, d).listed \/ Place(acc, d).waiting)
  BY ToWaitingKnows, ToServicesKnows DEF Place
<1> QED BY <1>1, BeforeKnows, RouteLengths DEF Placed

\* What each write leaves behind.
LEMMA OpeningLands ==
  ASSUME Inv, NEW h \in Handlers, WaitWrite(h) \/ DiscoverWrite(h) \/ MoveWrite(h)
  PROVE  /\ SomeWait(intents')
         /\ \A i \in DOMAIN intents : i \in DOMAIN intents' /\ intents'[i] = intents[i]
<1>1. intents \in Seq(AnyIntent) /\ intents \in Seq(Intent) /\ titles \in Seq(Title)
  BY BeforeGood DEF Good, Accs, Before, Inv, Types
<1>2. CASE WaitWrite(h) \/ DiscoverWrite(h)
  <2>1. intents' = Opened(intents, Len(Housed(titles))) /\ Len(Housed(titles)) \in Nat
    BY <1>1, <1>2, HousedType DEF WaitWrite, DiscoverWrite, Store
  <2> QED BY <1>1, <2>1, OpenedWaits
<1>3. CASE MoveWrite(h)
  <2>1. handler[h].at.title \in Nat
    BY <1>3, RequestKinds DEF Inv, Types, MoveWrite, Doing, Places
  <2>2. intents' = IF Waiting = {} THEN Opened(intents, handler[h].at.title) ELSE intents
    BY <1>3 DEF MoveWrite, Store
  <2> QED BY <1>1, <2>1, <2>2, OpenedWaits, ListedWaiting
<1> QED BY <1>2, <1>3

\* A close, an add and a promotion leave a listing, and nothing waiting.
LEMMA ListingLands ==
  ASSUME FollowInv, NEW h \in Handlers, CloseWrite(h) \/ AddWrite(h) \/ PromoteWrite(h)
  PROVE  HasListing(titles') /\ ~SomeWait(intents')
<1>1. Inv /\ titles \in Seq(Title) /\ intents \in Seq(Intent) /\ handler[h] \in Request
  BY DEF FollowInv, Inv, Types
<1>2. handler[h].services \subseteq Services
  BY <1>1, RequestKinds DEF CloseWrite, AddWrite, PromoteWrite, Doing
<1>3. PICK services \in SUBSET handler[h].services : List(services) /\ services # {}
  BY DEF CloseWrite, AddWrite, PromoteWrite, Doing, FollowInv
<1>4. /\ titles' = [Homed(titles) EXCEPT ![Len(Homed(titles))] =
                          Added(Homed(titles)[Len(Homed(titles))], services)]
      /\ intents' = Satisfied(intents)
  BY <1>3 DEF List, Store
<1>5. /\ Homed(titles) \in Seq(Title) /\ Len(Homed(titles)) \in DOMAIN Homed(titles)
      /\ Homed(titles)[Len(Homed(titles))] \in Title
  BY <1>1, HomedType
<1>6. services \in SUBSET Services /\ services # {}
  BY <1>2, <1>3
<1>7. HasListing(titles')
  BY <1>4, <1>5, <1>6, AddedType, StoreLists
<1>8. ~SomeWait(intents')
  BY <1>1, <1>4, SatisfiedType DEF SomeWait
<1> QED BY <1>7, <1>8

\* The close of an auto-detect batch lists the work and satisfies it, or ends no intent.
LEMMA AutoLands ==
  ASSUME Inv, NEW h \in Handlers, AutoWrite(h)
  PROVE  \/ HasListing(titles') /\ ~SomeWait(intents')
         \/ /\ HasListing(titles') \/ SomeWait(intents')
            /\ \A j \in Nat : OnAt(titles', j) = OnAt(titles, j)
            /\ \A i \in DOMAIN intents : i \in DOMAIN intents' /\ intents'[i] = intents[i]
<1> DEFINE acc == Placed(handler[h].route)
<1>1. handler[h].route \in Routes
  BY RequestKinds DEF Inv, Types, AutoWrite, Doing
<1>2. Knows(acc) /\ (acc.listed \/ acc.waiting)
  BY <1>1, PlacedKnows
<1> HIDE DEF acc
<1>3. titles' = acc.titles /\ intents' = Graduated(acc) /\ Len(acc.titles) <= MaxTitles
  BY DEF AutoWrite, Store, acc
<1>4. acc.intents \in Seq(Intent)
  BY <1>2, <1>3 DEF Knows, Good
<1>5. CASE acc.lists
  <2>1. ~SomeWait(intents')
    BY <1>3, <1>4, <1>5, SatisfiedType DEF Graduated, SomeWait
  <2> QED BY <1>2, <1>3, <1>5, <2>1 DEF Knows
<1>6. CASE ~acc.lists
  BY <1>2, <1>3, <1>6 DEF Knows, Graduated
<1> QED BY <1>5, <1>6

\* The other writes end no intent, but for the last statement of a restore and of a
\* return to the Library, which leave a listing.
LEMMA OthersKeepIntents ==
  ASSUME LandInv, NEW h \in Handlers,
         \/ DiscardWrite(h) \/ DropWrite(h) \/ AbsentWrite(h) \/ UndoGroupWrite(h)
         \/ RestoreListing(h) \/ RestoreTitle(h)
         \/ HideWrite(h) \/ UnhideWrite(h) \/ Graduate(h)
  PROVE  intents' = intents \/ (Graduate(h) /\ HasListing(titles'))
BY DEF DiscardWrite, DropWrite, AbsentWrite, UndoGroupWrite, RestoreListing, RestoreTitle,
       HideWrite, UnhideWrite, Graduate, Store, LandInv, Doing

\* When a request has ended, or gone on to end the intents, no restore is under way.
LEMMA SettledAfter ==
  ASSUME FollowInv, FollowInv', NEW h \in Handlers, Act(h),
         handler[h].op # "none", handler'[h].op # "restored"
  PROVE  AllFollow(titles') /\ ~Restoring'
<1>1. \A k \in Handlers : handler'[k].op # "restored"
  BY OneActs DEF FollowInv, Alone, Blind
<1> QED BY <1>1 DEF FollowInv, TitlesFollowListings, AllFollow, Follows, Restoring, Doing

----------------------------------------------------------------------------
\* Hence the invariant holds.
LEMMA LandHolds ==
  ASSUME BlindAlone, ~MixedRoutes
  PROVE  Spec => []LandInv
<1>1. Init => LandInv
  <2> SUFFICES ASSUME Init PROVE LandInv
    OBVIOUS
  <2>1. \A h \in Handlers : handler[h].op = "none"
    BY DEF Init, Idle
  <2>2. DOMAIN titles = {}
    BY DEF Init
  <2> QED BY <2>1, <2>2, InitInv DEF LandInv, FollowInv, Alone, TitlesFollowListings, Blind, Doing
<1>2. LandInv /\ [Next]_vars => LandInv'
  <2> SUFFICES ASSUME LandInv, [Next]_vars PROVE LandInv'
    OBVIOUS
  <2>1. FollowInv'
    BY FollowNext DEF LandInv
  <2>2. CASE UNCHANGED vars
    BY <2>1, <2>2 DEF vars, LandInv, Doing
  <2>3. CASE Next
    BY <2>1, <2>3, LandStep DEF Next, Act
  <2> QED BY <2>2, <2>3
<1> QED BY <1>1, <1>2, PTL DEF Spec

\* Every step is some handler's.
LEMMA NextActs == Next => \E h \in Handlers : Act(h)
BY DEF Next, Act


\* A step that ends an intent leaves a listing.
LEMMA EndedIsListed ==
  ASSUME LandInv, LandInv', NEW h \in Handlers, Act(h), NEW i \in Waiting,
         intents'[i].state = "satisfied"
  PROVE  \E j \in Active(titles)' : titles'[j].on # {}
<1>1. Inv /\ FollowInv /\ FollowInv'
  BY DEF LandInv, FollowInv
<1>2. intents'[i] # intents[i] /\ i \in DOMAIN intents
  BY DEF Waiting
<1>3. Write(h) /\ handler[h].op # "none"
  BY <1>1, <1>2, WhoWrites
<1>4. HasListing(titles')
  BY <1>1, <1>2, <1>3, OpeningLands, ListingLands, AutoLands, OthersKeepIntents DEF Write
<1>5. handler'[h].op # "restored"
  <2>1. ~RestoreListing(h)
    BY <1>2 DEF RestoreListing, Store
  <2> QED BY <1>1, <1>3, <2>1 DEF Write, FollowInv, Inv, Types, WaitWrite, DiscoverWrite,
      DiscardWrite, MoveWrite, CloseWrite, AddWrite, PromoteWrite, AutoWrite, DropWrite, AbsentWrite,
      UndoGroupWrite, RestoreTitle, HideWrite, UnhideWrite, Graduate, Answer, Idle
<1>6. AllFollow(titles')
  BY <1>1, <1>3, <1>5, SettledAfter
<1> QED BY <1>4, <1>6 DEF HasListing, AllFollow, Follows, Active

\* A close, an add or a promotion that lists the work leaves no intent waiting.
LEMMA ListingEndsIntents ==
  ASSUME LandInv, NEW h \in Handlers, Act(h),
         handler[h].op \in {"auto", "close", "add", "promote"}, handler'[h] = Idle,
         NEW j \in DOMAIN titles',
         titles'[j].on # IF j \in DOMAIN titles THEN titles[j].on ELSE {}, titles' \in Seq(Title)
  PROVE  Waiting' = {}
<1>1. Inv /\ FollowInv
  BY DEF LandInv, FollowInv
<1>2. titles \in Seq(Title)
  BY <1>1 DEF Inv, Types
<1>3. Write(h)
  <2>1. titles' # titles
    OBVIOUS
  <2> QED BY <1>1, <2>1, WhoWrites
<1>4. CloseWrite(h) \/ AddWrite(h) \/ PromoteWrite(h) \/ AutoWrite(h)
  BY <1>3 DEF Write, WaitWrite, DiscoverWrite, DiscardWrite, MoveWrite, DropWrite, AbsentWrite,
     UndoGroupWrite, RestoreListing, RestoreTitle, HideWrite, UnhideWrite, Graduate, Doing
<1>5. j \in Nat /\ OnAt(titles', j) # OnAt(titles, j)
  BY DEF OnAt
<1>6. ~SomeWait(intents')
  BY <1>1, <1>4, <1>5, ListingLands, AutoLands
<1> QED BY <1>6 DEF SomeWait, Waiting

\* GraduatesWithListing for every such instance.
THEOREM IntentsGraduate ==
  ASSUME BlindAlone, ~MixedRoutes
  PROVE  Spec => GraduatesWithListing
<1> DEFINE A == /\ (\E i \in Waiting : intents'[i].state = "satisfied")
                     => \E j \in Active(titles)' : titles'[j].on # {}
                /\ \A h \in Handlers :
                     /\ handler[h].op \in {"auto", "close", "add", "promote"}
                     /\ handler'[h] = Idle
                     /\ \E j \in DOMAIN titles' :
                          titles'[j].on # IF j \in DOMAIN titles THEN titles[j].on ELSE {}
                     => Waiting' = {}
<1>1. LandInv /\ LandInv' /\ Next => A
  <2> SUFFICES ASSUME LandInv, LandInv', Next PROVE A
    OBVIOUS
  <2>1. PICK k \in Handlers : Act(k)
    BY NextActs
  <2>2. Inv /\ titles' \in Seq(Title)
    BY DEF LandInv, FollowInv, Inv, Types
  <2>3. (\E i \in Waiting : intents'[i].state = "satisfied")
          => \E j \in Active(titles)' : titles'[j].on # {}
    BY <2>1, EndedIsListed
  <2>4. ASSUME NEW h \in Handlers, handler[h].op \in {"auto", "close", "add", "promote"},
               handler'[h] = Idle, NEW j \in DOMAIN titles',
               titles'[j].on # IF j \in DOMAIN titles THEN titles[j].on ELSE {}
        PROVE  Waiting' = {}
    <3>1. h = k
      BY <2>1, <2>2, <2>4, OneActs DEF Idle
    <3> QED BY <2>1, <2>2, <2>4, <3>1, ListingEndsIntents
  <2> QED BY <2>3, <2>4
<1>2. LandInv /\ LandInv' /\ [Next]_vars => [A]_vars
  BY <1>1
<1> QED BY <1>2, LandHolds, PTL DEF Spec, GraduatesWithListing

\* A request that lists the work or waits for it leaves it somewhere.
LEMMA WriteLands ==
  ASSUME LandInv, NEW h \in Handlers,
         \/ WaitWrite(h) \/ DiscoverWrite(h) \/ MoveWrite(h) \/ AutoWrite(h)
         \/ CloseWrite(h) \/ AddWrite(h) \/ PromoteWrite(h)
  PROVE  Landed'
<1>1. Inv /\ FollowInv
  BY DEF LandInv, FollowInv
<1> QED BY <1>1, OpeningLands, ListingLands, AutoLands DEF Landed

\* PlacedIsShown for every such instance.
THEOREM WhatIsPlacedIsShown ==
  ASSUME BlindAlone, ~MixedRoutes
  PROVE  Spec => PlacedIsShown
<1> DEFINE A == \A h \in Handlers :
                  /\ handler[h].op \in {"wait", "discover", "auto", "close", "add", "promote", "move"}
                  /\ handler'[h] = Idle
                  /\ titles' # titles \/ intents' # intents
                  => Shown' \/ hidden' \/ suppressed'
<1>1. LandInv /\ LandInv' /\ Next => A
  <2> SUFFICES ASSUME LandInv, LandInv', Next, NEW h \in Handlers,
                      handler[h].op \in {"wait", "discover", "auto", "close", "add", "promote", "move"},
                      handler'[h] = Idle, titles' # titles \/ intents' # intents
               PROVE  Shown' \/ hidden' \/ suppressed'
    OBVIOUS
  <2>1. PICK k \in Handlers : Act(k)
    BY NextActs
  <2>2. Inv /\ FollowInv /\ FollowInv'
    BY DEF LandInv, FollowInv
  <2>3. Act(h)
    BY <2>1, <2>2, OneActs DEF Idle
  <2>4. Write(h)
    BY <2>2, <2>3, WhoWrites
  <2>5. Landed'
    BY <2>4, WriteLands DEF Write, DiscardWrite, DropWrite, AbsentWrite, UndoGroupWrite,
       RestoreListing, RestoreTitle, HideWrite, UnhideWrite, Graduate, Doing
  <2>6. AllFollow(titles')
    BY <2>2, <2>3, SettledAfter DEF Idle
  <2>7. (AllFollow(titles) /\ Landed => Shown \/ hidden \/ suppressed)'
    BY LandedIsShown, PTL
  <2> QED BY <2>5, <2>6, <2>7
<1>2. LandInv /\ LandInv' /\ [Next]_vars => [A]_vars
  BY <1>1
<1> QED BY <1>2, LandHolds, PTL DEF Spec, PlacedIsShown


\* No other write takes the work from where it is, but a removal and the setting
\* aside of it.
LEMMA OthersKeepLanded ==
  ASSUME LandInv, LandInv', NEW h \in Handlers, Landed \/ Doing(h, "restored"),
         DiscardWrite(h) \/ UndoGroupWrite(h) \/ RestoreTitle(h) \/ UnhideWrite(h) \/ Graduate(h)
  PROVE  Landed'
<1>1. titles \in Seq(Title) /\ handler \in [Handlers -> Request]
  BY DEF LandInv, FollowInv, Inv, Types
<1>2. CASE DiscardWrite(h) \/ UnhideWrite(h)
  BY <1>2 DEF DiscardWrite, UnhideWrite, Landed, HasListing, SomeWait, Doing
<1>3. CASE Graduate(h)
  BY <1>3 DEF Graduate, Store, LandInv, Doing, Landed
<1>4. CASE RestoreTitle(h)
  <2>1. Doing(h, "graduate")'
    BY <1>1, <1>4 DEF RestoreTitle, Doing
  <2> QED BY <2>1 DEF LandInv, Landed, Doing
<1>5. CASE UndoGroupWrite(h)
  <2> DEFINE p == handler[h].at
             t == titles[p.title]
             u == Rederived(FromHeld(t, p.listings))
  <2>1. titles' = [titles EXCEPT ![p.title] = u] /\ intents' = intents
    BY <1>5 DEF UndoGroupWrite, Store
  <2>2. p.title \in DOMAIN titles => t.on \subseteq u.on
    <3> SUFFICES ASSUME t \in Title PROVE t.on \subseteq u.on
      BY <1>1
    <3> HIDE DEF t, p
    <3> QED BY DEF FromHeld, Rederived, Title
  <2>3. HasListing(titles) => HasListing(titles')
    <3> HIDE DEF u, p
    <3> QED BY <1>1, <2>1, <2>2 DEF HasListing
  <2>4. Landed
    BY <1>5 DEF UndoGroupWrite, Doing
  <2> QED BY <2>1, <2>3, <2>4 DEF Landed
<1> QED BY <1>2, <1>3, <1>4, <1>5

\* NothingVanishes for every such instance.
THEOREM NothingIsLost ==
  ASSUME BlindAlone, ~MixedRoutes
  PROVE  Spec => NothingVanishes
<1> DEFINE A == (Shown \/ Restoring) /\ ~hidden /\ ~(Shown \/ Restoring)' /\ ~suppressed'
                  => \E h \in Handlers : /\ handler[h].op \in {"drop", "absent", "hide"}
                                         /\ handler'[h] = Idle
<1>1. LandInv /\ LandInv' /\ Next => A
  <2> SUFFICES ASSUME LandInv, LandInv', Next, Shown \/ Restoring, ~hidden,
                      ~Shown', ~Restoring', ~suppressed',
                      ~\E h \in Handlers : /\ handler[h].op \in {"drop", "absent", "hide"}
                                           /\ handler'[h] = Idle
               PROVE  FALSE
    OBVIOUS
  <2>1. PICK h \in Handlers : Act(h)
    BY NextActs
  <2>2. Inv /\ FollowInv /\ FollowInv' /\ handler \in [Handlers -> Request]
    BY DEF LandInv, FollowInv, Inv, Types
  <2>3. CASE Write(h)
    <3>1. handler[h].op # "none" /\ handler'[h].op # "restored"
      BY <2>1, <2>2, <2>3, WhoWrites DEF Restoring, Doing
    <3>2. ~DropWrite(h) /\ ~AbsentWrite(h) /\ ~HideWrite(h)
      BY <2>2 DEF DropWrite, AbsentWrite, HideWrite, Doing, Answer
    <3>3. ~RestoreListing(h)
      <4> SUFFICES ASSUME RestoreListing(h) PROVE FALSE
        OBVIOUS
      <4>1. handler[h] \in [op : {"restore", "restored"}, at : Places, duplicate : BOOLEAN]
        BY <2>2, RequestKinds DEF RestoreListing, Doing
      <4>2. handler' = [handler EXCEPT ![h] = [handler[h] EXCEPT !.op = "restored"]]
        BY DEF RestoreListing
      <4>3. handler'[h].op = "restored"
        BY <2>2, <4>1, <4>2
      <4> QED BY <3>1, <4>3
    <3>4. Landed \/ Doing(h, "restored")
      <4>1. Restoring => Doing(h, "restored")
        BY <2>2, <3>1 DEF Restoring, Doing, FollowInv, Alone, Blind
      <4> QED BY <4>1, ShownHasLanded
    <3>5. Landed'
      BY <2>3, <3>2, <3>3, <3>4, WriteLands, OthersKeepLanded DEF Write
    <3>6. ~hidden'
      BY <2>3, <3>2, <3>3 DEF Write, WaitWrite, DiscoverWrite, DiscardWrite, MoveWrite, CloseWrite,
         AddWrite, PromoteWrite, AutoWrite, UndoGroupWrite, RestoreTitle, UnhideWrite, Graduate
    <3>7. AllFollow(titles')
      BY <2>1, <2>2, <3>1, SettledAfter
    <3>8. (AllFollow(titles) /\ Landed => Shown \/ hidden \/ suppressed)'
      BY LandedIsShown, PTL
    <3> QED BY <3>5, <3>6, <3>7, <3>8
  <2>4. CASE ~Write(h)
    <3>1. UNCHANGED <<titles, intents, hidden>>
      BY <2>1, <2>2, <2>4, WhoWrites
    <3>2. Shown => Shown'
      BY <3>1 DEF Shown, Library, WaitingView, Visible, Listed, Active, Waiting
    <3>3. Restoring => Restoring'
      <4> SUFFICES ASSUME NEW k \in Handlers, Doing(k, "restored") PROVE Restoring'
        BY DEF Restoring
      <4>1. k # h
        <5> SUFFICES ASSUME handler[h].op = "restored" PROVE FALSE
          BY DEF Doing
        <5>1. Refuse(h)
          BY <2>1, <2>2, <2>4, WhoWrites
        <5> QED BY <5>1 DEF Refuse
      <4>2. handler'[k] = handler[k]
        BY <2>1, <2>2, <4>1, OneActs
      <4> QED BY <4>2 DEF Restoring, Doing
    <3> QED BY <3>2, <3>3
  <2> QED BY <2>3, <2>4
<1>2. LandInv /\ LandInv' /\ [Next]_vars => [A]_vars
  BY <1>1
<1> QED BY <1>2, LandHolds, PTL DEF Spec, NothingVanishes
=============================================================================
