--------------------------- MODULE ListStates_proofs --------------------------
(***************************************************************************)
(* The states the combined list keeps beside its rows: of a title, from    *)
(* its listings; of a service, from its batches; and the suppressions.     *)
(* For any finite sets of works and services, any batches, in review       *)
(* together or not, and any bounds.                                        *)
(*                                                                         *)
(* When requests come one at a time (OneAtATime), AloneInv says that what  *)
(* a request has read still holds when it writes, with the facts about the *)
(* tables that this takes; each property then follows step by step.  When  *)
(* they race, what is left of it (Named, RaceInv) is enough for the states *)
(* of the titles; the other two properties fail then.                      *)
(***************************************************************************)
EXTENDS CombinedList_proofs

OneAtATime == \A h, k \in Handlers : h = k

\* A ledger row names a listing under the title the listing has.
Tied ==
  \A c \in changes : c.listing # 0 => \E l \in listings : l.id = c.listing /\ l.title = c.title

\* The listings a request is about to delete or remove are of the titles it will
\* bring up to date.  This holds whoever acts in between.
Named(r) ==
  /\ r.op = "undo" => \A l \in listings : l.id \in r.listings => l.title \in r.survivors
  /\ r.op = "remove" => \A l \in listings : l.id \in r.listings => l.title = r.title
  /\ r.op \in {"undo", "remove"} => \A id \in r.listings : id <= rows

\* What a request has read still holds: nothing else has acted since.
AsRead(r) ==
  /\ Named(r)
  /\ r.op = "close" => \A i \in DOMAIN history : history[i] \in r.after
  /\ r.op = "undo" =>
       r.previous = Latest(batch[r.batch].service, r.batch)
  /\ r.op = "undoGroup" =>
       \A l \in listings : l.id \in r.restoring => WorkOf(l.title) \notin suppressed
  /\ r.op = "restore" =>
       /\ \E l \in listings : l.id = r.listing /\ l.title = r.title
       /\ WorkOf(r.title) \notin suppressed
  /\ r.op \in {"restored", "derived"} => ListingsOf(listings, r.title) # {}
  /\ r.op \in {"restore", "restored", "derived"} /\ ~r.duplicate =>
       Active(TitlesOf(WorkOf(r.title))) = {}
  /\ r.op = "derived" => r.state = Derived(listings, r.title)
  /\ r.op = "add" => r.work \notin suppressed
  /\ r.op = "badge" =>
       /\ \E t \in titles : t.id = r.title /\ t.state = "active"
       /\ WorkOf(r.title) \notin suppressed
  /\ r.op = "fix" => (r.carried <=> r.from \in suppressed)

Tables ==
  /\ Tied
  /\ IndexesHold(titles, listings)
  /\ \A t \in titles : t.ack \in {0, t.id}

AloneInv ==
  /\ Tables
  /\ \A i \in DOMAIN history : Past(history[i])
  /\ \A h \in Handlers : AsRead(handler[h])

----------------------------------------------------------------------------
(* Reads                                                                   *)

\* A set of ids that is not empty has a least one.
LEMMA Least ==
  ASSUME NEW n \in Nat, NEW S \in SUBSET (1..n), S # {}
  PROVE  \E x \in S : \A y \in S : x <= y
<1> DEFINE T == {n + 1 - x : x \in S}
<1>1. T \in SUBSET (1..n) /\ T # {}
  <2>1. \A x \in S : n + 1 - x \in 1..n
    OBVIOUS
  <2>2. \E x \in S : TRUE
    OBVIOUS
  <2> QED BY <2>1, <2>2
<1>2. PICK z \in T : \A y \in T : y <= z
  BY <1>1, Greatest
<1>3. PICK x \in S : z = n + 1 - x
  BY <1>2
<1>4. \A y \in S : n + 1 - y <= n + 1 - x
  BY <1>2, <1>3
<1> QED
  BY <1>4

\* A work without an oldest active title has no active title.
LEMMA NoneActive ==
  ASSUME TypeOK, NEW w, OldestActive(w) = {}
  PROVE  Active(TitlesOf(w)) = {}
<1> DEFINE S == {t.id : t \in Active(TitlesOf(w))}
<1>1. MaxRows \in Nat /\ S \in SUBSET (1..MaxRows)
  BY BoundsAssumption DEF TypeOK, Titles, Ids, Active, TitlesOf
<1>2. ASSUME S # {} PROVE FALSE
  <2>1. PICK x \in S : \A y \in S : x <= y
    BY <1>1, <1>2, Least
  <2>2. PICK t \in Active(TitlesOf(w)) : t.id = x
    OBVIOUS
  <2>3. t \in OldestActive(w)
    BY <2>1, <2>2 DEF OldestActive
  <2> QED BY <2>3
<1> QED
  BY <1>2

\* A read leaves every table as it was, and what it read holds.
Reads(h) == \E r : Ask(h, r) /\ AsRead(r)

LEMMA ImportReadsHold ==
  ASSUME TypeOK, LedgerInv, Tables, NEW h \in Handlers, NEW b \in Batches,
         \/ \E works \in SUBSET Works, ticked \in SUBSET {l.id : l \in listings} :
              CloseRead(h, b, works, ticked)
         \/ UndoRead(h, b)
         \/ UndoGroupRead(h, b)
  PROVE  Reads(h)
<1>1. ASSUME NEW works, NEW ticked, CloseRead(h, b, works, ticked) PROVE Reads(h)
  <2> DEFINE r == [op |-> "close", batch |-> b, works |-> works, ticked |-> ticked,
                   removes |-> batch[b].removes /\ Proposed(b) # {},
                   after |-> {history[i] : i \in DOMAIN history}]
  <2>1. Ask(h, r)
    BY <1>1 DEF CloseRead
  <2>2. AsRead(r)
    BY DEF AsRead, Named
  <2> QED BY <2>1, <2>2 DEF Reads
<1>2. CASE UndoRead(h, b)
  <2> DEFINE r == [op |-> "undo", batch |-> b, titles |-> CreatedTitles(b),
                   listings |-> {c.listing : c \in AddedElsewhere(b)},
                   survivors |-> {c.title : c \in AddedElsewhere(b)},
                   previous |-> Latest(batch[b].service, b)]
  <2>1. Ask(h, r)
    BY <1>2 DEF UndoRead
  <2>2. \A l \in listings : l.id \in r.listings => l.title \in r.survivors
    <3> SUFFICES ASSUME NEW l \in listings, NEW c \in AddedElsewhere(b), l.id = c.listing
                 PROVE  l.title = c.title
      OBVIOUS
    <3>1. c \in changes /\ c.listing # 0
      BY DEF AddedElsewhere, Recorded
    <3>2. PICK m \in listings : m.id = c.listing /\ m.title = c.title
      BY <3>1 DEF Tables, Tied
    <3> QED BY <3>2 DEF LedgerInv, UniqueIds
  <2>3. \A id \in r.listings : id <= rows
    BY DEF AddedElsewhere, Recorded, LedgerInv, ReferencesHold, UniqueIds
  <2>4. AsRead(r)
    BY <2>2, <2>3 DEF AsRead, Named
  <2> QED BY <2>1, <2>4 DEF Reads
<1>3. CASE UndoGroupRead(h, b)
  <2> DEFINE members == {l \in listings : l.group = b}
             held    == {l \in members : WorkOf(l.title) \in suppressed}
             r == [op |-> "undoGroup", group |-> b,
                   restoring |-> {l.id : l \in members \ held}, held |-> {l.id : l \in held}]
  <2>1. Ask(h, r)
    BY <1>3 DEF UndoGroupRead
  <2>2. \A l \in listings : l.id \in r.restoring => WorkOf(l.title) \notin suppressed
    BY DEF LedgerInv, UniqueIds
  <2>3. AsRead(r)
    BY <2>2 DEF AsRead, Named
  <2> QED BY <2>1, <2>3 DEF Reads
<1> QED
  BY <1>1, <1>2, <1>3

LEMMA EditReadsHold ==
  ASSUME TypeOK, LedgerInv, Tables, NEW h \in Handlers,
         \/ \E l \in listings, confirmDuplicate \in BOOLEAN : RestoreRead(h, l, confirmDuplicate)
         \/ \E w \in Works, services \in SUBSET Services : AddRead(h, w, services)
         \/ \E t \in titles :
              \/ RemoveRead(h, t)
              \/ \E s \in Services : BadgeRead(h, t, s)
              \/ \E w \in Works, confirmDuplicate \in BOOLEAN : FixRead(h, t, w, confirmDuplicate)
         \/ \E l \in listings : DropRead(h, l)
  PROVE  Reads(h)
<1>u. /\ \A l, m \in listings : l.id = m.id => l = m
      /\ \A t \in titles : WorkOf(t.id) = t.work
      /\ \A l \in listings : l.id <= rows
  BY WorkOfTitle DEF LedgerInv, UniqueIds
<1>1. ASSUME NEW l \in listings, NEW confirmDuplicate, RestoreRead(h, l, confirmDuplicate)
      PROVE  Reads(h)
  <2> DEFINE r == [op |-> "restore", listing |-> l.id, title |-> l.title,
                   duplicate |-> OldestActive(WorkOf(l.title)) # {}]
  <2>1. Ask(h, r) /\ WorkOf(l.title) \notin suppressed
    BY <1>1 DEF RestoreRead
  <2>2. ~r.duplicate => Active(TitlesOf(WorkOf(l.title))) = {}
    BY NoneActive
  <2>3. AsRead(r)
    BY <2>1, <2>2 DEF AsRead, Named
  <2> QED BY <2>1, <2>3 DEF Reads
<1>2. ASSUME NEW w, NEW services, AddRead(h, w, services)
      PROVE  Reads(h)
  BY <1>2 DEF AddRead, Reads, AsRead, Named
<1>3. ASSUME NEW t \in titles, RemoveRead(h, t)
      PROVE  Reads(h)
  <2> DEFINE r == [op |-> "remove", title |-> t.id,
                   listings |-> {l.id : l \in Active(ListingsOf(listings, t.id))}]
  <2>1. Ask(h, r)
    BY <1>3 DEF RemoveRead
  <2>2. AsRead(r)
    BY <1>u DEF AsRead, Named, Active, ListingsOf
  <2> QED BY <2>1, <2>2 DEF Reads
<1>4. ASSUME NEW t \in titles, NEW s, BadgeRead(h, t, s)
      PROVE  Reads(h)
  <2> DEFINE r == [op |-> "badge", title |-> t.id, service |-> s]
  <2>1. Ask(h, r) /\ t.work \notin suppressed /\ t.state = "active"
    BY <1>4 DEF BadgeRead
  <2>2. AsRead(r)
    BY <1>u, <2>1 DEF AsRead, Named
  <2> QED BY <2>1, <2>2 DEF Reads
<1>5. ASSUME NEW t \in titles, NEW w, NEW confirmDuplicate, FixRead(h, t, w, confirmDuplicate)
      PROVE  Reads(h)
  <2> DEFINE r == [op |-> "fix", title |-> t.id, from |-> t.work, to |-> w,
                   duplicate |-> OldestActive(w) # {}, carried |-> t.work \in suppressed]
  <2>1. Ask(h, r)
    BY <1>5 DEF FixRead
  <2>2. AsRead(r)
    BY DEF AsRead, Named
  <2> QED BY <2>1, <2>2 DEF Reads
<1>6. ASSUME NEW l \in listings, DropRead(h, l)
      PROVE  Reads(h)
  <2> DEFINE r == [op |-> "remove", title |-> l.title, listings |-> {l.id}]
  <2>1. Ask(h, r)
    BY <1>6 DEF DropRead
  <2>2. AsRead(r)
    BY <1>u DEF AsRead, Named
  <2> QED BY <2>1, <2>2 DEF Reads
<1> QED
  BY <1>1, <1>2, <1>3, <1>4, <1>5, <1>6

----------------------------------------------------------------------------
(* What a write leaves                                                     *)

\* A title has the state of its listings, and listings or a candidate.
Mirrors(t, ls, cs) ==
  /\ ListingsOf(ls, t.id) # {} \/ Linked(cs, t.id)
  /\ t.state = Derived(ls, t.id)
Mirrored == \A t \in titles : Mirrors(t, listings, changes)

\* The step lists nothing of a suppressed work.
NothingReturns ==
  /\ \A l \in listings' : l.state = "active" /\ WorkOf(l.title)' \in suppressed
        => \E m \in Active(listings) : m.id = l.id
  /\ \A t \in titles, u \in titles' :
        t.id = u.id /\ t.work # u.work /\ t.work \in suppressed => u.work \in suppressed'

\* The step keeps the tables in order.
Steady == Tables' /\ (Mirrored => Mirrored')

Sound == Steady /\ NothingReturns

\* Bringing titles up to date: their states, from the listings, and nothing else.
LEMMA RederiveStates ==
  ASSUME NEW ts \in SUBSET Titles, NEW ls, NEW ids, NEW u \in Rederive(ts, ls, ids)
  PROVE  \E t \in ts : /\ u.id = t.id /\ u.work = t.work /\ u.ack = t.ack
                       /\ u.state = IF t.id \in ids THEN Derived(ls, t.id) ELSE t.state
<1>1. PICK t \in ts : u = IF t.id \in ids THEN [t EXCEPT !.state = Derived(ls, t.id)] ELSE t
  BY DEF Rederive
<1> QED
  BY <1>1 DEF Titles

\* The ledger still names listings under their titles, when its rows are old ones or
\* those of the listings.
LEMMA TiedKept ==
  ASSUME LedgerInv, LedgerInv', TypeOK, Tied,
         \A d \in changes' : d.listing # 0 =>
           \/ \E c \in changes : c.listing = d.listing /\ c.title = d.title
           \/ \E m \in listings' : m.id = d.listing /\ m.title = d.title,
         \A m \in listings' :
           m.id > rows \/ \E l \in listings : l.id = m.id /\ l.title = m.title
  PROVE  Tied'
<1> SUFFICES ASSUME NEW d \in changes', d.listing # 0
             PROVE  \E m \in listings' : m.id = d.listing /\ m.title = d.title
  BY DEF Tied
<1>1. CASE \E c \in changes : c.listing = d.listing /\ c.title = d.title
  <2>1. PICK l \in listings : l.id = d.listing /\ l.title = d.title
    BY <1>1 DEF Tied
  <2>2. PICK m \in listings' : m.id = d.listing
    BY DEF LedgerInv, ReferencesHold
  <2>3. ~(m.id > rows)
    BY <2>1, <2>2 DEF LedgerInv, UniqueIds, TypeOK, Listings, Ids
  <2>4. m.title = l.title
    BY <2>1, <2>2, <2>3 DEF LedgerInv, UniqueIds
  <2> QED BY <2>1, <2>2, <2>4
<1> QED
  BY <1>1

\* Titles that keep their works keep what is suppressed.
LEMMA WorksKept ==
  ASSUME TypeOK, LedgerInv, \A u \in titles' : u.id > rows \/ \E t \in titles : SameTitle(u, t)
  PROVE  \A t \in titles, u \in titles' : t.id = u.id => t.work = u.work
BY DEF LedgerInv, UniqueIds, SameTitle, TypeOK, Titles, Ids

\* What listings derive depends on those of the title alone.
LEMMA DerivedSame ==
  ASSUME NEW ls, NEW ms, NEW id,
         (\E l \in ls : l.title = id /\ l.state = "active") <=>
         (\E l \in ms : l.title = id /\ l.state = "active")
  PROVE  Derived(ls, id) = Derived(ms, id)
<1>1. \A s : Active(ListingsOf(s, id)) = {} <=> ~(\E l \in s : l.title = id /\ l.state = "active")
  BY DEF Active, ListingsOf
<1> QED
  BY <1>1 DEF Derived

LEMMA UndoSound ==
  ASSUME TypeOK, LedgerInv, LedgerInv', Tables, NEW h \in Handlers, Named(handler[h]), UndoWrite(h)
  PROVE  Sound
<1> DEFINE r     == handler[h]
           under == {l \in listings : l.title \in r.titles}
           gone  == under \cup {l \in listings : l.id \in r.listings}
           ls    == listings \ gone
           ts    == {t \in titles : t.id \notin r.titles}
           lost  == {l.id : l \in under} \cup r.listings
<1>1. /\ r.op = "undo" /\ CanDerive(ls, r.survivors)
      /\ titles' = Rederive(ts, ls, r.survivors) /\ listings' = ls
      /\ IndexesHold(titles, listings)'
      /\ changes' = {Detach(c, r.titles, lost) : c \in changes}
  BY DEF UndoWrite, Doing, Store, IndexesHold, Active
<1>2. \A u \in titles' : \E t \in ts : /\ u.id = t.id /\ u.work = t.work /\ u.ack = t.ack
        /\ u.state = IF t.id \in r.survivors THEN Derived(ls, t.id) ELSE t.state
  <2>1. ts \in SUBSET Titles
    BY DEF TypeOK
  <2> HIDE DEF ts, ls
  <2> QED BY <1>1, <2>1, RederiveStates
<1>3. \A c \in changes : LET d == Detach(c, r.titles, lost) IN
        /\ d.kind = c.kind /\ d.purged = c.purged
        /\ d.title = IF c.title \in r.titles THEN 0 ELSE c.title
        /\ d.listing = IF c.listing \in lost THEN 0 ELSE c.listing
  BY DEF Detach, TypeOK, Changes
<1>4. \A l \in listings : l.id \in r.listings => l.title \in r.survivors
  BY <1>1 DEF Named
<1>5. ls \subseteq listings
  OBVIOUS
<1>6. Tied'
  <2>1. ASSUME NEW c \in changes, Detach(c, r.titles, lost).listing # 0
        PROVE  /\ Detach(c, r.titles, lost).listing = c.listing
               /\ Detach(c, r.titles, lost).title = c.title
    <3>1. c.listing # 0 /\ c.listing \notin lost
      BY <1>3, <2>1
    <3>2. PICK l \in listings : l.id = c.listing /\ l.title = c.title
      BY <3>1 DEF Tables, Tied
    <3>3. c.title \notin r.titles
      BY <3>1, <3>2
    <3> QED BY <1>3, <3>1, <3>3
  <2>2. \A d \in changes' : d.listing # 0 =>
          \E c \in changes : c.listing = d.listing /\ c.title = d.title
    BY <1>1, <2>1
  <2> QED BY <1>1, <1>5, <2>2, TiedKept DEF Tables
<1>7. \A t \in titles' : t.ack \in {0, t.id}
  BY <1>2 DEF Tables
<1>8. ASSUME Mirrored, NEW u \in titles' PROVE Mirrors(u, ls, changes')
  <2>1. PICK t \in ts : /\ u.id = t.id
          /\ u.state = IF t.id \in r.survivors THEN Derived(ls, t.id) ELSE t.state
    BY <1>2
  <2>2. CASE t.id \in r.survivors
    BY <2>1, <2>2, <1>1 DEF Mirrors, CanDerive
  <2>3. CASE t.id \notin r.survivors
    <3>1. ListingsOf(ls, t.id) = ListingsOf(listings, t.id)
      BY <1>4, <2>3 DEF ListingsOf
    <3>2. Linked(changes, t.id) => Linked(changes', t.id)
      <4> SUFFICES ASSUME NEW c \in changes, c.kind = "listing_added", c.title = t.id, ~c.purged
                   PROVE  Linked(changes', t.id)
        BY DEF Linked
      <4>1. Detach(c, r.titles, lost) \in changes'
        BY <1>1
      <4>2. Detach(c, r.titles, lost).title = t.id
        BY <1>3
      <4> HIDE DEF lost
      <4> QED BY <1>3, <4>1, <4>2 DEF Linked
    <3>3. Mirrors(t, listings, changes)
      BY <1>8 DEF Mirrored
    <3> HIDE DEF ls
    <3> QED BY <2>1, <2>3, <3>1, <3>2, <3>3 DEF Mirrors, Derived
  <2> QED BY <2>2, <2>3
<1>9. NothingReturns
  <2>1. \A l \in listings' : l.state = "active" => l \in Active(listings)
    BY <1>1, <1>5 DEF Active
  <2>2. \A u \in titles' : \E t \in titles : u.id = t.id /\ u.work = t.work
    BY <1>2
  <2>3. \A t \in titles, u \in titles' : t.id = u.id => t.work = u.work
    BY <2>2 DEF LedgerInv, UniqueIds
  <2> QED BY <2>1, <2>3 DEF NothingReturns
<1> HIDE DEF ls
<1> QED
  BY <1>1, <1>6, <1>7, <1>8, <1>9 DEF Sound, Steady, Tables, Mirrored

LEMMA PurgeSound ==
  ASSUME TypeOK, LedgerInv, LedgerInv', Tables, NEW h \in Handlers, NEW ls \in SUBSET listings,
         Purge(h, ls)
  PROVE  Sound
<1> DEFINE ids     == {l.id : l \in ls}
           marked  == Purged(changes, ids)
           dropped == {id \in {l.title : l \in ls} :
                         ListingsOf(listings \ ls, id) = {} /\ ~Linked(marked, id)}
           rest    == listings \ ls
           f(c)    == IF c.listing \in ids THEN [c EXCEPT !.listing = 0, !.purged = TRUE] ELSE c
           g(c)    == IF c.title \in dropped
                        THEN [c EXCEPT !.title = 0, !.listing = 0, !.purged = TRUE] ELSE c
<1>1. /\ titles' = {t \in titles : t.id \notin dropped} /\ listings' = rest
      /\ changes' = Forgotten(marked, dropped) /\ Active(ls) = {}
      /\ IndexesHold(titles, listings)'
  BY DEF Purge, Store, IndexesHold, Active
<1>2. marked = {f(c) : c \in changes} /\ changes' = {g(c) : c \in marked}
  BY <1>1 DEF Purged, Forgotten
<1>3. \A c \in changes : /\ f(c) \in Changes
                         /\ f(c).listing # 0 => f(c).listing = c.listing /\ f(c).title = c.title
                         /\ c.listing \notin ids => f(c) = c
  BY DEF TypeOK, Changes
<1>4. \A c \in Changes : /\ g(c).listing # 0 => g(c).listing = c.listing /\ g(c).title = c.title
                         /\ c.title \notin dropped => g(c) = c
  BY DEF Changes
<1>d. \A id : id \in dropped <=>
        /\ \E l \in ls : l.title = id
        /\ ListingsOf(rest, id) = {} /\ ~Linked(marked, id)
  OBVIOUS
<1> HIDE DEF f, g, marked, dropped
<1>5. Tied'
  <2>1. \A d \in changes' : d.listing # 0 =>
          \E c \in changes : c.listing = d.listing /\ c.title = d.title
    <3> SUFFICES ASSUME NEW d \in changes', d.listing # 0
                 PROVE  \E c \in changes : c.listing = d.listing /\ c.title = d.title
      OBVIOUS
    <3>1. PICK c \in changes : d = g(f(c))
      BY <1>2
    <3>2. f(c).listing = d.listing /\ f(c).title = d.title
      BY <1>3, <1>4, <3>1
    <3>3. c.listing = d.listing /\ c.title = d.title
      BY <1>3, <3>2
    <3> QED BY <3>3
  <2> QED BY <1>1, <2>1, TiedKept DEF Tables
<1>6. \A t \in titles' : t.ack \in {0, t.id}
  BY <1>1 DEF Tables
<1>7. ASSUME Mirrored, NEW t \in titles' PROVE Mirrors(t, rest, changes')
  <2>1. Mirrors(t, listings, changes) /\ t.id \notin dropped
    BY <1>1, <1>7 DEF Mirrored
  <2>2. Derived(listings, t.id) = Derived(rest, t.id)
    <3>1. (\E l \in listings : l.title = t.id /\ l.state = "active") <=>
          (\E l \in rest : l.title = t.id /\ l.state = "active")
      BY <1>1 DEF Active
    <3> QED BY <3>1, DerivedSame
  <2>3. ASSUME NEW c \in marked, c.kind = "listing_added", c.title = t.id, ~c.purged
        PROVE  Linked(changes', t.id)
    <3>1. c \in Changes
      BY <1>2, <1>3
    <3>2. g(c) = c /\ g(c) \in changes'
      BY <1>2, <1>4, <2>1, <2>3, <3>1
    <3> QED BY <2>3, <3>2 DEF Linked
  <2>4. CASE \E l \in ls : l.title = t.id
    BY <1>d, <2>1, <2>2, <2>3, <2>4 DEF Mirrors, Linked
  <2>5. CASE ~(\E l \in ls : l.title = t.id)
    <3>1. ListingsOf(rest, t.id) = ListingsOf(listings, t.id)
      BY <2>5 DEF ListingsOf
    <3>2. ASSUME NEW c \in changes, c.kind = "listing_added", c.title = t.id, ~c.purged
          PROVE  Linked(changes', t.id)
      <4>1. c.listing \notin ids
        <5> SUFFICES ASSUME NEW l \in ls, c.listing = l.id PROVE FALSE
          OBVIOUS
        <5>1. l.id # 0
          BY DEF TypeOK, Listings, Ids
        <5>2. PICK m \in listings : m.id = c.listing /\ m.title = c.title
          BY <5>1 DEF Tables, Tied
        <5>3. m = l
          BY <5>2 DEF LedgerInv, UniqueIds
        <5> QED BY <2>5, <3>2, <5>2, <5>3
      <4>2. f(c) = c /\ f(c) \in marked
        BY <1>2, <1>3, <4>1
      <4> QED BY <2>3, <3>2, <4>2
    <3> HIDE DEF rest
    <3> QED BY <2>1, <2>2, <3>1, <3>2 DEF Mirrors, Linked
  <2> QED BY <2>4, <2>5
<1>8. NothingReturns
  <2>1. \A l \in listings' : l.state = "active" => l \in Active(listings)
    BY <1>1 DEF Active
  <2>2. \A t \in titles, u \in titles' : t.id = u.id => t.work = u.work
    BY <1>1 DEF LedgerInv, UniqueIds
  <2> QED BY <2>1, <2>2 DEF NothingReturns
<1> HIDE DEF rest
<1> QED
  BY <1>1, <1>5, <1>6, <1>7, <1>8 DEF Sound, Steady, Tables, Mirrored

\* Listings come back to the list: those of a group, or the one of a restore.
LEMMA ReturnedRows ==
  ASSUME TypeOK, UniqueIds, NEW back \in SUBSET listings, NEW ls,
         ls = (listings \ back) \cup {[l EXCEPT !.state = "active", !.group = None] : l \in back}
  PROVE  /\ \A m \in ls : m \in listings \/ \E l \in back : m.id = l.id /\ m.title = l.title
         /\ \A l \in listings : \E m \in ls : m.id = l.id /\ m.title = l.title
         /\ \A id : id \notin {l.title : l \in back} => ListingsOf(ls, id) = ListingsOf(listings, id)
<1> DEFINE f(l) == [l EXCEPT !.state = "active", !.group = None]
<1>1. \A l \in listings : f(l).id = l.id /\ f(l).title = l.title
  BY DEF TypeOK, Listings
<1>2. ls = (listings \ back) \cup {f(l) : l \in back}
  OBVIOUS
<1> HIDE DEF f
<1> QED
  BY <1>1, <1>2 DEF ListingsOf

LEMMA GroupSound ==
  ASSUME TypeOK, LedgerInv, LedgerInv', Tables, NEW h \in Handlers, UndoGroupWrite(h)
  PROVE  Steady /\ (AsRead(handler[h]) => NothingReturns)
<1> DEFINE r    == handler[h]
           back == {l \in listings : l.id \in r.restoring /\ l.state = "removed"}
           ls   == (listings \ back)
                     \cup {[l EXCEPT !.state = "active", !.group = None] : l \in back}
           ids  == {l.title : l \in back}
<1>1. /\ r.op = "undoGroup" /\ r.restoring = {l.id : l \in back}
      /\ titles' = Rederive(titles, ls, ids) /\ listings' = ls
      /\ IndexesHold(titles, listings)'
      /\ UNCHANGED changes
  BY DEF UndoGroupWrite, Doing, Store, IndexesHold, Active
<1>b. back \in SUBSET listings /\ UniqueIds
  BY DEF LedgerInv
<1>w. AsRead(r) => \A l \in back : WorkOf(l.title) \notin suppressed
  BY <1>1 DEF AsRead
<1> HIDE DEF back
<1>2. /\ \A m \in ls : m \in listings \/ \E l \in back : m.id = l.id /\ m.title = l.title
      /\ \A l \in listings : \E m \in ls : m.id = l.id /\ m.title = l.title
      /\ \A id : id \notin ids => ListingsOf(ls, id) = ListingsOf(listings, id)
  BY <1>b, ReturnedRows
<1> HIDE DEF ls, ids
<1>3. \A u \in titles' : \E t \in titles : /\ u.id = t.id /\ u.work = t.work /\ u.ack = t.ack
        /\ u.state = IF t.id \in ids THEN Derived(ls, t.id) ELSE t.state
  BY <1>1, RederiveStates DEF TypeOK
<1>4. Tied'
  BY <1>1, <1>2, <1>b, TiedKept DEF Tables
<1>5. \A t \in titles' : t.ack \in {0, t.id}
  BY <1>3 DEF Tables
<1>6. ASSUME Mirrored, NEW u \in titles' PROVE Mirrors(u, ls, changes)
  <2>1. PICK t \in titles : /\ u.id = t.id
          /\ u.state = IF t.id \in ids THEN Derived(ls, t.id) ELSE t.state
    BY <1>3
  <2>2. Mirrors(t, listings, changes)
    BY <1>6 DEF Mirrored
  <2>3. ListingsOf(listings, t.id) # {} => ListingsOf(ls, t.id) # {}
    BY <1>2 DEF ListingsOf
  <2>4. t.id \notin ids => Derived(ls, t.id) = Derived(listings, t.id)
    BY <1>2 DEF Derived
  <2> QED BY <2>1, <2>2, <2>3, <2>4 DEF Mirrors
<1>7. ASSUME AsRead(r) PROVE NothingReturns
  <2>1. \A t \in titles, u \in titles' : t.id = u.id => t.work = u.work
    BY <1>3 DEF LedgerInv, UniqueIds
  <2>2. ASSUME NEW m \in listings', m.state = "active", WorkOf(m.title)' \in suppressed
        PROVE  m \in Active(listings)
    <3>1. CASE m \in listings
      BY <2>2, <3>1 DEF Active
    <3>2. ASSUME NEW l \in back, m.title = l.title PROVE FALSE
      <4>1. PICK t \in titles : t.id = m.title
        BY <1>b, <3>2 DEF UniqueIds, TitleIds
      <4>2. PICK u \in titles' : u.id = m.title
        BY <2>2 DEF LedgerInv, UniqueIds, TitleIds
      <4>3. WorkOf(l.title) = t.work
        BY <1>b, <3>2, <4>1, WorkOfTitle
      <4>4. WorkOf(m.title)' = u.work
        BY <4>2 DEF LedgerInv, UniqueIds, WorkOf
      <4> QED BY <1>w, <1>7, <2>1, <2>2, <3>2, <4>1, <4>2, <4>3, <4>4
    <3> QED BY <1>1, <1>2, <2>2, <3>1, <3>2
  <2> QED BY <2>1, <2>2 DEF NothingReturns
<1> QED
  BY <1>1, <1>4, <1>5, <1>6, <1>7 DEF Steady, Tables, Mirrored

\* A restore is between its statements: the title it is about may be behind.
MirroredBut(id) ==
  \A t \in titles : /\ ListingsOf(listings, t.id) # {} \/ Linked(changes, t.id)
                    /\ t.id # id => t.state = Derived(listings, t.id)

LEMMA RestoreListingSound ==
  ASSUME TypeOK, LedgerInv, LedgerInv', Tables, NEW h \in Handlers, AsRead(handler[h]),
         RestoreListing(h)
  PROVE  /\ Tables' /\ NothingReturns
         /\ Mirrored => MirroredBut(handler[h].title)'
         /\ AsRead(handler[h])'
         /\ handler'[h].op = "restored" /\ handler'[h].title = handler[h].title
<1> DEFINE r    == handler[h]
           q    == [op |-> "restored", title |-> r.title, duplicate |-> r.duplicate]
           back == {l \in listings : l.id = r.listing /\ l.state = "removed"}
           ls   == (listings \ back)
                     \cup {[l EXCEPT !.state = "active", !.group = None] : l \in back}
<1>1. /\ r.op = "restore" /\ handler'[h] = q
      /\ titles' = titles /\ listings' = ls
      /\ IndexesHold(titles, listings)'
      /\ UNCHANGED <<changes, suppressed>>
  BY DEF RestoreListing, Doing, Store, IndexesHold, Active, ledger, TypeOK
<1>2. PICK l0 \in listings : l0.id = r.listing /\ l0.title = r.title
  BY <1>1 DEF AsRead
<1>3. /\ UniqueIds /\ back \in SUBSET listings
      /\ \A l \in back : l.title = r.title
      /\ WorkOf(r.title) \notin suppressed
  <2>1. \A l \in back : l = l0
    BY <1>2 DEF LedgerInv, UniqueIds
  <2>2. UniqueIds /\ WorkOf(r.title) \notin suppressed
    BY <1>1 DEF LedgerInv, AsRead
  <2> QED BY <1>2, <2>1, <2>2
<1> HIDE DEF back
<1>4. /\ \A m \in ls : m \in listings \/ \E l \in back : m.id = l.id /\ m.title = l.title
      /\ \A l \in listings : \E m \in ls : m.id = l.id /\ m.title = l.title
      /\ \A id : id \notin {l.title : l \in back} => ListingsOf(ls, id) = ListingsOf(listings, id)
  BY <1>3, ReturnedRows
<1> HIDE DEF ls
<1>5. Tied'
  BY <1>1, <1>3, <1>4, TiedKept DEF Tables
<1>6. \A t \in titles' : t.ack \in {0, t.id}
  BY <1>1 DEF Tables
<1>7. \A id : WorkOf(id)' = WorkOf(id)
  BY <1>1 DEF WorkOf
<1>8. NothingReturns
  <2>1. ASSUME NEW m \in listings', m.state = "active", WorkOf(m.title)' \in suppressed
        PROVE  m \in Active(listings)
    BY <1>1, <1>3, <1>4, <1>7, <2>1 DEF Active
  <2>2. \A t \in titles, u \in titles' : t.id = u.id => t.work = u.work
    BY <1>1 DEF LedgerInv, UniqueIds
  <2> QED BY <2>1, <2>2 DEF NothingReturns
<1>9. ASSUME Mirrored PROVE MirroredBut(r.title)'
  <2> SUFFICES ASSUME NEW t \in titles
               PROVE  /\ ListingsOf(ls, t.id) # {} \/ Linked(changes, t.id)
                      /\ t.id # r.title => t.state = Derived(ls, t.id)
    BY <1>1 DEF MirroredBut
  <2>1. Mirrors(t, listings, changes)
    BY <1>9 DEF Mirrored
  <2>2. ListingsOf(listings, t.id) # {} => ListingsOf(ls, t.id) # {}
    BY <1>4 DEF ListingsOf
  <2>3. t.id # r.title => ListingsOf(ls, t.id) = ListingsOf(listings, t.id)
    BY <1>3, <1>4
  <2> QED BY <2>1, <2>2, <2>3 DEF Mirrors, Derived
<1>10. AsRead(q)'
  <2>1. ListingsOf(ls, r.title) # {}
    BY <1>2, <1>4 DEF ListingsOf
  <2>2. ~r.duplicate => Active(TitlesOf(WorkOf(r.title))) = {}
    BY <1>1 DEF AsRead
  <2>3. Active(TitlesOf(WorkOf(r.title)))' = Active(TitlesOf(WorkOf(r.title)))
    BY <1>1 DEF Active, TitlesOf, WorkOf
  <2> QED BY <1>1, <2>1, <2>2, <2>3 DEF AsRead, Named
<1> QED
  BY <1>1, <1>5, <1>6, <1>8, <1>9, <1>10 DEF Tables

LEMMA RestoreDeriveSound ==
  ASSUME TypeOK, Tables, NEW h \in Handlers, AsRead(handler[h]), RestoreDerive(h)
  PROVE  /\ UNCHANGED <<titles, listings, changes, suppressed>>
         /\ AsRead(handler[h])'
         /\ handler'[h].op = "derived" /\ handler'[h].title = handler[h].title
<1> DEFINE r == handler[h]
           q == [op |-> "derived", title |-> r.title, state |-> Derived(listings, r.title),
                 duplicate |-> r.duplicate]
<1>1. /\ r.op = "restored" /\ handler'[h] = q
      /\ UNCHANGED <<titles, listings, changes, suppressed>>
  BY DEF RestoreDerive, Doing, list, ledger, TypeOK
<1>2. /\ ListingsOf(listings, r.title) # {}
      /\ ~r.duplicate => Active(TitlesOf(WorkOf(r.title))) = {}
  BY <1>1 DEF AsRead
<1>3. Active(TitlesOf(WorkOf(r.title)))' = Active(TitlesOf(WorkOf(r.title)))
  BY <1>1 DEF Active, TitlesOf, WorkOf
<1>4. AsRead(q)'
  BY <1>1, <1>2, <1>3 DEF AsRead, Named, Derived, Active, ListingsOf
<1> QED
  BY <1>1, <1>4

\* What a restore writes to the titles, row by row.
LEMMA RetitledRows ==
  ASSUME TypeOK, NEW r, NEW u \in Retitled(r)
  PROVE  \E t \in titles :
           /\ u.id = t.id /\ u.work = t.work
           /\ u.state = IF t.id = r.title THEN r.state ELSE t.state
           /\ u.ack = IF t.id = r.title /\ r.duplicate THEN t.id ELSE t.ack
<1>1. PICK t \in titles :
        u = IF t.id = r.title
              THEN [t EXCEPT !.state = r.state, !.ack = IF r.duplicate THEN t.id ELSE @]
              ELSE t
  BY DEF Retitled
<1>2. t \in Titles
  BY DEF TypeOK
<1> QED
  BY <1>1, <1>2 DEF Titles

LEMMA RestoreTitleSound ==
  ASSUME TypeOK, LedgerInv, LedgerInv', Tables, NEW h \in Handlers, AsRead(handler[h]),
         RestoreTitle(h)
  PROVE  Tables' /\ NothingReturns /\ (MirroredBut(handler[h].title) => Mirrored')
<1> DEFINE r == handler[h]
<1>1. /\ r.op = "derived" /\ titles' = Retitled(r) /\ listings' = listings
      /\ IndexesHold(titles, listings)'
      /\ UNCHANGED <<changes, suppressed>>
  BY DEF RestoreTitle, Doing, Store, IndexesHold, Active, ledger
<1>2. \A u \in titles' : \E t \in titles :
        /\ u.id = t.id /\ u.work = t.work
        /\ u.state = IF t.id = r.title THEN r.state ELSE t.state
        /\ u.ack = IF t.id = r.title /\ r.duplicate THEN t.id ELSE t.ack
  BY <1>1, RetitledRows
<1>3. Tied'
  BY <1>1 DEF Tables, Tied
<1>4. \A t \in titles' : t.ack \in {0, t.id}
  BY <1>2 DEF Tables
<1>5. NothingReturns
  <2>1. \A t \in titles, u \in titles' : t.id = u.id => t.work = u.work
    BY <1>2 DEF LedgerInv, UniqueIds
  <2>2. \A l \in listings' : l.state = "active" => l \in Active(listings)
    BY <1>1 DEF Active
  <2> QED BY <2>1, <2>2 DEF NothingReturns
<1>6. ASSUME MirroredBut(r.title), NEW u \in titles' PROVE Mirrors(u, listings, changes)
  <2>1. PICK t \in titles : /\ u.id = t.id
                            /\ u.state = IF t.id = r.title THEN r.state ELSE t.state
    BY <1>2
  <2>2. r.state = Derived(listings, r.title)
    BY <1>1 DEF AsRead
  <2> QED BY <1>6, <2>1, <2>2 DEF MirroredBut, Mirrors
<1> QED
  BY <1>1, <1>3, <1>4, <1>5, <1>6 DEF Tables, Mirrored

\* When nothing acts in between, the last statements of a restore are not refused.
LEMMA NeverRejected ==
  ASSUME TypeOK, LedgerInv, Tables, NEW h \in Handlers, AsRead(handler[h]), RestoreRejected(h)
  PROVE  FALSE
<1> DEFINE r == handler[h]
<1>1. /\ r.op \in {"restored", "derived"} /\ ListingsOf(listings, r.title) # {}
      /\ ~r.duplicate => Active(TitlesOf(WorkOf(r.title))) = {}
  BY DEF RestoreRejected, Doing, AsRead
<1>2. ~IndexesHold(Retitled(r), listings)
  BY <1>1 DEF RestoreRejected, Doing, CanDerive
<1>3. ASSUME NEW u \in Active(Retitled(r)), NEW v \in Active(Retitled(r)),
             u.work = v.work, u.ack = v.ack
      PROVE  u.id = v.id
  <2>1. PICK t \in titles :
          /\ u.id = t.id /\ u.work = t.work
          /\ u.state = IF t.id = r.title THEN r.state ELSE t.state
          /\ u.ack = IF t.id = r.title /\ r.duplicate THEN t.id ELSE t.ack
    BY RetitledRows DEF Active
  <2>2. PICK s \in titles :
          /\ v.id = s.id /\ v.work = s.work
          /\ v.state = IF s.id = r.title THEN r.state ELSE s.state
          /\ v.ack = IF s.id = r.title /\ r.duplicate THEN s.id ELSE s.ack
    BY RetitledRows DEF Active
  <2>3. /\ t.ack \in {0, t.id} /\ s.ack \in {0, s.id} /\ t.id # 0 /\ s.id # 0
        /\ u.state = "active" /\ v.state = "active"
    BY DEF Tables, TypeOK, Titles, Ids, Active
  <2>4. ASSUME ~r.duplicate, NEW x \in titles, x.state = "active", NEW y \in titles, y.id = r.title
        PROVE  x.work # y.work
    BY <1>1, <2>4, WorkOfTitle DEF Active, TitlesOf, LedgerInv
  <2>5. CASE t.id # r.title /\ s.id # r.title
    <3>1. t \in Active(titles) /\ s \in Active(titles)
      BY <2>1, <2>2, <2>3, <2>5 DEF Active
    <3>2. t.work = s.work /\ t.ack = s.ack
      BY <1>3, <2>1, <2>2, <2>5
    <3> QED BY <2>1, <2>2, <3>1, <3>2 DEF Tables, IndexesHold
  <2>6. CASE t.id = r.title /\ s.id # r.title
    BY <1>3, <2>1, <2>2, <2>3, <2>4, <2>6
  <2>7. CASE t.id # r.title /\ s.id = r.title
    BY <1>3, <2>1, <2>2, <2>3, <2>4, <2>7
  <2>8. CASE t.id = r.title /\ s.id = r.title
    BY <2>1, <2>2, <2>8
  <2> QED BY <2>5, <2>6, <2>7, <2>8
<1> QED
  BY <1>2, <1>3 DEF IndexesHold, Tables

LEMMA RemoveSound ==
  ASSUME TypeOK, LedgerInv, LedgerInv', Tables, NEW h \in Handlers, Named(handler[h]), RemoveWrite(h)
  PROVE  Sound
<1> DEFINE r    == handler[h]
           gone == {l \in Active(listings) : l.id \in r.listings}
           f(l) == [l EXCEPT !.state = "removed"]
           ls   == (listings \ gone) \cup {f(l) : l \in gone}
           ids  == {r.title}
<1>1. /\ r.op = "remove"
      /\ titles' = Rederive(titles, ls, ids) /\ listings' = ls
      /\ IndexesHold(titles, listings)'
      /\ UNCHANGED changes
  BY DEF RemoveWrite, Doing, Store, IndexesHold, Active, ledger
<1>2. /\ gone \subseteq listings /\ \A l \in gone : l.title = r.title
      /\ \A l \in listings : f(l).id = l.id /\ f(l).title = l.title /\ f(l).state = "removed"
  BY <1>1 DEF Named, Active, TypeOK, Listings
<1> HIDE DEF f, gone
<1>3. /\ \A m \in ls : \/ m \in listings
                       \/ m.state = "removed" /\ \E l \in listings : m.id = l.id /\ m.title = l.title
      /\ \A l \in listings : \E m \in ls : m.id = l.id /\ m.title = l.title
      /\ \A id : id # r.title => ListingsOf(ls, id) = ListingsOf(listings, id)
  BY <1>2 DEF ListingsOf
<1> HIDE DEF ls
<1>4. \A u \in titles' : \E t \in titles : /\ u.id = t.id /\ u.work = t.work /\ u.ack = t.ack
        /\ u.state = IF t.id \in ids THEN Derived(ls, t.id) ELSE t.state
  <2> HIDE DEF ids
  <2> QED BY <1>1, RederiveStates DEF TypeOK
<1>5. Tied'
  BY <1>1, <1>3, TiedKept DEF Tables
<1>6. \A t \in titles' : t.ack \in {0, t.id}
  BY <1>4 DEF Tables
<1>7. ASSUME Mirrored, NEW u \in titles' PROVE Mirrors(u, ls, changes)
  <2>1. PICK t \in titles : /\ u.id = t.id
          /\ u.state = IF t.id \in ids THEN Derived(ls, t.id) ELSE t.state
    BY <1>4
  <2>2. Mirrors(t, listings, changes)
    BY <1>7 DEF Mirrored
  <2>3. ListingsOf(listings, t.id) # {} => ListingsOf(ls, t.id) # {}
    BY <1>3 DEF ListingsOf
  <2>4. t.id \notin ids => Derived(ls, t.id) = Derived(listings, t.id)
    BY <1>3 DEF Derived
  <2> QED BY <2>1, <2>2, <2>3, <2>4 DEF Mirrors
<1>8. NothingReturns
  <2>1. \A t \in titles, u \in titles' : t.id = u.id => t.work = u.work
    BY <1>4 DEF LedgerInv, UniqueIds
  <2>2. \A m \in listings' : m.state = "active" => m \in Active(listings)
    BY <1>1, <1>3 DEF Active
  <2> QED BY <2>1, <2>2 DEF NothingReturns
<1> QED
  BY <1>1, <1>5, <1>6, <1>7, <1>8 DEF Sound, Steady, Tables, Mirrored

LEMMA FixSound ==
  ASSUME TypeOK, LedgerInv, LedgerInv', Tables, NEW h \in Handlers, FixWrite(h)
  PROVE  Steady /\ (AsRead(handler[h]) => NothingReturns)
<1> DEFINE r     == handler[h]
           fixed == {t \in titles : t.id = r.title /\ t.work = r.from}
           f(t)  == [t EXCEPT !.work = r.to, !.ack = IF r.duplicate THEN t.id ELSE @]
<1>1. /\ r.op = "fix" /\ titles' = (titles \ fixed) \cup {f(t) : t \in fixed}
      /\ listings' = listings /\ UNCHANGED changes
      /\ IndexesHold(titles, listings)'
      /\ r.carried => r.to \in suppressed'
  BY DEF FixWrite, Doing, Store, IndexesHold, Active, ledger
<1>2. \A t \in titles : /\ f(t).id = t.id /\ f(t).state = t.state /\ f(t).work = r.to
                        /\ f(t).ack \in {t.ack, t.id}
  BY DEF TypeOK, Titles
<1> HIDE DEF f
<1>3. \A u \in titles' : \E t \in titles :
        /\ u.id = t.id /\ u.state = t.state /\ u.ack \in {t.ack, t.id}
        /\ u.work = t.work \/ (t.work = r.from /\ u.work = r.to)
  BY <1>1, <1>2
<1> HIDE DEF fixed
<1>4. Tied'
  BY <1>1 DEF Tables, Tied
<1>5. \A t \in titles' : t.ack \in {0, t.id}
  BY <1>3 DEF Tables
<1>6. Mirrored => Mirrored'
  <2>1. ASSUME Mirrored, NEW u \in titles' PROVE Mirrors(u, listings, changes)
    BY <1>3, <2>1 DEF Mirrored, Mirrors
  <2> QED BY <1>1, <2>1 DEF Mirrored
<1>7. ASSUME AsRead(r) PROVE NothingReturns
  <2>1. \A m \in listings' : m.state = "active" => m \in Active(listings)
    BY <1>1 DEF Active
  <2>2. ASSUME NEW t \in titles, NEW u \in titles', t.id = u.id, t.work # u.work, t.work \in suppressed
        PROVE  u.work \in suppressed'
    <3>1. t.work = r.from /\ u.work = r.to
      BY <1>3, <2>2 DEF LedgerInv, UniqueIds
    <3>2. r.carried
      BY <1>1, <1>7, <2>2, <3>1 DEF AsRead
    <3> QED BY <1>1, <3>1, <3>2
  <2> QED BY <2>1, <2>2 DEF NothingReturns
<1> QED
  BY <1>1, <1>4, <1>5, <1>6, <1>7 DEF Steady, Tables

\* Listings of titles that are active, and titles with such a listing, of works that
\* are not suppressed.
LEMMA GrownSound ==
  ASSUME TypeOK, LedgerInv, LedgerInv', Tables, NEW made, NEW added,
         titles' = titles \cup made, listings' = listings \cup added, UNCHANGED changes,
         IndexesHold(titles, listings)',
         \A t \in made : /\ t.id > rows /\ t.ack = 0 /\ t.state = "active"
                         /\ \E l \in added : l.title = t.id,
         \A l \in added : /\ l.id > rows /\ l.state = "active"
                          /\ \E t \in titles \cup made : t.id = l.title /\ t.state = "active"
  PROVE  /\ Steady
         /\ (\A l \in added : \E t \in titles \cup made : t.id = l.title /\ t.work \notin suppressed)
              => NothingReturns
<1>1. \A t \in titles : t.id \in Nat /\ rows \in Nat /\ ~(t.id > rows)
  BY DEF TypeOK, Titles, Ids, LedgerInv, UniqueIds
<1>2. Tied'
  BY TiedKept DEF Tables
<1>3. \A t \in titles' : t.ack \in {0, t.id}
  BY DEF Tables
<1>4. ASSUME Mirrored, NEW t \in titles' PROVE Mirrors(t, listings', changes)
  <2>1. CASE t \in made
    <3>1. PICK l \in added : l.title = t.id
      BY <2>1
    <3> QED BY <2>1, <3>1 DEF Mirrors, Derived, Active, ListingsOf
  <2>2. CASE t \in titles
    <3>1. Mirrors(t, listings, changes)
      BY <1>4, <2>2 DEF Mirrored
    <3>2. \A l \in added : l.title = t.id => t.state = "active"
      BY <2>2 DEF LedgerInv, UniqueIds
    <3>3. (\E l \in listings : l.title = t.id /\ l.state = "active") <=> t.state = "active"
      BY <2>2, <3>1 DEF Mirrors, Derived, Active, ListingsOf
    <3>4. (\E l \in listings' : l.title = t.id /\ l.state = "active") <=> t.state = "active"
      BY <3>2, <3>3
    <3>5. Derived(listings', t.id) = Derived(listings, t.id)
      BY <3>3, <3>4, DerivedSame
    <3>6. ListingsOf(listings, t.id) \subseteq ListingsOf(listings', t.id)
      BY DEF ListingsOf
    <3> QED BY <3>1, <3>5, <3>6 DEF Mirrors
  <2> QED BY <2>1, <2>2
<1>5. ASSUME \A l \in added : \E t \in titles \cup made : t.id = l.title /\ t.work \notin suppressed
      PROVE  NothingReturns
  <2>1. \A t \in titles, u \in titles' : t.id = u.id => t.work = u.work
    BY DEF LedgerInv, UniqueIds
  <2>2. ASSUME NEW l \in added PROVE WorkOf(l.title)' \notin suppressed
    <3>1. PICK t \in titles' : t.id = l.title /\ t.work \notin suppressed
      BY <1>5
    <3>2. WorkOf(t.id)' = t.work
      BY DEF LedgerInv, UniqueIds, WorkOf
    <3> QED BY <3>1, <3>2
  <2>3. \A m \in listings' : m.state = "active" /\ m \notin added => m \in Active(listings)
    BY DEF Active
  <2> QED BY <2>1, <2>2, <2>3 DEF NothingReturns
<1> QED
  BY <1>2, <1>3, <1>4, <1>5 DEF Steady, Tables, Mirrored

LEMMA AddSound ==
  ASSUME TypeOK, LedgerInv, LedgerInv', Tables, NEW h \in Handlers,
         NEW number \in AddNumberings(h), AddWrite(h, number)
  PROVE  Steady /\ (AsRead(handler[h]) => NothingReturns)
<1> DEFINE r      == handler[h]
           wanted == Wanted(r)
           id     == HomeId(r.work, rows + 1)
           made   == IF Home(r.work) = {}
                       THEN {[id |-> id, work |-> r.work, state |-> "active", ack |-> 0,
                              by |-> None]}
                       ELSE {}
           added  == {[id |-> number[s], title |-> id, service |-> s, state |-> "active",
                       by |-> None, group |-> None] : s \in DOMAIN number}
<1>1. /\ r.op = "add" /\ (AsRead(r) => r.work \notin suppressed) /\ r \in Request
      /\ titles' = titles \cup made /\ listings' = listings \cup added
      /\ UNCHANGED changes /\ wanted # {} /\ DOMAIN number = wanted
      /\ IndexesHold(titles, listings)'
  BY DEF AddWrite, Doing, Store, IndexesHold, Active, ledger, AsRead, TypeOK
<1>2. wanted \subseteq Services /\ IsFiniteSet(wanted)
  BY <1>1, RequestFacts, FiniteAssumption, FS_Subset DEF Wanted
<1>3. /\ ~(rows + Cardinality(wanted) > MaxRows)
      /\ number \in Bijection(wanted, (rows + 1)..(rows + Cardinality(wanted)))
  BY DEF AddNumberings
<1>4. \A s \in wanted : number[s] > rows
  BY <1>2, <1>3, NumberingFacts
<1>5. rows + 1 > rows
  BY DEF TypeOK
<1>6. \E t \in titles \cup made : t.id = id /\ t.state = "active" /\ t.work = r.work
  <2>1. CASE Home(r.work) = {}
    <3>1. PICK t \in made : t.id = id /\ t.state = "active" /\ t.work = r.work
      BY <2>1
    <3> QED BY <3>1
  <2>2. CASE Home(r.work) # {}
    BY <2>2 DEF HomeId, Home, Newest, TitlesOf
  <2> QED BY <2>1, <2>2
<1>7. \A t \in made : t.id > rows /\ t.id = id /\ t.ack = 0 /\ t.state = "active"
  BY <1>5 DEF HomeId
<1> HIDE DEF r, wanted, id, made
<1>8. \A l \in added : l.id > rows /\ l.state = "active" /\ l.title = id
  BY <1>1, <1>4
<1>9. \E l \in added : l.title = id
  <2>1. PICK s \in DOMAIN number : TRUE
    BY <1>1
  <2> DEFINE l == [id |-> number[s], title |-> id, service |-> s, state |-> "active",
                   by |-> None, group |-> None]
  <2>2. l \in added /\ l.title = id
    BY <2>1
  <2> QED BY <2>2
<1> HIDE DEF added
<1>10. /\ \A t \in made : /\ t.id > rows /\ t.ack = 0 /\ t.state = "active"
                          /\ \E l \in added : l.title = t.id
       /\ \A l \in added : /\ l.id > rows /\ l.state = "active"
                           /\ \E t \in titles \cup made : t.id = l.title /\ t.state = "active"
       /\ AsRead(r) =>
            \A l \in added : \E t \in titles \cup made : t.id = l.title /\ t.work \notin suppressed
  BY <1>1, <1>6, <1>7, <1>8, <1>9
<1> QED
  BY <1>1, <1>10, GrownSound DEF r

LEMMA BadgeSound ==
  ASSUME TypeOK, LedgerInv, LedgerInv', Tables, NEW h \in Handlers, AsRead(handler[h]), BadgeWrite(h)
  PROVE  Sound
<1> DEFINE r     == handler[h]
           made  == {}
           added == {[id |-> rows + 1, title |-> r.title, service |-> r.service,
                      state |-> "active", by |-> None, group |-> None]}
<1>1. /\ r.op = "badge" /\ titles' = titles /\ listings' = listings \cup added
      /\ UNCHANGED changes
      /\ IndexesHold(titles, listings)'
  BY DEF BadgeWrite, Doing, Store, IndexesHold, Active, ledger
<1>2. /\ \E t \in titles : t.id = r.title /\ t.state = "active"
      /\ WorkOf(r.title) \notin suppressed
  BY <1>1 DEF AsRead
<1>3. \E t \in titles : t.id = r.title /\ t.state = "active" /\ t.work \notin suppressed
  BY <1>2, WorkOfTitle DEF LedgerInv
<1>4. \A l \in added : l.id > rows /\ l.state = "active" /\ l.title = r.title
  BY DEF TypeOK
<1> HIDE DEF added, r
<1>5. /\ titles' = titles \cup made
      /\ \A t \in made : /\ t.id > rows /\ t.ack = 0 /\ t.state = "active"
                         /\ \E l \in added : l.title = t.id
      /\ \A l \in added : /\ l.id > rows /\ l.state = "active"
                          /\ \E t \in titles \cup made : t.id = l.title /\ t.state = "active"
  BY <1>1, <1>3, <1>4
<1>6. \A l \in added : \E t \in titles \cup made : t.id = l.title /\ t.work \notin suppressed
  BY <1>3, <1>4
<1> HIDE DEF made
<1>7. /\ Steady
      /\ (\A l \in added : \E t \in titles \cup made : t.id = l.title /\ t.work \notin suppressed)
           => NothingReturns
  <2>1. IndexesHold(titles, listings)' /\ UNCHANGED changes /\ listings' = listings \cup added
    BY <1>1
  <2> QED BY <1>5, <2>1, GrownSound
<1> QED
  BY <1>6, <1>7 DEF Sound

LEMMA CloseSound ==
  ASSUME TypeOK, LedgerInv, LedgerInv', Tables, NEW h \in Handlers,
         NEW number \in Numberings(h), CloseWrite(h, number)
  PROVE  Sound
<1> DEFINE r       == handler[h]
           b       == r.batch
           listed  == Listed(r)
           made    == MadeBy(h, number)
           added   == AddedBy(h, number)
           removed == RemovedBy(h)
           f(l)    == [l EXCEPT !.state = "removed", !.group = b]
           ls      == (listings \ removed) \cup added \cup {f(l) : l \in removed}
           ids     == {l.title : l \in removed}
<1>1. Closed(h, number, b, listed, made, added, removed)
  <2>1. PICK c, v, m, a, x :
          /\ c = b /\ v = listed /\ m = made /\ a = added /\ x = removed
          /\ Closed(h, number, c, v, m, a, x)
    BY CloseFacts
  <2> HIDE DEF b, listed, made, added, removed
  <2> QED BY <2>1
<1>2. /\ titles' = Rederive(titles \cup made, ls, ids) /\ listings' = ls
      /\ changes' = changes \cup ChangeRows(b, made, added, removed)
      /\ IndexesHold(titles, listings)'
      /\ DOMAIN number = listed
  BY DEF CloseWrite, Store, IndexesHold, Active, MadeBy, AddedBy, RemovedBy
<1>3. made \subseteq Titles /\ \A t \in made : t.state = "active" /\ t.ack = 0
  <2>1. r \in Request /\ r.op = "close" /\ b \in Batches /\ r.works \subseteq Works
    BY RequestFacts DEF TypeOK, CloseWrite, Doing
  <2>2. listed \subseteq Works /\ IsFiniteSet(listed)
    BY <2>1, FiniteAssumption, FS_Subset DEF Listed
  <2>3. \A w \in listed : number[w] \in Ids
    BY <2>2, NumberingFacts DEF Numberings
  <2> QED BY <2>1, <2>2, <2>3 DEF MadeBy, Titles, RowStates
<1>4. /\ \A t \in made : t.id > rows /\ \E l \in added : l.title = t.id
      /\ \A l \in added : l.id > rows /\ l.state = "active"
  <2>1. \A w \in listed : Home(w) = {} => HomeId(w, number[w]) = number[w]
    BY DEF HomeId
  <2>2. \A t \in made : \E w \in listed : Home(w) = {} /\ t.id = number[w]
    BY DEF MadeBy
  <2>3. /\ \A l \in added : l.state = "active"
        /\ \A w \in listed : \E l \in added : l.title = HomeId(w, number[w])
    <3> DEFINE new(w) == [id |-> number[w], title |-> HomeId(w, number[w]),
                          service |-> batch[b].service, state |-> "active", by |-> b,
                          group |-> None]
    <3>1. added = {new(w) : w \in listed}
      BY DEF AddedBy
    <3>2. \A w \in listed : new(w).state = "active" /\ new(w).title = HomeId(w, number[w])
      OBVIOUS
    <3> HIDE DEF new, added
    <3> QED BY <3>1, <3>2
  <2>4. \A t \in made : \E l \in added : l.title = t.id
    <3> HIDE DEF made, added, listed
    <3> QED BY <2>1, <2>2, <2>3
  <2> HIDE DEF made, added, listed
  <2> QED BY <1>1, <2>3, <2>4 DEF Closed
<1>5. \A l \in added : \E t \in titles \cup made : t.id = l.title /\ t.state = "active"
  <2>1. \A w \in listed : Home(w) # {} =>
          \E t \in titles : t.id = HomeId(w, number[w]) /\ t.state = "active"
    BY DEF HomeId, Home, Newest, TitlesOf
  <2>2. \A w \in listed : Home(w) = {} =>
          \E t \in made : t.id = HomeId(w, number[w]) /\ t.state = "active"
    <3> SUFFICES ASSUME NEW w \in listed, Home(w) = {}
                 PROVE  \E t \in made : t.id = HomeId(w, number[w]) /\ t.state = "active"
      OBVIOUS
    <3> DEFINE t == [id |-> number[w], work |-> w, state |-> "active", ack |-> 0, by |-> b]
    <3>1. t \in made /\ t.id = HomeId(w, number[w]) /\ t.state = "active"
      BY DEF MadeBy, HomeId
    <3> QED BY <3>1
  <2> HIDE DEF made
  <2> QED BY <2>1, <2>2 DEF AddedBy
<1>6. /\ removed \subseteq Active(listings)
      /\ \A l \in listings : f(l).id = l.id /\ f(l).title = l.title /\ f(l).state = "removed"
  BY DEF RemovedBy, TypeOK, Listings
<1>s. titles \cup made \subseteq Titles /\ rows \in Nat
      /\ \A t \in titles : t.id \in Nat /\ ~(t.id > rows)
  BY <1>3 DEF TypeOK, Titles, Ids, LedgerInv, UniqueIds
<1> HIDE DEF f, made, added, removed, listed, r
<1>7. /\ \A m \in ls : \/ m \in listings \/ m \in added
                       \/ m.state = "removed" /\ \E l \in removed : m.id = l.id /\ m.title = l.title
      /\ \A l \in listings : \E m \in ls : m.id = l.id /\ m.title = l.title
      /\ added \subseteq ls
      /\ \A l \in listings : l \in ls \/ l \in removed
  BY <1>6 DEF Active
<1> HIDE DEF ls, ids
<1>8. \A u \in titles' : \E t \in titles \cup made :
        /\ u.id = t.id /\ u.work = t.work /\ u.ack = t.ack
        /\ u.state = IF t.id \in ids THEN Derived(ls, t.id) ELSE t.state
  BY <1>2, <1>s, RederiveStates
<1>9. Tied'
  <2>1. \A d \in changes' : d.listing # 0 =>
          \/ \E c \in changes : c.listing = d.listing /\ c.title = d.title
          \/ \E m \in listings' : m.id = d.listing /\ m.title = d.title
    <3> SUFFICES ASSUME NEW d \in ChangeRows(b, made, added, removed), d.listing # 0
                 PROVE  \E m \in ls : m.id = d.listing /\ m.title = d.title
      BY <1>2
    <3>1. \E l \in added \cup removed : d.listing = l.id /\ d.title = l.title
      BY DEF ChangeRows, Change
    <3> QED BY <1>6, <1>7, <3>1 DEF Active
  <2>2. \A m \in listings' : m.id > rows \/ \E l \in listings : l.id = m.id /\ l.title = m.title
    BY <1>2, <1>4, <1>6, <1>7 DEF Active
  <2> QED BY <2>1, <2>2, TiedKept DEF Tables
<1>10. \A t \in titles' : t.ack \in {0, t.id}
  BY <1>3, <1>8 DEF Tables
<1>11. ASSUME Mirrored, NEW u \in titles' PROVE Mirrors(u, ls, changes')
  <2>1. PICK t \in titles \cup made :
          u.id = t.id /\ u.state = IF t.id \in ids THEN Derived(ls, t.id) ELSE t.state
    BY <1>8
  <2>2. ListingsOf(ls, t.id) # {} \/ Linked(changes', t.id)
    <3>1. CASE t \in made
      BY <1>4, <1>7, <3>1 DEF ListingsOf
    <3>2. CASE t \in titles
      <4>1. Mirrors(t, listings, changes) /\ changes \subseteq changes'
        BY <1>2, <1>11, <3>2 DEF Mirrored
      <4>2. ListingsOf(listings, t.id) # {} => ListingsOf(ls, t.id) # {}
        BY <1>7 DEF ListingsOf
      <4> QED BY <4>1, <4>2 DEF Mirrors, Linked
    <3> QED BY <3>1, <3>2
  <2>3. ASSUME t.id \notin ids PROVE t.state = Derived(ls, t.id)
    <3>1. CASE t \in made
      BY <1>3, <1>4, <1>7, <3>1 DEF Derived, Active, ListingsOf
    <3>2. CASE t \in titles
      <4>1. Mirrors(t, listings, changes)
        BY <1>11, <3>2 DEF Mirrored
      <4>2. (\E l \in listings : l.title = t.id /\ l.state = "active") <=> t.state = "active"
        BY <3>2, <4>1 DEF Mirrors, Derived, Active, ListingsOf
      <4>3. \A l \in added : l.title = t.id => t.state = "active"
        BY <1>4, <1>5, <1>s, <3>2 DEF LedgerInv, UniqueIds
      <4>4. \A l \in removed : l.title # t.id
        BY <2>3 DEF ids
      <4>5. (\E l \in ls : l.title = t.id /\ l.state = "active") <=> t.state = "active"
        BY <1>7, <4>2, <4>3, <4>4
      <4>6. Derived(ls, t.id) = Derived(listings, t.id)
        BY <4>2, <4>5, DerivedSame
      <4> QED BY <4>1, <4>6 DEF Mirrors
    <3> QED BY <3>1, <3>2
  <2> QED BY <2>1, <2>2, <2>3 DEF Mirrors
<1>12. NothingReturns
  <2>1. \A t \in titles, u \in titles' : t.id = u.id => t.work = u.work
    <3>1. \A u \in titles' : u.id > rows \/ \E t \in titles : SameTitle(u, t)
      BY <1>1 DEF Closed, SameTitle
    <3> QED BY <3>1, WorksKept
  <2>2. \A l \in added : WorkOf(l.title)' \notin suppressed
    <3>1. listed \cap suppressed = {}
      BY DEF listed, Listed
    <3> QED BY <1>1, <3>1, ListedWork
  <2>3. \A m \in listings' : m.state = "active" /\ m \notin added => m \in Active(listings)
    BY <1>2, <1>7 DEF Active
  <2> QED BY <2>1, <2>2, <2>3 DEF NothingReturns
<1> QED
  BY <1>2, <1>9, <1>10, <1>11, <1>12 DEF Sound, Steady, Tables, Mirrored

----------------------------------------------------------------------------
(* Every step                                                              *)

AllIdle == \A h \in Handlers : handler[h].op = "none"

\* Where the list stands: with no restore between its statements every title has the
\* state of its listings, and with one every other title has.
MirrorInv ==
  /\ \A h \in Handlers :
       handler[h].op \in {"restored", "derived"} => MirroredBut(handler[h].title)
  /\ (\A h \in Handlers : handler[h].op \notin {"restored", "derived"}) => Mirrored

\* What a step of a request that has the list to itself keeps.
AloneStep ==
  /\ AloneInv'
  /\ NothingReturns
  /\ ServiceStateCurrent => ServiceStateCurrent'
  /\ MaxFaults = 0 /\ MirrorInv => MirrorInv'

\* Answering the one request leaves none.
LEMMA AnsweredIdle ==
  ASSUME OneAtATime, TypeOK, NEW h \in Handlers, Answer(h)
  PROVE  AllIdle'
BY DEF OneAtATime, TypeOK, Answer, Idle, AllIdle

LEMMA StillIdle ==
  ASSUME OneAtATime, NEW h \in Handlers, Doing(h, "none")
  PROVE  AllIdle
BY DEF OneAtATime, AllIdle, Doing

\* With no request in progress nothing is out of date.
LEMMA IdleInv ==
  ASSUME AllIdle'
  PROVE  /\ (\A h \in Handlers : AsRead(handler[h]))'
         /\ MirrorInv' <=> Mirrored'
BY DEF AllIdle, AsRead, Named, MirrorInv

\* A service's last update is of its latest batch applied: this depends on the
\* batches, the history and the service states alone.
LEMMA CurrentKept ==
  ASSUME UNCHANGED <<batch, history, serviceState>>
  PROVE  /\ ServiceStateCurrent => ServiceStateCurrent'
         /\ (\A i \in DOMAIN history : Past(history[i])) =>
              (\A i \in DOMAIN history : Past(history[i]))'
BY DEF ServiceStateCurrent, HasStatus, Past

\* A write in one transaction that does not touch the batches.
LEMMA WriteStep ==
  ASSUME TypeOK, AloneInv, Sound, AllIdle', UNCHANGED <<batch, history, serviceState>>,
         MirrorInv => Mirrored
  PROVE  AloneStep
<1>1. (\A h \in Handlers : AsRead(handler[h]))' /\ (MirrorInv' <=> Mirrored')
  BY IdleInv
<1>2. (\A i \in DOMAIN history : Past(history[i]))'
  BY CurrentKept DEF AloneInv
<1> QED
  BY <1>1, <1>2, CurrentKept DEF AloneStep, AloneInv, Sound, Steady

\* Rows that stay as they are.
LEMMA UnchangedRows ==
  ASSUME LedgerInv, UNCHANGED <<titles, listings>>
  PROVE  NothingReturns
<1>1. \A t, u \in titles : t.id = u.id => t.work = u.work
  BY DEF LedgerInv, UniqueIds
<1> QED
  BY <1>1 DEF NothingReturns, Active

\* What a request has read depends on these tables alone.
LEMMA AsReadSame ==
  ASSUME UNCHANGED <<titles, listings, rows, suppressed, batch, history>>, NEW r
  PROVE  AsRead(r) => AsRead(r)'
BY DEF AsRead, Named, Latest, AppliedTo, HasStatus, WorkOf, ListingsOf, Active, TitlesOf, Derived

LEMMA ReadStep ==
  ASSUME OneAtATime, TypeOK, LedgerInv, AloneInv, NEW h \in Handlers, Reads(h)
  PROVE  AloneStep
<1>1. PICK r : Ask(h, r) /\ AsRead(r)
  BY DEF Reads
<1>2. /\ UNCHANGED <<titles, listings, rows, suppressed, batch, history, changes, groups,
                     serviceState, faults>>
      /\ handler[h].op = "none" /\ r.op \in Asked
      /\ \A k \in Handlers : k = h /\ handler'[k] = r
  BY <1>1 DEF Ask, Doing, list, ledger, OneAtATime, TypeOK
<1>3. Tables' /\ (\A i \in DOMAIN history : Past(history[i]))'
  BY <1>2, CurrentKept DEF AloneInv, Tables, Tied, IndexesHold, Active
<1>4. (\A k \in Handlers : AsRead(handler[k]))'
  <2>1. AsRead(r)'
    BY <1>1, <1>2, AsReadSame
  <2>2. AsRead(handler[h])'
    BY <1>2, <2>1 DEF AsRead, Named
  <2> QED BY <1>2, <2>2
<1>5. MirrorInv => MirrorInv'
  <2>1. r.op \notin {"restored", "derived"}
    BY <1>2, AskedAssumption
  <2>2. MirrorInv => Mirrored
    BY <1>2 DEF MirrorInv
  <2>3. Mirrored => Mirrored'
    BY <1>2 DEF Mirrored, Mirrors, Linked, Derived, ListingsOf, Active
  <2> QED BY <1>2, <2>1, <2>2, <2>3 DEF MirrorInv
<1>6. NothingReturns /\ (ServiceStateCurrent => ServiceStateCurrent')
  BY <1>2, UnchangedRows, CurrentKept
<1> QED
  BY <1>3, <1>4, <1>5, <1>6 DEF AloneStep, AloneInv

LEMMA RestoreStep ==
  ASSUME OneAtATime, TypeOK, LedgerInv, LedgerInv', AloneInv, NEW h \in Handlers,
         RestoreListing(h) \/ RestoreDerive(h)
  PROVE  AloneStep
<1>1. Tables /\ AsRead(handler[h]) /\ \A k \in Handlers : k = h
  BY DEF AloneInv, OneAtATime
<1>2. UNCHANGED <<batch, history, serviceState>>
  BY DEF RestoreListing, RestoreDerive, ledger
<1>3. (\A i \in DOMAIN history : Past(history[i]))' /\ (ServiceStateCurrent => ServiceStateCurrent')
  BY <1>2, CurrentKept DEF AloneInv
<1>4. CASE RestoreListing(h)
  <2>1. /\ Tables' /\ NothingReturns /\ AsRead(handler[h])'
        /\ Mirrored => MirroredBut(handler[h].title)'
        /\ handler'[h].op = "restored" /\ handler'[h].title = handler[h].title
    BY <1>1, <1>4, RestoreListingSound
  <2>2. handler[h].op = "restore"
    BY <1>4 DEF RestoreListing, Doing
  <2>3. MirrorInv => Mirrored
    BY <1>1, <2>2 DEF MirrorInv
  <2>4. (\A k \in Handlers : AsRead(handler[k]))'
    BY <1>1, <2>1
  <2>5. MirrorInv => MirrorInv'
    BY <1>1, <2>1, <2>3 DEF MirrorInv, MirroredBut
  <2> QED BY <1>3, <2>1, <2>4, <2>5 DEF AloneStep, AloneInv
<1>5. CASE RestoreDerive(h)
  <2>1. /\ UNCHANGED <<titles, listings, changes, suppressed>>
        /\ AsRead(handler[h])'
        /\ handler'[h].op = "derived" /\ handler'[h].title = handler[h].title
    BY <1>1, <1>5, RestoreDeriveSound
  <2>2. handler[h].op = "restored"
    BY <1>5 DEF RestoreDerive, Doing
  <2>3. Tables' /\ NothingReturns
    BY <1>1, <2>1, UnchangedRows DEF Tables, Tied, IndexesHold, Active
  <2>4. (\A k \in Handlers : AsRead(handler[k]))'
    BY <1>1, <2>1
  <2>5. MirrorInv => MirroredBut(handler[h].title)
    BY <2>2 DEF MirrorInv
  <2>6. MirrorInv => MirrorInv'
    BY <1>1, <2>1, <2>5 DEF MirrorInv, MirroredBut, Linked, Derived, ListingsOf, Active
  <2> QED BY <1>3, <2>3, <2>4, <2>6 DEF AloneStep, AloneInv
<1> QED
  BY <1>4, <1>5

LEMMA RestoreEnds ==
  ASSUME OneAtATime, TypeOK, LedgerInv, LedgerInv', AloneInv, NEW h \in Handlers,
         RestoreTitle(h) \/ RestoreRejected(h) \/ RestoreInterrupted(h)
  PROVE  AloneStep
<1>1. Tables /\ AsRead(handler[h]) /\ Answer(h) /\ UNCHANGED <<batch, history, serviceState>>
  BY DEF AloneInv, RestoreTitle, RestoreRejected, RestoreInterrupted, ledger
<1>2. AllIdle'
  BY <1>1, AnsweredIdle
<1>3. (\A k \in Handlers : AsRead(handler[k]))' /\ (MirrorInv' <=> Mirrored')
  BY <1>2, IdleInv
<1>4. (\A i \in DOMAIN history : Past(history[i]))' /\ (ServiceStateCurrent => ServiceStateCurrent')
  BY <1>1, CurrentKept DEF AloneInv
<1>5. CASE RestoreTitle(h)
  <2>1. Tables' /\ NothingReturns /\ (MirroredBut(handler[h].title) => Mirrored')
    BY <1>1, <1>5, RestoreTitleSound
  <2>2. MirrorInv => MirroredBut(handler[h].title)
    BY <1>5 DEF RestoreTitle, Doing, MirrorInv
  <2> QED BY <1>3, <1>4, <2>1, <2>2 DEF AloneStep, AloneInv
<1>6. CASE RestoreRejected(h)
  BY <1>1, <1>6, NeverRejected
<1>7. CASE RestoreInterrupted(h)
  <2>1. UNCHANGED <<titles, listings, changes>> /\ MaxFaults # 0
    BY <1>7, BoundsAssumption DEF RestoreInterrupted, list, ledger, TypeOK
  <2>2. Tables' /\ NothingReturns
    BY <1>1, <2>1, UnchangedRows DEF Tables, Tied, IndexesHold, Active
  <2> QED BY <1>3, <1>4, <2>1, <2>2 DEF AloneStep, AloneInv
<1> QED
  BY <1>5, <1>6, <1>7

\* The batches of service s that count, by their places in the history.
Counted(s) == {i \in DOMAIN history : history[i] \in AppliedTo(s)}

Standing(s) ==
  IF Counted(s) = {} THEN serviceState[s] = None
  ELSE \E i \in Counted(s) : serviceState[s] = history[i] /\ \A j \in Counted(s) : j <= i

LEMMA CurrentByPlace ==
  ASSUME TypeOK, TypeOK'
  PROVE  /\ ServiceStateCurrent => \A s \in Services : Standing(s)
         /\ (\A s \in Services : Standing(s)') => ServiceStateCurrent'
<1>1. /\ \A i \in DOMAIN history : history[i] \in Batches
      /\ \A i \in DOMAIN history' : history'[i] \in Batches
  BY DEF TypeOK
<1> DEFINE Places(s) == {i \in DOMAIN history : /\ HasStatus(history[i], "applied")
                                               /\ batch[history[i]].service = s}
<1>2. \A s \in Services : Counted(s) = Places(s) /\ Counted(s)' = Places(s)'
  BY <1>1 DEF Counted, AppliedTo, HasStatus
<1>3. ServiceStateCurrent => \A s \in Services : Standing(s)
  BY <1>2 DEF ServiceStateCurrent, Standing
<1>4. (\A s \in Services : Standing(s)') => ServiceStateCurrent'
  BY <1>2 DEF ServiceStateCurrent, Standing
<1> QED
  BY <1>3, <1>4

\* A completion after all others is appended.
LEMMA Appended ==
  ASSUME NEW s \in Seq(Batches), NEW e \in Batches
  PROVE  /\ DOMAIN InsertAt(s, Len(s) + 1, e) = 1..(Len(s) + 1)
         /\ InsertAt(s, Len(s) + 1, e)[Len(s) + 1] = e
         /\ \A i \in DOMAIN s : InsertAt(s, Len(s) + 1, e)[i] = s[i]
<1>1. Len(s) \in Nat /\ DOMAIN s = 1..Len(s) /\ Len(s) + 1 - 1 = Len(s)
  OBVIOUS
<1>2. SubSeq(s, 1, Len(s)) = s /\ SubSeq(s, Len(s) + 1, Len(s)) = <<>>
  OBVIOUS
<1>3. InsertAt(s, Len(s) + 1, e)
        = SubSeq(s, 1, Len(s) + 1 - 1) \o <<e>> \o SubSeq(s, Len(s) + 1, Len(s))
  BY DEF InsertAt
<1>4. InsertAt(s, Len(s) + 1, e) = s \o <<e>> \o <<>>
  BY <1>1, <1>2, <1>3
<1>5. s \o <<e>> \in Seq(Batches) /\ Len(s \o <<e>>) = Len(s) + 1
  OBVIOUS
<1>6. InsertAt(s, Len(s) + 1, e) = s \o <<e>>
  BY <1>4, <1>5
<1> QED
  BY <1>1, <1>6

LEMMA CloseCurrent ==
  ASSUME TypeOK, TypeOK', NEW h \in Handlers, AsRead(handler[h]),
         \A i \in DOMAIN history : Past(history[i]),
         NEW number \in Numberings(h), CloseWrite(h, number)
  PROVE  /\ (\A i \in DOMAIN history : Past(history[i]))'
         /\ ServiceStateCurrent => ServiceStateCurrent'
<1> DEFINE r == handler[h]
           b == r.batch
           n == Len(history)
<1>1. r.op = "close" /\ b \in Batches /\ r.works \in SUBSET Works
  BY RequestFacts DEF CloseWrite, Doing, TypeOK
<1>2. /\ batch[b] \in Reading /\ HasStatus(b, "in-review")
      /\ batch'[b] = [batch[b] EXCEPT !.status = "applied", !.confirmed = r.works]
      /\ \A c \in Batches : c # b => batch'[c] = batch[c]
  BY <1>1, MoveFacts DEF CloseWrite
<1>3. batch'[b] # Unread /\ batch'[b].status = "applied" /\ batch'[b].service = batch[b].service
  BY <1>2 DEF Reading, Unread
<1>4. history \in Seq(Batches) /\ n \in Nat /\ DOMAIN history = 1..n
  BY DEF TypeOK
<1>5. history' = InsertAt(history, n + 1, b)
  <2>1. PICK i \in 1..(n + 1) : /\ \A j \in i..n : history[j] \notin r.after
                                /\ history' = InsertAt(history, i, b)
    BY DEF CloseWrite
  <2>2. \A j \in 1..n : history[j] \in r.after
    BY <1>1, <1>4 DEF AsRead
  <2>3. i = n + 1
    BY <1>4, <2>1, <2>2
  <2> QED BY <2>1, <2>3
<1>6. /\ DOMAIN history' = 1..(n + 1) /\ history'[n + 1] = b
      /\ \A i \in 1..n : history'[i] = history[i]
  BY <1>1, <1>4, <1>5, Appended
<1>7. \A i \in 1..n : history[i] \in Batches /\ Past(history[i]) /\ history[i] # b
  BY <1>2, <1>4 DEF Past, HasStatus
<1>8. \A i \in 1..n : batch'[history[i]] = batch[history[i]]
  BY <1>2, <1>7
<1>9. (\A i \in DOMAIN history : Past(history[i]))'
  BY <1>3, <1>4, <1>6, <1>7, <1>8 DEF Past, HasStatus
<1>10. serviceState' = [serviceState EXCEPT ![batch[b].service] = b]
       /\ serviceState \in [Services -> Batches \cup {None}] /\ batch[b].service \in Services
  BY <1>2 DEF CloseWrite, TypeOK, Reading
<1>11. ASSUME NEW s \in Services, s # batch[b].service
       PROVE  Counted(s)' = Counted(s)
  <2>1. \A i \in 1..n : (history'[i] \in AppliedTo(s)') <=> history[i] \in AppliedTo(s)
    BY <1>6, <1>7, <1>8 DEF AppliedTo, HasStatus
  <2>2. history'[n + 1] \notin AppliedTo(s)'
    BY <1>3, <1>6, <1>11 DEF AppliedTo
  <2> QED BY <1>4, <1>6, <2>1, <2>2 DEF Counted
<1>12. ASSUME NEW s \in Services, s = batch[b].service
       PROVE  Counted(s)' \subseteq 1..(n + 1) /\ n + 1 \in Counted(s)'
  <2>1. b \in AppliedTo(s)'
    BY <1>1, <1>3, <1>12 DEF AppliedTo, HasStatus
  <2> QED BY <1>4, <1>6, <2>1 DEF Counted
<1>13. ASSUME ServiceStateCurrent PROVE ServiceStateCurrent'
  <2>1. \A s \in Services : Standing(s)
    BY <1>13, CurrentByPlace
  <2>2. ASSUME NEW s \in Services PROVE Standing(s)'
    <3>1. CASE s = batch[b].service
      <4>1. serviceState'[s] = b
        BY <1>10, <3>1
      <4>2. n + 1 \in Counted(s)' /\ \A j \in Counted(s)' : j <= n + 1
        BY <1>12, <1>4, <3>1
      <4> QED BY <1>6, <4>1, <4>2 DEF Standing
    <3>2. CASE s # batch[b].service
      <4>1. serviceState'[s] = serviceState[s] /\ Counted(s)' = Counted(s)
        BY <1>10, <1>11, <3>2
      <4>2. \A i \in Counted(s) : history'[i] = history[i]
        BY <1>4, <1>6 DEF Counted
      <4> QED BY <2>1, <4>1, <4>2 DEF Standing
    <3> QED BY <3>1, <3>2
  <2> QED BY <2>2, CurrentByPlace
<1> QED
  BY <1>9, <1>13

\* The CHOOSE of Latest finds the last completion but that of b.
LEMMA LatestPlace ==
  ASSUME TypeOK, NEW s, NEW b, NEW others,
         others = {i \in DOMAIN history : history[i] \in AppliedTo(s) \ {b}}
  PROVE  IF others = {} THEN Latest(s, b) = None
         ELSE \E i \in others : Latest(s, b) = history[i] /\ \A j \in others : j <= i
<1>1. Len(history) \in Nat /\ others \in SUBSET (1..Len(history))
  BY DEF TypeOK
<1>2. CASE others = {}
  BY <1>2 DEF Latest
<1>3. CASE others # {}
  <2> DEFINE x == CHOOSE i \in others : \A j \in others : j <= i
  <2>1. x \in others /\ \A j \in others : j <= x
    BY <1>1, <1>3, Greatest
  <2>2. Latest(s, b) = history[x]
    BY <1>3 DEF Latest
  <2> QED BY <1>3, <2>1, <2>2
<1> QED
  BY <1>2, <1>3

LEMMA UndoCurrent ==
  ASSUME TypeOK, TypeOK', NEW h \in Handlers, AsRead(handler[h]),
         \A i \in DOMAIN history : Past(history[i]), UndoWrite(h)
  PROVE  /\ (\A i \in DOMAIN history : Past(history[i]))'
         /\ ServiceStateCurrent => ServiceStateCurrent'
<1> DEFINE r == handler[h]
           b == r.batch
<1>1. r.op = "undo" /\ b \in Batches /\ r.previous = Latest(batch[b].service, b)
  BY RequestFacts DEF UndoWrite, Doing, TypeOK, AsRead
<1>2. /\ batch[b] \in Reading /\ batch[b].confirmed \in SUBSET Works
      /\ batch'[b] = [batch[b] EXCEPT !.status = "undone", !.confirmed = batch[b].confirmed]
      /\ \A c \in Batches : c # b => batch'[c] = batch[c]
  <2>1. MoveBatch(b, "applied", "undone", batch[b].confirmed)
    BY DEF UndoWrite
  <2>2. batch[b] \in Reading
    BY <1>1, <2>1 DEF MoveBatch, TypeOK, Reading, Unread
  <2>3. batch[b].confirmed \in SUBSET Works
    BY <2>2 DEF Reading
  <2> QED BY <1>1, <2>1, <2>2, <2>3, MoveFacts
<1>3. batch'[b] # Unread /\ batch'[b].status = "undone" /\ batch'[b].service = batch[b].service
  BY <1>2 DEF Reading, Unread
<1>4. history' = history /\ \A i \in DOMAIN history : history[i] \in Batches
  BY DEF UndoWrite, TypeOK
<1>5. (\A i \in DOMAIN history : Past(history[i]))'
  BY <1>2, <1>3, <1>4 DEF Past, HasStatus
<1>6. /\ serviceState' = [serviceState EXCEPT ![batch[b].service] = r.previous]
      /\ serviceState \in [Services -> Batches \cup {None}] /\ batch[b].service \in Services
  BY <1>2 DEF UndoWrite, TypeOK, Reading
<1>7. \A s \in Services : AppliedTo(s)' = AppliedTo(s) \ {b}
  BY <1>1, <1>2, <1>3 DEF AppliedTo, HasStatus
<1>8. ASSUME ServiceStateCurrent PROVE ServiceStateCurrent'
  <2>1. ASSUME NEW s \in Services PROVE Standing(s)'
    <3> DEFINE others == {i \in DOMAIN history : history[i] \in AppliedTo(s) \ {b}}
    <3>1. Counted(s)' = others
      BY <1>4, <1>7 DEF Counted
    <3>2. CASE s = batch[b].service
      <4>1. IF others = {} THEN Latest(s, b) = None
            ELSE \E i \in others : Latest(s, b) = history[i] /\ \A j \in others : j <= i
        <5> HIDE DEF b
        <5> QED BY LatestPlace
      <4>2. serviceState'[s] = Latest(s, b)
        BY <1>1, <1>6, <3>2
      <4> HIDE DEF others
      <4> QED BY <1>4, <3>1, <4>1, <4>2 DEF Standing
    <3>3. CASE s # batch[b].service
      <4>1. serviceState'[s] = serviceState[s]
        BY <1>6, <3>3
      <4>2. b \notin AppliedTo(s)
        BY <3>3 DEF AppliedTo
      <4>3. Counted(s)' = Counted(s)
        BY <3>1, <4>2 DEF Counted
      <4>4. Standing(s)
        BY <1>8, CurrentByPlace
      <4> QED BY <1>4, <4>1, <4>3, <4>4 DEF Standing
    <3> QED BY <3>2, <3>3
  <2> QED BY <2>1, CurrentByPlace
<1> QED
  BY <1>5, <1>8

\* A batch that reaches review has been on no service yet.
LEMMA ReviewStep ==
  ASSUME TypeOK, TypeOK', LedgerInv, AloneInv, NEW b \in Batches, NEW s \in Services,
         NEW removes, NEW found, Review(b, s, removes, found)
  PROVE  AloneStep
<1>1. /\ UNCHANGED <<titles, listings, rows, suppressed, changes, history, serviceState, handler>>
      /\ batch[b] = Unread
      /\ \A c \in Batches : c # b => batch'[c] = batch[c]
      /\ batch'[b].status = "in-review" /\ batch'[b] # Unread
  BY DEF Review, list, TypeOK, Unread
<1>2. \A x : AppliedTo(x)' = AppliedTo(x)
  BY <1>1 DEF AppliedTo, HasStatus
<1>3. \A i \in DOMAIN history : history[i] \in Batches
  BY DEF TypeOK
<1>4. (\A i \in DOMAIN history : Past(history[i]))'
  BY <1>1, <1>3 DEF AloneInv, Past, HasStatus
<1>5. Tables' /\ NothingReturns
  BY <1>1, UnchangedRows DEF AloneInv, Tables, Tied, IndexesHold, Active
<1>6. ASSUME NEW h \in Handlers PROVE AsRead(handler[h])'
  <2>1. AsRead(handler[h])
    BY DEF AloneInv
  <2>2. handler[h].op = "undo" => batch'[handler[h].batch] = batch[handler[h].batch]
    <3> SUFFICES ASSUME handler[h].op = "undo"
                 PROVE  batch'[handler[h].batch] = batch[handler[h].batch]
      OBVIOUS
    <3>1. handler[h].batch \in Batches
      BY RequestFacts DEF TypeOK
    <3>2. batch[handler[h].batch] # Unread
      BY DEF LedgerInv, UndoTakesAll, HasStatus
    <3> QED BY <1>1, <3>1, <3>2
  <2> DEFINE c      == handler[h].batch
             x      == batch[c].service
             others == {i \in DOMAIN history : history[i] \in AppliedTo(x) \ {c}}
  <2>3. handler[h].op = "undo" => Latest(x, c)' = Latest(x, c)
    <3> SUFFICES ASSUME handler[h].op = "undo"
                 PROVE  Latest(x, c)' = Latest(x, c)
      OBVIOUS
    <3>1. x' = x /\ c' = c
      BY <1>1, <2>2
    <3>2. others' = others
      <4>1. AppliedTo(x)' = AppliedTo(x)
        BY <1>1, <3>1 DEF AppliedTo, HasStatus
      <4> HIDE DEF x, c
      <4> QED BY <1>1, <3>1, <4>1
    <3>3. /\ Latest(x, c) = IF others = {} THEN None
                            ELSE history[CHOOSE i \in others : \A j \in others : j <= i]
          /\ Latest(x, c)' = IF others' = {} THEN None
                             ELSE history'[CHOOSE i \in others' : \A j \in others' : j <= i]
      BY DEF Latest
    <3> HIDE DEF x, c, others
    <3> QED BY <1>1, <3>2, <3>3
  <2> QED
    BY <1>1, <2>1, <2>2, <2>3
    DEF AsRead, Named, WorkOf, ListingsOf, Active, TitlesOf, Derived
<1>7. ServiceStateCurrent => ServiceStateCurrent'
  <2>1. \A x \in Services : Standing(x)' <=> Standing(x)
    BY <1>1, <1>2 DEF Standing, Counted
  <2> QED BY <2>1, CurrentByPlace
<1>8. MirrorInv => MirrorInv'
  BY <1>1 DEF MirrorInv, Mirrored, Mirrors, MirroredBut, Linked, Derived, ListingsOf, Active
<1> QED
  BY <1>4, <1>5, <1>6, <1>7, <1>8 DEF AloneStep, AloneInv

\* A close, and an undo.
LEMMA BatchStep ==
  ASSUME OneAtATime, TypeOK, TypeOK', LedgerInv, LedgerInv', AloneInv, NEW h \in Handlers,
         UndoWrite(h) \/ \E number \in Numberings(h) : CloseWrite(h, number)
  PROVE  AloneStep
<1>1. /\ Tables /\ AsRead(handler[h]) /\ (\A i \in DOMAIN history : Past(history[i]))
      /\ \A k \in Handlers : k = h
  BY DEF AloneInv, OneAtATime
<1>2. Sound /\ Answer(h) /\ handler[h].op \in {"close", "undo"}
  BY <1>1, UndoSound, CloseSound DEF UndoWrite, CloseWrite, Doing, AsRead
<1>3. /\ (\A i \in DOMAIN history : Past(history[i]))'
      /\ ServiceStateCurrent => ServiceStateCurrent'
  BY <1>1, UndoCurrent, CloseCurrent
<1>4. (\A k \in Handlers : AsRead(handler[k]))' /\ (MirrorInv' <=> Mirrored')
  BY <1>2, AnsweredIdle, IdleInv
<1>5. MirrorInv => Mirrored
  BY <1>1, <1>2 DEF MirrorInv
<1> QED
  BY <1>2, <1>3, <1>4, <1>5 DEF AloneStep, AloneInv, Sound, Steady

\* The other writes in one transaction.
LEMMA OtherWrites ==
  ASSUME OneAtATime, TypeOK, LedgerInv, LedgerInv', AloneInv, NEW h \in Handlers,
         \/ UndoGroupWrite(h) \/ RemoveWrite(h) \/ BadgeWrite(h) \/ FixWrite(h)
         \/ \E number \in AddNumberings(h) : AddWrite(h, number)
  PROVE  AloneStep
<1>1. Tables /\ AsRead(handler[h]) /\ \A k \in Handlers : k = h
  BY DEF AloneInv, OneAtATime
<1>2. Sound
  BY <1>1, GroupSound, RemoveSound, BadgeSound, FixSound, AddSound DEF Sound, AsRead
<1>3. /\ Answer(h) /\ UNCHANGED <<batch, history, serviceState>>
      /\ handler[h].op \in {"undoGroup", "remove", "badge", "fix", "add"}
  BY DEF UndoGroupWrite, RemoveWrite, BadgeWrite, FixWrite, AddWrite, Doing, ledger
<1>4. AllIdle'
  BY <1>3, AnsweredIdle
<1>5. MirrorInv => Mirrored
  BY <1>1, <1>3 DEF MirrorInv
<1> QED
  BY <1>2, <1>3, <1>4, <1>5, WriteStep

\* Requests that are one step: a purge, a suppression and its end.
LEMMA OneStep ==
  ASSUME OneAtATime, TypeOK, LedgerInv, LedgerInv', AloneInv, NEW h \in Handlers,
         \/ \E ls \in SUBSET listings : Purge(h, ls)
         \/ \E w : Suppress(h, w) \/ Unsuppress(h, w)
  PROVE  AloneStep
<1>1. /\ Doing(h, "none") /\ handler' = handler /\ UNCHANGED <<batch, history, serviceState>>
  BY DEF Purge, Suppress, Unsuppress, ledger
<1>2. AllIdle /\ AllIdle'
  BY <1>1, StillIdle DEF AllIdle
<1>3. MirrorInv => Mirrored
  BY <1>2 DEF AllIdle, MirrorInv
<1>4. CASE \E ls \in SUBSET listings : Purge(h, ls)
  BY <1>1, <1>2, <1>3, <1>4, PurgeSound, WriteStep DEF AloneInv
<1>5. CASE \E w : Suppress(h, w) \/ Unsuppress(h, w)
  <2>1. UNCHANGED <<titles, listings, changes>>
    BY <1>5 DEF Suppress, Unsuppress, list, ledger
  <2>2. Tables' /\ (Mirrored => Mirrored')
    BY <2>1 DEF AloneInv, Tables, Tied, IndexesHold, Mirrored, Mirrors, Linked, Derived,
                ListingsOf, Active
  <2>3. Sound
    BY <2>1, <2>2, UnchangedRows DEF Sound, Steady
  <2> QED BY <1>1, <1>2, <1>3, <2>3, WriteStep
<1> QED
  BY <1>4, <1>5

\* Steps that leave all the tables: a refusal, or none.
LEMMA RefuseStep ==
  ASSUME OneAtATime, TypeOK, LedgerInv, AloneInv, NEW h \in Handlers, Refuse(h)
  PROVE  AloneStep
<1>1. /\ Answer(h) /\ UNCHANGED <<titles, listings, changes, batch, history, serviceState>>
      /\ handler[h].op \notin {"restored", "derived"} /\ \A k \in Handlers : k = h
  BY DEF Refuse, list, ledger, OneAtATime
<1>2. Tables' /\ (Mirrored => Mirrored')
  BY <1>1 DEF AloneInv, Tables, Tied, IndexesHold, Mirrored, Mirrors, Linked, Derived,
              ListingsOf, Active
<1>3. Sound
  BY <1>1, <1>2, UnchangedRows DEF Sound, Steady
<1>4. AllIdle' /\ (MirrorInv => Mirrored)
  BY <1>1, AnsweredIdle DEF MirrorInv
<1> QED
  BY <1>1, <1>3, <1>4, WriteStep

LEMMA StutterStep ==
  ASSUME TypeOK, LedgerInv, AloneInv, UNCHANGED vars
  PROVE  AloneStep
<1>1. UNCHANGED <<titles, listings, rows, suppressed, batch, history, changes, serviceState, handler>>
  BY DEF vars, list, ledger
<1>2. Tables' /\ NothingReturns
  BY <1>1, UnchangedRows DEF AloneInv, Tables, Tied, IndexesHold, Active
<1>3. ASSUME NEW h \in Handlers PROVE AsRead(handler[h])'
  <2>1. AsRead(handler[h])
    BY DEF AloneInv
  <2> QED
    BY <1>1, <2>1 DEF AsRead, Named, Latest, AppliedTo, HasStatus, WorkOf, ListingsOf, Active, TitlesOf,
                      Derived
<1>4. MirrorInv => MirrorInv'
  BY <1>1 DEF MirrorInv, Mirrored, Mirrors, MirroredBut, Linked, Derived, ListingsOf, Active
<1> QED
  BY <1>1, <1>2, <1>3, <1>4, CurrentKept DEF AloneStep, AloneInv

LEMMA EveryStep ==
  ASSUME OneAtATime, TypeOK, TypeOK', LedgerInv, LedgerInv', AloneInv, [Next]_vars
  PROVE  AloneStep
<1>1. ASSUME NEW h \in Handlers, Import(h)
      PROVE  AloneStep
  BY <1>1, ImportReadsHold, ReadStep, BatchStep, OtherWrites DEF Import, AloneInv
<1>2. ASSUME NEW h \in Handlers, Edit(h)
      PROVE  AloneStep
  <2>1. \A w : HistoryOf(w) \in SUBSET listings
    BY DEF HistoryOf
  <2>2. \A l \in listings : {l} \in SUBSET listings
    OBVIOUS
  <2> QED
    BY <1>2, <2>1, <2>2, EditReadsHold, ReadStep, RestoreStep, RestoreEnds, OtherWrites, OneStep
       DEF Edit, AloneInv
<1> QED
  BY <1>1, <1>2, ReviewStep, RefuseStep, StutterStep DEF Next

\* The three properties rest on this.
LEMMA AloneInvHolds ==
  ASSUME OneAtATime
  PROVE  Spec => [](TypeOK /\ LedgerInv /\ AloneInv)
<1>1. Init => AloneInv
  BY DEF Init, AloneInv, Tables, Tied, IndexesHold, Active, AsRead, Named, Idle
<1>2. TypeOK /\ TypeOK' /\ LedgerInv /\ LedgerInv' /\ AloneInv /\ [Next]_vars => AloneInv'
  BY EveryStep DEF AloneStep
<1> QED
  BY <1>1, <1>2, LedgerInvHolds, PTL DEF Spec

\* With requests one at a time, a service's last-updated date is that of its latest
\* batch still applied, whichever batches were undone and in whichever order: the
\* close appends to the history, and what an undo has looked up is still the latest
\* completion but its own when it writes (batchClose.ts, batchUndo.ts).
THEOREM ServiceStateIsCurrent ==
  ASSUME OneAtATime
  PROVE  Spec => []ServiceStateCurrent
<1>1. Init => ServiceStateCurrent
  BY DEF Init, ServiceStateCurrent
<1>2. /\ TypeOK /\ TypeOK' /\ LedgerInv /\ LedgerInv' /\ AloneInv /\ [Next]_vars
      /\ ServiceStateCurrent
      => ServiceStateCurrent'
  BY EveryStep DEF AloneStep
<1> QED
  BY <1>1, <1>2, AloneInvHolds, PTL DEF Spec

\* With requests one at a time, no listing of a suppressed work comes or returns to
\* the list, by any of the requests, and a suppressed title is not shown again by
\* correcting its match: every gate on the suppressions is looked at before the
\* write, and nothing is suppressed in between.
THEOREM SuppressedStaysAway ==
  ASSUME OneAtATime
  PROVE  Spec => NothingSuppressedReturns
<1>1. TypeOK /\ TypeOK' /\ LedgerInv /\ LedgerInv' /\ AloneInv /\ [Next]_vars => NothingReturns
  BY EveryStep DEF AloneStep
<1>2. NothingReturns =>
        /\ \A l \in listings' : l.state = "active" /\ WorkOf(l.title)' \in suppressed
              => \E m \in Active(listings) : m.id = l.id
        /\ \A t \in titles, u \in titles' :
              t.id = u.id /\ t.work # u.work /\ t.work \in suppressed => u.work \in suppressed'
  BY DEF NothingReturns
<1> QED
  BY <1>1, <1>2, AloneInvHolds, PTL DEF Spec, NothingSuppressedReturns

\* With requests one at a time, and none that stops between the statements of a
\* restore, every title has the state derive.ts computes from its listings, but for a
\* restore that has still to write it, and none is left without listings unless a
\* candidate points at it (I-3 and I-4).
THEOREM MirrorHolds ==
  ASSUME OneAtATime, MaxFaults = 0
  PROVE  Spec => []ListMirrorsListings
<1>1. Init => MirrorInv
  BY DEF Init, MirrorInv, Mirrored, Idle
<1>2. TypeOK /\ TypeOK' /\ LedgerInv /\ LedgerInv' /\ AloneInv /\ [Next]_vars /\ MirrorInv => MirrorInv'
  BY EveryStep DEF AloneStep
<1>3. MirrorInv => ListMirrorsListings
  BY DEF MirrorInv, Mirrored, MirroredBut, Mirrors, ListMirrorsListings, Restoring
<1> QED
  BY <1>1, <1>2, <1>3, AloneInvHolds, PTL DEF Spec

----------------------------------------------------------------------------
(* Any number of requests at once                                          *)

\* The titles follow the listings as long as no request adds a listing, or brings one
\* back, without writing the title in the same transaction.
NoLooseEnds == "restore" \notin Asked /\ "badge" \notin Asked
Loose == {"restore", "restored", "derived", "badge"}

RaceInv ==
  /\ Tables
  /\ Mirrored
  /\ \A h \in Handlers : Named(handler[h]) /\ handler[h].op \notin Loose

\* Listings never change titles, and ids are not used twice.
LEMMA ListingsStay ==
  ASSUME TypeOK, LedgerInv, GroupInv, [Next]_vars
  PROVE  /\ rows <= rows'
         /\ \A m \in listings' :
              m.id > rows \/ \E l \in listings : l.id = m.id /\ l.title = m.title
<1>r. rows \in Nat
  BY DEF TypeOK
<1>1. ASSUME NEW h \in Handlers, NEW number \in Numberings(h), CloseWrite(h, number)
      PROVE  /\ rows <= rows'
             /\ \A m \in listings' :
                  m.id > rows \/ \E l \in listings : l.id = m.id /\ l.title = m.title
  <2>1. \E b, listed, made, added, removed : Closed(h, number, b, listed, made, added, removed)
    BY <1>1, CloseFacts
  <2> QED BY <2>1 DEF Closed
<1>2. ASSUME NEW h \in Handlers, Others(h)
      PROVE  /\ rows <= rows'
             /\ \A m \in listings' :
                  m.id > rows \/ \E l \in listings : l.id = m.id /\ l.title = m.title
  BY <1>2 DEF Others, Carried
<1>3. UNCHANGED <<listings, rows>> =>
        /\ rows <= rows'
        /\ \A m \in listings' : \E l \in listings : l.id = m.id /\ l.title = m.title
  BY <1>r
<1> QED
  BY <1>1, <1>2, <1>3, StepKinds, StillSteps

LEMMA NamedKept ==
  ASSUME TypeOK, LedgerInv, TypeOK', rows <= rows',
         \A m \in listings' :
           m.id > rows \/ \E l \in listings : l.id = m.id /\ l.title = m.title,
         NEW r \in Request, Named(r)
  PROVE  Named(r)'
<1>1. r.op \in {"undo", "remove"} => r.listings \subseteq Ids
  BY RequestFacts
<1>2. \A id \in Ids : id \in Nat
  BY DEF Ids
<1>3. rows \in Nat /\ rows' \in Nat
  BY DEF TypeOK
<1> QED
  BY <1>1, <1>2, <1>3 DEF Named

\* What the requests intend after a step.
Intends(r) == Named(r) /\ r.op \notin Loose

\* An answer leaves the other requests.
LEMMA AnswerIntends ==
  ASSUME TypeOK, RaceInv, NEW h \in Handlers, Answer(h), NEW k \in Handlers
  PROVE  \E r : handler'[k] = r /\ Intends(r)
<1>1. Intends(Idle) /\ Intends(handler[k])
  BY DEF RaceInv, Intends, Idle, Named, Loose
<1>2. handler'[k] = Idle \/ handler'[k] = handler[k]
  BY DEF Answer, TypeOK
<1> QED
  BY <1>1, <1>2

\* Each step, by kind: the tables stay in order, and the requests still name what
\* they are to delete.
LEMMA RaceStep ==
  ASSUME NoLooseEnds, TypeOK, LedgerInv, LedgerInv', RaceInv, [Next]_vars
  PROVE  Steady /\ \A k \in Handlers : \E r : handler'[k] = r /\ Intends(r)
<1> DEFINE Goal == Steady /\ \A k \in Handlers : \E r : handler'[k] = r /\ Intends(r)
<1>t. Tables /\ Mirrored /\ \A h \in Handlers : Named(handler[h]) /\ Intends(handler[h])
  BY DEF RaceInv, Intends
<1>1. ASSUME NEW h \in Handlers, Reads(h) PROVE Goal
  <2>1. PICK r : Ask(h, r) /\ AsRead(r)
    BY <1>1 DEF Reads
  <2>2. Intends(r)
    BY <2>1, AskedAssumption DEF Ask, AsRead, Intends, NoLooseEnds, Loose
  <2>3. UNCHANGED <<titles, listings, changes>> /\ handler' = [handler EXCEPT ![h] = r]
    BY <2>1 DEF Ask, list, ledger
  <2>4. Steady
    BY <1>t, <2>3 DEF Steady, Tables, Tied, IndexesHold, Mirrored, Mirrors, Linked, Derived,
                     ListingsOf, Active
  <2>5. \A k \in Handlers : handler'[k] = r \/ handler'[k] = handler[k]
    BY <2>3 DEF TypeOK
  <2> QED BY <1>t, <2>2, <2>4, <2>5
<1>2. ASSUME NEW h \in Handlers,
             \/ UndoWrite(h) \/ UndoGroupWrite(h) \/ RemoveWrite(h) \/ FixWrite(h)
             \/ \E number \in Numberings(h) : CloseWrite(h, number)
             \/ \E number \in AddNumberings(h) : AddWrite(h, number)
      PROVE  Goal
  <2>1. Steady
    BY <1>t, <1>2, UndoSound, GroupSound, RemoveSound, FixSound, CloseSound, AddSound DEF Sound
  <2>2. Answer(h)
    BY <1>2 DEF UndoWrite, UndoGroupWrite, RemoveWrite, FixWrite, CloseWrite, AddWrite
  <2> QED BY <2>1, <2>2, AnswerIntends
<1>3. ASSUME NEW h \in Handlers, NEW ls \in SUBSET listings, Purge(h, ls) PROVE Goal
  <2>1. Steady
    BY <1>t, <1>3, PurgeSound DEF Sound
  <2>2. handler' = handler
    BY <1>3 DEF Purge
  <2> QED BY <1>t, <2>1, <2>2
<1>4. ASSUME NEW h \in Handlers,
             \/ BadgeWrite(h) \/ RestoreListing(h) \/ RestoreDerive(h) \/ RestoreTitle(h)
             \/ RestoreRejected(h) \/ RestoreInterrupted(h)
      PROVE  Goal
  <2>1. handler[h].op \in Loose
    BY <1>4 DEF BadgeWrite, RestoreListing, RestoreDerive, RestoreTitle, RestoreRejected,
                RestoreInterrupted, Doing, Loose
  <2> QED BY <1>t, <2>1 DEF Intends
<1>5. ASSUME UNCHANGED <<titles, listings, changes>>,
             handler' = handler \/ \E h \in Handlers : Answer(h)
      PROVE  Goal
  <2>1. Steady
    BY <1>t, <1>5 DEF Steady, Tables, Tied, IndexesHold, Mirrored, Mirrors, Linked, Derived,
                     ListingsOf, Active
  <2>2. ASSUME NEW k \in Handlers PROVE \E r : handler'[k] = r /\ Intends(r)
    BY <1>t, <1>5, AnswerIntends
  <2> QED BY <2>1, <2>2
<1>6. ASSUME NEW h \in Handlers, Import(h) PROVE Goal
  BY <1>t, <1>1, <1>2, <1>6, ImportReadsHold DEF Import
<1>7. ASSUME NEW h \in Handlers, Edit(h) PROVE Goal
  <2>1. \A w : HistoryOf(w) \in SUBSET listings
    BY DEF HistoryOf
  <2>2. \A l \in listings : {l} \in SUBSET listings
    OBVIOUS
  <2>3. \A w : Suppress(h, w) \/ Unsuppress(h, w) =>
          UNCHANGED <<titles, listings, changes>> /\ handler' = handler
    BY DEF Suppress, Unsuppress, list, ledger
  <2> HIDE DEF Goal
  <2> QED
    BY <1>t, <1>1, <1>2, <1>3, <1>4, <1>5, <1>7, <2>1, <2>2, <2>3, EditReadsHold DEF Edit
<1>8. ASSUME NEW h \in Handlers, Refuse(h) PROVE Goal
  BY <1>5, <1>8 DEF Refuse, list, ledger
<1>9. ASSUME NEW b, NEW s, NEW removes, NEW found, Review(b, s, removes, found) PROVE Goal
  BY <1>5, <1>9 DEF Review, list
<1>10. CASE UNCHANGED vars
  BY <1>5, <1>10 DEF vars, list, ledger
<1>11. \/ \E h \in Handlers : Import(h) \/ Edit(h) \/ Refuse(h)
       \/ \E b, s, removes, found : Review(b, s, removes, found)
       \/ UNCHANGED vars
  BY DEF Next
<1>12. Goal
  BY <1>6, <1>7, <1>8, <1>9, <1>10, <1>11
<1> QED
  BY <1>12 DEF Goal

\* The list mirrors its listings through every race of closes, undos, group undos,
\* adds, removals, corrections, permanent deletes and suppressions, for any number of
\* them at once: each writes the titles of the listings it touches in the transaction
\* that touches them, and a listing never changes titles.  Only restoring a listing
\* (three statements) and adding a badge (the title is not written) do not.
THEOREM MirrorSurvivesRaces ==
  ASSUME NoLooseEnds
  PROVE  Spec => []ListMirrorsListings
<1>1. Init => RaceInv
  BY DEF Init, RaceInv, Tables, Tied, IndexesHold, Active, Mirrored, Named, Loose, Idle
<1>2. /\ TypeOK /\ TypeOK' /\ LedgerInv /\ LedgerInv' /\ GroupInv /\ RaceInv /\ [Next]_vars
      => RaceInv'
  <2> SUFFICES ASSUME TypeOK, TypeOK', LedgerInv, LedgerInv', GroupInv, RaceInv, [Next]_vars
               PROVE  RaceInv'
    OBVIOUS
  <2>1. Steady /\ \A k \in Handlers : \E r : handler'[k] = r /\ Intends(r)
    BY RaceStep
  <2>2. ASSUME NEW k \in Handlers PROVE Named(handler[k])' /\ handler'[k].op \notin Loose
    <3>1. PICK r : handler'[k] = r /\ Intends(r)
      BY <2>1
    <3>2. r \in Request
      BY <3>1 DEF TypeOK
    <3>3. Named(r)'
      BY <3>1, <3>2, ListingsStay, NamedKept DEF Intends
    <3> QED BY <3>1, <3>3 DEF Named, Intends
  <2> QED BY <2>1, <2>2 DEF RaceInv, Steady
<1>3. RaceInv => ListMirrorsListings
  BY DEF RaceInv, Mirrored, Mirrors, ListMirrorsListings
<1> QED
  BY <1>1, <1>2, <1>3, GroupInvHolds, PTL DEF Spec
=============================================================================
