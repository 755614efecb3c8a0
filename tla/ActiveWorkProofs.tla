-------------------------- MODULE ActiveWorkProofs --------------------------
(* What ActiveWork promises, proved for every set of items, checks, waits and
   workspaces and any number of messages, updates and upsets: the host's own
   calls are never refused, certificates rest on what ran, a replay rebuilds the
   confirmed graph (and of an update whose recording was cut short all or nothing),
   and owed requests and their waits survive. *)
EXTENDS ActiveWork, TLAPS

----------------------------------------------------------------------------
(* The graphs *)

Ids == Task \cup Request
ItemType == [root : Request, status : Status, by : {None} \cup Ids,
             checks : SUBSET Check, wait : {None} \cup Wait]
Items(f) == f \in [DOMAIN f -> ItemType] /\ DOMAIN f \subseteq Ids

\* A graph some message or update has built, of the first n requests.
Sound(g, n) ==
  /\ g = [items |-> g.items, revision |-> g.revision]
  /\ Items(g.items) /\ g.revision \in Nat
  /\ Roots(g.items) \subseteq 1..n
  /\ \A r \in Roots(g.items) : g.items[r].root = r
  /\ Valid(g.items)

\* The verified items, of a graph or of one side of an update, are those whose
\* checks are on record.
Proved(items, record) ==
  \A t \in Task \cap DOMAIN items :
    items[t].status = "verified" =>
      items[t].checks # {} /\ <<items[t].root, t, items[t].checks>> \in record

\* The graph has the request its turn will seal.
Served(g, r) == r \in Roots(g.items) /\ g.items[r].status \in {"open", "in_progress"}

----------------------------------------------------------------------------
(* What every reachable state keeps *)

\* Types, short of the graphs.
Basic ==
  /\ opened \in 0..MaxRequests /\ turn \in 0..opened
  /\ here \in Place /\ crossing \in {None} \cup Place
  /\ saved = [p \in Place |-> saved[p]]
  /\ pending = [stage |-> pending.stage, delta |-> pending.delta, before |-> pending.before]
  /\ pending.stage \in {"idle", "accepted", "reduced", "failed", "undecided"}
  /\ own \in BOOLEAN
  /\ ran \subseteq Request \X Task \X SUBSET Check

\* One turn at a time, of the newest request; it updates or crosses, not both.
TurnTaking ==
  /\ turn \in {None, opened}
  /\ turn = None => crossing = None /\ pending.stage = "idle"
  /\ crossing # None => pending.stage = "idle"

Graphs ==
  /\ \/ work = Refused /\ turn = None
     \/ Sound(work, opened) /\ Proved(work.items, ran)
  /\ \A p \in Place : Sound(saved[p], opened) /\ Proved(saved[p].items, ran)
  /\ \/ rebuilt = Refused
     \/ Sound(rebuilt, opened) /\ Proved(rebuilt.items, ran)
  /\ turn # None => Served(work, turn)

\* What the running turn of request r may ask for: it creates items, and of the
\* requests it only retires older ones.
Offer(d, r, record) ==
  /\ Items(d.creates) /\ Items(d.updates)
  /\ Roots(d.creates) = {}
  /\ \A q \in Roots(d.updates) : q # r /\ d.updates[q].status \in {"cancelled", "superseded"}
  /\ Proved(d.creates, record) /\ Proved(d.updates, record)

OnTheWay == {"accepted", "reduced", "undecided"}

\* An update between its acceptance and its record, or without a sure one.
Updating ==
  LET d == pending.delta
      g == pending.before
      h == Apply(g, d, g.revision)
  IN pending.stage \in OnTheWay =>
       /\ turn # None /\ crossing = None
       /\ Offer(d, turn, ran)
       /\ Sound(g, opened) /\ Proved(g.items, ran) /\ Served(g, turn)
       /\ h # Refused
       /\ pending.stage = "accepted" => work = g
       /\ pending.stage = "reduced" => work = h
       /\ pending.stage = "undecided" => work \in {g, h}

\* The workspace has the live graph on disk whenever it is said to; the one update
\* whose recording was cut short may be missing from the disk or from the graph.
OnDisk ==
  /\ own /\ (turn = None \/ crossing # None) => work \in {saved[here], Refused}
  /\ ReplayRebuilds

IInv == Basic /\ TurnTaking /\ Graphs /\ Updating /\ OnDisk

----------------------------------------------------------------------------
(* Items and Over *)

\* Requests are numbers, and nothing else is.
LEMMA Apart ==
  /\ MaxRequests \in Nat /\ Request \subseteq Nat
  /\ Task \cap Request = {} /\ None \notin Task \cup Request \cup Wait \cup Place
BY ActiveWorkAssumption DEF Request, None

LEMMA OverAt ==
  ASSUME NEW f, NEW g
  PROVE  /\ DOMAIN Over(f, g) = DOMAIN f \cup DOMAIN g
         /\ \A i \in DOMAIN f : Over(f, g)[i] = f[i]
         /\ \A i \in DOMAIN g \ DOMAIN f : Over(f, g)[i] = g[i]
BY DEF Over

LEMMA OverItems ==
  ASSUME NEW f, NEW g, Items(f), Items(g)
  PROVE  Items(Over(f, g))
<1> DEFINE h == Over(f, g)
<1>1. DOMAIN h = DOMAIN f \cup DOMAIN g BY OverAt
<1>2. \A i \in DOMAIN h : h[i] \in ItemType
  <2>1. TAKE i \in DOMAIN h
  <2>2. CASE i \in DOMAIN f
    <3>1. h[i] = f[i] BY <2>2, OverAt
    <3>2. f[i] \in ItemType BY <2>2 DEF Items
    <3> QED BY <3>1, <3>2
  <2>3. CASE i \notin DOMAIN f
    <3>1. i \in DOMAIN g \ DOMAIN f BY <2>1, <2>3, <1>1
    <3>4. \A j \in DOMAIN g \ DOMAIN f : h[j] = g[j] BY OverAt
    <3>2. h[i] = g[i] BY <3>1, <3>4
    <3>3. g[i] \in ItemType BY <3>1 DEF Items
    <3> QED BY <3>2, <3>3
  <2> QED BY <2>2, <2>3
<1>3. h = [i \in DOMAIN h |-> h[i]] BY DEF Over
<1>4. h \in [DOMAIN h -> ItemType] BY <1>2, <1>3
<1>5. DOMAIN h \subseteq Ids BY <1>1 DEF Items
<1> QED BY <1>4, <1>5 DEF Items

\* Over an empty change the graph's items stay as they are.
LEMMA OverNothing ==
  ASSUME NEW f, Items(f)
  PROVE  Over(NoItems, f) = f
<1>1. DOMAIN NoItems = {} BY DEF NoItems
<1>2. f = [i \in DOMAIN f |-> f[i]] BY DEF Items
<1>3. Over(NoItems, f) = [i \in DOMAIN f |-> f[i]] BY <1>1 DEF Over
<1> QED BY <1>2, <1>3

LEMMA NoItemsItems == Items(NoItems) /\ DOMAIN NoItems = {} /\ Roots(NoItems) = {}
BY DEF NoItems, Items, Roots

\* Certificates of both parts are certificates of the whole.
LEMMA OverProved ==
  ASSUME NEW f, NEW g, NEW record, Proved(f, record), Proved(g, record)
  PROVE  Proved(Over(f, g), record)
<1> DEFINE h == Over(f, g)
<1> SUFFICES ASSUME NEW t \in Task, t \in DOMAIN h, h[t].status = "verified"
             PROVE  h[t].checks # {} /\ <<h[t].root, t, h[t].checks>> \in record
  BY DEF Proved
<1>3. DOMAIN h = DOMAIN f \cup DOMAIN g BY OverAt
<1>4. \A i \in DOMAIN f : h[i] = f[i] BY OverAt
<1>5. \A i \in DOMAIN g \ DOMAIN f : h[i] = g[i] BY OverAt
<1> HIDE DEF h
<1>1. CASE t \in DOMAIN f
  <2>1. h[t] = f[t] BY <1>1, <1>4
  <2> QED BY <1>1, <2>1 DEF Proved
<1>2. CASE t \notin DOMAIN f
  <2>1. t \in DOMAIN g \ DOMAIN f BY <1>2, <1>3
  <2>2. h[t] = g[t] BY <2>1, <1>5
  <2> QED BY <2>1, <2>2 DEF Proved
<1> QED BY <1>1, <1>2

\* The record only grows, so a certificate stays one.
LEMMA ProvedGrows ==
  ASSUME NEW items, NEW record, NEW more, record \subseteq more, Proved(items, record)
  PROVE  Proved(items, more)
BY DEF Proved

\* A sound graph stays sound when more requests have come.
LEMMA SoundGrows ==
  ASSUME NEW g, NEW n \in Nat, Sound(g, n)
  PROVE  Sound(g, n + 1)
<1>1. 1..n \subseteq 1..(n + 1) OBVIOUS
<1> QED BY <1>1 DEF Sound

LEMMA SoundOK ==
  ASSUME NEW g, NEW n, Sound(g, n)
  PROVE  GraphOK(g) /\ g # Refused
<1>1. g.revision # -1 BY DEF Sound
<1>2. \A i \in DOMAIN g.items :
        g.items[i] \in [root : Request, status : Status, by : {None} \cup Task \cup Request,
                        checks : SUBSET Check, wait : {None} \cup Wait]
  <2>1. TAKE i \in DOMAIN g.items
  <2>2. g.items[i] \in ItemType BY DEF Sound, Items
  <2> QED BY <2>2 DEF ItemType, Ids
<1>3. DOMAIN g.items \subseteq Task \cup Request BY DEF Sound, Items, Ids
<1>4. Refused.revision = -1 BY DEF Refused
<1> QED BY <1>1, <1>2, <1>3, <1>4 DEF GraphOK

----------------------------------------------------------------------------
(* Apply *)

\* The items an update leaves, and what lets it through.
After(g, d) == Over(d.updates, Over(d.creates, g.items))

Fits(g, d) ==
  /\ DOMAIN d.creates \cap DOMAIN g.items = {}
  /\ DOMAIN d.updates \subseteq DOMAIN g.items
  /\ \A i \in DOMAIN d.updates :
       /\ d.updates[i].root = g.items[i].root
       /\ d.updates[i].status \in Allowed(g.items[i].status)
  /\ Valid(After(g, d))

Next1(g, items) == IF items = g.items THEN g.revision ELSE g.revision + 1

\* Apply, in one line.
LEMMA ApplyIs ==
  ASSUME NEW g, NEW d, NEW e
  PROVE  Apply(g, d, e) = IF g # Refused /\ e = g.revision /\ Fits(g, d)
                          THEN [items |-> After(g, d), revision |-> Next1(g, After(g, d))]
                          ELSE Refused
BY DEF Apply, Fits, After, Next1

\* An update that fits a sound graph is accepted.
LEMMA ApplyTakes ==
  ASSUME NEW g, NEW n, NEW d, Sound(g, n), Fits(g, d)
  PROVE  Apply(g, d, g.revision) # Refused
<1>1. g # Refused BY SoundOK
<1>2. Apply(g, d, g.revision) = [items |-> After(g, d), revision |-> Next1(g, After(g, d))]
  BY <1>1, ApplyIs
<1>3. Next1(g, After(g, d)) \in Nat BY DEF Next1, Sound
<1>4. Refused.revision = -1 BY DEF Refused
<1> QED BY <1>2, <1>3, <1>4

\* What an accepted update says.
LEMMA ApplyGives ==
  ASSUME NEW g, NEW d, NEW e, Apply(g, d, e) # Refused
  PROVE  /\ g # Refused /\ e = g.revision /\ Fits(g, d)
         /\ Apply(g, d, e) = [items |-> After(g, d), revision |-> Next1(g, After(g, d))]
         /\ Apply(g, d, e).items = After(g, d)
<1>1. g # Refused /\ e = g.revision /\ Fits(g, d) BY ApplyIs
<1>2. Apply(g, d, e) = [items |-> After(g, d), revision |-> Next1(g, After(g, d))]
  BY <1>1, ApplyIs
<1> QED BY <1>1, <1>2

\* Where the items of an accepted update come from.
Parts(items, old, creates, updates) ==
  /\ DOMAIN items = DOMAIN old \cup DOMAIN creates
  /\ \A i \in DOMAIN updates : items[i] = updates[i]
  /\ \A i \in DOMAIN creates : items[i] = creates[i]
  /\ \A i \in DOMAIN old \ DOMAIN updates : items[i] = old[i]

LEMMA AfterAt ==
  ASSUME NEW g, NEW d, Fits(g, d)
  PROVE  Parts(After(g, d), g.items, d.creates, d.updates)
<1> DEFINE inner == Over(d.creates, g.items)
           outer == Over(d.updates, inner)
<1>1. DOMAIN inner = DOMAIN d.creates \cup DOMAIN g.items BY OverAt
<1>2. \A i \in DOMAIN d.creates : inner[i] = d.creates[i] BY OverAt
<1>3. \A i \in DOMAIN g.items \ DOMAIN d.creates : inner[i] = g.items[i] BY OverAt
<1>7. After(g, d) = outer BY DEF After
<1> HIDE DEF inner
<1>4. DOMAIN outer = DOMAIN d.updates \cup DOMAIN inner BY OverAt
<1>5. \A i \in DOMAIN d.updates : outer[i] = d.updates[i] BY OverAt
<1>6. \A i \in DOMAIN inner \ DOMAIN d.updates : outer[i] = inner[i] BY OverAt
<1> HIDE DEF outer
<1>8. DOMAIN d.updates \subseteq DOMAIN g.items /\ DOMAIN d.creates \cap DOMAIN g.items = {}
  BY DEF Fits
<1> QED BY <1>1, <1>2, <1>3, <1>4, <1>5, <1>6, <1>7, <1>8 DEF Parts

\* A typed update of a sound graph leaves a sound graph.
LEMMA ApplySound ==
  ASSUME NEW g, NEW n, NEW d, NEW e, Sound(g, n), Apply(g, d, e) # Refused,
         Items(d.creates), Items(d.updates), Roots(d.creates) \subseteq 1..n,
         \A r \in Roots(d.creates) : d.creates[r].root = r
  PROVE  Sound(Apply(g, d, e), n)
<1> DEFINE h == Apply(g, d, e)
           items == After(g, d)
<1>1. h = [items |-> items, revision |-> Next1(g, items)] /\ Fits(g, d) BY ApplyGives
<1>2. Items(items)
  <2>1. Items(g.items) BY DEF Sound
  <2>2. Items(Over(d.creates, g.items)) BY <2>1, OverItems
  <2> QED BY <2>2, OverItems DEF After
<1>3. Next1(g, items) \in Nat BY DEF Next1, Sound
<1>9. Parts(items, g.items, d.creates, d.updates) BY <1>1, AfterAt
<1>10. DOMAIN items = DOMAIN g.items \cup DOMAIN d.creates BY <1>9 DEF Parts
<1>7. Valid(items) BY <1>1 DEF Fits
<1> HIDE DEF h, items
<1>4. Roots(items) = Roots(g.items) \cup Roots(d.creates) BY <1>10 DEF Roots
<1>5. Roots(items) \subseteq 1..n BY <1>4 DEF Sound
<1>6. \A r \in Roots(items) : items[r].root = r
  <2>1. TAKE r \in Roots(items)
  <2>2. CASE r \in DOMAIN d.updates
    <3>1. r \in DOMAIN g.items /\ d.updates[r].root = g.items[r].root BY <1>1, <2>2 DEF Fits
    <3>2. g.items[r].root = r BY <2>1, <3>1 DEF Sound, Roots
    <3>3. items[r] = d.updates[r] BY <2>2, <1>9 DEF Parts
    <3> QED BY <3>1, <3>2, <3>3
  <2>3. CASE r \in Roots(d.creates)
    <3>1. items[r] = d.creates[r] BY <2>3, <1>9 DEF Roots, Parts
    <3> QED BY <3>1, <2>3
  <2>4. CASE r \in Roots(g.items) /\ r \notin DOMAIN d.updates
    <3>1. items[r] = g.items[r] BY <2>4, <1>9 DEF Roots, Parts
    <3> QED BY <3>1, <2>4 DEF Sound
  <2> QED BY <2>1, <2>2, <2>3, <2>4, <1>4
<1>8. h.items = items /\ h.revision = Next1(g, items) BY <1>1
<1>14. Sound(h, n) BY <1>1, <1>2, <1>3, <1>5, <1>6, <1>7, <1>8 DEF Sound
<1> QED BY <1>14 DEF h

LEMMA ApplyProved ==
  ASSUME NEW g, NEW d, NEW e, NEW record, Apply(g, d, e) # Refused,
         Proved(g.items, record), Proved(d.creates, record), Proved(d.updates, record)
  PROVE  Proved(Apply(g, d, e).items, record)
<1>1. Apply(g, d, e).items = After(g, d) BY ApplyGives
<1>2. Proved(Over(d.creates, g.items), record) BY OverProved
<1>3. Proved(Over(d.updates, Over(d.creates, g.items)), record) BY <1>2, OverProved
<1> QED BY <1>1, <1>3 DEF After

----------------------------------------------------------------------------
(* A message: compaction and a new root *)

Replaced(items) == {i \in DOMAIN items : items[i].status = "superseded"}

\* Valid, by its parts.
Housed(items) ==
  \A i \in DOMAIN items :
    /\ items[i].root \in Roots(items)
    /\ (items[i].status = "waiting_peer") <=> (items[i].wait # None)

Settled(items) ==
  \A r \in Roots(items) : items[r].status \notin Unresolved => Live(items, r) = {}

Followed(items) ==
  \A i \in Replaced(items) :
    /\ items[i].by \in DOMAIN items \ {i}
    /\ items[items[i].by].root = items[i].root \/ {i, items[i].by} \subseteq Request

Grounded(items) ==
  \A S \in (SUBSET Replaced(items)) \ {{}} : \E i \in S : items[i].by \notin S

LEMMA ValidIs ==
  ASSUME NEW items
  PROVE  Valid(items) <=> Housed(items) /\ Settled(items) /\ Followed(items) /\ Grounded(items)
BY DEF Valid, Replaced, Housed, Settled, Followed, Grounded

\* An item is typed, and what Sound says of it.
LEMMA SoundItem ==
  ASSUME NEW g, NEW n, Sound(g, n), NEW i \in DOMAIN g.items
  PROVE  /\ g.items[i] \in ItemType /\ i \in Ids
         /\ g.items[i].root \in Roots(g.items)
         /\ g.items[g.items[i].root].root = g.items[i].root
         /\ (g.items[i].status = "waiting_peer") <=> (g.items[i].wait # None)
<1>1. Housed(g.items) BY ValidIs DEF Sound
<1>2. g.items[i].root \in Roots(g.items)
      /\ ((g.items[i].status = "waiting_peer") <=> (g.items[i].wait # None))
  BY <1>1 DEF Housed
<1>3. g.items[i] \in ItemType /\ i \in Ids BY DEF Sound, Items
<1>4. g.items[g.items[i].root].root = g.items[i].root BY <1>2 DEF Sound
<1> QED BY <1>2, <1>3, <1>4

LEMMA SupersededIsSettled == "superseded" \notin Unresolved /\ "cancelled" \notin Unresolved
                             /\ "delivered" \notin Unresolved
BY DEF Unresolved

\* What compaction leaves is a sound graph: an item goes with its root, and
\* what replaced an item is of the same root.
LEMMA CompactedSound ==
  ASSUME NEW g, NEW n, Sound(g, n),
         NEW h, h = [g EXCEPT !.items = [i \in Compacted(g.items) |-> g.items[i]]]
  PROVE  Sound(h, n) /\ h.revision = g.revision
<1> DEFINE items == [i \in Compacted(g.items) |-> g.items[i]]
<1>1. h = [items |-> items, revision |-> g.revision] BY DEF Sound
<1>2. DOMAIN items = Compacted(g.items) /\ \A i \in DOMAIN items : items[i] = g.items[i]
  OBVIOUS
<1>3. \A i \in DOMAIN items : i \in DOMAIN g.items /\ g.items[g.items[i].root].status \in Unresolved
  BY DEF Compacted
<1>4. \A i \in DOMAIN g.items : g.items[g.items[i].root].status \in Unresolved => i \in DOMAIN items
  BY DEF Compacted
<1>5. Items(items)
  <2>1. \A i \in DOMAIN items : items[i] \in ItemType BY <1>2, <1>3 DEF Sound, Items
  <2>2. DOMAIN items \subseteq Ids BY <1>3 DEF Sound, Items
  <2> QED BY <2>1, <2>2 DEF Items
<1> HIDE DEF items
<1>6. Roots(items) \subseteq Roots(g.items) BY <1>3 DEF Roots
<1>7. \A r \in Roots(items) : items[r].root = r /\ items[r].status \in Unresolved
  <2>1. TAKE r \in Roots(items)
  <2>2. r \in DOMAIN items /\ r \in Roots(g.items) BY <1>6 DEF Roots
  <2>3. g.items[r].root = r BY <2>2 DEF Sound
  <2> QED BY <2>2, <2>3, <1>2, <1>3
<1>8. Housed(items)
  <2>1. SUFFICES ASSUME NEW i \in DOMAIN items
                 PROVE  /\ items[i].root \in Roots(items)
                        /\ (items[i].status = "waiting_peer") <=> (items[i].wait # None)
    BY DEF Housed
  <2>2. i \in DOMAIN g.items /\ items[i] = g.items[i]
        /\ g.items[g.items[i].root].status \in Unresolved
    BY <1>2, <1>3
  <2>3. /\ g.items[i].root \in Roots(g.items)
        /\ g.items[g.items[i].root].root = g.items[i].root
        /\ (g.items[i].status = "waiting_peer") <=> (g.items[i].wait # None)
    BY <2>2, SoundItem
  <2>4. g.items[i].root \in DOMAIN items BY <2>2, <2>3, <1>4 DEF Roots
  <2>5. g.items[i].root \in Roots(items) BY <2>3, <2>4 DEF Roots
  <2> QED BY <2>2, <2>3, <2>5
<1>9. Settled(items) BY <1>7 DEF Settled
<1>10. Replaced(items) \subseteq Replaced(g.items) BY <1>2, <1>3 DEF Replaced
<1>11. Followed(items)
  <2>1. SUFFICES ASSUME NEW i \in Replaced(items)
                 PROVE  /\ items[i].by \in DOMAIN items \ {i}
                        /\ items[items[i].by].root = items[i].root
    BY DEF Followed
  <2>2. i \in DOMAIN items /\ items[i].status = "superseded" /\ items[i] = g.items[i]
        /\ i \in DOMAIN g.items /\ g.items[g.items[i].root].status \in Unresolved
    BY <1>2, <1>3 DEF Replaced
  <2>3. i \notin Request
    <3>1. i \in Request => i \in Roots(items) BY <2>2 DEF Roots
    <3> QED BY <3>1, <2>2, <1>7, SupersededIsSettled
  <2>4. Followed(g.items) BY ValidIs DEF Sound
  <2>5. g.items[i].by \in DOMAIN g.items \ {i} /\ g.items[g.items[i].by].root = g.items[i].root
    BY <2>3, <2>4, <1>10 DEF Followed
  <2>6. g.items[i].by \in DOMAIN items BY <2>2, <2>5, <1>4
  <2>7. items[g.items[i].by] = g.items[g.items[i].by] BY <2>6, <1>2
  <2> QED BY <2>2, <2>5, <2>6, <2>7
<1>12. Grounded(items)
  <2>1. SUFFICES ASSUME NEW S \in (SUBSET Replaced(items)) \ {{}}
                 PROVE  \E i \in S : items[i].by \notin S
    BY DEF Grounded
  <2>2. Grounded(g.items) BY ValidIs DEF Sound
  <2>3. PICK i \in S : g.items[i].by \notin S BY <2>1, <2>2, <1>10 DEF Grounded
  <2>4. items[i] = g.items[i] BY <2>3, <1>2 DEF Replaced
  <2> QED BY <2>3, <2>4
<1>13. Valid(items) BY <1>8, <1>9, <1>11, <1>12, ValidIs
<1>14. h.items = items /\ h.revision = g.revision BY <1>1
<1>15. Roots(items) \subseteq 1..n BY <1>6 DEF Sound
<1>16. h = [items |-> h.items, revision |-> h.revision] BY <1>1, <1>14
<1>17. g.revision \in Nat BY DEF Sound
<1> QED BY <1>5, <1>7, <1>13, <1>14, <1>15, <1>16, <1>17 DEF Sound

\* A message always opens its request, and no request that is owed is lost.
LEMMA OpenRequestWorks ==
  ASSUME NEW g, NEW n \in Nat, Sound(g, n), n + 1 \in Request, NEW record, Proved(g.items, record)
  PROVE  LET h == OpenRequest(g, n + 1) IN
         /\ h # Refused /\ Sound(h, n + 1) /\ Proved(h.items, record) /\ Served(h, n + 1)
         /\ \A r \in Owed(g) : r \in Roots(h.items) /\ h.items[r] = g.items[r]
<1> DEFINE k == [g EXCEPT !.items = [i \in Compacted(g.items) |-> g.items[i]]]
           new == Item(n + 1, "open", None, {}, None)
           d == [creates |-> [i \in {n + 1} |-> new], updates |-> NoItems]
           h == Apply(k, d, g.revision)
<1>1. h = OpenRequest(g, n + 1) BY DEF OpenRequest
<1>2. Sound(k, n) /\ k.revision = g.revision BY CompactedSound
<1>3. DOMAIN k.items = Compacted(g.items) /\ \A i \in Compacted(g.items) : k.items[i] = g.items[i]
  <2>1. k.items = [i \in Compacted(g.items) |-> g.items[i]] BY DEF Sound
  <2> QED BY <2>1
<1>4. d.creates = [i \in {n + 1} |-> new] /\ d.updates = NoItems OBVIOUS
<1>5. DOMAIN d.creates = {n + 1} /\ d.creates[n + 1] = new BY <1>4
<1>6. new.root = n + 1 /\ new.status = "open" /\ new.wait = None BY DEF Item
<1>7. new \in ItemType
  <2>1. "open" \in Status BY DEF Status, Unresolved
  <2> QED BY <2>1 DEF Item, ItemType
<1>8. Items(d.creates) BY <1>4, <1>7 DEF Items, Ids
<1>9. Items(d.updates) /\ DOMAIN d.updates = {} BY <1>4, NoItemsItems
<1> HIDE DEF k, new, d
<1>10. n + 1 \notin DOMAIN k.items
  <2>1. Roots(k.items) \subseteq 1..n BY <1>2 DEF Sound
  <2>2. n + 1 \notin 1..n OBVIOUS
  <2> QED BY <2>1, <2>2 DEF Roots
<1> DEFINE items == After(k, d)
<1>11. DOMAIN items = DOMAIN k.items \cup {n + 1} /\ items[n + 1] = new
       /\ \A i \in DOMAIN k.items : items[i] = k.items[i]
  <2>1. DOMAIN Over(d.creates, k.items) = DOMAIN d.creates \cup DOMAIN k.items BY OverAt
  <2>2. \A i \in DOMAIN d.creates : Over(d.creates, k.items)[i] = d.creates[i] BY OverAt
  <2>3. \A i \in DOMAIN k.items \ DOMAIN d.creates : Over(d.creates, k.items)[i] = k.items[i]
    BY OverAt
  <2>4. Items(k.items) BY <1>2 DEF Sound
  <2>5. Items(Over(d.creates, k.items)) BY <2>4, <1>8, OverItems
  <2>6. items = Over(d.creates, k.items) BY <2>5, <1>4, OverNothing DEF After
  <2> QED BY <2>1, <2>2, <2>3, <2>6, <1>5, <1>10
<1> HIDE DEF items
<1>12. Roots(items) = Roots(k.items) \cup {n + 1} BY <1>11 DEF Roots
<1>13. \A r \in Roots(items) : items[r].status \in Unresolved
  <2>1. TAKE r \in Roots(items)
  <2>2. CASE r = n + 1 BY <2>2, <1>6, <1>11 DEF Unresolved
  <2>3. CASE r \in Roots(k.items)
    <3>1. r \in DOMAIN k.items /\ k.items[r].root = r BY <2>3, <1>2 DEF Sound, Roots
    <3>2. r \in Compacted(g.items) /\ k.items[r] = g.items[r] BY <3>1, <1>3
    <3>3. g.items[g.items[r].root].status \in Unresolved BY <3>2 DEF Compacted
    <3>4. items[r] = k.items[r] BY <3>1, <1>11
    <3> QED BY <3>1, <3>2, <3>3, <3>4
  <2> QED BY <2>1, <2>2, <2>3, <1>12
<1>14. Housed(items)
  <2>1. SUFFICES ASSUME NEW i \in DOMAIN items
                 PROVE  /\ items[i].root \in Roots(items)
                        /\ (items[i].status = "waiting_peer") <=> (items[i].wait # None)
    BY DEF Housed
  <2>2. CASE i = n + 1 BY <2>2, <1>6, <1>11, <1>12
  <2>3. CASE i \in DOMAIN k.items
    <3>1. items[i] = k.items[i] BY <2>3, <1>11
    <3>2. /\ k.items[i].root \in Roots(k.items)
          /\ (k.items[i].status = "waiting_peer") <=> (k.items[i].wait # None)
      BY <2>3, <1>2, SoundItem
    <3> QED BY <3>1, <3>2, <1>12
  <2> QED BY <2>1, <2>2, <2>3, <1>11
<1>15. Settled(items) BY <1>13 DEF Settled
<1>16. Replaced(items) = Replaced(k.items) BY <1>6, <1>10, <1>11 DEF Replaced
<1>17. Followed(items)
  <2>1. SUFFICES ASSUME NEW i \in Replaced(items)
                 PROVE  /\ items[i].by \in DOMAIN items \ {i}
                        /\ items[items[i].by].root = items[i].root \/ {i, items[i].by} \subseteq Request
    BY DEF Followed
  <2>2. i \in DOMAIN k.items /\ items[i] = k.items[i] BY <1>11, <1>16 DEF Replaced
  <2>3. Followed(k.items) BY <1>2, ValidIs DEF Sound
  <2>4. /\ k.items[i].by \in DOMAIN k.items \ {i}
        /\ k.items[k.items[i].by].root = k.items[i].root \/ {i, k.items[i].by} \subseteq Request
    BY <2>3, <1>16 DEF Followed
  <2>5. items[k.items[i].by] = k.items[k.items[i].by] BY <2>4, <1>11
  <2> QED BY <2>2, <2>4, <2>5, <1>11
<1>18. Grounded(items)
  <2>1. SUFFICES ASSUME NEW S \in (SUBSET Replaced(items)) \ {{}}
                 PROVE  \E i \in S : items[i].by \notin S
    BY DEF Grounded
  <2>2. Grounded(k.items) BY <1>2, ValidIs DEF Sound
  <2>3. PICK i \in S : k.items[i].by \notin S BY <2>1, <2>2, <1>16 DEF Grounded
  <2>4. items[i] = k.items[i] BY <2>3, <1>11, <1>16 DEF Replaced
  <2> QED BY <2>3, <2>4
<1>19. Valid(items) BY <1>14, <1>15, <1>17, <1>18, ValidIs
<1>20. Fits(k, d)
  <2>1. DOMAIN d.creates \cap DOMAIN k.items = {} BY <1>5, <1>10
  <2> QED BY <2>1, <1>9, <1>19 DEF Fits, items
<1>21. Apply(k, d, k.revision) # Refused BY <1>2, <1>20, ApplyTakes
<1>22. h # Refused BY <1>21, <1>2
<1>23. Sound(k, n + 1) BY <1>2, SoundGrows
<1>24. Roots(d.creates) = {n + 1} /\ \A r \in Roots(d.creates) : d.creates[r].root = r
  BY <1>5, <1>6 DEF Roots
<1>25. n + 1 \in 1..(n + 1) OBVIOUS
<1>26. Sound(h, n + 1) BY <1>8, <1>9, <1>22, <1>23, <1>24, <1>25, ApplySound
<1>27. h.items = items BY <1>22, ApplyGives DEF items
<1>28. Proved(k.items, record) BY <1>3 DEF Proved, Compacted
<1>29. Proved(d.creates, record) /\ Proved(d.updates, record)
  BY <1>5, <1>6, <1>9 DEF Proved
<1>30. Proved(h.items, record) BY <1>22, <1>28, <1>29, ApplyProved
<1>31. Served(h, n + 1) BY <1>6, <1>11, <1>12, <1>27 DEF Served
<1>32. \A r \in Owed(g) : r \in Roots(h.items) /\ h.items[r] = g.items[r]
  <2>1. TAKE r \in Owed(g)
  <2>2. r \in Roots(g.items) /\ g.items[r].status \in Unresolved BY DEF Owed
  <2>3. g.items[r].root = r BY <2>2 DEF Sound
  <2>4. r \in Compacted(g.items) BY <2>2, <2>3 DEF Compacted, Roots
  <2>5. r \in DOMAIN k.items /\ k.items[r] = g.items[r] BY <2>4, <1>3
  <2>6. r \in DOMAIN items /\ items[r] = k.items[r] BY <2>5, <1>11
  <2> QED BY <2>2, <2>5, <2>6, <1>27 DEF Roots
<1> HIDE DEF h
<1> QED BY <1>1, <1>22, <1>26, <1>30, <1>31, <1>32

----------------------------------------------------------------------------
(* Calls that settle a root *)

\* The graph h has other requests rs than g; everything else about the
\* requests of g stands.
Touched(g, h, rs) ==
  /\ DOMAIN h.items = DOMAIN g.items
  /\ \A q \in Roots(g.items) \ rs : h.items[q] = g.items[q]

\* An update of a sound graph that creates nothing.
LEMMA UpdateGives ==
  ASSUME NEW g, NEW n, Sound(g, n), NEW f, Items(f), NEW h,
         h = Apply(g, [creates |-> NoItems, updates |-> f], g.revision), h # Refused,
         NEW record, Proved(g.items, record), Proved(f, record)
  PROVE  /\ Sound(h, n) /\ Proved(h.items, record) /\ DOMAIN f \subseteq DOMAIN g.items
         /\ Touched(g, h, DOMAIN f) /\ \A i \in DOMAIN f : h.items[i] = f[i]
<1> DEFINE d == [creates |-> NoItems, updates |-> f]
<1>1. d.creates = NoItems /\ d.updates = f OBVIOUS
<1>2. h = Apply(g, d, g.revision) OBVIOUS
<1> HIDE DEF d
<1>3. Items(d.creates) /\ Items(d.updates) /\ DOMAIN d.creates = {} BY <1>1, NoItemsItems
<1>4. Roots(d.creates) = {} BY <1>1, NoItemsItems
<1>5. Sound(h, n) BY <1>2, <1>3, <1>4, ApplySound
<1>6. Proved(d.creates, record) BY <1>3 DEF Proved
<1>7. Proved(d.updates, record) BY <1>1
<1>8. Proved(h.items, record) BY <1>2, <1>6, <1>7, ApplyProved
<1>9. Apply(g, d, g.revision) # Refused BY <1>2
<1>10. h.items = After(g, d) /\ Fits(g, d) BY <1>2, <1>9, ApplyGives
<1>11. Parts(h.items, g.items, d.creates, d.updates) BY <1>10, AfterAt
<1>12. DOMAIN f \subseteq DOMAIN g.items BY <1>1, <1>10 DEF Fits
<1>13. DOMAIN h.items = DOMAIN g.items BY <1>3, <1>11 DEF Parts
<1>14. Touched(g, h, DOMAIN f) BY <1>1, <1>11, <1>13 DEF Parts, Touched, Roots
<1>15. \A i \in DOMAIN f : h.items[i] = f[i] BY <1>1, <1>11 DEF Parts
<1> QED BY <1>5, <1>8, <1>12, <1>14, <1>15

\* The segment ends with an answer that may deliver the request.
Answer(stop, answered, transitioned) ==
  answered /\ ~transitioned /\ stop \notin {"waiting_user", "waiting_peer"}

\* The roots a seal settles, by what the seal was told.
LEMMA SealStatusIs ==
  ASSUME NEW g, NEW r, NEW stop, NEW answered, NEW transitioned, NEW resolve,
         NEW s, s = SealStatus(g, r, stop, answered, transitioned, resolve)
  PROVE  /\ s \in {"in_progress", "waiting_user", "waiting_peer", "delivered", g.items[r].status}
         /\ s = "waiting_peer" => \/ stop = "waiting_peer"
                                  \/ g.items[r].status = "waiting_peer" /\ ~resolve
         /\ g.items[r].status = "waiting_peer" /\ ~resolve /\ stop # "waiting_peer"
              => s = "waiting_peer"
         /\ transitioned /\ (g.items[r].status # "waiting_peer" \/ resolve) => s = "in_progress"
         /\ s = "delivered" /\ g.items[r].status # "delivered" =>
              /\ Answer(stop, answered, transitioned)
              /\ \A i \in Live(g.items, r) : g.items[i].status = "ready"
BY DEF SealStatus, Answer

\* The update a seal makes.
Sealed(g, r, stop, answered, transitioned, wait, resolve) ==
  LET status == SealStatus(g, r, stop, answered, transitioned, resolve)
      kept == IF wait # None THEN wait ELSE g.items[r].wait
      done == IF answered /\ ~transitioned /\ stop \notin {"waiting_user", "waiting_peer"}
              THEN {i \in Live(g.items, r) : g.items[i].status = "ready"} ELSE {}
  IN [i \in {r} \cup done |->
        IF i = r
        THEN [g.items[r] EXCEPT !.status = status,
                !.wait = IF status = "waiting_peer" THEN kept ELSE None]
        ELSE [g.items[i] EXCEPT !.status = "delivered"]]

LEMMA SealIs ==
  ASSUME NEW g, NEW r, NEW stop, NEW answered, NEW transitioned, NEW wait, NEW resolve
  PROVE  SealCurrent(g, r, stop, answered, transitioned, wait, resolve) =
           IF r \in Owed(g)
           THEN Apply(g, [creates |-> NoItems,
                          updates |-> Sealed(g, r, stop, answered, transitioned, wait, resolve)],
                      g.revision)
           ELSE Refused
BY DEF SealCurrent, Sealed

LEMMA Statuses ==
  /\ {"open", "in_progress", "waiting_user", "waiting_peer", "ready", "delivered", "cancelled",
      "superseded", "verified"} \subseteq Status
  /\ Unresolved \subseteq Status
BY DEF Status, Unresolved

\* What f, the update of a seal that gives root r the status s, looks like: of
\* the requests it holds only r, and the items it delivers were ready ones of r.
Settles(f, g, r, s, answer, wait) ==
  /\ Items(f) /\ r \in DOMAIN f /\ DOMAIN f \subseteq {r} \cup Live(g.items, r)
  /\ f[r].status = s /\ f[r].root = r /\ f[r].by = g.items[r].by
  /\ f[r].wait = IF s = "waiting_peer" THEN IF wait # None THEN wait ELSE g.items[r].wait
                                       ELSE None
  /\ \A i \in DOMAIN f \ {r} : /\ g.items[i].status = "ready"
                               /\ f[i] = [g.items[i] EXCEPT !.status = "delivered"]
  /\ answer => {i \in Live(g.items, r) : g.items[i].status = "ready"} \subseteq DOMAIN f

LEMMA SealedItems ==
  ASSUME NEW g, NEW n, Sound(g, n), NEW r \in Owed(g), NEW stop, NEW answered, NEW transitioned,
         NEW wait \in {None} \cup Wait, NEW resolve
  PROVE  Settles(Sealed(g, r, stop, answered, transitioned, wait, resolve), g, r,
                 SealStatus(g, r, stop, answered, transitioned, resolve),
                 Answer(stop, answered, transitioned), wait)
<1> DEFINE f == Sealed(g, r, stop, answered, transitioned, wait, resolve)
           s == SealStatus(g, r, stop, answered, transitioned, resolve)
           answer == Answer(stop, answered, transitioned)
           kept == IF wait # None THEN wait ELSE g.items[r].wait
           last == IF s = "waiting_peer" THEN kept ELSE None
           root == [g.items[r] EXCEPT !.status = s, !.wait = last]
           done == IF answer THEN {i \in Live(g.items, r) : g.items[i].status = "ready"} ELSE {}
<1>1. f = [i \in {r} \cup done |->
             IF i = r THEN root ELSE [g.items[i] EXCEPT !.status = "delivered"]]
  BY DEF Sealed, Answer
<1> HIDE DEF f
<1>2. r \in DOMAIN g.items /\ r \in Roots(g.items) /\ r \in Request BY DEF Owed, Roots
<1>3. g.items[r] \in ItemType /\ g.items[r].root = r BY <1>2, SoundItem DEF Sound
<1>4. s \in Status
  <2>1. s \in {"in_progress", "waiting_user", "waiting_peer", "delivered", g.items[r].status}
    BY SealStatusIs DEF s
  <2>2. g.items[r].status \in Status BY <1>3 DEF ItemType
  <2> QED BY <2>1, <2>2, Statuses
<1>5. last \in {None} \cup Wait BY <1>3 DEF ItemType
<1> HIDE DEF last, s, answer
<1>6. root \in ItemType BY <1>3, <1>4, <1>5 DEF ItemType
<1>7. root.status = s /\ root.root = r /\ root.by = g.items[r].by /\ root.wait = last
  BY <1>3 DEF ItemType
<1> HIDE DEF root
<1>8. done \subseteq Live(g.items, r) /\ \A i \in done : g.items[i].status = "ready" OBVIOUS
<1>9. Live(g.items, r) \subseteq DOMAIN g.items /\ Live(g.items, r) \subseteq Task BY DEF Live, Children
<1>10. answer =>
         done = {i \in Live(g.items, r) : g.items[i].status = "ready"}
  OBVIOUS
<1> HIDE DEF done
<1>11. r \notin done BY <1>2, <1>8, <1>9, Apart
<1>12. DOMAIN f = {r} \cup done /\ f[r] = root
       /\ \A i \in done : f[i] = [g.items[i] EXCEPT !.status = "delivered"]
  BY <1>1, <1>11
<1>13. \A i \in done : f[i] \in ItemType
  <2>1. TAKE i \in done
  <2>2. g.items[i] \in ItemType BY <1>8, <1>9, SoundItem
  <2>3. [g.items[i] EXCEPT !.status = "delivered"] \in ItemType BY <2>2, Statuses DEF ItemType
  <2> QED BY <2>3, <1>12
<1>14. Items(f)
  <2>1. \A i \in DOMAIN f : f[i] \in ItemType BY <1>6, <1>12, <1>13
  <2>2. DOMAIN f \subseteq Ids BY <1>2, <1>8, <1>9, <1>12 DEF Ids
  <2>3. f = [i \in DOMAIN f |-> f[i]] BY <1>1
  <2> QED BY <2>1, <2>2, <2>3 DEF Items
<1>15. f[r].wait = IF s = "waiting_peer" THEN kept ELSE None BY <1>7, <1>12 DEF last
<1>16. Settles(f, g, r, s, answer, wait)
  BY <1>7, <1>8, <1>10, <1>12, <1>14, <1>15 DEF Settles
<1> QED BY <1>16 DEF f, s, answer

LEMMA SealedProved ==
  ASSUME NEW g, NEW n, Sound(g, n), NEW r \in Owed(g), NEW stop, NEW answered, NEW transitioned,
         NEW wait \in {None} \cup Wait, NEW resolve, NEW record
  PROVE  Proved(Sealed(g, r, stop, answered, transitioned, wait, resolve), record)
<1> DEFINE f == Sealed(g, r, stop, answered, transitioned, wait, resolve)
           s == SealStatus(g, r, stop, answered, transitioned, resolve)
           answer == Answer(stop, answered, transitioned)
<1>5. Settles(f, g, r, s, answer, wait) BY SealedItems
<1> HIDE DEF f, s, answer
<1>1. /\ DOMAIN f \subseteq {r} \cup Live(g.items, r)
      /\ \A i \in DOMAIN f \ {r} : f[i] = [g.items[i] EXCEPT !.status = "delivered"]
  BY <1>5 DEF Settles
<1>2. \A i \in DOMAIN f \ {r} : f[i].status = "delivered"
  <2>1. TAKE i \in DOMAIN f \ {r}
  <2>2. i \in DOMAIN g.items BY <1>1 DEF Live, Children
  <2>3. g.items[i] \in ItemType BY <2>2, SoundItem
  <2>4. [g.items[i] EXCEPT !.status = "delivered"].status = "delivered" BY <2>3 DEF ItemType
  <2> QED BY <1>1, <2>4
<1>3. r \notin Task BY Apart DEF Owed, Roots
<1>4. Proved(f, record) BY <1>2, <1>3 DEF Proved
<1> QED BY <1>4 DEF f

\* The graph h a seal of request r leaves, with status s for the request.
Leaves(h, g, n, r, s, wait, record) ==
  /\ r \in Owed(g) /\ Sound(h, n) /\ Proved(h.items, record) /\ Touched(g, h, {r})
  /\ h.items[r].status = s
  /\ h.items[r].wait = IF s = "waiting_peer"
                       THEN IF wait # None THEN wait ELSE g.items[r].wait ELSE None

\* What a seal leaves, when it does not raise.
LEMMA SealGives ==
  ASSUME NEW g, NEW n, Sound(g, n), NEW r, NEW stop, NEW answered, NEW transitioned,
         NEW wait \in {None} \cup Wait, NEW resolve, NEW record, Proved(g.items, record),
         SealCurrent(g, r, stop, answered, transitioned, wait, resolve) # Refused
  PROVE  Leaves(SealCurrent(g, r, stop, answered, transitioned, wait, resolve), g, n, r,
                SealStatus(g, r, stop, answered, transitioned, resolve), wait, record)
<1> DEFINE f == Sealed(g, r, stop, answered, transitioned, wait, resolve)
           s == SealStatus(g, r, stop, answered, transitioned, resolve)
           answer == Answer(stop, answered, transitioned)
           h == SealCurrent(g, r, stop, answered, transitioned, wait, resolve)
<1>1. r \in Owed(g) /\ h # Refused BY SealIs
<1>2. h = Apply(g, [creates |-> NoItems, updates |-> f], g.revision) BY <1>1, SealIs
<1>3. Settles(f, g, r, s, answer, wait) BY <1>1, SealedItems
<1>4. Proved(f, record) BY <1>1, SealedProved
<1> HIDE DEF f, s, answer, h
<1>5. /\ Items(f) /\ r \in DOMAIN f /\ DOMAIN f \subseteq {r} \cup Live(g.items, r)
      /\ f[r].status = s
      /\ f[r].wait = IF s = "waiting_peer" THEN IF wait # None THEN wait ELSE g.items[r].wait
                                           ELSE None
  BY <1>3 DEF Settles
<1>6. /\ Sound(h, n) /\ Proved(h.items, record)
      /\ Touched(g, h, DOMAIN f) /\ \A i \in DOMAIN f : h.items[i] = f[i]
  BY <1>1, <1>2, <1>4, <1>5, UpdateGives
<1>7. Roots(g.items) \ {r} \subseteq Roots(g.items) \ DOMAIN f
  BY <1>5, Apart DEF Live, Children, Roots
<1>8. Touched(g, h, {r}) BY <1>6, <1>7 DEF Touched
<1>9. h.items[r] = f[r] BY <1>5, <1>6
<1>10. Leaves(h, g, n, r, s, wait, record) BY <1>1, <1>5, <1>6, <1>8, <1>9 DEF Leaves
<1> QED BY <1>10 DEF h, s

\* The turn that runs can always be sealed: its root is open or in progress,
\* and an answer that delivers the root also delivers all it still has live.
LEMMA SealWorks ==
  ASSUME NEW g, NEW n, Sound(g, n), NEW r, Served(g, r), NEW stop, NEW answered, NEW transitioned,
         NEW wait \in {None} \cup Wait, (stop = "waiting_peer") <=> (wait # None), NEW resolve
  PROVE  SealCurrent(g, r, stop, answered, transitioned, wait, resolve) # Refused
<1> DEFINE f == Sealed(g, r, stop, answered, transitioned, wait, resolve)
           s == SealStatus(g, r, stop, answered, transitioned, resolve)
           answer == Answer(stop, answered, transitioned)
           d == [creates |-> NoItems, updates |-> f]
           items == After(g, d)
<1>1. r \in Roots(g.items) /\ g.items[r].status \in {"open", "in_progress"} BY DEF Served
<1>2. r \in Owed(g) /\ r \in DOMAIN g.items /\ r \in Request
  BY <1>1 DEF Owed, Roots, Unresolved
<1>3. Settles(f, g, r, s, answer, wait) BY <1>2, SealedItems
<1>4. d.creates = NoItems /\ d.updates = f OBVIOUS
<1>5. SealCurrent(g, r, stop, answered, transitioned, wait, resolve) = Apply(g, d, g.revision)
  BY <1>2, SealIs
<1>7. /\ s \in {"in_progress", "waiting_user", "waiting_peer", "delivered", g.items[r].status}
      /\ s = "waiting_peer" => \/ stop = "waiting_peer"
                               \/ g.items[r].status = "waiting_peer" /\ ~resolve
      /\ s = "delivered" /\ g.items[r].status # "delivered" =>
           answer /\ \A i \in Live(g.items, r) : g.items[i].status = "ready"
  BY SealStatusIs
<1> HIDE DEF f, s, d, answer
<1>6. /\ Items(f) /\ r \in DOMAIN f /\ DOMAIN f \subseteq {r} \cup Live(g.items, r)
      /\ f[r].status = s /\ f[r].root = r /\ f[r].by = g.items[r].by
      /\ f[r].wait = IF s = "waiting_peer" THEN IF wait # None THEN wait ELSE g.items[r].wait
                                           ELSE None
      /\ \A i \in DOMAIN f \ {r} : /\ g.items[i].status = "ready"
                                   /\ f[i] = [g.items[i] EXCEPT !.status = "delivered"]
      /\ answer => {i \in Live(g.items, r) : g.items[i].status = "ready"} \subseteq DOMAIN f
  BY <1>3 DEF Settles
<1>8. \A i \in DOMAIN f \ {r} :
        /\ i \in DOMAIN g.items /\ i \notin Request
        /\ g.items[i].root = r /\ g.items[i].status = "ready" /\ g.items[i].wait = None
        /\ f[i].status = "delivered" /\ f[i].root = r /\ f[i].by = g.items[i].by
        /\ f[i].wait = None
  <2>1. TAKE i \in DOMAIN f \ {r}
  <2>2. i \in Live(g.items, r) BY <1>6
  <2>3. i \in DOMAIN g.items /\ i \in Task /\ g.items[i].root = r BY <2>2 DEF Live, Children
  <2>4. g.items[i].status = "ready" /\ f[i] = [g.items[i] EXCEPT !.status = "delivered"] BY <1>6
  <2>5. g.items[i] \in ItemType /\ ((g.items[i].status = "waiting_peer") <=> (g.items[i].wait # None))
    BY <2>3, SoundItem
  <2>6. f[i].status = "delivered" /\ f[i].root = g.items[i].root /\ f[i].by = g.items[i].by
        /\ f[i].wait = g.items[i].wait
    BY <2>4, <2>5 DEF ItemType
  <2> QED BY <2>3, <2>4, <2>5, <2>6, Apart
<1>9. s \in Allowed(g.items[r].status)
  <2>1. CASE g.items[r].status = "open"
    <3>1. Allowed("open") = Status BY DEF Allowed
    <3> QED BY <2>1, <3>1, <1>7, Statuses
  <2>2. CASE g.items[r].status = "in_progress"
    <3>1. Allowed("in_progress") = Status \ {"open"} BY DEF Allowed
    <3> QED BY <2>2, <3>1, <1>7, Statuses
  <2> QED BY <2>1, <2>2, <1>1
<1>10. "delivered" \in Allowed("ready") BY DEF Allowed
<1>11. \A i \in DOMAIN f : /\ f[i].root = g.items[i].root
                           /\ f[i].status \in Allowed(g.items[i].status)
  <2>1. g.items[r].root = r BY <1>1 DEF Sound
  <2> QED BY <2>1, <1>6, <1>8, <1>9, <1>10
<1>12. DOMAIN f \subseteq DOMAIN g.items BY <1>2, <1>8
<1>13. DOMAIN d.creates = {} BY <1>4, NoItemsItems
<1>14. DOMAIN items = DOMAIN g.items /\ (\A i \in DOMAIN f : items[i] = f[i])
       /\ \A i \in DOMAIN g.items \ DOMAIN f : items[i] = g.items[i]
  <2>1. Items(g.items) BY DEF Sound
  <2>2. items = Over(f, g.items) BY <2>1, <1>4, OverNothing DEF After
  <2>3. DOMAIN Over(f, g.items) = DOMAIN f \cup DOMAIN g.items BY OverAt
  <2>4. \A i \in DOMAIN f : Over(f, g.items)[i] = f[i] BY OverAt
  <2>5. \A i \in DOMAIN g.items \ DOMAIN f : Over(f, g.items)[i] = g.items[i] BY OverAt
  <2> QED BY <2>2, <2>3, <2>4, <2>5, <1>12
<1> HIDE DEF items
<1>15. Roots(items) = Roots(g.items) BY <1>14 DEF Roots
<1>16. \A i \in DOMAIN g.items : items[i].root = g.items[i].root /\ items[i].by = g.items[i].by
  <2>1. g.items[r].root = r BY <1>1 DEF Sound
  <2> QED BY <2>1, <1>6, <1>8, <1>14
<1>17. Housed(items)
  <2>1. SUFFICES ASSUME NEW i \in DOMAIN g.items
                 PROVE  /\ items[i].root \in Roots(items)
                        /\ (items[i].status = "waiting_peer") <=> (items[i].wait # None)
    BY <1>14 DEF Housed
  <2>2. g.items[i].root \in Roots(g.items)
        /\ ((g.items[i].status = "waiting_peer") <=> (g.items[i].wait # None))
    BY SoundItem
  <2>3. items[i].root \in Roots(items) BY <2>2, <1>15, <1>16
  <2>4. CASE i = r
    <3>1. items[i].status = s /\ items[i].wait = f[r].wait BY <2>4, <1>6, <1>14
    <3>2. s = "waiting_peer" => wait # None BY <1>1, <1>7
    <3> QED BY <3>1, <3>2, <1>6, <2>3
  <2>5. CASE i \in DOMAIN f \ {r}
    <3>1. items[i] = f[i] BY <2>5, <1>14
    <3> QED BY <3>1, <2>3, <2>5, <1>8
  <2>6. CASE i \notin DOMAIN f BY <2>2, <2>3, <2>6, <1>14
  <2> QED BY <2>4, <2>5, <2>6
<1>18. Settled(items)
  <2>1. SUFFICES ASSUME NEW q \in Roots(g.items), items[q].status \notin Unresolved,
                        NEW i \in Live(items, q)
                 PROVE  FALSE
    BY <1>15 DEF Settled
  <2>2. i \in DOMAIN g.items /\ i \in Task /\ g.items[i].root = q /\ items[i].status \in Unresolved
    BY <1>14, <1>16 DEF Live, Children
  <2>3. i \notin DOMAIN f
    <3>1. i # r BY <1>2, <2>2, Apart
    <3>2. i \in DOMAIN f \ {r} => items[i].status = "delivered" BY <1>8, <1>14
    <3> QED BY <3>1, <3>2, <2>2, SupersededIsSettled
  <2>4. items[i] = g.items[i] BY <2>2, <2>3, <1>14
  <2>5. i \in Live(g.items, q) BY <2>2, <2>4 DEF Live, Children
  <2>6. CASE q = r
    <3>1. items[r].status = s BY <1>6, <1>14
    <3>2. s \notin Unresolved BY <2>1, <2>6, <3>1
    <3>3. s = "delivered" BY <3>2, <1>1, <1>7 DEF Unresolved
    <3>4. g.items[r].status # "delivered" BY <1>1
    <3>5. /\ answer
          /\ \A j \in Live(g.items, r) : g.items[j].status = "ready"
      BY <3>3, <3>4, <1>7
    <3>6. i \in DOMAIN f BY <3>5, <2>5, <2>6, <1>6
    <3> QED BY <3>6, <2>3
  <2>7. CASE q # r
    <3>1. q \in DOMAIN g.items /\ q \in Request BY DEF Roots
    <3>2. q \notin DOMAIN f BY <3>1, <2>7, <1>8
    <3>3. items[q] = g.items[q] BY <3>1, <3>2, <1>14
    <3>4. Settled(g.items) BY ValidIs DEF Sound
    <3> QED BY <3>3, <3>4, <2>1, <2>5 DEF Settled
  <2> QED BY <2>6, <2>7
<1>19. Replaced(items) = Replaced(g.items)
  <2>1. \A i \in DOMAIN g.items :
          (items[i].status = "superseded") <=> (g.items[i].status = "superseded")
    <3>1. TAKE i \in DOMAIN g.items
    <3>2. CASE i = r
      <4>1. items[r].status = s BY <1>6, <1>14
      <4>2. s # "superseded" BY <1>1, <1>7
      <4> QED BY <3>2, <4>1, <4>2, <1>1
    <3>3. CASE i \in DOMAIN f \ {r}
      <4>1. items[i].status = "delivered" /\ g.items[i].status = "ready" BY <3>3, <1>8, <1>14
      <4> QED BY <4>1
    <3>4. CASE i \notin DOMAIN f BY <3>4, <1>14
    <3> QED BY <3>2, <3>3, <3>4
  <2> QED BY <2>1, <1>14 DEF Replaced
<1>20. Followed(items)
  <2>1. Followed(g.items) BY ValidIs DEF Sound
  <2>2. Replaced(g.items) \subseteq DOMAIN g.items BY DEF Replaced
  <2> QED BY <2>1, <2>2, <1>14, <1>16, <1>19 DEF Followed
<1>21. Grounded(items)
  <2>1. Grounded(g.items) BY ValidIs DEF Sound
  <2>2. \A i \in Replaced(g.items) : items[i].by = g.items[i].by BY <1>16 DEF Replaced
  <2> QED BY <2>1, <2>2, <1>19 DEF Grounded
<1>22. Valid(items) BY <1>17, <1>18, <1>20, <1>21, ValidIs
<1>23. Fits(g, d) BY <1>4, <1>11, <1>12, <1>13, <1>22 DEF Fits, items
<1>24. Apply(g, d, g.revision) # Refused BY <1>23, ApplyTakes
<1> QED BY <1>5, <1>24

\* What the end of some peer waits leaves.
LEMMA UnparkGives ==
  ASSUME NEW g, NEW n, Sound(g, n), NEW rs \in SUBSET Parked(g), NEW record,
         Proved(g.items, record), NEW h, h = Unpark(g, rs), h # Refused
  PROVE  /\ Sound(h, n) /\ Proved(h.items, record) /\ Touched(g, h, rs)
         /\ \A r \in rs : h.items[r].status = "in_progress"
<1> DEFINE f == [r \in rs |-> [g.items[r] EXCEPT !.status = "in_progress", !.wait = None]]
<1>1. h = Apply(g, [creates |-> NoItems, updates |-> f], g.revision) BY DEF Unpark
<1>2. DOMAIN f = rs OBVIOUS
<1>3. \A r \in rs : f[r] \in ItemType /\ f[r].status = "in_progress" /\ r \in Request
  <2>1. TAKE r \in rs
  <2>2. r \in DOMAIN g.items /\ r \in Request BY DEF Parked, Owed, Roots
  <2>3. g.items[r] \in ItemType BY <2>2, SoundItem
  <2>4. "in_progress" \in Status BY Statuses
  <2> QED BY <2>2, <2>3, <2>4 DEF ItemType
<1>4. f \in [rs -> ItemType] BY <1>3
<1> HIDE DEF f
<1>5. Items(f) BY <1>2, <1>3, <1>4 DEF Items, Ids
<1>6. Proved(f, record) BY <1>2, <1>3, Apart DEF Proved
<1>7. /\ Sound(h, n) /\ Proved(h.items, record)
      /\ Touched(g, h, DOMAIN f) /\ \A i \in DOMAIN f : h.items[i] = f[i]
  BY <1>1, <1>5, <1>6, UpdateGives
<1> QED BY <1>2, <1>3, <1>7

----------------------------------------------------------------------------
(* What update_work may ask for *)

Named(batch) == {batch[n] : n \in DOMAIN batch}
Picked(changes, i) == CHOOSE c \in changes : c.id = i

LEMMA BatchNames ==
  ASSUME NEW g, NEW r, NEW batch \in Batches(g, r)
  PROVE  Named(batch) \subseteq Changes(g, r)
<1> DEFINE changes == Changes(g, r)
<1>1. CASE \E c \in changes : batch = <<c>>
  <2>1. PICK c \in changes : batch = <<c>> BY <1>1
  <2>2. DOMAIN batch = {1} /\ batch[1] = c BY <2>1
  <2> QED BY <2>2 DEF Named
<1>2. CASE batch \in changes \X changes
  <2>1. PICK c \in changes, e \in changes : batch = <<c, e>> BY <1>2
  <2>2. DOMAIN batch = {1, 2} /\ batch[1] = c /\ batch[2] = e BY <2>1
  <2> QED BY <2>2 DEF Named
<1> QED BY <1>1, <1>2 DEF Batches

LEMMA PickedIs ==
  ASSUME NEW changes, NEW i \in {c.id : c \in changes}
  PROVE  Picked(changes, i) \in changes /\ Picked(changes, i).id = i
BY DEF Picked

LEMMA ChangeIs ==
  ASSUME NEW g, NEW r, NEW c \in Changes(g, r)
  PROVE  /\ c \in Change /\ c.id \in Ids /\ c.by \in {None} \cup Ids
         /\ Asked(g, c) \in ModelStatus
         /\ c.id \in Request => /\ c.id # r /\ c.id \in DOMAIN g.items
                                /\ c.status \in {"cancelled", "superseded"}
         /\ c.id \in DOMAIN g.items /\ c.id \in Task => g.items[c.id].root = r
<1>1. /\ c \in Change /\ Asked(g, c) \in ModelStatus /\ MayChange(g, r, c)
      /\ c.id \in Request => c.id \in DOMAIN g.items /\ c.status \in {"cancelled", "superseded"}
  BY DEF Changes
<1>2. c.id \in Ids /\ c.by \in {None} \cup Ids BY <1>1 DEF Change, Ids
<1>3. c.id \in Request => c.id # r BY <1>1 DEF MayChange
<1>4. c.id \in DOMAIN g.items /\ c.id \in Task => g.items[c.id].root = r
  BY <1>1, Apart DEF MayChange
<1> QED BY <1>1, <1>2, <1>3, <1>4

\* The item a change proposes, and what its certificate rests on.
LEMMA ProposedIs ==
  ASSUME NEW g, NEW n, Sound(g, n), NEW r \in Request, NEW c \in Changes(g, r), NEW green
  PROVE  LET p == Proposed(g, r, c, green) IN
         /\ p \in ItemType /\ p.root = r
         /\ p.checks = Proposed(g, r, c, {}).checks
         /\ p.status = "verified" => c.id \in green
<1> DEFINE old == IF c.id \in DOMAIN g.items THEN g.items[c.id] ELSE Item(r, "open", None, {}, None)
           status == Promoted(Asked(g, c), c.id, green)
           by == IF c.status = "keep" THEN old.by ELSE c.by
           checks == IF c.verify = <<>> THEN old.checks ELSE c.verify[1]
           p == Proposed(g, r, c, green)
<1>1. /\ c \in Change /\ c.id \in Ids /\ c.by \in {None} \cup Ids
      /\ Asked(g, c) \in ModelStatus
  BY ChangeIs
<1>2. old.by \in {None} \cup Ids /\ old.checks \in SUBSET Check /\ old.wait \in {None} \cup Wait
  <2>1. CASE c.id \in DOMAIN g.items
    <3>1. g.items[c.id] \in ItemType BY <2>1, SoundItem
    <3> QED BY <2>1, <3>1 DEF ItemType
  <2>2. CASE c.id \notin DOMAIN g.items BY <2>2 DEF Item
  <2> QED BY <2>1, <2>2
<1>3. p = Item(r, status, by, checks, old.wait) BY DEF Proposed
<1>4. Proposed(g, r, c, {}).checks = checks BY DEF Proposed, Item
<1> HIDE DEF old
<1>5. by \in {None} \cup Ids BY <1>1, <1>2
<1>6. checks \in SUBSET Check
  <2>1. CASE c.verify = <<>> BY <2>1, <1>2
  <2>2. CASE c.verify # <<>>
    <3>1. c.verify \in {<<>>} \cup {<<s>> : s \in SUBSET Check} BY <1>1 DEF Change
    <3>2. PICK s \in SUBSET Check : c.verify = <<s>> BY <2>2, <3>1
    <3>3. c.verify[1] = s BY <3>2
    <3> QED BY <2>2, <3>3
  <2> QED BY <2>1, <2>2
<1>7. status \in Status /\ (status = "verified" => c.id \in green)
  <2>1. ModelStatus \subseteq Status /\ "verified" \in Status /\ "verified" \notin ModelStatus
    BY Statuses DEF ModelStatus
  <2> QED BY <2>1, <1>1 DEF Promoted
<1> HIDE DEF status, by, checks
<1>8. p.root = r /\ p.status = status /\ p.checks = checks BY <1>3 DEF Item
<1>9. p \in ItemType BY <1>2, <1>3, <1>5, <1>6, <1>7 DEF Item, ItemType
<1> HIDE DEF p
<1>10. p = Proposed(g, r, c, green) BY DEF p
<1> QED BY <1>4, <1>7, <1>8, <1>9, <1>10

\* The two sides of an update, by the changes it names.
Orphans(g, ids) == UNION {Live(g.items, q) : q \in ids \cap Request}

Creations(g, r, changes, green) ==
  [i \in {c.id : c \in changes} \ DOMAIN g.items |-> Proposed(g, r, Picked(changes, i), green)]

Revisions(g, r, changes, green) ==
  LET ids == {c.id : c \in changes} IN
  [i \in (ids \cap DOMAIN g.items) \cup Orphans(g, ids) |->
     IF i \in ids \cap Request
     THEN [g.items[i] EXCEPT !.status = Picked(changes, i).status,
                             !.by = Picked(changes, i).by, !.wait = None]
     ELSE IF i \in ids
     THEN Proposed(g, r, Picked(changes, i), green)
     ELSE [g.items[i] EXCEPT !.status = "cancelled", !.by = None]]

LEMMA DeltaIs ==
  ASSUME NEW g, NEW r, NEW batch, NEW green
  PROVE  Delta(g, r, batch, green) = [creates |-> Creations(g, r, Named(batch), green),
                                      updates |-> Revisions(g, r, Named(batch), green)]
BY DEF Delta, Named, Picked, Orphans, Creations, Revisions

LEMMA DeltaSides ==
  ASSUME NEW g, NEW r, NEW batch, NEW green
  PROVE  /\ Delta(g, r, batch, green).creates = Creations(g, r, Named(batch), green)
         /\ Delta(g, r, batch, green).updates = Revisions(g, r, Named(batch), green)
<1>1. Delta(g, r, batch, green) = [creates |-> Creations(g, r, Named(batch), green),
                                   updates |-> Revisions(g, r, Named(batch), green)]
  BY DeltaIs
<1> QED BY <1>1

\* One side of the update: a created item.
LEMMA Creation ==
  ASSUME NEW g, NEW n, Sound(g, n), NEW r \in Request, NEW batch \in Batches(g, r), NEW green,
         NEW i \in DOMAIN Delta(g, r, batch, green).creates
  PROVE  LET p == Delta(g, r, batch, green).creates[i] IN
         /\ i \in DOMAIN Delta(g, r, batch, {}).creates
         /\ i \in Task /\ p \in ItemType /\ p.root = r
         /\ p.checks = Delta(g, r, batch, {}).creates[i].checks
         /\ p.status = "verified" => i \in green
<1> DEFINE changes == Named(batch)
           ids == {c.id : c \in changes}
           c == Picked(changes, i)
<1>a. Delta(g, r, batch, green).creates = Creations(g, r, changes, green) BY DeltaSides
<1>b. Delta(g, r, batch, {}).creates = Creations(g, r, changes, {}) BY DeltaSides
<1>1. /\ Delta(g, r, batch, green).creates =
           [j \in ids \ DOMAIN g.items |-> Proposed(g, r, Picked(changes, j), green)]
      /\ Delta(g, r, batch, {}).creates =
           [j \in ids \ DOMAIN g.items |-> Proposed(g, r, Picked(changes, j), {})]
  BY <1>a, <1>b DEF Creations
<1>2. i \in ids /\ i \notin DOMAIN g.items /\ i \in DOMAIN Delta(g, r, batch, {}).creates BY <1>1
<1>3. /\ Delta(g, r, batch, green).creates[i] = Proposed(g, r, c, green)
      /\ Delta(g, r, batch, {}).creates[i] = Proposed(g, r, c, {})
  BY <1>1, <1>2
<1>4. c \in changes /\ c.id = i BY <1>2, PickedIs
<1>5. changes \subseteq Changes(g, r) BY BatchNames
<1>6. c \in Changes(g, r) BY <1>4, <1>5
<1> HIDE DEF c
<1>7. c.id \in Ids /\ (c.id \in Request => c.id \in DOMAIN g.items) BY <1>6, ChangeIs
<1>8. i \in Task BY <1>2, <1>4, <1>7 DEF Ids
<1>9. /\ Proposed(g, r, c, green) \in ItemType /\ Proposed(g, r, c, green).root = r
      /\ Proposed(g, r, c, green).checks = Proposed(g, r, c, {}).checks
      /\ Proposed(g, r, c, green).status = "verified" => c.id \in green
  BY <1>6, ProposedIs
<1> QED BY <1>2, <1>3, <1>4, <1>8, <1>9

\* The other side: an item that was there.  A request is retired, an item left
\* live under a retired request is cancelled.
LEMMA Revision ==
  ASSUME NEW g, NEW n, Sound(g, n), NEW r \in Request, NEW batch \in Batches(g, r), NEW green,
         NEW i \in DOMAIN Delta(g, r, batch, green).updates
  PROVE  LET p == Delta(g, r, batch, green).updates[i]
             q == Delta(g, r, batch, {}).updates[i]
         IN
         /\ i \in DOMAIN Delta(g, r, batch, {}).updates
         /\ i \in DOMAIN g.items /\ p \in ItemType
         /\ i \in Request => i # r /\ p.status \in {"cancelled", "superseded"}
         /\ i \in Task /\ p.status = "verified" =>
              i \in green /\ p.root = r /\ p.checks = q.checks
<1> DEFINE changes == Named(batch)
           ids == {c.id : c \in changes}
           c == Picked(changes, i)
           D == (ids \cap DOMAIN g.items) \cup Orphans(g, ids)
           p == Delta(g, r, batch, green).updates[i]
           q == Delta(g, r, batch, {}).updates[i]
<1>a. Delta(g, r, batch, green).updates = Revisions(g, r, changes, green) BY DeltaSides
<1>b. Delta(g, r, batch, {}).updates = Revisions(g, r, changes, {}) BY DeltaSides
<1>1. /\ Delta(g, r, batch, green).updates = [j \in D |->
           IF j \in ids \cap Request
           THEN [g.items[j] EXCEPT !.status = Picked(changes, j).status,
                                   !.by = Picked(changes, j).by, !.wait = None]
           ELSE IF j \in ids
           THEN Proposed(g, r, Picked(changes, j), green)
           ELSE [g.items[j] EXCEPT !.status = "cancelled", !.by = None]]
      /\ Delta(g, r, batch, {}).updates = [j \in D |->
           IF j \in ids \cap Request
           THEN [g.items[j] EXCEPT !.status = Picked(changes, j).status,
                                   !.by = Picked(changes, j).by, !.wait = None]
           ELSE IF j \in ids
           THEN Proposed(g, r, Picked(changes, j), {})
           ELSE [g.items[j] EXCEPT !.status = "cancelled", !.by = None]]
  BY <1>a, <1>b DEF Revisions
<1>2. i \in D /\ i \in DOMAIN Delta(g, r, batch, {}).updates BY <1>1
<1>3. /\ i \in ids \cap Request =>
           p = [g.items[i] EXCEPT !.status = c.status, !.by = c.by, !.wait = None]
      /\ i \in ids /\ i \notin Request =>
           p = Proposed(g, r, c, green) /\ q = Proposed(g, r, c, {})
      /\ i \notin ids => p = [g.items[i] EXCEPT !.status = "cancelled", !.by = None]
  BY <1>1, <1>2
<1>4. Orphans(g, ids) \subseteq DOMAIN g.items /\ Orphans(g, ids) \subseteq Task
  BY DEF Orphans, Live, Children
<1>5. i \in DOMAIN g.items BY <1>2, <1>4
<1>6. g.items[i] \in ItemType BY <1>5, SoundItem
<1>7. changes \subseteq Changes(g, r) BY BatchNames
<1>8. i \in ids => c \in Changes(g, r) /\ c.id = i
  <2>1. i \in ids => c \in changes /\ c.id = i BY PickedIs
  <2> QED BY <2>1, <1>7
<1> HIDE DEF c, p, q
<1>9. CASE i \in ids \cap Request
  <2>1. c.by \in {None} \cup Ids /\ c.id # r /\ c.status \in {"cancelled", "superseded"}
    BY <1>8, <1>9, ChangeIs
  <2>2. c.status \in Status BY <2>1, Statuses
  <2>3. p \in ItemType /\ p.status = c.status BY <1>3, <1>6, <1>9, <2>1, <2>2 DEF ItemType
  <2>4. i # r /\ p.status \in {"cancelled", "superseded"} BY <1>8, <1>9, <2>1, <2>3
  <2>5. p.status # "verified" BY <2>4
  <2> QED BY <1>2, <1>5, <2>3, <2>4, <2>5 DEF p, q
<1>10. CASE i \in ids /\ i \notin Request
  <2>1. c \in Changes(g, r) /\ c.id = i BY <1>8, <1>10
  <2>2. /\ Proposed(g, r, c, green) \in ItemType /\ Proposed(g, r, c, green).root = r
        /\ Proposed(g, r, c, green).checks = Proposed(g, r, c, {}).checks
        /\ Proposed(g, r, c, green).status = "verified" => c.id \in green
    BY <2>1, ProposedIs
  <2>3. p = Proposed(g, r, c, green) /\ q = Proposed(g, r, c, {}) BY <1>3, <1>10
  <2> QED BY <1>2, <1>5, <1>10, <2>1, <2>2, <2>3 DEF p, q
<1>11. CASE i \notin ids
  <2>1. p = [g.items[i] EXCEPT !.status = "cancelled", !.by = None] BY <1>3, <1>11
  <2>2. p \in ItemType /\ p.status = "cancelled" BY <1>6, <2>1, Statuses DEF ItemType
  <2>3. i \notin Request BY <1>2, <1>4, <1>11, Apart
  <2> QED BY <1>2, <1>5, <2>2, <2>3 DEF p, q
<1> QED BY <1>9, <1>10, <1>11

\* An accepted update keeps to what its turn may ask for, and its certificates
\* are put on record.
LEMMA DeltaOffers ==
  ASSUME NEW g, NEW n, Sound(g, n), NEW r \in Request, NEW batch \in Batches(g, r),
         NEW green, green = MustProve(g, Delta(g, r, batch, {})),
         NEW d, d = Delta(g, r, batch, green),
         NEW all, all = Over(d.creates, d.updates), NEW record
  PROVE  Offer(d, r, record \cup {<<r, t, all[t].checks>> : t \in green})
<1> DEFINE d0 == Delta(g, r, batch, {})
           all0 == Over(d0.creates, d0.updates)
           more == record \cup {<<r, t, all[t].checks>> : t \in green}
<1>1. \A i \in DOMAIN d.creates :
        /\ i \in DOMAIN d0.creates /\ i \in Task
        /\ d.creates[i] \in ItemType /\ d.creates[i].root = r
        /\ d.creates[i].checks = d0.creates[i].checks
        /\ d.creates[i].status = "verified" => i \in green
  BY Creation
<1>2. \A i \in DOMAIN d.updates :
        /\ i \in DOMAIN d0.updates /\ i \in DOMAIN g.items /\ d.updates[i] \in ItemType
        /\ i \in Request => i # r /\ d.updates[i].status \in {"cancelled", "superseded"}
        /\ i \in Task /\ d.updates[i].status = "verified" =>
             i \in green /\ d.updates[i].root = r /\ d.updates[i].checks = d0.updates[i].checks
  BY Revision
<1>a. d.creates = Creations(g, r, Named(batch), green)
      /\ d.updates = Revisions(g, r, Named(batch), green)
  BY DeltaSides
<1>b. d0.creates = Creations(g, r, Named(batch), {}) BY DeltaSides
<1>3. d.creates = [i \in DOMAIN d.creates |-> d.creates[i]]
      /\ d.updates = [i \in DOMAIN d.updates |-> d.updates[i]]
      /\ DOMAIN d.creates \cap DOMAIN g.items = {} /\ DOMAIN d0.creates \cap DOMAIN g.items = {}
  BY <1>a, <1>b DEF Creations, Revisions
<1>4. \A t \in green : all0[t].checks # {} BY DEF MustProve
<1> HIDE DEF d0
<1>5. DOMAIN all0 = DOMAIN d0.creates \cup DOMAIN d0.updates BY OverAt
<1>6. \A i \in DOMAIN d0.creates : all0[i] = d0.creates[i] BY OverAt
<1>7. \A i \in DOMAIN d0.updates \ DOMAIN d0.creates : all0[i] = d0.updates[i] BY OverAt
<1> DEFINE new == d.creates
           old == d.updates
<1> HIDE DEF new, old
<1>c. \A i \in DOMAIN new : Over(new, old)[i] = new[i] BY OverAt
<1>d. \A i \in DOMAIN old \ DOMAIN new : Over(new, old)[i] = old[i] BY OverAt
<1>8. \A i \in DOMAIN d.creates : all[i] = d.creates[i] BY <1>c DEF new, old
<1>9. \A i \in DOMAIN d.updates \ DOMAIN d.creates : all[i] = d.updates[i] BY <1>d DEF new, old
<1> HIDE DEF all0
<1>10. Items(d.creates)
  <2>1. d.creates \in [DOMAIN d.creates -> ItemType] BY <1>1, <1>3
  <2> QED BY <2>1, <1>1 DEF Items, Ids
<1>11. Items(d.updates)
  <2>1. d.updates \in [DOMAIN d.updates -> ItemType] BY <1>2, <1>3
  <2>2. DOMAIN d.updates \subseteq Ids BY <1>2 DEF Sound, Items
  <2> QED BY <2>1, <2>2 DEF Items
<1>12. Roots(d.creates) = {} BY <1>1, Apart DEF Roots
<1>13. \A q \in Roots(d.updates) : q # r /\ d.updates[q].status \in {"cancelled", "superseded"}
  BY <1>2 DEF Roots
<1>14. \A t \in green : <<r, t, all[t].checks>> \in more OBVIOUS
<1> HIDE DEF more
<1>15. Proved(d.creates, more)
  <2>1. SUFFICES ASSUME NEW t \in Task, t \in DOMAIN d.creates, d.creates[t].status = "verified"
                 PROVE  /\ d.creates[t].checks # {}
                        /\ <<d.creates[t].root, t, d.creates[t].checks>> \in more
    BY DEF Proved
  <2>2. /\ t \in DOMAIN d0.creates /\ d.creates[t].root = r
        /\ d.creates[t].checks = d0.creates[t].checks /\ t \in green
    BY <2>1, <1>1
  <2>3. all0[t] = d0.creates[t] /\ all[t] = d.creates[t] BY <2>1, <2>2, <1>6, <1>8
  <2> QED BY <2>2, <2>3, <1>4, <1>14
<1>16. Proved(d.updates, more)
  <2>1. SUFFICES ASSUME NEW t \in Task, t \in DOMAIN d.updates, d.updates[t].status = "verified"
                 PROVE  /\ d.updates[t].checks # {}
                        /\ <<d.updates[t].root, t, d.updates[t].checks>> \in more
    BY DEF Proved
  <2>2. /\ t \in DOMAIN d0.updates /\ t \in DOMAIN g.items /\ d.updates[t].root = r
        /\ d.updates[t].checks = d0.updates[t].checks /\ t \in green
    BY <2>1, <1>2
  <2>3. all0[t] = d0.updates[t] /\ all[t] = d.updates[t] BY <2>1, <2>2, <1>3, <1>7, <1>9
  <2> QED BY <2>2, <2>3, <1>4, <1>14
<1>17. Offer(d, r, more) BY <1>10, <1>11, <1>12, <1>13, <1>15, <1>16 DEF Offer
<1> QED BY <1>17 DEF more

\* What the host puts on record is typed: only an item becomes ready.
LEMMA RecordTyped ==
  ASSUME NEW g, NEW n, Sound(g, n), NEW r \in Request, NEW batch \in Batches(g, r),
         NEW green, green = MustProve(g, Delta(g, r, batch, {})),
         NEW d, d = Delta(g, r, batch, green), NEW all, all = Over(d.creates, d.updates)
  PROVE  {<<r, t, all[t].checks>> : t \in green} \subseteq Request \X Task \X SUBSET Check
<1> DEFINE d0 == Delta(g, r, batch, {})
           all0 == Over(d0.creates, d0.updates)
           was == d0.creates
           would == d0.updates
           new == d.creates
           old == d.updates
<1>1. \A i \in DOMAIN was : i \in Task BY Creation
<1>2. \A i \in DOMAIN would : i \in DOMAIN g.items
                              /\ (i \in Request => would[i].status \in {"cancelled", "superseded"})
  BY Revision
<1>3. \A i \in DOMAIN new : new[i] \in ItemType BY Creation
<1>4. \A i \in DOMAIN old : old[i] \in ItemType BY Revision
<1>5. DOMAIN new = DOMAIN was /\ DOMAIN old = DOMAIN would
  <2>1. new = Creations(g, r, Named(batch), green) /\ old = Revisions(g, r, Named(batch), green)
    BY DeltaSides
  <2>2. was = Creations(g, r, Named(batch), {}) /\ would = Revisions(g, r, Named(batch), {})
    BY DeltaSides
  <2> HIDE DEF new, old, was, would
  <2> QED BY <2>1, <2>2 DEF Creations, Revisions
<1>6. \A t \in green : t \in DOMAIN all0 /\ all0[t].status = "ready" BY DEF MustProve
<1>7. all0 = Over(was, would) /\ all = Over(new, old) OBVIOUS
<1> HIDE DEF was, would, new, old, d0, all0
<1>8. DOMAIN all0 = DOMAIN was \cup DOMAIN would BY <1>7, OverAt
<1>9. \A i \in DOMAIN would \ DOMAIN was : all0[i] = would[i]
  <2>1. \A i \in DOMAIN would \ DOMAIN was : Over(was, would)[i] = would[i] BY OverAt
  <2> QED BY <2>1, <1>7
<1>10. \A t \in green : t \in Task
  <2>1. TAKE t \in green
  <2>2. t \in DOMAIN was \/ t \in DOMAIN would \ DOMAIN was BY <1>6, <1>8
  <2>3. CASE t \in DOMAIN was BY <2>3, <1>1
  <2>4. CASE t \in DOMAIN would \ DOMAIN was
    <3>1. t \in Ids BY <2>4, <1>2 DEF Sound, Items
    <3>2. t \notin Request BY <2>4, <1>2, <1>6, <1>9
    <3> QED BY <3>1, <3>2 DEF Ids
  <2> QED BY <2>2, <2>3, <2>4
<1>11. \A t \in green : all[t] \in ItemType
  <2>1. TAKE t \in green
  <2>2. t \in DOMAIN new \/ t \in DOMAIN old \ DOMAIN new BY <1>5, <1>6, <1>8
  <2>3. \A i \in DOMAIN new : Over(new, old)[i] = new[i] BY OverAt
  <2>4. \A i \in DOMAIN old \ DOMAIN new : Over(new, old)[i] = old[i] BY OverAt
  <2> QED BY <2>2, <2>3, <2>4, <1>3, <1>4, <1>7
<1>12. \A t \in green : all[t].checks \in SUBSET Check BY <1>11 DEF ItemType
<1> QED BY <1>10, <1>12

\* What an update that keeps to its offer leaves: of the requests it found, some
\* older ones retired.
LEMMA OfferGives ==
  ASSUME NEW g, NEW n, Sound(g, n), NEW d, NEW r, NEW record, Offer(d, r, record),
         Proved(g.items, record), NEW e, NEW h, h = Apply(g, d, e), h # Refused
  PROVE  /\ Sound(h, n) /\ Proved(h.items, record)
         /\ Roots(h.items) = Roots(g.items)
         /\ \A q \in Roots(g.items) :
              \/ h.items[q] = g.items[q]
              \/ /\ q \in DOMAIN d.updates /\ q # r
                 /\ h.items[q].status \in {"cancelled", "superseded"}
<1>1. /\ Items(d.creates) /\ Items(d.updates) /\ Roots(d.creates) = {}
      /\ \A q \in Roots(d.updates) : q # r /\ d.updates[q].status \in {"cancelled", "superseded"}
      /\ Proved(d.creates, record) /\ Proved(d.updates, record)
  BY DEF Offer
<1>2. Sound(h, n) BY <1>1, ApplySound
<1>3. Proved(h.items, record) BY <1>1, ApplyProved
<1>4. h.items = After(g, d) /\ Fits(g, d) BY ApplyGives
<1>5. Parts(h.items, g.items, d.creates, d.updates) BY <1>4, AfterAt
<1>6. Roots(h.items) = Roots(g.items) BY <1>1, <1>5 DEF Parts, Roots
<1>7. ASSUME NEW q \in Roots(g.items)
      PROVE  \/ h.items[q] = g.items[q]
             \/ /\ q \in DOMAIN d.updates /\ q # r
                /\ h.items[q].status \in {"cancelled", "superseded"}
  <2>1. q \in DOMAIN g.items /\ q \in Request BY DEF Roots
  <2>2. CASE q \in DOMAIN d.updates
    <3>1. q \in Roots(d.updates) BY <2>1, <2>2 DEF Roots
    <3>2. h.items[q] = d.updates[q] BY <2>2, <1>5 DEF Parts
    <3> QED BY <2>2, <3>1, <3>2, <1>1
  <2>3. CASE q \notin DOMAIN d.updates BY <2>1, <2>3, <1>5 DEF Parts
  <2> QED BY <2>2, <2>3
<1> QED BY <1>2, <1>3, <1>6, <1>7

\* The turn's own request comes out of its updates as it went in.
LEMMA OfferServed ==
  ASSUME NEW g, NEW n, Sound(g, n), NEW d, NEW r, NEW record, Offer(d, r, record),
         Proved(g.items, record), NEW e, NEW h, h = Apply(g, d, e), h # Refused, Served(g, r)
  PROVE  Served(h, r)
<1>1. Roots(h.items) = Roots(g.items)
      /\ \A q \in Roots(g.items) : \/ h.items[q] = g.items[q]
                                   \/ /\ q \in DOMAIN d.updates /\ q # r
                                      /\ h.items[q].status \in {"cancelled", "superseded"}
  BY OfferGives
<1>2. r \in Roots(g.items) /\ g.items[r].status \in {"open", "in_progress"} BY DEF Served
<1>3. h.items[r] = g.items[r] BY <1>1, <1>2
<1> QED BY <1>1, <1>2, <1>3 DEF Served

LEMMA EmptySound ==
  ASSUME NEW n, NEW record
  PROVE  Sound(Empty, n) /\ Proved(Empty.items, record)
<1>1. Empty.items = NoItems /\ Empty.revision = 0 /\ Empty = [items |-> Empty.items, revision |-> 0]
  BY DEF Empty
<1>2. DOMAIN NoItems = {} /\ Items(NoItems) /\ Roots(NoItems) = {} BY NoItemsItems
<1>3. Replaced(NoItems) = {} BY <1>2 DEF Replaced
<1>4. Housed(NoItems) /\ Settled(NoItems) BY <1>2 DEF Housed, Settled
<1>5. Followed(NoItems) BY <1>3 DEF Followed
<1>8. Grounded(NoItems)
  <2>1. SUFFICES ASSUME NEW S \in SUBSET Replaced(NoItems), S # {}
                 PROVE  \E i \in S : NoItems[i].by \notin S
    BY DEF Grounded
  <2> QED BY <2>1, <1>3
<1>6. Valid(NoItems) BY <1>4, <1>5, <1>8, ValidIs
<1>7. Proved(NoItems, record) BY <1>2 DEF Proved
<1> QED BY <1>1, <1>2, <1>6, <1>7 DEF Sound

----------------------------------------------------------------------------
(* Every state *)

LEMMA InvariantTypes ==
  ASSUME IInv
  PROVE  TypeOK
<1>1. DOMAIN Refused.items = {} BY NoItemsItems DEF Refused
<1>2. GraphOK(Refused) BY <1>1 DEF GraphOK
<1>3. GraphOK(work) BY <1>2, SoundOK DEF IInv, Graphs
<1>4. GraphOK(rebuilt) BY <1>2, SoundOK DEF IInv, Graphs
<1>5. \A p \in Place : GraphOK(saved[p]) /\ saved[p] # Refused BY SoundOK DEF IInv, Graphs
<1> QED BY <1>3, <1>4, <1>5 DEF IInv, Basic, TypeOK

LEMMA InitIInv == Init => IInv
<1> SUFFICES ASSUME Init PROVE IInv OBVIOUS
<1>1. MaxRequests \in Nat /\ None = 0 BY Apart DEF None
<1>2. \A p \in Place : saved[p] = Empty BY DEF Init
<1>3. Sound(Empty, opened) /\ Proved(Empty.items, ran) BY EmptySound
<1>4. Basic BY <1>1 DEF Init, Basic, Idle
<1>5. TurnTaking BY DEF Init, TurnTaking, Idle
<1>6. Graphs BY <1>2, <1>3 DEF Init, Graphs
<1>7. Updating BY DEF Init, Updating, OnTheWay, Idle
<1>8. OnDisk BY <1>2 DEF Init, OnDisk, ReplayRebuilds
<1> QED BY <1>4, <1>5, <1>6, <1>7, <1>8 DEF IInv

----------------------------------------------------------------------------
(* Every step *)

\* Graphs says the same of graphs a step leaves alone.
LEMMA SavedGrow ==
  ASSUME IInv, ran \subseteq ran', saved' = saved, opened' = opened
  PROVE  \A p \in Place : Sound(saved'[p], opened') /\ Proved(saved'[p].items, ran')
<1> SUFFICES ASSUME NEW p \in Place
             PROVE  Sound(saved[p], opened) /\ Proved(saved[p].items, ran')
  OBVIOUS
<1>1. Sound(saved[p], opened) /\ Proved(saved[p].items, ran) BY DEF IInv, Graphs
<1> QED BY <1>1, ProvedGrows

\* A sound graph is written to the checkpoint of the current workspace.
LEMMA SavedWrite ==
  ASSUME IInv, NEW g, Sound(g, opened), Proved(g.items, ran), saved' = [saved EXCEPT ![here] = g],
         opened' = opened, ran' = ran
  PROVE  /\ \A p \in Place : Sound(saved'[p], opened') /\ Proved(saved'[p].items, ran')
         /\ saved'[here] = g /\ saved' = [p \in Place |-> saved'[p]]
<1>1. saved = [p \in Place |-> saved[p]] /\ here \in Place BY DEF IInv, Basic
<1>2. saved'[here] = g /\ saved' = [p \in Place |-> saved'[p]] BY <1>1
<1>3. \A p \in Place : saved'[p] = g \/ saved'[p] = saved[p] BY <1>1
<1>4. \A p \in Place : Sound(saved[p], opened) /\ Proved(saved[p].items, ran) BY DEF IInv, Graphs
<1> QED BY <1>2, <1>3, <1>4

LEMMA IdleIs == Idle.stage = "idle" /\ Idle = [stage |-> Idle.stage, delta |-> Idle.delta,
                                               before |-> Idle.before]
BY DEF Idle

LEMMA BeginStep == IInv /\ Begin => IInv'
<1> SUFFICES ASSUME IInv, Begin PROVE IInv' OBVIOUS
<1> USE DEF IInv
<1>1. /\ turn = None /\ work # Refused /\ opened < MaxRequests
      /\ opened' = opened + 1 /\ turn' = opened'
      /\ work' = OpenRequest(work, opened') /\ rebuilt' = OpenRequest(saved[here], opened')
      /\ own' = (work = saved[here])
      /\ UNCHANGED <<crossing, here, saved, pending, ran>>
  BY DEF Begin, Between
<1>2. opened \in Nat /\ opened + 1 \in Request /\ opened + 1 \in Nat /\ None = 0
  BY <1>1, Apart DEF Basic, Request, None
<1>3. Sound(work, opened) /\ Proved(work.items, ran) BY <1>1 DEF Graphs
<1>4. here \in Place /\ Sound(saved[here], opened) /\ Proved(saved[here].items, ran)
  BY DEF Graphs, Basic
<1>5. /\ Sound(OpenRequest(work, opened + 1), opened + 1)
      /\ Proved(OpenRequest(work, opened + 1).items, ran)
      /\ Served(OpenRequest(work, opened + 1), opened + 1)
  BY <1>2, <1>3, OpenRequestWorks
<1>6. /\ Sound(OpenRequest(saved[here], opened + 1), opened + 1)
      /\ Proved(OpenRequest(saved[here], opened + 1).items, ran)
  BY <1>2, <1>4, OpenRequestWorks
<1>7. crossing = None /\ pending.stage = "idle" BY <1>1 DEF TurnTaking
<1>8. Basic' BY <1>1, <1>2, Apart DEF Basic
<1>9. TurnTaking' BY <1>1, <1>2, <1>7 DEF TurnTaking
<1>10. Graphs'
  <2>1. Sound(work', opened') /\ Proved(work'.items, ran') /\ Served(work', turn') BY <1>1, <1>5
  <2>2. Sound(rebuilt', opened') /\ Proved(rebuilt'.items, ran') BY <1>1, <1>6
  <2>3. \A p \in Place : Sound(saved'[p], opened') /\ Proved(saved'[p].items, ran')
    <3>1. TAKE p \in Place
    <3>2. Sound(saved[p], opened) /\ Proved(saved[p].items, ran) BY DEF Graphs
    <3>3. Sound(saved[p], opened + 1) BY <3>2, <1>2, SoundGrows
    <3> QED BY <3>2, <3>3, <1>1
  <2> QED BY <2>1, <2>2, <2>3 DEF Graphs
<1>11. Updating' BY <1>1, <1>7 DEF Updating, OnTheWay
<1>12. OnDisk'
  <2>1. turn' # None /\ crossing' = None /\ pending'.stage = "idle" BY <1>1, <1>2, <1>7
  <2>2. own' => work' = rebuilt' BY <1>1
  <2> QED BY <2>1, <2>2 DEF OnDisk, ReplayRebuilds, Reached
<1> QED BY <1>8, <1>9, <1>10, <1>11, <1>12

LEMMA UpdateStep == IInv /\ Update => IInv'
<1> SUFFICES ASSUME IInv, Update PROVE IInv' OBVIOUS
<1> USE DEF IInv
<1>1. /\ turn # None /\ crossing = None /\ pending.stage = "idle"
      /\ UNCHANGED <<opened, turn, crossing, here, work, saved, rebuilt, own>>
  BY DEF Update, Running
<1>2. PICK batch \in Batches(work, turn) :
        LET green == MustProve(work, Delta(work, turn, batch, {}))
            delta == Delta(work, turn, batch, green)
            all == Over(delta.creates, delta.updates)
        IN /\ Apply(work, delta, work.revision) # Refused
           /\ pending' = [stage |-> "accepted", delta |-> delta, before |-> work]
           /\ ran' = ran \cup {<<turn, t, all[t].checks>> : t \in green}
  BY DEF Update
<1> DEFINE green == MustProve(work, Delta(work, turn, batch, {}))
           delta == Delta(work, turn, batch, green)
           all == Over(delta.creates, delta.updates)
           more == {<<turn, t, all[t].checks>> : t \in green}
<1>3. Sound(work, opened) /\ Proved(work.items, ran) /\ Served(work, turn) BY <1>1 DEF Graphs
<1>4. turn \in Request BY <1>3 DEF Served, Roots
<1>5. Offer(delta, turn, ran \cup more) BY <1>3, <1>4, DeltaOffers
<1>6. more \subseteq Request \X Task \X SUBSET Check BY <1>3, <1>4, RecordTyped
<1>7. /\ Apply(work, delta, work.revision) # Refused
      /\ pending' = [stage |-> "accepted", delta |-> delta, before |-> work]
      /\ ran' = ran \cup more
  BY <1>2
<1> HIDE DEF green, delta, all, more
<1>8. Basic'
  <2>1. ran' \subseteq Request \X Task \X SUBSET Check BY <1>6, <1>7 DEF Basic
  <2>2. pending'.stage = "accepted"
        /\ pending' = [stage |-> pending'.stage, delta |-> pending'.delta, before |-> pending'.before]
    BY <1>7
  <2> QED BY <2>1, <2>2, <1>1 DEF Basic
<1>9. TurnTaking' BY <1>1, <1>7 DEF TurnTaking
<1>10. Graphs'
  <2>1. Proved(work.items, ran') BY <1>3, <1>7, ProvedGrows
  <2>2. rebuilt = Refused \/ (Sound(rebuilt, opened) /\ Proved(rebuilt.items, ran'))
    <3>1. SUFFICES ASSUME rebuilt # Refused
                   PROVE  Sound(rebuilt, opened) /\ Proved(rebuilt.items, ran')
      OBVIOUS
    <3>2. Sound(rebuilt, opened) /\ Proved(rebuilt.items, ran) BY <3>1 DEF Graphs
    <3> QED BY <3>2, <1>7, ProvedGrows
  <2>3. \A p \in Place : Sound(saved'[p], opened') /\ Proved(saved'[p].items, ran')
    BY <1>1, <1>7, SavedGrow
  <2> QED BY <2>1, <2>2, <2>3, <1>1, <1>3 DEF Graphs
<1>11. Updating'
  <2>1. pending'.stage = "accepted" /\ pending'.delta = delta /\ pending'.before = work BY <1>7
  <2>2. Offer(delta, turn, ran') BY <1>5, <1>7
  <2>3. Proved(work.items, ran') BY <1>3, <1>7, ProvedGrows
  <2> QED BY <2>1, <2>2, <2>3, <1>1, <1>3, <1>7 DEF Updating, OnTheWay
<1>12. OnDisk'
  <2>1. pending'.stage = "accepted" BY <1>7
  <2> QED BY <2>1, <1>1 DEF OnDisk, ReplayRebuilds, Reached
<1> QED BY <1>8, <1>9, <1>10, <1>11, <1>12

\* The accepted update, while it is on its way to the record.
LEMMA OnItsWay ==
  ASSUME IInv, pending.stage \in OnTheWay
  PROVE  LET d == pending.delta
             g == pending.before
             h == Apply(g, d, g.revision)
         IN /\ turn # None /\ crossing = None /\ Offer(d, turn, ran)
            /\ Sound(g, opened) /\ Proved(g.items, ran) /\ Served(g, turn)
            /\ h # Refused /\ Sound(h, opened) /\ Proved(h.items, ran) /\ Served(h, turn)
            /\ pending.stage = "accepted" => work = g
            /\ pending.stage = "reduced" => work = h
            /\ pending.stage = "undecided" => work \in {g, h}
<1> DEFINE d == pending.delta
           g == pending.before
           h == Apply(g, d, g.revision)
<1>1. /\ turn # None /\ crossing = None /\ Offer(d, turn, ran)
      /\ Sound(g, opened) /\ Proved(g.items, ran) /\ Served(g, turn)
      /\ h # Refused
      /\ pending.stage = "accepted" => work = g
      /\ pending.stage = "reduced" => work = h
      /\ pending.stage = "undecided" => work \in {g, h}
  BY DEF IInv, Updating, OnTheWay
<1>2. d = pending.delta /\ g = pending.before /\ h = Apply(g, d, g.revision) OBVIOUS
<1> HIDE DEF d, g, h
<1>3. Sound(h, opened) /\ Proved(h.items, ran) BY <1>1, <1>2, OfferGives
<1>4. Served(h, turn) BY <1>1, <1>2, OfferServed
<1> QED BY <1>1, <1>3, <1>4 DEF d, g, h

LEMMA ReduceStep == IInv /\ Reduce => IInv'
<1> SUFFICES ASSUME IInv, Reduce PROVE IInv' OBVIOUS
<1>1. /\ pending.stage = "accepted"
      /\ work' = Apply(pending.before, pending.delta, pending.before.revision)
      /\ pending' = [pending EXCEPT !.stage = "reduced"]
      /\ UNCHANGED <<opened, turn, crossing, here, saved, rebuilt, own, ran>>
  <2>1. pending.stage = "accepted" /\ work' = Apply(work, pending.delta, pending.before.revision)
    BY DEF Reduce
  <2>2. work = pending.before BY <2>1, OnItsWay DEF OnTheWay
  <2> QED BY <2>1, <2>2 DEF Reduce
<1> USE DEF IInv
<1> DEFINE d == pending.delta
           g == pending.before
           h == Apply(g, d, g.revision)
<1>2. /\ turn # None /\ crossing = None /\ Offer(d, turn, ran)
      /\ Sound(g, opened) /\ Proved(g.items, ran) /\ Served(g, turn)
      /\ h # Refused /\ Sound(h, opened) /\ Proved(h.items, ran) /\ Served(h, turn)
      /\ work = g
  BY <1>1, OnItsWay DEF OnTheWay
<1>3. h = Apply(g, d, g.revision) /\ work' = h BY <1>1
<1>4. /\ pending'.stage = "reduced" /\ pending'.delta = d /\ pending'.before = g
      /\ pending' = [stage |-> pending'.stage, delta |-> pending'.delta, before |-> pending'.before]
  BY <1>1 DEF Basic
<1> HIDE DEF d, g, h
<1>5. Basic' BY <1>1, <1>4 DEF Basic
<1>6. TurnTaking' BY <1>1, <1>2 DEF TurnTaking
<1>7. Graphs' BY <1>1, <1>2, <1>3 DEF Graphs
<1>8. Updating' BY <1>1, <1>2, <1>3, <1>4 DEF Updating, OnTheWay
<1>9. OnDisk'
  <2>1. own => rebuilt = work BY <1>1, <1>2 DEF OnDisk, ReplayRebuilds, Reached
  <2> QED BY <2>1, <1>1, <1>2, <1>4 DEF OnDisk, ReplayRebuilds, Reached
<1> QED BY <1>5, <1>6, <1>7, <1>8, <1>9

LEMMA FailStep == IInv /\ Fail => IInv'
<1> SUFFICES ASSUME IInv, Fail PROVE IInv' OBVIOUS
<1> USE DEF IInv
<1>1. /\ pending.stage = "accepted"
      /\ pending' = [Idle EXCEPT !.stage = "failed"]
      /\ UNCHANGED <<opened, turn, crossing, here, work, saved, rebuilt, own, ran>>
  BY DEF Fail
<1>2. turn # None /\ crossing = None BY <1>1, OnItsWay DEF OnTheWay
<1>4. /\ pending'.stage = "failed"
      /\ pending' = [stage |-> pending'.stage, delta |-> pending'.delta, before |-> pending'.before]
  BY <1>1 DEF Idle
<1>5. Basic' BY <1>1, <1>4 DEF Basic
<1>6. TurnTaking' BY <1>1, <1>2 DEF TurnTaking
<1>7. Graphs' BY <1>1, <1>2 DEF Graphs
<1>8. Updating' BY <1>4 DEF Updating, OnTheWay
<1>9. OnDisk'
  <2>1. own => rebuilt = work BY <1>1, <1>2 DEF OnDisk, ReplayRebuilds, Reached
  <2> QED BY <2>1, <1>1, <1>2, <1>4 DEF OnDisk, ReplayRebuilds, Reached
<1> QED BY <1>5, <1>6, <1>7, <1>8, <1>9

\* A graph the journal may give once it has the delta's row.
LEMMA RecordedSound ==
  ASSUME IInv, pending.stage = "reduced"
  PROVE  /\ Recorded = Refused \/ (Sound(Recorded, opened) /\ Proved(Recorded.items, ran))
         /\ own => rebuilt = pending.before /\ Recorded = work
<1> DEFINE d == pending.delta
           g == pending.before
           h == Apply(g, d, g.revision)
           k == Recorded
<1>1. turn # None /\ crossing = None /\ Offer(d, turn, ran) /\ work = h
  BY OnItsWay DEF OnTheWay
<1>2. h = Apply(g, d, g.revision) /\ k = Apply(rebuilt, d, g.revision) /\ g = pending.before
  BY DEF Recorded
<1> HIDE DEF d, g, h, k
<1>3. k = Refused \/ (Sound(k, opened) /\ Proved(k.items, ran))
  <2>1. SUFFICES ASSUME k # Refused PROVE Sound(k, opened) /\ Proved(k.items, ran) OBVIOUS
  <2>2. rebuilt # Refused BY <2>1, <1>2, ApplyGives
  <2>3. Sound(rebuilt, opened) /\ Proved(rebuilt.items, ran) BY <2>2 DEF IInv, Graphs
  <2> QED BY <2>1, <2>3, <1>1, <1>2, OfferGives
<1>4. own => rebuilt = g BY <1>1, <1>2 DEF IInv, OnDisk, ReplayRebuilds, Reached
<1>5. own => k = work BY <1>4, <1>1, <1>2
<1> QED BY <1>2, <1>3, <1>4, <1>5 DEF k

LEMMA ConfirmStep == IInv /\ Confirm => IInv'
<1> SUFFICES ASSUME IInv, Confirm PROVE IInv' OBVIOUS
<1> USE DEF IInv
<1>1. /\ pending.stage = "reduced" /\ rebuilt' = Recorded /\ pending' = Idle
      /\ UNCHANGED <<opened, turn, crossing, here, work, saved, own, ran>>
  BY DEF Confirm
<1>2. turn # None /\ crossing = None BY <1>1, OnItsWay DEF OnTheWay
<1>4. /\ Recorded = Refused \/ (Sound(Recorded, opened) /\ Proved(Recorded.items, ran))
      /\ own => Recorded = work
  BY <1>1, RecordedSound
<1>5. Basic' BY <1>1, IdleIs DEF Basic
<1>6. TurnTaking' BY <1>1, <1>2, IdleIs DEF TurnTaking
<1>7. Graphs' BY <1>1, <1>4 DEF Graphs
<1>8. Updating' BY <1>1, IdleIs DEF Updating, OnTheWay
<1>9. OnDisk' BY <1>1, <1>2, <1>4, IdleIs DEF OnDisk, ReplayRebuilds, Reached
<1> QED BY <1>5, <1>6, <1>7, <1>8, <1>9

LEMMA DisruptStep == IInv /\ Disrupt => IInv'
<1> SUFFICES ASSUME IInv, Disrupt PROVE IInv' OBVIOUS
<1> USE DEF IInv
<1> DEFINE d == pending.delta
           g == pending.before
           h == Apply(g, d, g.revision)
<1>1. /\ pending.stage = "reduced"
      /\ work' \in {work, g} /\ rebuilt' \in {rebuilt, Recorded}
      /\ pending' = [pending EXCEPT !.stage = "undecided"]
      /\ UNCHANGED <<opened, turn, crossing, here, saved, own, ran>>
  BY DEF Disrupt
<1>2. /\ turn # None /\ crossing = None /\ Offer(d, turn, ran)
      /\ Sound(g, opened) /\ Proved(g.items, ran) /\ Served(g, turn)
      /\ h # Refused /\ Sound(h, opened) /\ Proved(h.items, ran) /\ Served(h, turn)
      /\ work = h
  BY <1>1, OnItsWay DEF OnTheWay
<1>3. /\ Recorded = Refused \/ (Sound(Recorded, opened) /\ Proved(Recorded.items, ran))
      /\ own => rebuilt = g /\ Recorded = h
  BY <1>1, <1>2, RecordedSound
<1>4. /\ pending'.stage = "undecided" /\ pending'.delta = d /\ pending'.before = g
      /\ pending' = [stage |-> pending'.stage, delta |-> pending'.delta, before |-> pending'.before]
  BY <1>1 DEF Basic
<1>10. h = Apply(g, d, g.revision) /\ work' \in {g, h} BY <1>1, <1>2
<1> HIDE DEF d, g, h
<1>5. Basic' BY <1>1, <1>4 DEF Basic
<1>6. TurnTaking' BY <1>1, <1>2 DEF TurnTaking
<1>7. Graphs' BY <1>1, <1>2, <1>3, <1>10 DEF Graphs
<1>8. Updating' BY <1>1, <1>2, <1>4, <1>10 DEF Updating, OnTheWay
<1>9. OnDisk'
  <2>1. own => rebuilt' \in {g, h} BY <1>1, <1>3
  <2> QED BY <2>1, <1>1, <1>2, <1>4, <1>10 DEF OnDisk, ReplayRebuilds, Reached
<1> QED BY <1>5, <1>6, <1>7, <1>8, <1>9

\* A seal of the running turn leaves its workspace at rest, or about to cross.
LEMMA SealStep == IInv /\ Seal => IInv'
<1> SUFFICES ASSUME IInv, Seal PROVE IInv' OBVIOUS
<1> USE DEF IInv
<1>1. PICK stop \in IF pending.stage = "idle" THEN Stops ELSE {"stopped"}, wait \in {None} \cup Wait :
        /\ (stop = "waiting_peer") <=> (wait # None)
        /\ LET g == SealCurrent(work, turn, stop, stop = "end_turn", FALSE, wait, FALSE)
           IN work' = g /\ saved' = [saved EXCEPT ![here] = g]
  BY DEF Seal
<1>2. /\ turn # None /\ crossing = None
      /\ turn' = None /\ pending' = Idle /\ rebuilt' = Empty /\ own' = TRUE
      /\ UNCHANGED <<opened, crossing, here, ran>>
  BY DEF Seal, Running
<1> DEFINE answered == stop = "end_turn"
           g == SealCurrent(work, turn, stop, answered, FALSE, wait, FALSE)
<1>3. work' = g /\ saved' = [saved EXCEPT ![here] = g] BY <1>1
<1>4. Sound(work, opened) /\ Proved(work.items, ran) /\ Served(work, turn) BY <1>2 DEF Graphs
<1>16. wait \in {None} \cup Wait /\ ((stop = "waiting_peer") <=> (wait # None)) BY <1>1
<1> HIDE DEF answered
<1>5. SealCurrent(work, turn, stop, answered, FALSE, wait, FALSE) # Refused
  BY <1>4, <1>16, SealWorks, Zenon
<1>6. Leaves(SealCurrent(work, turn, stop, answered, FALSE, wait, FALSE), work, opened, turn,
             SealStatus(work, turn, stop, answered, FALSE, FALSE), wait, ran)
  BY <1>4, <1>5, <1>16, SealGives, Zenon
<1>7. Sound(g, opened) /\ Proved(g.items, ran) BY <1>6 DEF Leaves
<1> HIDE DEF g
<1>8. /\ \A p \in Place : Sound(saved'[p], opened') /\ Proved(saved'[p].items, ran')
      /\ saved'[here] = g /\ saved' = [p \in Place |-> saved'[p]]
  BY <1>2, <1>3, <1>7, SavedWrite
<1>9. Sound(Empty, opened) /\ Proved(Empty.items, ran) BY EmptySound
<1>10. opened \in Nat /\ None = 0 BY Apart DEF Basic, None
<1>11. Basic' BY <1>2, <1>8, <1>10, IdleIs DEF Basic
<1>12. TurnTaking' BY <1>2, IdleIs DEF TurnTaking
<1>13. Graphs' BY <1>2, <1>3, <1>7, <1>8, <1>9 DEF Graphs
<1>14. Updating' BY <1>2, IdleIs DEF Updating, OnTheWay
<1>15. OnDisk' BY <1>2, <1>3, <1>8 DEF OnDisk, ReplayRebuilds
<1> QED BY <1>11, <1>12, <1>13, <1>14, <1>15

LEMMA SealToCrossStep == IInv /\ SealToCross => IInv'
<1> SUFFICES ASSUME IInv, SealToCross PROVE IInv' OBVIOUS
<1> USE DEF IInv
<1> DEFINE g == SealCurrent(work, turn, "end_turn", FALSE, TRUE, None, FALSE)
<1>1. /\ turn # None /\ crossing = None /\ pending.stage = "idle"
      /\ crossing' \in Place \ {here} /\ own' = TRUE
      /\ work' = g /\ saved' = [saved EXCEPT ![here] = g]
      /\ UNCHANGED <<opened, turn, here, rebuilt, pending, ran>>
  BY DEF SealToCross, Running
<1>2. Sound(work, opened) /\ Proved(work.items, ran) /\ Served(work, turn) BY <1>1 DEF Graphs
<1>14. None \in {None} \cup Wait /\ (("end_turn" = "waiting_peer") <=> (None # None)) OBVIOUS
<1>3. g # Refused BY <1>2, <1>14, SealWorks, Zenon
<1>4. Leaves(g, work, opened, turn, SealStatus(work, turn, "end_turn", FALSE, TRUE, FALSE), None, ran)
  BY <1>2, <1>3, <1>14, SealGives, Zenon
<1> HIDE DEF g
<1>5. /\ turn \in Owed(work) /\ Sound(g, opened) /\ Proved(g.items, ran) /\ Touched(work, g, {turn})
      /\ g.items[turn].status = SealStatus(work, turn, "end_turn", FALSE, TRUE, FALSE)
  BY <1>4 DEF Leaves
<1>6. Served(g, turn)
  <2>1. work.items[turn].status # "waiting_peer" BY <1>2 DEF Served
  <2>2. SealStatus(work, turn, "end_turn", FALSE, TRUE, FALSE) = "in_progress"
    BY <2>1 DEF SealStatus
  <2>3. turn \in Roots(g.items) BY <1>2, <1>5 DEF Served, Touched, Roots
  <2> QED BY <2>2, <2>3, <1>5 DEF Served
<1>7. /\ \A p \in Place : Sound(saved'[p], opened') /\ Proved(saved'[p].items, ran')
      /\ saved'[here] = g /\ saved' = [p \in Place |-> saved'[p]]
  BY <1>1, <1>5, SavedWrite
<1>8. crossing' # None BY <1>1, Apart
<1>9. Basic' BY <1>1, <1>7 DEF Basic
<1>10. TurnTaking' BY <1>1 DEF TurnTaking
<1>11. Graphs' BY <1>1, <1>5, <1>6, <1>7 DEF Graphs
<1>12. Updating' BY <1>1 DEF Updating, OnTheWay
<1>13. OnDisk' BY <1>1, <1>7, <1>8 DEF OnDisk, ReplayRebuilds
<1> QED BY <1>9, <1>10, <1>11, <1>12, <1>13

LEMMA ContinueStep == IInv /\ Continue => IInv'
<1> SUFFICES ASSUME IInv, Continue PROVE IInv' OBVIOUS
<1> USE DEF IInv
<1>1. /\ crossing # None /\ crossing' = None
      /\ UNCHANGED <<opened, work, saved, own, pending, ran>>
  BY DEF Continue
<1>2. turn # None /\ pending.stage = "idle" BY <1>1 DEF TurnTaking
<1>3. Sound(work, opened) /\ Proved(work.items, ran) /\ Served(work, turn) BY <1>2 DEF Graphs
<1>4. opened \in Nat /\ None = 0 BY Apart DEF Basic, None
<1>5. Sound(Empty, opened) /\ Proved(Empty.items, ran) BY EmptySound
<1>6. CASE here' = crossing /\ rebuilt' = Carried(work, saved[crossing], turn) /\ turn' = turn
  <2>1. rebuilt' = work BY <1>6 DEF Carried
  <2>2. Basic' BY <1>1, <1>6 DEF Basic
  <2>3. TurnTaking' BY <1>1, <1>2, <1>6 DEF TurnTaking
  <2>4. Graphs' BY <1>1, <1>3, <1>6, <2>1 DEF Graphs
  <2>5. Updating' BY <1>1, <1>2 DEF Updating, OnTheWay
  <2>6. OnDisk' BY <1>1, <1>2, <1>6, <2>1 DEF OnDisk, ReplayRebuilds, Reached
  <2> QED BY <2>2, <2>3, <2>4, <2>5, <2>6
<1>7. CASE turn' = None /\ rebuilt' = Empty /\ here' = here
  <2>2. Basic' BY <1>1, <1>4, <1>7 DEF Basic
  <2>3. TurnTaking' BY <1>1, <1>2, <1>7 DEF TurnTaking
  <2>4. Graphs' BY <1>1, <1>3, <1>5, <1>7 DEF Graphs
  <2>5. Updating' BY <1>1, <1>2 DEF Updating, OnTheWay
  <2>6. OnDisk' BY <1>1, <1>7 DEF OnDisk, ReplayRebuilds
  <2> QED BY <2>2, <2>3, <2>4, <2>5, <2>6
<1> QED BY <1>6, <1>7 DEF Continue

LEMMA SwitchStep == IInv /\ Switch => IInv'
<1> SUFFICES ASSUME IInv, Switch PROVE IInv' OBVIOUS
<1> USE DEF IInv
<1>1. /\ turn = None /\ work # Refused
      /\ here' \in Place \ {here} /\ own' = (work = saved[here'])
      /\ UNCHANGED <<opened, turn, crossing, work, saved, rebuilt, pending, ran>>
  BY DEF Switch, Between
<1>2. Basic' BY <1>1 DEF Basic
<1>3. TurnTaking' BY <1>1 DEF TurnTaking
<1>4. Graphs' BY <1>1 DEF Graphs
<1>5. Updating' BY <1>1 DEF Updating, OnTheWay, TurnTaking
<1>6. OnDisk' BY <1>1 DEF OnDisk, ReplayRebuilds
<1> QED BY <1>2, <1>3, <1>4, <1>5, <1>6

LEMMA RestartStep == IInv /\ Restart => IInv'
<1> SUFFICES ASSUME IInv, Restart PROVE IInv' OBVIOUS
<1> USE DEF IInv
<1> DEFINE g == IF turn = None THEN saved[here] ELSE rebuilt
<1>1. /\ crossing = None /\ work # Refused
      /\ work' = g /\ saved' = [saved EXCEPT ![here] = IF g = Refused THEN @ ELSE g]
      /\ turn' = None /\ pending' = Idle /\ rebuilt' = Empty /\ own' = TRUE
      /\ UNCHANGED <<opened, crossing, here, ran>>
  BY DEF Restart
<1>2. here \in Place BY DEF Basic
<1>3. g = Refused \/ (Sound(g, opened) /\ Proved(g.items, ran)) BY <1>2 DEF Graphs
<1> HIDE DEF g
<1>4. /\ \A p \in Place : Sound(saved'[p], opened') /\ Proved(saved'[p].items, ran')
      /\ saved' = [p \in Place |-> saved'[p]]
      /\ g = saved'[here] \/ g = Refused
  <2>1. CASE g = Refused
    <3>1. saved = [p \in Place |-> saved[p]] BY DEF Basic
    <3>2. saved' = saved BY <2>1, <3>1, <1>1
    <3> QED BY <2>1, <3>1, <3>2, <1>1 DEF Graphs
  <2>2. CASE g # Refused
    <3>1. saved' = [saved EXCEPT ![here] = g] BY <2>2, <1>1
    <3>2. Sound(g, opened) /\ Proved(g.items, ran) BY <2>2, <1>3
    <3> QED BY <3>1, <3>2, <1>1, SavedWrite
  <2> QED BY <2>1, <2>2
<1>5. Sound(Empty, opened) /\ Proved(Empty.items, ran) BY EmptySound
<1>6. opened \in Nat /\ None = 0 BY Apart DEF Basic, None
<1>7. Basic' BY <1>1, <1>4, <1>6, IdleIs DEF Basic
<1>8. TurnTaking' BY <1>1, IdleIs DEF TurnTaking
<1>9. Graphs' BY <1>1, <1>3, <1>4, <1>5 DEF Graphs
<1>10. Updating' BY <1>1, IdleIs DEF Updating, OnTheWay
<1>11. OnDisk' BY <1>1, <1>4 DEF OnDisk, ReplayRebuilds
<1> QED BY <1>7, <1>8, <1>9, <1>10, <1>11

\* A host call that publishes a sound graph.
LEMMA PublishStep ==
  ASSUME IInv, NEW g, Sound(g, opened), Proved(g.items, ran), Publish(g)
  PROVE  IInv'
<1> USE DEF IInv
<1>1. /\ turn = None /\ work' = g /\ saved' = [saved EXCEPT ![here] = g] /\ own' = TRUE
      /\ UNCHANGED <<opened, turn, crossing, here, rebuilt, pending, ran>>
  BY DEF Publish, Between
<1>2. /\ \A p \in Place : Sound(saved'[p], opened') /\ Proved(saved'[p].items, ran')
      /\ saved'[here] = g /\ saved' = [p \in Place |-> saved'[p]]
  BY <1>1, SavedWrite
<1>3. Basic' BY <1>1, <1>2 DEF Basic
<1>4. TurnTaking' BY <1>1 DEF TurnTaking
<1>5. Graphs' BY <1>1, <1>2 DEF Graphs
<1>6. Updating' BY <1>1 DEF Updating, OnTheWay, TurnTaking
<1>7. OnDisk' BY <1>1, <1>2 DEF OnDisk, ReplayRebuilds
<1> QED BY <1>3, <1>4, <1>5, <1>6, <1>7

\* What a host call publishes, and of which requests it speaks.
HostCalls ==
  \/ \E rs \in SUBSET Parked(work) : Publish(Unpark(work, rs))
  \/ \E r \in Owed(work), stop \in Stops, answered, transitioned, resolve \in BOOLEAN,
        wait \in {None} \cup Wait :
       Publish(SealCurrent(work, r, stop, answered, transitioned, wait, resolve))

LEMMA HostCallIs == HostCall => HostCalls
<1> SUFFICES ASSUME HostCall PROVE HostCalls OBVIOUS
<1>1. ASSUME NEW r \in Parked(work), NEW wait \in Wait, Resume(r, wait) PROVE HostCalls
  <2>1. {r} \in SUBSET Parked(work) /\ Publish(Unpark(work, {r})) BY <1>1 DEF Resume
  <2> QED BY <2>1 DEF HostCalls
<1>2. ASSUME NEW late \in SUBSET Wait, Expire(late) PROVE HostCalls
  <2> DEFINE rs == {r \in Parked(work) : work.items[r].wait \in late}
  <2>1. rs \in SUBSET Parked(work) OBVIOUS
  <2>2. Publish(Unpark(work, rs)) BY <1>2 DEF Expire
  <2> HIDE DEF rs
  <2> QED BY <2>1, <2>2 DEF HostCalls
<1>3. ASSUME NEW r \in Owed(work), NEW stop \in Stops \ {"end_turn"}, NEW answered \in BOOLEAN,
             NEW transitioned \in BOOLEAN, NEW resolve \in BOOLEAN, NEW wait \in {None} \cup Wait,
             Reseal(r, stop, answered, transitioned, wait, resolve)
      PROVE  HostCalls
  <2>1. Publish(SealCurrent(work, r, stop, answered, transitioned, wait, resolve))
    BY <1>3 DEF Reseal
  <2> QED BY <2>1 DEF HostCalls
<1> QED BY <1>1, <1>2, <1>3 DEF HostCall

LEMMA HostCallStep == IInv /\ HostCall => IInv'
<1> SUFFICES ASSUME IInv, HostCalls PROVE IInv' BY HostCallIs
<1>1. ASSUME NEW rs \in SUBSET Parked(work), Publish(Unpark(work, rs)) PROVE IInv'
  <2>1. turn = None /\ work # Refused /\ Unpark(work, rs) # Refused BY <1>1 DEF Publish, Between
  <2>2. Sound(work, opened) /\ Proved(work.items, ran) BY <2>1 DEF IInv, Graphs
  <2>3. Sound(Unpark(work, rs), opened) /\ Proved(Unpark(work, rs).items, ran)
    BY <2>1, <2>2, UnparkGives
  <2> QED BY <1>1, <2>3, PublishStep
<1>2. ASSUME NEW r \in Owed(work), NEW stop \in Stops, NEW answered \in BOOLEAN,
             NEW transitioned \in BOOLEAN, NEW resolve \in BOOLEAN, NEW wait \in {None} \cup Wait,
             Publish(SealCurrent(work, r, stop, answered, transitioned, wait, resolve))
      PROVE  IInv'
  <2> DEFINE h == SealCurrent(work, r, stop, answered, transitioned, wait, resolve)
  <2>1. turn = None /\ work # Refused /\ h # Refused BY <1>2 DEF Publish, Between
  <2>2. Sound(work, opened) /\ Proved(work.items, ran) BY <2>1 DEF IInv, Graphs
  <2>5. Leaves(h, work, opened, r, SealStatus(work, r, stop, answered, transitioned, resolve),
               wait, ran)
    BY <2>1, <2>2, SealGives, Zenon
  <2>3. Sound(h, opened) /\ Proved(h.items, ran) BY <2>5 DEF Leaves
  <2>4. Publish(h) BY <1>2
  <2> HIDE DEF h
  <2> QED BY <2>3, <2>4, PublishStep
<1> QED BY <1>1, <1>2 DEF HostCalls

LEMMA StutterStep == IInv /\ UNCHANGED vars => IInv'
<1> SUFFICES ASSUME IInv, UNCHANGED vars PROVE IInv' OBVIOUS
<1> USE DEF IInv, vars
<1>1. Basic' BY DEF Basic
<1>2. TurnTaking' BY DEF TurnTaking
<1>3. Graphs' BY DEF Graphs
<1>4. Updating' BY DEF Updating, OnTheWay
<1>5. OnDisk' BY DEF OnDisk, ReplayRebuilds, Reached
<1> QED BY <1>1, <1>2, <1>3, <1>4, <1>5

LEMMA NextIInv == IInv /\ [Next]_vars => IInv'
BY BeginStep, UpdateStep, ReduceStep, ConfirmStep, FailStep, DisruptStep, SealStep,
   SealToCrossStep, ContinueStep, SwitchStep, RestartStep, HostCallStep, StutterStep DEF Next

\* A typed state, one turn at a time, graphs that are sound wherever they lie,
\* an update that keeps to its offer, and a disk that has what it is said to: the
\* live graph, but for the one update whose recording was cut short, which the
\* journal and the live graph may each have or not.
THEOREM StatesAreSound == Spec => []IInv
BY InitIInv, NextIInv, PTL DEF Spec

----------------------------------------------------------------------------
(* What the states promise *)

LEMMA NeverRefused == IInv => HostNeverRefused
<1> SUFFICES ASSUME IInv PROVE HostNeverRefused OBVIOUS
<1>1. TypeOK BY InvariantTypes
<1>2. ASSUME Between, opened < MaxRequests PROVE OpenRequest(work, opened + 1) # Refused
  <2>1. Sound(work, opened) /\ Proved(work.items, ran) BY <1>2 DEF IInv, Graphs, Between
  <2>2. opened \in Nat /\ opened + 1 \in Request BY <1>2, Apart DEF IInv, Basic, Request
  <2> QED BY <2>1, <2>2, OpenRequestWorks
<1>3. ASSUME Running
      PROVE  /\ \A stop \in Stops, wait \in {None} \cup Wait :
                  ((stop = "waiting_peer") <=> (wait # None)) =>
                    SealCurrent(work, turn, stop, stop = "end_turn", FALSE, wait, FALSE) # Refused
             /\ SealCurrent(work, turn, "end_turn", FALSE, TRUE, None, FALSE) # Refused
  <2>1. Sound(work, opened) /\ Served(work, turn) BY <1>3 DEF IInv, Graphs, Running
  <2>2. ASSUME NEW stop \in Stops, NEW wait \in {None} \cup Wait,
               (stop = "waiting_peer") <=> (wait # None)
        PROVE  SealCurrent(work, turn, stop, stop = "end_turn", FALSE, wait, FALSE) # Refused
    <3> DEFINE answered == stop = "end_turn"
    <3> HIDE DEF answered
    <3>1. SealCurrent(work, turn, stop, answered, FALSE, wait, FALSE) # Refused
      BY <2>1, <2>2, SealWorks, Zenon
    <3> QED BY <3>1 DEF answered
  <2>3. None \in {None} \cup Wait /\ (("end_turn" = "waiting_peer") <=> (None # None)) OBVIOUS
  <2>4. SealCurrent(work, turn, "end_turn", FALSE, TRUE, None, FALSE) # Refused
    BY <2>1, <2>3, SealWorks, Zenon
  <2> QED BY <2>2, <2>4
<1> QED BY <1>1, <1>2, <1>3 DEF HostNeverRefused

\* The host's own calls on the graph never raise: the next message opens its
\* request and the running turn is sealed, whatever updates were accepted.
THEOREM HostIsNeverRefused == Spec => []HostNeverRefused
BY StatesAreSound, NeverRefused, PTL

\* A verified item carries checks, and the host ran those green for it as an
\* item of the request it belongs to.
THEOREM CertificatesHold == Spec => []Certified
<1>1. IInv => Certified
  <2> SUFFICES ASSUME IInv PROVE Certified OBVIOUS
  <2>1. CASE work = Refused
    <3>1. DOMAIN work.items = {} BY <2>1, NoItemsItems DEF Refused
    <3> QED BY <3>1 DEF Certified
  <2>2. CASE work # Refused
    <3>1. Proved(work.items, ran) BY <2>2 DEF IInv, Graphs
    <3> QED BY <3>1 DEF Certified, Proved
  <2> QED BY <2>1, <2>2
<1> QED BY <1>1, StatesAreSound, PTL

\* A replay of the journal of a turn that runs on its workspace's graph gives
\* what the turn's confirmed updates have reached; behind a recording that was cut
\* short it gives that with or without this one update, and so does the live graph.
THEOREM ReplaysRebuild == Spec => []ReplayRebuilds
<1>1. IInv => ReplayRebuilds BY DEF IInv, OnDisk
<1> QED BY <1>1, StatesAreSound, PTL

----------------------------------------------------------------------------
(* What becomes of a request that is owed *)

Stays(r) == r \in Roots(work'.items) /\ work'.items[r] = work.items[r]

\* Its own turn seals it: it is still owed, or delivered.
TurnSeals(r) ==
  /\ turn = r /\ work.items[r].status \in {"open", "in_progress"}
  /\ r \in Roots(work'.items)
  /\ \/ work'.items[r].status \in Unresolved
     \/ turn' = None /\ work'.items[r].status = "delivered"

\* The embedding host speaks of it between turns.
HostSpeaks(r) ==
  \/ Resume(r, work.items[r].wait)
  \/ \E late \in SUBSET Wait : work.items[r].wait \in late /\ Expire(late)
  \/ \E stop \in Stops, answered, transitioned, resolve \in BOOLEAN, wait \in {None} \cup Wait :
       Reseal(r, stop, answered, transitioned, wait, resolve)

LEMMA OwedIs ==
  ASSUME NEW g, NEW r
  PROVE  r \in Owed(g) <=> r \in Roots(g.items) /\ g.items[r].status \in Unresolved
BY DEF Owed

LEMMA OwedLive ==
  ASSUME IInv, NEW r \in Owed(work)
  PROVE  work # Refused /\ Sound(work, opened) /\ Proved(work.items, ran)
<1>1. work # Refused BY NoItemsItems DEF Refused, Owed
<1> QED BY <1>1 DEF IInv, Graphs

\* An update leaves each owed request as it was, or retires an older one.
LEMMA UpdateKeeps ==
  ASSUME IInv, pending.stage \in OnTheWay, NEW r \in Roots(pending.before.items),
         NEW h, h = Apply(pending.before, pending.delta, pending.before.revision)
  PROVE  /\ Roots(h.items) = Roots(pending.before.items)
         /\ \/ h.items[r] = pending.before.items[r]
            \/ /\ r \in DOMAIN pending.delta.updates /\ r # turn
               /\ h.items[r].status \in {"cancelled", "superseded"}
<1> DEFINE d == pending.delta
           g == pending.before
<1>1. /\ Offer(d, turn, ran) /\ Sound(g, opened) /\ Proved(g.items, ran)
      /\ Apply(g, d, g.revision) # Refused
  BY OnItsWay
<1>2. h = Apply(g, d, g.revision) /\ r \in Roots(g.items) OBVIOUS
<1> HIDE DEF d, g
<1>3. /\ Roots(h.items) = Roots(g.items)
      /\ \A q \in Roots(g.items) :
           \/ h.items[q] = g.items[q]
           \/ q \in DOMAIN d.updates /\ q # turn /\ h.items[q].status \in {"cancelled", "superseded"}
  BY <1>1, <1>2, OfferGives
<1> QED BY <1>2, <1>3 DEF d, g

\* To undo an update is to lose nothing that was owed.
LEMMA UndoKeeps ==
  ASSUME IInv, pending.stage \in OnTheWay, NEW r \in Owed(work)
  PROVE  r \in Roots(pending.before.items) /\ pending.before.items[r] = work.items[r]
<1> DEFINE h == Apply(pending.before, pending.delta, pending.before.revision)
<1>1. r \in Roots(work.items) /\ work.items[r].status \in Unresolved BY OwedIs
<1>2. work \in {pending.before, h} BY OnItsWay DEF OnTheWay
<1>3. CASE work = pending.before BY <1>1, <1>3
<1>4. CASE work = h
  <2> HIDE DEF h
  <2>3. Roots(h.items) = Roots(pending.before.items)
    <3>1. \A q \in Roots(pending.before.items) : Roots(h.items) = Roots(pending.before.items)
      BY UpdateKeeps DEF h
    <3>2. turn \in Roots(pending.before.items) BY OnItsWay DEF Served
    <3> QED BY <3>1, <3>2
  <2>4. r \in Roots(pending.before.items) BY <1>1, <1>4, <2>3
  <2>5. h.items[r] = pending.before.items[r] \/ h.items[r].status \in {"cancelled", "superseded"}
    BY <2>4, UpdateKeeps DEF h
  <2> QED BY <1>1, <1>4, <2>4, <2>5, SupersededIsSettled
<1> QED BY <1>2, <1>3, <1>4

\* What a seal makes of the request it seals.
LEMMA LeftUnsettled ==
  ASSUME NEW h, NEW g, NEW n, NEW r, NEW stop, NEW answered, NEW transitioned, NEW resolve,
         NEW wait, NEW record,
         Leaves(h, g, n, r, SealStatus(g, r, stop, answered, transitioned, resolve), wait, record)
  PROVE  r \in Roots(h.items) /\ (h.items[r].status \in Unresolved \/ h.items[r].status = "delivered")
<1> DEFINE s == SealStatus(g, r, stop, answered, transitioned, resolve)
<1>1. s \in {"in_progress", "waiting_user", "waiting_peer", "delivered", g.items[r].status}
  BY SealStatusIs
<1> HIDE DEF s
<1>2. r \in Owed(g) /\ Touched(g, h, {r}) /\ h.items[r].status = s BY DEF Leaves, s
<1>3. r \in Roots(g.items) /\ g.items[r].status \in Unresolved BY <1>2, OwedIs
<1>4. r \in Roots(h.items) BY <1>2, <1>3 DEF Touched, Roots
<1>5. {"in_progress", "waiting_user", "waiting_peer"} \subseteq Unresolved BY DEF Unresolved
<1> QED BY <1>1, <1>2, <1>3, <1>4, <1>5

\* Whatever happens, a request that is owed stays as it is, or its turn seals
\* it, or the host speaks of it, or a later request retires it, or a restart replays
\* a retirement that was undone, or the process restarts in a workspace that never
\* had its graph.
LEMMA OwedFate ==
  ASSUME IInv, Next, NEW r \in Owed(work)
  PROVE  Stays(r) \/ TurnSeals(r) \/ HostSpeaks(r) \/ Retired(r) \/ RetiredAfterAll(r) \/ Forgotten
<1>1. work # Refused /\ Sound(work, opened) /\ Proved(work.items, ran) BY OwedLive
<1>2. r \in Roots(work.items) /\ work.items[r].status \in Unresolved BY OwedIs
<1>3. work' = work => Stays(r) BY <1>2 DEF Stays
<1>4. CASE Begin
  <2>1. opened \in Nat /\ opened + 1 \in Request
    BY <1>4, Apart DEF Begin, IInv, Basic, Request
  <2>2. work' = OpenRequest(work, opened + 1) BY <1>4 DEF Begin
  <2>3. r \in Roots(OpenRequest(work, opened + 1).items)
        /\ OpenRequest(work, opened + 1).items[r] = work.items[r]
    BY <1>1, <2>1, OpenRequestWorks
  <2> QED BY <2>2, <2>3 DEF Stays
<1>5. CASE Update \/ Confirm \/ Continue \/ Switch
  BY <1>3, <1>5 DEF Update, Confirm, Continue, Switch
<1>6. CASE Reduce
  <2>1. pending.stage = "accepted" /\ work' = Apply(work, pending.delta, pending.before.revision)
    BY <1>6 DEF Reduce
  <2>2. work = pending.before BY <2>1, OnItsWay DEF OnTheWay
  <2> DEFINE h == Apply(pending.before, pending.delta, pending.before.revision)
  <2>3. work' = h BY <2>1, <2>2
  <2>4. /\ Roots(h.items) = Roots(pending.before.items)
        /\ \/ h.items[r] = pending.before.items[r]
           \/ r \in DOMAIN pending.delta.updates /\ r # turn
    BY <1>2, <2>1, <2>2, UpdateKeeps DEF OnTheWay
  <2> HIDE DEF h
  <2> QED BY <1>2, <2>1, <2>2, <2>3, <2>4 DEF Stays, Retired
<1>7. CASE Fail BY <1>3, <1>7 DEF Fail
<1>16. CASE Disrupt
  <2>1. pending.stage \in OnTheWay /\ work' \in {work, pending.before}
    BY <1>16 DEF Disrupt, OnTheWay
  <2>2. r \in Roots(pending.before.items) /\ pending.before.items[r] = work.items[r]
    BY <2>1, UndoKeeps
  <2> QED BY <1>3, <2>1, <2>2 DEF Stays
<1>8. CASE Seal
  <2>1. PICK stop \in IF pending.stage = "idle" THEN Stops ELSE {"stopped"},
             wait \in {None} \cup Wait :
          /\ (stop = "waiting_peer") <=> (wait # None)
          /\ work' = SealCurrent(work, turn, stop, stop = "end_turn", FALSE, wait, FALSE)
    BY <1>8 DEF Seal
  <2> DEFINE answered == stop = "end_turn"
             h == SealCurrent(work, turn, stop, answered, FALSE, wait, FALSE)
  <2>2. turn # None /\ turn' = None BY <1>8 DEF Seal, Running
  <2>3. Served(work, turn) BY <2>2 DEF IInv, Graphs
  <2>4. wait \in {None} \cup Wait /\ ((stop = "waiting_peer") <=> (wait # None)) BY <2>1
  <2>5. work' = h BY <2>1
  <2> HIDE DEF answered
  <2>6. h # Refused BY <1>1, <2>3, <2>4, SealWorks, Zenon
  <2>7. Leaves(h, work, opened, turn, SealStatus(work, turn, stop, answered, FALSE, FALSE), wait, ran)
    BY <1>1, <2>4, <2>6, SealGives, Zenon
  <2> HIDE DEF h
  <2>8. turn \in Roots(h.items)
        /\ (h.items[turn].status \in Unresolved \/ h.items[turn].status = "delivered")
    BY <2>7, LeftUnsettled, Zenon
  <2>9. Touched(work, h, {turn}) BY <2>7 DEF Leaves
  <2>10. CASE r = turn BY <2>2, <2>3, <2>5, <2>8, <2>10 DEF TurnSeals, Served
  <2>11. CASE r # turn BY <1>2, <2>5, <2>9, <2>11 DEF Stays, Touched, Roots
  <2> QED BY <2>10, <2>11
<1>9. CASE SealToCross
  <2> DEFINE h == SealCurrent(work, turn, "end_turn", FALSE, TRUE, None, FALSE)
  <2>1. turn # None /\ work' = h BY <1>9 DEF SealToCross, Running
  <2>2. Served(work, turn) BY <2>1 DEF IInv, Graphs
  <2>3. None \in {None} \cup Wait /\ (("end_turn" = "waiting_peer") <=> (None # None)) OBVIOUS
  <2>4. h # Refused BY <1>1, <2>2, <2>3, SealWorks, Zenon
  <2>5. Leaves(h, work, opened, turn, SealStatus(work, turn, "end_turn", FALSE, TRUE, FALSE), None, ran)
    BY <1>1, <2>3, <2>4, SealGives, Zenon
  <2> HIDE DEF h
  <2>6. work.items[turn].status \in {"open", "in_progress"} BY <2>2 DEF Served
  <2>7. SealStatus(work, turn, "end_turn", FALSE, TRUE, FALSE) = "in_progress"
    BY <2>6 DEF SealStatus
  <2>8. h.items[turn].status = "in_progress" /\ Touched(work, h, {turn}) BY <2>5, <2>7 DEF Leaves
  <2>9. CASE r = turn
    <3>1. r \in Roots(work'.items) BY <1>2, <2>1, <2>8 DEF Touched, Roots
    <3>2. work'.items[r].status \in Unresolved BY <2>1, <2>8, <2>9 DEF Unresolved
    <3> QED BY <2>6, <2>9, <3>1, <3>2 DEF TurnSeals
  <2>10. CASE r # turn BY <1>2, <2>1, <2>8, <2>10 DEF Stays, Touched, Roots
  <2> QED BY <2>9, <2>10
<1>10. CASE Restart
  <2>1. CASE ~own BY <1>10, <2>1 DEF Forgotten
  <2>2. CASE own /\ turn = None
    <3>1. work = saved[here] BY <1>1, <2>2 DEF IInv, OnDisk
    <3>2. work' = saved[here] BY <1>10, <2>2 DEF Restart
    <3> QED BY <1>3, <3>1, <3>2
  <2>3. CASE own /\ turn # None
    <3>1. crossing = None /\ work' = rebuilt BY <1>10, <2>3 DEF Restart
    <3>2. rebuilt \in Reached BY <2>3, <3>1 DEF IInv, OnDisk, ReplayRebuilds
    <3>3. CASE pending.stage = "reduced"
      <4>1. r \in Roots(pending.before.items) /\ pending.before.items[r] = work.items[r]
        BY <3>3, UndoKeeps DEF OnTheWay
      <4> QED BY <3>1, <3>2, <3>3, <4>1 DEF Stays, Reached
    <3>4. CASE pending.stage = "undecided"
      <4> DEFINE h == Apply(pending.before, pending.delta, pending.before.revision)
      <4>1. r \in Roots(pending.before.items) /\ pending.before.items[r] = work.items[r]
        BY <3>4, UndoKeeps DEF OnTheWay
      <4>2. rebuilt \in {pending.before, h} BY <3>2, <3>4 DEF Reached
      <4>3. work \in {pending.before, h} BY <3>4, OnItsWay DEF OnTheWay
      <4>4. /\ Roots(h.items) = Roots(pending.before.items)
            /\ \/ h.items[r] = pending.before.items[r]
               \/ /\ r \in DOMAIN pending.delta.updates /\ r # turn
                  /\ h.items[r].status \in {"cancelled", "superseded"}
        BY <3>4, <4>1, UpdateKeeps DEF OnTheWay
      <4> HIDE DEF h
      <4>5. CASE rebuilt = pending.before BY <3>1, <4>1, <4>5 DEF Stays
      <4>6. CASE rebuilt = h /\ h.items[r] = pending.before.items[r]
        BY <3>1, <4>1, <4>4, <4>6 DEF Stays
      <4>7. CASE /\ rebuilt = h /\ rebuilt # pending.before
                 /\ r \in DOMAIN pending.delta.updates /\ r # turn
                 /\ h.items[r].status \in {"cancelled", "superseded"}
        <5>1. work = pending.before BY <1>2, <4>3, <4>7, SupersededIsSettled
        <5> QED BY <1>10, <3>4, <4>7, <5>1 DEF RetiredAfterAll
      <4> QED BY <4>2, <4>4, <4>5, <4>6, <4>7
    <3>5. CASE pending.stage \notin {"reduced", "undecided"}
      <4>1. work' = work BY <3>1, <3>2, <3>5 DEF Reached
      <4> QED BY <1>3, <4>1
    <3> QED BY <3>3, <3>4, <3>5
  <2>4. own \in BOOLEAN BY DEF IInv, Basic
  <2> QED BY <2>1, <2>2, <2>3, <2>4
<1>11. ASSUME NEW rs \in SUBSET Parked(work), Publish(Unpark(work, rs))
       PROVE  r \notin rs => Stays(r)
  <2> DEFINE h == Unpark(work, rs)
  <2>1. h # Refused /\ work' = h BY <1>11 DEF Publish
  <2>2. Touched(work, h, rs) BY <1>1, <2>1, UnparkGives
  <2> HIDE DEF h
  <2> QED BY <1>2, <2>1, <2>2 DEF Stays, Touched, Roots
<1>12. ASSUME NEW q \in Parked(work), NEW wait \in Wait, Resume(q, wait)
       PROVE  Stays(r) \/ HostSpeaks(r)
  <2>1. Publish(Unpark(work, {q})) /\ work.items[q].wait = wait BY <1>12 DEF Resume
  <2>2. CASE r = q BY <1>12, <2>1, <2>2 DEF HostSpeaks
  <2>3. CASE r # q
    <3>1. {q} \in SUBSET Parked(work) /\ r \notin {q} BY <2>3
    <3> QED BY <2>1, <3>1, <1>11
  <2> QED BY <2>2, <2>3
<1>13. ASSUME NEW late \in SUBSET Wait, Expire(late)
       PROVE  Stays(r) \/ HostSpeaks(r)
  <2> DEFINE rs == {q \in Parked(work) : work.items[q].wait \in late}
  <2>1. rs \in SUBSET Parked(work) OBVIOUS
  <2>2. Publish(Unpark(work, rs)) BY <1>13 DEF Expire
  <2>3. CASE r \in rs
    <3>1. work.items[r].wait \in late BY <2>3
    <3> QED BY <3>1, <1>13 DEF HostSpeaks
  <2>4. CASE r \notin rs
    <3> HIDE DEF rs
    <3> QED BY <2>1, <2>2, <2>4, <1>11
  <2> QED BY <2>3, <2>4
<1>14. ASSUME NEW q \in Owed(work), NEW stop \in Stops \ {"end_turn"}, NEW answered \in BOOLEAN,
              NEW transitioned \in BOOLEAN, NEW resolve \in BOOLEAN, NEW wait \in {None} \cup Wait,
              Reseal(q, stop, answered, transitioned, wait, resolve)
       PROVE  Stays(r) \/ HostSpeaks(r)
  <2>1. CASE r = q
    <3>1. Reseal(r, stop, answered, transitioned, wait, resolve) BY <1>14, <2>1
    <3> QED BY <3>1, Zenon DEF HostSpeaks
  <2>2. CASE r # q
    <3> DEFINE h == SealCurrent(work, q, stop, answered, transitioned, wait, resolve)
    <3>1. h # Refused /\ work' = h BY <1>14 DEF Reseal, Publish
    <3>2. Leaves(h, work, opened, q, SealStatus(work, q, stop, answered, transitioned, resolve),
                 wait, ran)
      BY <1>1, <1>14, <3>1, SealGives, Zenon
    <3> HIDE DEF h
    <3>3. Touched(work, h, {q}) BY <3>2 DEF Leaves
    <3> QED BY <1>2, <2>2, <3>1, <3>3 DEF Stays, Touched, Roots
  <2> QED BY <2>1, <2>2
<1>15. CASE HostCall BY <1>12, <1>13, <1>14, <1>15 DEF HostCall
<1> QED BY <1>4, <1>5, <1>6, <1>7, <1>8, <1>9, <1>10, <1>15, <1>16 DEF Next

\* A request of which the host speaks is still owed, or it was delivered.
LEMMA SpokenOf ==
  ASSUME IInv, NEW r \in Owed(work), HostSpeaks(r)
  PROVE  /\ turn = None /\ turn' = None /\ r \in Roots(work'.items)
         /\ work'.items[r].status \in Unresolved \/ work'.items[r].status = "delivered"
<1>1. work # Refused /\ Sound(work, opened) /\ Proved(work.items, ran) BY OwedLive
<1>2. ASSUME NEW rs \in SUBSET Parked(work), r \in rs, Publish(Unpark(work, rs))
      PROVE  /\ turn = None /\ turn' = None /\ r \in Roots(work'.items)
             /\ work'.items[r].status \in Unresolved
  <2> DEFINE h == Unpark(work, rs)
  <2>1. turn = None /\ turn' = None /\ h # Refused /\ work' = h BY <1>2 DEF Publish, Between
  <2>2. Touched(work, h, rs) /\ \A q \in rs : h.items[q].status = "in_progress"
    BY <1>1, <2>1, UnparkGives
  <2> HIDE DEF h
  <2>3. r \in Roots(work.items) BY OwedIs
  <2> QED BY <1>2, <2>1, <2>2, <2>3 DEF Touched, Roots, Unresolved
<1>3. CASE Resume(r, work.items[r].wait)
  <2>1. r \in Parked(work) /\ Publish(Unpark(work, {r})) BY <1>3 DEF Resume
  <2>2. {r} \in SUBSET Parked(work) /\ r \in {r} BY <2>1
  <2> QED BY <2>1, <2>2, <1>2
<1>4. ASSUME NEW late \in SUBSET Wait, work.items[r].wait \in late, Expire(late)
      PROVE  /\ turn = None /\ turn' = None /\ r \in Roots(work'.items)
             /\ work'.items[r].status \in Unresolved \/ work'.items[r].status = "delivered"
  <2> DEFINE rs == {q \in Parked(work) : work.items[q].wait \in late}
  <2>1. rs \in SUBSET Parked(work) OBVIOUS
  <2>2. Publish(Unpark(work, rs)) BY <1>4 DEF Expire
  <2>3. CASE r \in rs
    <3> HIDE DEF rs
    <3> QED BY <2>1, <2>2, <2>3, <1>2
  <2>4. CASE r \notin rs
    <3>1. r \in Roots(work.items) /\ work.items[r].status \in Unresolved BY OwedIs
    <3> DEFINE h == Unpark(work, rs)
    <3>2. turn = None /\ turn' = None /\ h # Refused /\ work' = h BY <2>2 DEF Publish, Between
    <3> HIDE DEF rs
    <3>3. Touched(work, h, rs) BY <1>1, <2>1, <3>2, UnparkGives
    <3> HIDE DEF h
    <3> QED BY <2>4, <3>1, <3>2, <3>3 DEF Touched, Roots
  <2> QED BY <2>3, <2>4
<1>5. ASSUME NEW stop \in Stops, NEW answered \in BOOLEAN, NEW transitioned \in BOOLEAN,
             NEW resolve \in BOOLEAN, NEW wait \in {None} \cup Wait,
             Reseal(r, stop, answered, transitioned, wait, resolve)
      PROVE  /\ turn = None /\ turn' = None /\ r \in Roots(work'.items)
             /\ work'.items[r].status \in Unresolved \/ work'.items[r].status = "delivered"
  <2> DEFINE h == SealCurrent(work, r, stop, answered, transitioned, wait, resolve)
  <2>1. turn = None /\ turn' = None /\ h # Refused /\ work' = h BY <1>5 DEF Reseal, Publish, Between
  <2>2. Leaves(h, work, opened, r, SealStatus(work, r, stop, answered, transitioned, resolve),
               wait, ran)
    BY <1>1, <2>1, SealGives, Zenon
  <2> HIDE DEF h
  <2>3. r \in Roots(h.items) /\ (h.items[r].status \in Unresolved \/ h.items[r].status = "delivered")
    BY <2>2, LeftUnsettled, Zenon
  <2> QED BY <2>1, <2>3
<1>6. CASE \E late \in SUBSET Wait : work.items[r].wait \in late /\ Expire(late) BY <1>4, <1>6
<1>7. CASE \E stop \in Stops, answered, transitioned, resolve \in BOOLEAN, wait \in {None} \cup Wait :
             Reseal(r, stop, answered, transitioned, wait, resolve)
  BY <1>5, <1>7, Zenon
<1> QED BY <1>3, <1>6, <1>7, Zenon DEF HostSpeaks

\* A request that is owed leaves the graph, through any messages, failed updates,
\* seals, crossings and restarts, only by its own delivered answer, because a later
\* request retires it (in an accepted update, or in one that was rolled back behind
\* its transition row and that the restart replays), or in a restart over a graph
\* that never reached the disk.
THEOREM RequestsAreKept == Spec => RequestsKept
<1>1. IInv /\ [Next]_vars =>
        [\A r \in Owed(work) \ Owed(work') :
           \/ Retired(r) \/ RetiredAfterAll(r) \/ Forgotten
           \/ turn \in {None, r} /\ turn' = None
                /\ r \in DOMAIN work'.items /\ work'.items[r].status = "delivered"]_work
  <2> SUFFICES ASSUME IInv, Next, NEW r \in Owed(work) \ Owed(work')
               PROVE  \/ Retired(r) \/ RetiredAfterAll(r) \/ Forgotten
                      \/ turn \in {None, r} /\ turn' = None
                           /\ r \in DOMAIN work'.items /\ work'.items[r].status = "delivered"
    BY DEF vars
  <2>1. r \in Owed(work) /\ ~(r \in Roots(work'.items) /\ work'.items[r].status \in Unresolved)
    BY OwedIs
  <2>2. Stays(r) \/ TurnSeals(r) \/ HostSpeaks(r) \/ Retired(r) \/ RetiredAfterAll(r) \/ Forgotten BY <2>1, OwedFate
  <2>3. CASE Stays(r) BY <2>1, <2>3, OwedIs DEF Stays
  <2>4. CASE TurnSeals(r) BY <2>1, <2>4 DEF TurnSeals, Roots
  <2>5. CASE HostSpeaks(r) BY <2>1, <2>5, SpokenOf DEF Roots
  <2> QED BY <2>2, <2>3, <2>4, <2>5
<1> QED BY <1>1, StatesAreSound, PTL DEF Spec, RequestsKept

\* A seal that says nothing of a wait leaves it as it was.
LEMMA UnresolvedSealKeeps ==
  ASSUME IInv, NEW r \in Parked(work), SealedUnresolved(r)
  PROVE  r \in Parked(work') /\ work'.items[r].wait = work.items[r].wait
<1>1. r \in Owed(work) /\ work.items[r].status = "waiting_peer" BY DEF Parked
<1>2. work # Refused /\ Sound(work, opened) /\ Proved(work.items, ran) BY <1>1, OwedLive
<1>3. PICK stop \in Stops \ {"waiting_peer"}, answered \in BOOLEAN, transitioned \in BOOLEAN :
        Reseal(r, stop, answered, transitioned, None, FALSE)
  BY Zenon DEF SealedUnresolved
<1> DEFINE h == SealCurrent(work, r, stop, answered, transitioned, None, FALSE)
<1>4. h # Refused /\ work' = h BY <1>3 DEF Reseal, Publish
<1>5. None \in {None} \cup Wait OBVIOUS
<1>6. Leaves(h, work, opened, r, SealStatus(work, r, stop, answered, transitioned, FALSE), None, ran)
  BY <1>2, <1>4, <1>5, SealGives, Zenon
<1> HIDE DEF h
<1>7. SealStatus(work, r, stop, answered, transitioned, FALSE) = "waiting_peer"
  BY <1>1, <1>3 DEF SealStatus
<1>8. h.items[r].status = "waiting_peer" /\ h.items[r].wait = work.items[r].wait
      /\ Touched(work, h, {r})
  BY <1>6, <1>7 DEF Leaves
<1>9. r \in Roots(h.items) BY <1>1, <1>8, OwedIs DEF Touched, Roots
<1>10. r \in Owed(h) BY <1>8, <1>9, OwedIs DEF Unresolved
<1> QED BY <1>4, <1>8, <1>10 DEF Parked

\* A peer wait lasts until the host speaks of it, a later request retires it (be it
\* in an update that was rolled back and that the restart replays), or a restart
\* finds less than the process had.
THEOREM ParksSurvive == Spec => ParkSurvives
<1>1. IInv /\ [Next]_vars =>
        [\A r \in Parked(work) :
           \/ r \in Parked(work') /\ work'.items[r].wait = work.items[r].wait
           \/ Released(r) /\ ~SealedUnresolved(r)
           \/ Retired(r) \/ RetiredAfterAll(r) \/ Forgotten]_work
  <2> SUFFICES ASSUME IInv, Next, NEW r \in Parked(work)
               PROVE  \/ r \in Parked(work') /\ work'.items[r].wait = work.items[r].wait
                      \/ Released(r) /\ ~SealedUnresolved(r)
                      \/ Retired(r) \/ RetiredAfterAll(r) \/ Forgotten
    BY DEF vars
  <2>1. r \in Owed(work) /\ work.items[r].status = "waiting_peer" BY DEF Parked
  <2>2. Stays(r) \/ TurnSeals(r) \/ HostSpeaks(r) \/ Retired(r) \/ RetiredAfterAll(r) \/ Forgotten BY <2>1, OwedFate
  <2>3. CASE Stays(r)
    <3>1. r \in Roots(work'.items) /\ work'.items[r] = work.items[r] BY <2>3 DEF Stays
    <3>2. r \in Owed(work') BY <2>1, <3>1, OwedIs
    <3> QED BY <2>1, <3>1, <3>2 DEF Parked
  <2>4. CASE TurnSeals(r) BY <2>1, <2>4 DEF TurnSeals
  <2>5. CASE SealedUnresolved(r) BY <2>5, UnresolvedSealKeeps
  <2>6. CASE HostSpeaks(r) /\ ~SealedUnresolved(r)
    <3>1. CASE Resume(r, work.items[r].wait) BY <2>6, <3>1 DEF Released
    <3>2. CASE \E late \in SUBSET Wait : work.items[r].wait \in late /\ Expire(late)
      BY <2>6, <3>2 DEF Released
    <3>3. ASSUME NEW stop \in Stops, NEW answered \in BOOLEAN, NEW transitioned \in BOOLEAN,
                 NEW resolve \in BOOLEAN, NEW wait \in {None} \cup Wait,
                 Reseal(r, stop, answered, transitioned, wait, resolve)
          PROVE  Released(r)
      <4>1. CASE resolve \/ stop = "waiting_peer" BY <3>3, <4>1, Zenon DEF Released
      <4>2. CASE ~resolve /\ stop # "waiting_peer"
        <5>1. wait = None BY <3>3, <4>2 DEF Reseal
        <5>2. resolve = FALSE BY <4>2
        <5>3. Reseal(r, stop, answered, transitioned, None, FALSE) BY <3>3, <5>1, <5>2
        <5>4. stop \in Stops \ {"waiting_peer"} BY <4>2
        <5>5. SealedUnresolved(r) BY <5>3, <5>4, Zenon DEF SealedUnresolved
        <5> QED BY <5>5, <2>6
      <4> QED BY <4>1, <4>2
    <3> QED BY <2>6, <3>1, <3>2, <3>3, Zenon DEF HostSpeaks
  <2> QED BY <2>2, <2>3, <2>4, <2>5, <2>6
<1> QED BY <1>1, StatesAreSound, PTL DEF Spec, ParkSurvives
=============================================================================
