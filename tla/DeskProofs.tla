----------------------------- MODULE DeskProofs -----------------------------
(***************************************************************************)
(* What holds of a board file whatever commands run on it, for any number  *)
(* of cards, commands and documents.                                       *)
(***************************************************************************)
EXTENDS Desk, SequenceTheorems, FiniteSetTheorems, WellFoundedInduction, TLAPS

-----------------------------------------------------------------------------
(* One table written                                                       *)

\* A record of the tables, and nothing else.
Tables(d) ==
  d = [card |-> d.card, order |-> d.order, items |-> d.items, links |-> d.links, log |-> d.log,
       eid |-> d.eid, shelf |-> d.shelf, away |-> d.away, blog |-> d.blog, conf |-> d.conf,
       snap |-> d.snap, next |-> d.next]

\* The board file e is d but for the tables F.
Only(F, d, e) ==
  /\ Tables(e)
  /\ "card" \notin F => e.card = d.card
  /\ "order" \notin F => e.order = d.order
  /\ "items" \notin F => e.items = d.items
  /\ "links" \notin F => e.links = d.links
  /\ "log" \notin F => e.log = d.log
  /\ "eid" \notin F => e.eid = d.eid
  /\ "shelf" \notin F => e.shelf = d.shelf
  /\ "away" \notin F => e.away = d.away
  /\ "blog" \notin F => e.blog = d.blog
  /\ "conf" \notin F => e.conf = d.conf
  /\ "snap" \notin F => e.snap = d.snap
  /\ "next" \notin F => e.next = d.next

LEMMA OnlyTables == ASSUME NEW F, NEW d, NEW e, Only(F, d, e) PROVE Tables(e)
BY DEF Only

LEMMA Put_card ==
  ASSUME NEW d, Tables(d), NEW x
  PROVE  Only({"card"}, d, [d EXCEPT !.card = x]) /\ [d EXCEPT !.card = x].card = x
BY DEF Tables, Only

LEMMA Put_order ==
  ASSUME NEW d, Tables(d), NEW x
  PROVE  Only({"order"}, d, [d EXCEPT !.order = x]) /\ [d EXCEPT !.order = x].order = x
BY DEF Tables, Only

LEMMA Put_items ==
  ASSUME NEW d, Tables(d), NEW x
  PROVE  Only({"items"}, d, [d EXCEPT !.items = x]) /\ [d EXCEPT !.items = x].items = x
BY DEF Tables, Only

LEMMA Put_links ==
  ASSUME NEW d, Tables(d), NEW x
  PROVE  Only({"links"}, d, [d EXCEPT !.links = x]) /\ [d EXCEPT !.links = x].links = x
BY DEF Tables, Only

LEMMA Put_log ==
  ASSUME NEW d, Tables(d), NEW x
  PROVE  Only({"log"}, d, [d EXCEPT !.log = x]) /\ [d EXCEPT !.log = x].log = x
BY DEF Tables, Only

LEMMA Put_eid ==
  ASSUME NEW d, Tables(d), NEW x
  PROVE  Only({"eid"}, d, [d EXCEPT !.eid = x]) /\ [d EXCEPT !.eid = x].eid = x
BY DEF Tables, Only

LEMMA Put_shelf ==
  ASSUME NEW d, Tables(d), NEW x
  PROVE  Only({"shelf"}, d, [d EXCEPT !.shelf = x]) /\ [d EXCEPT !.shelf = x].shelf = x
BY DEF Tables, Only

LEMMA Put_away ==
  ASSUME NEW d, Tables(d), NEW x
  PROVE  Only({"away"}, d, [d EXCEPT !.away = x]) /\ [d EXCEPT !.away = x].away = x
BY DEF Tables, Only

LEMMA Put_blog ==
  ASSUME NEW d, Tables(d), NEW x
  PROVE  Only({"blog"}, d, [d EXCEPT !.blog = x]) /\ [d EXCEPT !.blog = x].blog = x
BY DEF Tables, Only

LEMMA Put_conf ==
  ASSUME NEW d, Tables(d), NEW x
  PROVE  Only({"conf"}, d, [d EXCEPT !.conf = x]) /\ [d EXCEPT !.conf = x].conf = x
BY DEF Tables, Only

LEMMA Put_snap ==
  ASSUME NEW d, Tables(d), NEW x
  PROVE  Only({"snap"}, d, [d EXCEPT !.snap = x]) /\ [d EXCEPT !.snap = x].snap = x
BY DEF Tables, Only

LEMMA Put_next ==
  ASSUME NEW d, Tables(d), NEW x
  PROVE  Only({"next"}, d, [d EXCEPT !.next = x]) /\ [d EXCEPT !.next = x].next = x
BY DEF Tables, Only

LEMMA Again ==
  ASSUME NEW d, NEW e, NEW f, NEW F, NEW G, Only(F, d, e), Only(G, e, f)
  PROVE  Only(F \cup G, d, f)
BY DEF Only

LEMMA LoggedIs ==
  ASSUME NEW d, Tables(d), NEW i, NEW by, NEW kind
  PROVE  LET e == Logged(d, i, by, kind)
         IN /\ Only({"log", "eid"}, d, e) /\ e.eid = d.eid + 1
            /\ e.log = d.log \cup {[eid |-> d.eid, card |-> i, by |-> by, kind |-> kind]}
<1> DEFINE x == d.log \cup {[eid |-> d.eid, card |-> i, by |-> by, kind |-> kind]}
           f == [d EXCEPT !.log = x]
           y == f.eid + 1
           e == [f EXCEPT !.eid = y]
<1>1. Logged(d, i, by, kind) = e BY DEF Logged
<1> HIDE DEF x
<1>2. Only({"log"}, d, f) /\ f.log = x BY Put_log
<1> HIDE DEF f, y
<1>3. Only({"eid"}, f, e) /\ e.eid = y BY <1>2, OnlyTables, Put_eid
<1>4. f.eid = d.eid BY <1>2 DEF Only
<1>5. Only({"log", "eid"}, d, e) /\ e.log = x BY <1>2, <1>3 DEF Only
<1> QED BY <1>1, <1>3, <1>4, <1>5 DEF x, y

LEMMA BoardLoggedIs ==
  ASSUME NEW d, Tables(d), NEW by, NEW kind, NEW text
  PROVE  Only({"blog"}, d, BoardLogged(d, by, kind, text))
<1> DEFINE x == Append(d.blog, [by |-> by, kind |-> kind, text |-> text])
<1>1. BoardLogged(d, by, kind, text) = [d EXCEPT !.blog = x] BY DEF BoardLogged
<1> HIDE DEF x
<1> QED BY <1>1, Put_blog

LEMMA WellFormedTables == ASSUME NEW d, WellFormed(d) PROVE Tables(d)
BY DEF WellFormed, Tables

LEMMA WellFormedParts ==
  ASSUME NEW d, Tables(d), Placed(d), Lined(d), Shelved(d), Hung(d), DOMAIN d.conf \subseteq Key \cup {SetupDone}
  PROVE  WellFormed(d)
BY DEF WellFormed, Tables

-----------------------------------------------------------------------------
(* What a write leaves alone                                               *)

\* From d to e somebody wrote under the name by, and no card but i is another.
Wrote(d, e, i, by) ==
  /\ \A j \in Id \ {i} : e.card[j] = d.card[j] /\ e.items[j] = d.items[j] /\ e.links[j] = d.links[j]
  /\ e.conf = d.conf /\ d.eid \in Nat /\ e.eid \in Nat /\ d.eid <= e.eid
  /\ \A l \in Lines(e) : l \in Lines(d) \/ (l.eid \in Nat /\ l.eid >= d.eid /\ l.by = by)

\* From d to e no card was made, moved, taken or removed.
Unmoved(d, e) ==
  /\ \A j : Exists(e, j) <=> Exists(d, j)
  /\ \A j : Exists(d, j) => e.card[j].col = d.card[j].col /\ e.card[j].owner = d.card[j].owner
  /\ \A l : l.kind = "created" => (l \in e.log <=> l \in d.log)
  /\ e.next = d.next /\ d.log \subseteq e.log /\ e.shelf = d.shelf /\ e.away = d.away

\* A card of the board, or one of its archive.
Has(d, j) == Exists(d, j) \/ j \in DOMAIN d.shelf

\* From d to e no number was used twice, and a line about a card there still is was kept.
Grows(d, e) ==
  /\ d.next <= e.next /\ d.eid <= e.eid
  /\ \A j : Has(e, j) => Has(d, j) \/ j >= d.next
  /\ \A l \in Lines(d) : l \in Lines(e) \/ ~Has(e, l.card)

\* From d to e one card was made, under the name by.
Creates(d, e, by) ==
  \E l : /\ l.kind = "created" /\ l.by = by /\ l \notin d.log
         /\ \A x : x.kind = "created" => (x \in e.log <=> x \in d.log \/ x = l)

\* The same, but card i may be finished: what waited for it is then let go.
Alike(d, e, j) == e.card[j] = d.card[j] /\ e.items[j] = d.items[j] /\ e.links[j] = d.links[j]
Finishes(d, e, i) == Exists(d, i) /\ Exists(e, i) /\ d.card[i].col # "done" /\ e.card[i].col = "done"
FreedOf(d, e, i, j) ==
  /\ Exists(d, j) /\ d.card[j].on = i /\ e.card[j] = [d.card[j] EXCEPT !.block = None, !.on = None]
  /\ e.items[j] = d.items[j] /\ e.links[j] = d.links[j]
Acted(d, e, i, by) ==
  /\ \A j \in Id \ {i} : Alike(d, e, j) \/ (Finishes(d, e, i) /\ FreedOf(d, e, i, j))
  /\ e.conf = d.conf /\ d.eid \in Nat /\ e.eid \in Nat /\ d.eid <= e.eid
  /\ \A l \in Lines(e) : l \in Lines(d) \/ (l.eid \in Nat /\ l.eid >= d.eid /\ l.by = by)

LEMMA WroteActed ==
  ASSUME NEW d, NEW e, NEW i, NEW by, Wrote(d, e, i, by)
  PROVE  Acted(d, e, i, by)
BY DEF Wrote, Acted, Alike

LEMMA WroteAgain ==
  ASSUME NEW d, NEW e, NEW f, NEW i, NEW by, Wrote(d, e, i, by), Wrote(e, f, i, by)
  PROVE  Wrote(d, f, i, by)
<1>1. d.eid \in Nat /\ e.eid \in Nat /\ f.eid \in Nat /\ d.eid <= e.eid /\ e.eid <= f.eid BY DEF Wrote
<1>2. ASSUME NEW l \in Lines(f) PROVE l \in Lines(d) \/ (l.eid \in Nat /\ l.eid >= d.eid /\ l.by = by)
  <2>1. CASE l \in Lines(e) BY <2>1 DEF Wrote
  <2>2. CASE l \notin Lines(e)
    <3>1. l.eid \in Nat /\ l.eid >= e.eid /\ l.by = by BY <2>2 DEF Wrote
    <3> QED BY <3>1, <1>1
  <2> QED BY <2>1, <2>2
<1> QED BY <1>1, <1>2 DEF Wrote

LEMMA UnmovedAgain ==
  ASSUME NEW d, NEW e, NEW f, Unmoved(d, e), Unmoved(e, f)
  PROVE  Unmoved(d, f)
BY DEF Unmoved

LEMMA HasIs ==
  ASSUME NEW d, WellFormed(d)
  PROVE  /\ \A j : Has(d, j) => j \in Id /\ j \in Nat /\ j < d.next
         /\ \A l \in Lines(d) : l.eid \in Nat /\ l.card \in Id /\ Has(d, l.card)
<1>1. \A j : Has(d, j) => j \in Id /\ j \in Nat /\ j < d.next
  BY DEF WellFormed, Placed, Shelved, Has, Exists, Id
<1>2. \A l \in Lines(d) : l.eid \in Nat /\ l.card \in Id BY DEF WellFormed, Lined
<1>3. \A l \in Lines(d) : Has(d, l.card) BY DEF WellFormed, Lined, Lines, Has
<1> QED BY <1>1, <1>2, <1>3

LEMMA GrowsAgain ==
  ASSUME NEW d, NEW e, NEW f, WellFormed(d), WellFormed(e), WellFormed(f), Grows(d, e), Grows(e, f)
  PROVE  Grows(d, f)
<1>1. d.next \in Nat /\ e.next \in Nat /\ f.next \in Nat /\ d.eid \in Nat /\ e.eid \in Nat /\ f.eid \in Nat
  BY DEF WellFormed, Placed, Lined
<1>2. d.next <= e.next /\ e.next <= f.next /\ d.eid <= e.eid /\ e.eid <= f.eid BY DEF Grows
<1>3. d.next <= f.next /\ d.eid <= f.eid BY <1>1, <1>2
<1>4. ASSUME NEW j, Has(f, j) PROVE Has(d, j) \/ j >= d.next
  <2>1. CASE Has(e, j) BY <2>1 DEF Grows
  <2>2. CASE ~Has(e, j)
    <3>1. j >= e.next BY <1>4, <2>2 DEF Grows
    <3>2. j \in Nat BY <1>4, HasIs
    <3> QED BY <1>1, <1>2, <3>1, <3>2
  <2> QED BY <2>1, <2>2
<1>5. ASSUME NEW l \in Lines(d) PROVE l \in Lines(f) \/ ~Has(f, l.card)
  <2>1. CASE l \in Lines(e) BY <2>1 DEF Grows
  <2>2. CASE l \notin Lines(e)
    <3>1. ~Has(e, l.card) BY <2>2 DEF Grows
    <3> SUFFICES ASSUME Has(f, l.card) PROVE FALSE OBVIOUS
    <3>2. l.card >= e.next BY <3>1 DEF Grows
    <3>3. l.card < d.next /\ l.card \in Nat BY HasIs
    <3> QED BY <1>1, <1>2, <3>2, <3>3
  <2> QED BY <2>1, <2>2
<1> QED BY <1>3, <1>4, <1>5 DEF Grows

LEMMA UnmovedGrows ==
  ASSUME NEW d, NEW e, WellFormed(d), WellFormed(e), NEW i, NEW by, Wrote(d, e, i, by), Unmoved(d, e)
  PROVE  Grows(d, e)
<1>1. d.next \in Nat /\ e.next = d.next BY DEF WellFormed, Placed, Unmoved
<1>2. d.eid <= e.eid BY DEF Wrote
<1>3. \A j : Has(e, j) => Has(d, j) BY DEF Unmoved, Has
<1>4. Lines(d) \subseteq Lines(e) BY DEF Unmoved, Lines
<1> QED BY <1>1, <1>2, <1>3, <1>4 DEF Grows

LEMMA Unwritten ==
  ASSUME NEW d, WellFormed(d), NEW i, NEW by
  PROVE  Wrote(d, d, i, by) /\ Unmoved(d, d) /\ Grows(d, d)
<1>1. Wrote(d, d, i, by) /\ Unmoved(d, d) BY DEF Wrote, Unmoved, WellFormed, Lined
<1> QED BY <1>1, UnmovedGrows

LEMMA WroteRow ==
  ASSUME NEW d, WellFormed(d), NEW i, Exists(d, i), NEW r, NEW by
  PROVE  Wrote(d, [d EXCEPT !.card[i] = r], i, by)
<1> DEFINE cs == [d.card EXCEPT ![i] = r]
           e == [d EXCEPT !.card = cs]
<1>1. [d EXCEPT !.card[i] = r] = e OBVIOUS
<1>2. d.card \in [Id -> CardRow \cup {None}] /\ d.eid \in Nat BY DEF WellFormed, Placed, Lined
<1>3. \A j \in Id \ {i} : cs[j] = d.card[j] BY <1>2
<1> HIDE DEF cs
<1>4. Only({"card"}, d, e) /\ e.card = cs BY WellFormedTables, Put_card
<1> HIDE DEF e
<1>5. Wrote(d, e, i, by) BY <1>2, <1>3, <1>4 DEF Wrote, Only, Lines
<1> QED BY <1>1, <1>5

LEMMA UnmovedRow ==
  ASSUME NEW d, WellFormed(d), NEW i, Exists(d, i), NEW r \in CardRow, r.col = d.card[i].col,
         r.owner = d.card[i].owner
  PROVE  Unmoved(d, [d EXCEPT !.card[i] = r])
<1> DEFINE cs == [d.card EXCEPT ![i] = r]
           e == [d EXCEPT !.card = cs]
<1>1. [d EXCEPT !.card[i] = r] = e OBVIOUS
<1>2. d.card \in [Id -> CardRow \cup {None}] BY DEF WellFormed, Placed
<1>3. \A j \in Id : cs[j] = IF j = i THEN r ELSE d.card[j] BY <1>2
<1> HIDE DEF cs
<1>4. Only({"card"}, d, e) /\ e.card = cs BY WellFormedTables, Put_card
<1> HIDE DEF e
<1>5. r # None BY RowsAssumption
<1>6. \A j : Exists(e, j) <=> Exists(d, j) BY <1>3, <1>4, <1>5 DEF Exists
<1>7. \A j : Exists(d, j) => e.card[j].col = d.card[j].col /\ e.card[j].owner = d.card[j].owner
  BY <1>3, <1>4 DEF Exists
<1>8. e.log = d.log /\ e.next = d.next /\ e.shelf = d.shelf /\ e.away = d.away BY <1>4 DEF Only
<1>9. Unmoved(d, e) BY <1>6, <1>7, <1>8 DEF Unmoved
<1> QED BY <1>1, <1>9

LEMMA WroteLine ==
  ASSUME NEW d, WellFormed(d), NEW i, NEW j, NEW by, NEW kind
  PROVE  Wrote(d, Logged(d, i, by, kind), j, by) /\ (kind # "created" => Unmoved(d, Logged(d, i, by, kind)))
<1> DEFINE e == Logged(d, i, by, kind)
           l == [eid |-> d.eid, card |-> i, by |-> by, kind |-> kind]
<1>1. Only({"log", "eid"}, d, e) /\ e.eid = d.eid + 1 /\ e.log = d.log \cup {l}
  BY LoggedIs, WellFormedTables
<1>2. l.eid = d.eid /\ l.by = by /\ l.kind = kind OBVIOUS
<1>3. d.eid \in Nat BY DEF WellFormed, Lined
<1> HIDE DEF e, l
<1>4. /\ e.card = d.card /\ e.items = d.items /\ e.links = d.links /\ e.conf = d.conf /\ e.next = d.next
      /\ e.shelf = d.shelf /\ e.away = d.away
  BY <1>1 DEF Only
<1>5. Wrote(d, e, j, by)
  <2>1. Lines(e) = Lines(d) \cup {l} BY <1>1, <1>4 DEF Lines
  <2> QED BY <1>1, <1>2, <1>3, <1>4, <2>1 DEF Wrote
<1>6. kind # "created" => Unmoved(d, e) BY <1>1, <1>2, <1>4 DEF Unmoved, Exists
<1> QED BY <1>5, <1>6 DEF e

LEMMA WroteItems ==
  ASSUME NEW d, WellFormed(d), NEW i, NEW x, NEW by
  PROVE  Wrote(d, [d EXCEPT !.items[i] = x], i, by) /\ Unmoved(d, [d EXCEPT !.items[i] = x])
<1> DEFINE is == [d.items EXCEPT ![i] = x]
           e == [d EXCEPT !.items = is]
<1>1. [d EXCEPT !.items[i] = x] = e OBVIOUS
<1>2. d.items = [j \in Id |-> d.items[j]] /\ d.eid \in Nat BY DEF WellFormed, Hung, Lined
<1>3. \A j \in Id \ {i} : is[j] = d.items[j] BY <1>2
<1> HIDE DEF is
<1>4. Only({"items"}, d, e) /\ e.items = is BY WellFormedTables, Put_items
<1> HIDE DEF e
<1>5. /\ e.card = d.card /\ e.links = d.links /\ e.conf = d.conf /\ e.next = d.next /\ e.log = d.log /\ e.eid = d.eid
      /\ e.shelf = d.shelf /\ e.away = d.away
  BY <1>4 DEF Only
<1>6. Wrote(d, e, i, by) BY <1>2, <1>3, <1>4, <1>5 DEF Wrote, Lines
<1>7. Unmoved(d, e) BY <1>5 DEF Unmoved, Exists
<1> QED BY <1>1, <1>6, <1>7

LEMMA WroteLinks ==
  ASSUME NEW d, WellFormed(d), NEW i, NEW x, NEW by
  PROVE  Wrote(d, [d EXCEPT !.links[i] = x], i, by) /\ Unmoved(d, [d EXCEPT !.links[i] = x])
<1> DEFINE ls == [d.links EXCEPT ![i] = x]
           e == [d EXCEPT !.links = ls]
<1>1. [d EXCEPT !.links[i] = x] = e OBVIOUS
<1>2. d.links = [j \in Id |-> d.links[j]] /\ d.eid \in Nat BY DEF WellFormed, Hung, Lined
<1>3. \A j \in Id \ {i} : ls[j] = d.links[j] BY <1>2
<1> HIDE DEF ls
<1>4. Only({"links"}, d, e) /\ e.links = ls BY WellFormedTables, Put_links
<1> HIDE DEF e
<1>5. /\ e.card = d.card /\ e.items = d.items /\ e.conf = d.conf /\ e.next = d.next /\ e.log = d.log /\ e.eid = d.eid
      /\ e.shelf = d.shelf /\ e.away = d.away
  BY <1>4 DEF Only
<1>6. Wrote(d, e, i, by) BY <1>2, <1>3, <1>4, <1>5 DEF Wrote, Lines
<1>7. Unmoved(d, e) BY <1>5 DEF Unmoved, Exists
<1> QED BY <1>1, <1>6, <1>7

-----------------------------------------------------------------------------
(* A board file stays one                                                  *)

\* The cards stand where they stood, and there are as many.
Standing(d, e) ==
  /\ e.card \in [Id -> CardRow \cup {None}]
  /\ \A i \in Id : (e.card[i] # None <=> d.card[i] # None) /\ e.card[i].col = d.card[i].col

LEMMA StandingKept ==
  ASSUME NEW d, NEW e, WellFormed(d), Only({"card"}, d, e), Standing(d, e)
  PROVE  WellFormed(e)
<1>1. \A j : Exists(e, j) <=> Exists(d, j) BY DEF Exists, Standing
<1>2. Tables(e) /\ DOMAIN e.conf \subseteq Key \cup {SetupDone} BY DEF Only, WellFormed
<1>3. Placed(e)
  <2>1. e.order = d.order /\ e.next = d.next BY DEF Only
  <2>2. /\ \A i \in Id : e.card[i] # None => i < e.next /\ i \in Range(e.order[e.card[i].col])
        /\ \A k \in Column : \A i \in Range(e.order[k]) : Exists(e, i) /\ e.card[i].col = k
    BY <1>1, <2>1 DEF WellFormed, Placed, Standing, Exists
  <2> QED BY <2>1, <2>2 DEF WellFormed, Placed, Standing
<1>4. Lined(e) BY <1>1 DEF WellFormed, Lined, Lines, Only
<1>5. Hung(e) BY <1>1 DEF WellFormed, Hung, Only
<1>6. Shelved(e) BY <1>1 DEF WellFormed, Shelved, Only
<1> QED BY <1>2, <1>3, <1>4, <1>5, <1>6, WellFormedParts

\* A row of a card may change as long as its column does not.
LEMMA RowKept ==
  ASSUME NEW d, WellFormed(d), NEW i \in Id, Exists(d, i), NEW r \in CardRow, r.col = d.card[i].col
  PROVE  WellFormed([d EXCEPT !.card[i] = r])
<1> DEFINE cs == [d.card EXCEPT ![i] = r]
           e == [d EXCEPT !.card = cs]
<1>1. [d EXCEPT !.card[i] = r] = e OBVIOUS
<1>2. d.card \in [Id -> CardRow \cup {None}] BY DEF WellFormed, Placed
<1>3. cs \in [Id -> CardRow \cup {None}] BY <1>2
<1>4. \A j \in Id : cs[j] = IF j = i THEN r ELSE d.card[j] BY <1>2
<1> HIDE DEF cs
<1>5. Only({"card"}, d, e) /\ e.card = cs BY WellFormedTables, Put_card
<1> HIDE DEF e
<1>6. Standing(d, e)
  <2>1. r # None BY RowsAssumption
  <2> QED BY <1>3, <1>4, <1>5, <2>1 DEF Standing, Exists
<1> QED BY <1>1, <1>5, <1>6, StandingKept

LEMMA LogKept ==
  ASSUME NEW d, WellFormed(d), NEW i, Exists(d, i), NEW by \in STRING \cup {Unset}, NEW kind \in LineKind
  PROVE  WellFormed(Logged(d, i, by, kind))
<1> DEFINE e == Logged(d, i, by, kind)
           l == [eid |-> d.eid, card |-> i, by |-> by, kind |-> kind]
<1>1. Only({"log", "eid"}, d, e) /\ e.eid = d.eid + 1 /\ e.log = d.log \cup {l}
  BY LoggedIs, WellFormedTables
<1>2. i \in Id /\ d.eid \in Nat BY DEF Exists, WellFormed, Lined
<1>3. l.eid = d.eid /\ l.card = i /\ l \in [eid : Nat, card : Id, by : STRING \cup {Unset}, kind : LineKind]
  BY <1>2
<1> HIDE DEF e, l
<1>4. \A j : Exists(e, j) <=> Exists(d, j) BY <1>1 DEF Exists, Only
<1>5. Tables(e) /\ DOMAIN e.conf \subseteq Key \cup {SetupDone} BY <1>1 DEF Only, WellFormed
<1>6. Placed(e) BY <1>1, <1>4 DEF WellFormed, Placed, Only
<1>7. Lined(e)
  <2>1. \A f \in Lines(d) : f.eid \in Nat /\ f.eid < d.eid BY DEF WellFormed, Lined
  <2>2. \A f, g \in Lines(d) : g.eid = f.eid => g = f BY DEF WellFormed, Lined
  <2>3. Lines(e) = Lines(d) \cup {l} /\ e.away = d.away /\ e.shelf = d.shelf BY <1>1 DEF Only, Lines
  <2>4. e.eid \in Nat /\ Lines(e) \subseteq [eid : Nat, card : Id, by : STRING \cup {Unset}, kind : LineKind]
    BY <1>1, <1>2, <1>3, <2>3 DEF WellFormed, Lined
  <2>5. \A f \in e.log : Exists(e, f.card) BY <1>1, <1>3, <1>4 DEF WellFormed, Lined
  <2>6. \A f \in e.away : f.card \in DOMAIN e.shelf BY <2>3 DEF WellFormed, Lined
  <2>7. \A f \in Lines(e) : f.eid < e.eid /\ \A g \in Lines(e) : g.eid = f.eid => g = f
    BY <1>1, <1>2, <1>3, <2>1, <2>2, <2>3
  <2> QED BY <2>4, <2>5, <2>6, <2>7 DEF Lined
<1>8. Hung(e) BY <1>1, <1>4 DEF WellFormed, Hung, Only
<1>9. Shelved(e) BY <1>1, <1>4 DEF WellFormed, Shelved, Only
<1> QED BY <1>5, <1>6, <1>7, <1>8, <1>9, WellFormedParts DEF e

\* Several lines at once.
LEMMA LinesKept ==
  ASSUME NEW d, NEW e, WellFormed(d), Only({"log", "eid"}, d, e), NEW S, e.log = d.log \cup S,
         e.eid \in Nat, d.eid <= e.eid,
         S \subseteq [eid : Nat, card : Id, by : STRING \cup {Unset}, kind : LineKind],
         \A l \in S : Exists(d, l.card) /\ d.eid <= l.eid /\ l.eid < e.eid,
         \A l, m \in S : m.eid = l.eid => m = l
  PROVE  WellFormed(e)
<1>1. d.eid \in Nat /\ \A f \in Lines(d) : f.eid \in Nat /\ f.eid < d.eid BY DEF WellFormed, Lined
<1>2. \A j : Exists(e, j) <=> Exists(d, j) BY DEF Exists, Only
<1>3. Tables(e) /\ DOMAIN e.conf \subseteq Key \cup {SetupDone} BY DEF Only, WellFormed
<1>4. Placed(e) BY <1>2 DEF WellFormed, Placed, Only
<1>5. Lined(e)
  <2>1. Lines(e) = Lines(d) \cup S /\ e.away = d.away /\ e.shelf = d.shelf BY DEF Only, Lines
  <2>2. Lines(e) \subseteq [eid : Nat, card : Id, by : STRING \cup {Unset}, kind : LineKind]
    BY <2>1 DEF WellFormed, Lined
  <2>3. \A f \in e.log : Exists(e, f.card) BY <1>2 DEF WellFormed, Lined
  <2>4. \A f \in e.away : f.card \in DOMAIN e.shelf BY <2>1 DEF WellFormed, Lined
  <2>5. \A f, g \in Lines(d) : g.eid = f.eid => g = f BY DEF WellFormed, Lined
  <2>6. \A l \in S : l.eid \in Nat OBVIOUS
  <2>7. \A f \in Lines(e) : f.eid < e.eid BY <1>1, <2>1, <2>6
  <2>8. \A f, g \in Lines(e) : g.eid = f.eid => g = f BY <1>1, <2>1, <2>5, <2>6
  <2> QED BY <2>2, <2>3, <2>4, <2>7, <2>8 DEF Lined
<1>6. Hung(e) BY <1>2 DEF WellFormed, Hung, Only
<1>7. Shelved(e) BY <1>2 DEF WellFormed, Shelved, Only
<1> QED BY <1>3, <1>4, <1>5, <1>6, <1>7, WellFormedParts

\* What no card stands in may change freely.
LEMMA RestKept ==
  ASSUME NEW d, NEW e, WellFormed(d), Only({"blog", "conf", "snap"}, d, e),
         DOMAIN e.conf \subseteq Key \cup {SetupDone}
  PROVE  WellFormed(e)
<1>1. \A j : Exists(e, j) <=> Exists(d, j) BY DEF Exists, Only
<1>2. Tables(e) BY DEF Only
<1>3. Placed(e) BY <1>1 DEF WellFormed, Placed, Only
<1>4. Lined(e) BY <1>1 DEF WellFormed, Lined, Lines, Only
<1>5. Hung(e) BY <1>1 DEF WellFormed, Hung, Only
<1>6. Shelved(e) BY <1>1 DEF WellFormed, Shelved, Only
<1> QED BY <1>2, <1>3, <1>4, <1>5, <1>6, WellFormedParts

LEMMA BoardLogKept ==
  ASSUME NEW d, WellFormed(d), NEW by, NEW kind, NEW text
  PROVE  WellFormed(BoardLogged(d, by, kind, text))
<1>1. Only({"blog"}, d, BoardLogged(d, by, kind, text)) BY BoardLoggedIs, WellFormedTables
<1> DEFINE e == BoardLogged(d, by, kind, text)
<1> HIDE DEF e
<1>2. Only({"blog"}, d, e) BY <1>1 DEF e
<1>3. Only({"blog", "conf", "snap"}, d, e) /\ e.conf = d.conf BY <1>2 DEF Only
<1>4. WellFormed(e) BY <1>3, RestKept DEF WellFormed
<1> QED BY <1>4 DEF e

LEMMA SetConfigKept ==
  ASSUME NEW d, WellFormed(d), NEW key \in Key \cup {SetupDone}, NEW value
  PROVE  WellFormed(SetConfig(d, key, value))
<1> DEFINE x == [k \in (DOMAIN d.conf \cup {key}) \ (IF value = None THEN {key} ELSE {}) |->
                   IF k = key THEN value ELSE d.conf[k]]
           e == [d EXCEPT !.conf = x]
<1>1. SetConfig(d, key, value) = e BY DEF SetConfig
<1>2. DOMAIN x \subseteq Key \cup {SetupDone} BY DEF WellFormed
<1> HIDE DEF x
<1>3. Only({"conf"}, d, e) /\ e.conf = x BY Put_conf, WellFormedTables
<1> HIDE DEF e
<1>4. Only({"blog", "conf", "snap"}, d, e) BY <1>3 DEF Only
<1> QED BY <1>1, <1>2, <1>3, <1>4, RestKept

LEMMA ForgetKept ==
  ASSUME NEW d, WellFormed(d), NEW repo
  PROVE  WellFormed(Forget(d, repo))
<1> DEFINE e == [d EXCEPT !.snap = None]
<1>1. Only({"snap"}, d, e) BY Put_snap, WellFormedTables
<1>2. Forget(d, repo) \in {d, e} BY DEF Forget
<1> HIDE DEF e
<1>3. Only({"blog", "conf", "snap"}, d, e) /\ e.conf = d.conf BY <1>1 DEF Only
<1> QED BY <1>2, <1>3, RestKept DEF WellFormed

\* What hangs on a card that is there may change.
LEMMA HungKept ==
  ASSUME NEW d, NEW e, WellFormed(d), NEW i \in Id, Exists(d, i), NEW x, NEW y,
         Only({"items", "links"}, d, e), e.items \in {d.items, [d.items EXCEPT ![i] = x]},
         e.links \in {d.links, [d.links EXCEPT ![i] = y]}
  PROVE  WellFormed(e)
<1>1. \A j : Exists(e, j) <=> Exists(d, j) BY DEF Exists, Only
<1>2. Tables(e) /\ DOMAIN e.conf \subseteq Key \cup {SetupDone} BY DEF Only, WellFormed
<1>3. Placed(e) BY <1>1 DEF WellFormed, Placed, Only
<1>4. Lined(e) /\ Shelved(e)
  <2>1. Lined(e) BY <1>1 DEF WellFormed, Lined, Lines, Only
  <2>2. Shelved(e) BY <1>1 DEF WellFormed, Shelved, Only
  <2> QED BY <2>1, <2>2
<1>5. d.items = [j \in Id |-> d.items[j]] /\ d.links = [j \in Id |-> d.links[j]] BY DEF WellFormed, Hung
<1>6. e.items = [j \in Id |-> e.items[j]] /\ \A j \in Id \ {i} : e.items[j] = d.items[j] BY <1>5
<1>7. e.links = [j \in Id |-> e.links[j]] /\ \A j \in Id \ {i} : e.links[j] = d.links[j] BY <1>5
<1>8. \A j \in Id : ~Exists(e, j) => j # i /\ d.items[j] = <<>> /\ d.links[j] = <<>>
  BY <1>1 DEF WellFormed, Hung
<1>9. Hung(e) BY <1>6, <1>7, <1>8 DEF Hung
<1> QED BY <1>2, <1>3, <1>4, <1>9, WellFormedParts

-----------------------------------------------------------------------------
(* A column                                                                *)

\* A card taken out of a column's order, put at its end, put at a place of it.
LEMMA MinusIs ==
  ASSUME NEW s \in Seq(Id), NEW i \in Range(s), IsInjective(s)
  PROVE  /\ Minus(s, i) \in Seq(Id) /\ IsInjective(Minus(s, i))
         /\ Range(Minus(s, i)) = Range(s) \ {i} /\ Len(Minus(s, i)) = Len(s) - 1
         /\ Place(s, i) \in 1..Len(s)
<1> DEFINE n == Place(s, i)
           m == Minus(s, i)
           a == SubSeq(s, 1, n - 1)
           b == SubSeq(s, n + 1, Len(s))
<1>1. Place(s, i) \in DOMAIN s /\ s[Place(s, i)] = i BY DEF Place, Range
<1>2. n \in 1..Len(s) /\ Len(s) \in Nat /\ s[n] = i BY <1>1
<1>3. m = a \o b BY DEF Minus, RemoveAt
<1> HIDE DEF n, m
<1>4. \A j \in 1..Len(s) : s[j] \in Id OBVIOUS
<1>5. a \in Seq(Id) /\ Len(a) = n - 1 /\ \A j \in 1..(n - 1) : a[j] = s[j]
  <2>1. n - 1 \in Int /\ \A j \in 1..(n - 1) : s[j] \in Id BY <1>2, <1>4
  <2>2. IF 1 <= n - 1 THEN Len(a) = (n - 1) - 1 + 1 ELSE Len(a) = 0 BY <2>1, SubSeqProperties
  <2>3. a \in Seq(Id) /\ \A j \in 1..(n - 1) : a[j] = s[j] BY <2>1, <1>2, SubSeqProperties
  <2> QED BY <2>2, <2>3, <1>2
<1>6. /\ b \in Seq(Id) /\ Len(b) = Len(s) - n
      /\ \A j \in 1..(Len(s) - n) : b[j] = s[n + j]
  <2>1. n + 1 \in Int /\ \A j \in (n + 1)..Len(s) : s[j] \in Id BY <1>2, <1>4
  <2>2. b \in Seq(Id) /\ Len(b) = Len(s) - n BY <2>1, <1>2, SubSeqProperties
  <2>3. \A j \in 1..(Len(s) - n) : b[j] = s[(n + 1) + j - 1] BY <2>1, <1>2, SubSeqProperties
  <2>4. \A j \in 1..(Len(s) - n) : (n + 1) + j - 1 = n + j BY <1>2
  <2> QED BY <2>2, <2>3, <2>4
<1> HIDE DEF a, b
<1>7. /\ m \in Seq(Id) /\ Len(m) = Len(s) - 1
      /\ \A j \in 1..(Len(s) - 1) : m[j] = IF j < n THEN s[j] ELSE s[j + 1]
  <2>1. m \in Seq(Id) /\ Len(m) = Len(a) + Len(b) BY <1>3, <1>5, <1>6, ConcatProperties
  <2>0. Len(m) = Len(s) - 1 BY <2>1, <1>2, <1>5, <1>6
  <2>2. \A j \in 1..(Len(s) - 1) : m[j] = IF j <= Len(a) THEN a[j] ELSE b[j - Len(a)]
    <3>1. \A j \in 1..(Len(a) + Len(b)) : m[j] = IF j <= Len(a) THEN a[j] ELSE b[j - Len(a)]
      BY <1>3, <1>5, <1>6, ConcatProperties
    <3> QED BY <3>1, <2>0, <2>1
  <2>3. ASSUME NEW j \in 1..(Len(s) - 1) PROVE m[j] = IF j < n THEN s[j] ELSE s[j + 1]
    <3>1. CASE j < n BY <3>1, <2>2, <1>2, <1>5
    <3>2. CASE ~(j < n)
      <4>1. j - Len(a) \in 1..(Len(s) - n) /\ n + (j - Len(a)) = j + 1 BY <3>2, <1>2, <1>5
      <4>2. m[j] = b[j - Len(a)] BY <3>2, <2>2, <1>2, <1>5
      <4> QED BY <3>2, <4>1, <4>2, <1>6
    <3> QED BY <3>1, <3>2
  <2> QED BY <2>0, <2>1, <2>3
<1>8. \A j, k \in 1..Len(s) : s[j] = s[k] => j = k BY DEF IsInjective
<1>9. DOMAIN m = 1..(Len(s) - 1) /\ DOMAIN s = 1..Len(s) BY <1>7
<1>10. IsInjective(m)
  <2>1. ASSUME NEW j \in 1..(Len(s) - 1), NEW k \in 1..(Len(s) - 1), m[j] = m[k] PROVE j = k
    BY <2>1, <1>2, <1>7, <1>8
  <2> QED BY <2>1, <1>9 DEF IsInjective
<1>11. Range(m) = Range(s) \ {i}
  <2>1. ASSUME NEW j \in 1..(Len(s) - 1) PROVE m[j] \in Range(s) \ {i}
    <3>1. PICK k \in 1..Len(s) : m[j] = s[k] /\ k # n BY <1>2, <1>7
    <3> QED BY <3>1, <1>2, <1>8, <1>9 DEF Range
  <2>2. ASSUME NEW x \in Range(s) \ {i} PROVE x \in Range(m)
    <3>1. PICK j \in 1..Len(s) : s[j] = x BY <1>9 DEF Range
    <3>2. j # n BY <3>1, <1>2
    <3>3. CASE j < n
      <4>1. j \in 1..(Len(s) - 1) /\ m[j] = x BY <3>1, <3>3, <1>2, <1>7
      <4> QED BY <4>1, <1>9 DEF Range
    <3>4. CASE j > n
      <4>1. j - 1 \in 1..(Len(s) - 1) /\ m[j - 1] = s[(j - 1) + 1] BY <3>4, <1>2, <1>7
      <4>2. (j - 1) + 1 = j OBVIOUS
      <4> QED BY <4>1, <4>2, <3>1, <1>9 DEF Range
    <3> QED BY <3>2, <3>3, <3>4, <1>2
  <2> QED BY <2>1, <2>2, <1>9 DEF Range
<1> QED BY <1>2, <1>7, <1>10, <1>11 DEF m, n

LEMMA AppendIs ==
  ASSUME NEW s \in Seq(Id), NEW i \in Id, i \notin Range(s), IsInjective(s)
  PROVE  /\ Append(s, i) \in Seq(Id) /\ IsInjective(Append(s, i))
         /\ Range(Append(s, i)) = Range(s) \cup {i}
<1> DEFINE t == Append(s, i)
<1>1. /\ t \in Seq(Id) /\ Len(t) = Len(s) + 1 /\ t[Len(s) + 1] = i
      /\ \A j \in 1..Len(s) : t[j] = s[j]
  BY AppendProperties
<1> HIDE DEF t
<1>2. DOMAIN t = 1..(Len(s) + 1) /\ DOMAIN s = 1..Len(s) /\ Len(s) \in Nat BY <1>1
<1>3. \A j \in 1..Len(s) : s[j] # i BY <1>2 DEF Range
<1>4. \A j, k \in 1..Len(s) : s[j] = s[k] => j = k BY <1>2 DEF IsInjective
<1>5. \A j \in 1..(Len(s) + 1) : j \in 1..Len(s) \/ j = Len(s) + 1 BY <1>2
<1>6. IsInjective(t) BY <1>1, <1>2, <1>3, <1>4, <1>5 DEF IsInjective
<1>7. Range(t) = Range(s) \cup {i}
  <2>1. \A j \in 1..(Len(s) + 1) : t[j] \in Range(s) \cup {i} BY <1>1, <1>2, <1>5 DEF Range
  <2>2. \A j \in 1..Len(s) : s[j] \in Range(t) BY <1>1, <1>2 DEF Range
  <2>3. i \in Range(t) BY <1>1, <1>2 DEF Range
  <2> QED BY <2>1, <2>2, <2>3, <1>2 DEF Range
<1> QED BY <1>1, <1>6, <1>7 DEF t

LEMMA InsertIs ==
  ASSUME NEW s \in Seq(Id), NEW i \in Id, i \notin Range(s), IsInjective(s), NEW n \in 1..(Len(s) + 1)
  PROVE  /\ InsertAt(s, n, i) \in Seq(Id) /\ IsInjective(InsertAt(s, n, i))
         /\ Range(InsertAt(s, n, i)) = Range(s) \cup {i}
<1> DEFINE a == SubSeq(s, 1, n - 1)
           b == SubSeq(s, n, Len(s))
           t == InsertAt(s, n, i)
           one == <<i>>
<1>1. t = (a \o one) \o b BY DEF InsertAt
<1>2. n \in Int /\ n - 1 \in Int /\ Len(s) \in Nat OBVIOUS
<1> HIDE DEF t
<1>3. \A j \in 1..Len(s) : s[j] \in Id OBVIOUS
<1>4. a \in Seq(Id) /\ Len(a) = n - 1 /\ \A j \in 1..(n - 1) : a[j] = s[j]
  <2>1. \A j \in 1..(n - 1) : s[j] \in Id BY <1>3, <1>2
  <2>2. Len(a) = IF 1 <= n - 1 THEN (n - 1) - 1 + 1 ELSE 0 BY <2>1, <1>2, SubSeqProperties
  <2>3. a \in Seq(Id) /\ \A j \in 1..((n - 1) - 1 + 1) : a[j] = s[1 + j - 1] BY <2>1, <1>2, SubSeqProperties
  <2>4. \A j \in 1..(n - 1) : 1 + j - 1 = j OBVIOUS
  <2> QED BY <2>2, <2>3, <2>4, <1>2
<1>5. /\ b \in Seq(Id) /\ Len(b) = (Len(s) - n) + 1
      /\ \A j \in 1..((Len(s) - n) + 1) : b[j] = s[n + j - 1]
  <2>1. \A j \in n..Len(s) : s[j] \in Id BY <1>2, <1>3
  <2>2. b \in Seq(Id) /\ Len(b) = IF n <= Len(s) THEN Len(s) - n + 1 ELSE 0
    BY <2>1, <1>2, SubSeqProperties
  <2>3. \A j \in 1..(Len(s) - n + 1) : b[j] = s[n + j - 1] BY <2>1, <1>2, SubSeqProperties
  <2> QED BY <2>2, <2>3, <1>2
<1> HIDE DEF a, b
<1>6. one \in Seq(Id) /\ Len(one) = 1 /\ one[1] = i OBVIOUS
<1> HIDE DEF one
<1>7. /\ a \o one \in Seq(Id) /\ Len(a \o one) = n
      /\ \A j \in 1..n : (a \o one)[j] = IF j <= n - 1 THEN a[j] ELSE one[j - (n - 1)]
  <2>1. /\ a \o one \in Seq(Id) /\ Len(a \o one) = Len(a) + Len(one)
        /\ \A j \in 1..(Len(a) + Len(one)) :
             (a \o one)[j] = IF j <= Len(a) THEN a[j] ELSE one[j - Len(a)]
    BY <1>4, <1>6, ConcatProperties
  <2> QED BY <2>1, <1>2, <1>4, <1>6
<1>8. /\ t \in Seq(Id) /\ Len(t) = Len(s) + 1
      /\ \A j \in 1..(Len(s) + 1) : t[j] = IF j <= n THEN (a \o one)[j] ELSE b[j - n]
  <2>1. /\ t \in Seq(Id) /\ Len(t) = Len(a \o one) + Len(b)
        /\ \A j \in 1..(Len(a \o one) + Len(b)) :
             t[j] = IF j <= Len(a \o one) THEN (a \o one)[j] ELSE b[j - Len(a \o one)]
    BY <1>1, <1>5, <1>7, ConcatProperties
  <2>2. Len(a \o one) + Len(b) = Len(s) + 1 BY <1>2, <1>5, <1>7
  <2> QED BY <2>1, <2>2, <1>7
<1>9. \A j \in 1..(Len(s) + 1) : t[j] = IF j < n THEN s[j] ELSE IF j = n THEN i ELSE s[j - 1]
  <2>1. ASSUME NEW j \in 1..(Len(s) + 1), j < n PROVE t[j] = s[j]
    <3>1. j \in 1..n /\ j <= n /\ j <= n - 1 /\ j \in 1..(n - 1) BY <2>1, <1>2
    <3>2. t[j] = (a \o one)[j] BY <3>1, <1>8
    <3>3. (a \o one)[j] = a[j] BY <3>1, <1>7
    <3> QED BY <3>1, <3>2, <3>3, <1>4
  <2>2. t[n] = i
    <3>1. n - (n - 1) = 1 BY <1>2
    <3>2. n \in 1..(Len(s) + 1) /\ n \in 1..n /\ n <= n /\ ~(n <= n - 1) BY <1>2
    <3>3. t[n] = (a \o one)[n] BY <3>2, <1>8
    <3>4. (a \o one)[n] = one[n - (n - 1)] BY <3>2, <1>7
    <3> QED BY <3>1, <3>3, <3>4, <1>6
  <2>3. ASSUME NEW j \in 1..(Len(s) + 1), j > n PROVE t[j] = s[j - 1]
    <3>1. j - n \in 1..((Len(s) - n) + 1) /\ n + (j - n) - 1 = j - 1 BY <2>3, <1>2
    <3>2. t[j] = b[j - n] BY <2>3, <1>2, <1>8
    <3> QED BY <3>1, <3>2, <1>5
  <2> QED BY <2>1, <2>2, <2>3, <1>2
<1>10. DOMAIN t = 1..(Len(s) + 1) /\ DOMAIN s = 1..Len(s) BY <1>8
<1>11. \A j, k \in 1..Len(s) : s[j] = s[k] => j = k BY <1>10 DEF IsInjective
<1>12. \A j \in 1..Len(s) : s[j] # i BY <1>10 DEF Range
<1>13. IsInjective(t)
  <2> SUFFICES ASSUME NEW j \in 1..(Len(s) + 1), NEW k \in 1..(Len(s) + 1), t[j] = t[k] PROVE j = k
    BY <1>10 DEF IsInjective
  <2>0. t[j] = t[k] /\ \A x \in Int : x > n => ~(x < n) /\ x # n BY <1>2
  <2>1. /\ t[j] = IF j < n THEN s[j] ELSE IF j = n THEN i ELSE s[j - 1]
        /\ t[k] = IF k < n THEN s[k] ELSE IF k = n THEN i ELSE s[k - 1] BY <1>9
  <2>2. j < n \/ j = n \/ (j > n /\ j - 1 \in 1..Len(s)) BY <1>2
  <2>3. k < n \/ k = n \/ (k > n /\ k - 1 \in 1..Len(s)) BY <1>2
  <2>4. (j < n => j \in 1..Len(s)) /\ (k < n => k \in 1..Len(s)) BY <1>2
  <2>5. ASSUME j = n, k # n PROVE FALSE
    <3>1. t[j] = i BY <2>1, <2>5
    <3>2. CASE k < n BY <3>1, <3>2, <2>0, <2>1, <2>4, <1>12
    <3>3. CASE k > n BY <3>1, <3>3, <2>0, <2>1, <2>3, <2>5, <1>12
    <3> QED BY <3>2, <3>3, <2>3, <2>5
  <2>6. ASSUME k = n, j # n PROVE FALSE
    <3>1. t[k] = i
      <4>1. k = n /\ ~(k < n) BY <2>6, <1>2
      <4> QED BY <4>1, <1>9
    <3>2. CASE j < n BY <3>1, <3>2, <2>0, <2>1, <2>4, <1>12
    <3>3. CASE j > n BY <3>1, <3>3, <2>0, <2>1, <2>2, <2>6, <1>12
    <3> QED BY <3>2, <3>3, <2>2, <2>6
  <2>7. CASE j # n /\ k # n
    <3> DEFINE x == IF j < n THEN j ELSE j - 1
               y == IF k < n THEN k ELSE k - 1
    <3>1. x \in 1..Len(s) /\ y \in 1..Len(s) /\ s[x] = s[y] BY <2>1, <2>2, <2>3, <2>4, <2>7, <1>2
    <3>2. x = y BY <3>1, <1>11
    <3> QED BY <3>2, <2>7, <1>2
  <2> QED BY <2>5, <2>6, <2>7
<1>14. Range(t) = Range(s) \cup {i}
  <2>1. ASSUME NEW j \in 1..(Len(s) + 1) PROVE t[j] \in Range(s) \cup {i}
    <3>1. t[j] = i \/ \E k \in 1..Len(s) : t[j] = s[k]
      <4>1. CASE j < n BY <4>1, <1>2, <1>9
      <4>2. CASE j = n BY <4>2, <1>9
      <4>3. CASE j > n
        <5>1. j - 1 \in 1..Len(s) /\ t[j] = s[j - 1] BY <4>3, <1>2, <1>9
        <5> QED BY <5>1
      <4> QED BY <4>1, <4>2, <4>3, <1>2
    <3> QED BY <3>1, <1>10 DEF Range
  <2>2. ASSUME NEW x \in Range(s) \cup {i} PROVE x \in Range(t)
    <3>1. CASE x = i BY <3>1, <1>9, <1>10 DEF Range
    <3>2. CASE x # i
      <4>1. PICK j \in 1..Len(s) : s[j] = x BY <3>2, <1>10 DEF Range
      <4>2. CASE j < n
        <5>1. j \in 1..(Len(s) + 1) /\ t[j] = x BY <4>1, <4>2, <1>2, <1>9
        <5> QED BY <5>1, <1>10 DEF Range
      <4>3. CASE j >= n
        <5>1. j + 1 \in 1..(Len(s) + 1) /\ (j + 1) - 1 = j /\ ~(j + 1 < n) /\ j + 1 # n BY <4>3, <1>2
        <5>2. t[j + 1] = s[(j + 1) - 1] BY <5>1, <1>9
        <5> QED BY <5>1, <5>2, <4>1, <1>10 DEF Range
      <4> QED BY <4>2, <4>3, <1>2
    <3> QED BY <3>1, <3>2
  <2> QED BY <2>1, <2>2, <1>10 DEF Range
<1> QED BY <1>8, <1>13, <1>14 DEF t

\* A column may be put in another order.
LEMMA OrderKept ==
  ASSUME NEW d, WellFormed(d), NEW k \in Column, NEW t \in Seq(Id), IsInjective(t),
         Range(t) = Range(d.order[k])
  PROVE  WellFormed([d EXCEPT !.order[k] = t])
<1> DEFINE os == [d.order EXCEPT ![k] = t]
           e == [d EXCEPT !.order = os]
<1>1. [d EXCEPT !.order[k] = t] = e OBVIOUS
<1>2. d.order \in [Column -> Seq(Id)] BY DEF WellFormed, Placed
<1>3. os \in [Column -> Seq(Id)] /\ \A c \in Column : os[c] = IF c = k THEN t ELSE d.order[c] BY <1>2
<1> HIDE DEF os
<1>4. Only({"order"}, d, e) /\ e.order = os BY WellFormedTables, Put_order
<1> HIDE DEF e
<1>5. \A c \in Column : Range(e.order[c]) = Range(d.order[c]) BY <1>3, <1>4
<1>6. \A j : Exists(e, j) <=> Exists(d, j) BY <1>4 DEF Exists, Only
<1>7. Placed(e)
  <2>1. e.card = d.card /\ e.next = d.next BY <1>4 DEF Only
  <2>2. \A c \in Column : IsInjective(e.order[c]) BY <1>3, <1>4 DEF WellFormed, Placed
  <2>3. \A i \in Id : e.card[i] # None =>
          i < e.next /\ e.card[i].col \in Column /\ i \in Range(d.order[e.card[i].col])
    BY <2>1, RowsAssumption DEF WellFormed, Placed, CardRow
  <2>4. \A c \in Column : \A i \in Range(d.order[c]) : Exists(d, i) /\ d.card[i].col = c
    BY DEF WellFormed, Placed
  <2> QED BY <1>3, <1>4, <1>5, <1>6, <2>1, <2>2, <2>3, <2>4 DEF WellFormed, Placed
<1>8. Tables(e) /\ DOMAIN e.conf \subseteq Key \cup {SetupDone} BY <1>4 DEF Only, WellFormed
<1>9. Lined(e) BY <1>4, <1>6 DEF WellFormed, Lined, Lines, Only
<1>10. Hung(e) BY <1>4, <1>6 DEF WellFormed, Hung, Only
<1>11. Shelved(e) BY <1>4, <1>6 DEF WellFormed, Shelved, Only
<1> QED BY <1>1, <1>7, <1>8, <1>9, <1>10, <1>11, WellFormedParts

\* Where a card is.
LEMMA InItsColumn ==
  ASSUME NEW d, WellFormed(d), NEW i, Exists(d, i)
  PROVE  /\ i \in Id /\ d.card[i] \in CardRow /\ d.card[i].col \in Column /\ i < d.next
         /\ d.order[d.card[i].col] \in Seq(Id) /\ IsInjective(d.order[d.card[i].col])
         /\ i \in Range(d.order[d.card[i].col])
<1>1. i \in Id /\ d.card[i] \in CardRow BY DEF Exists, WellFormed, Placed
<1>2. d.card[i].col \in Column BY <1>1 DEF CardRow
<1> QED BY <1>1, <1>2 DEF Exists, WellFormed, Placed

LEMMA ReorderedKept ==
  ASSUME NEW d, WellFormed(d), NEW i, Exists(d, i), NEW by \in STRING \cup {Unset}, NEW how
  PROVE  /\ WellFormed(Reordered(d, i, by, how)) /\ Wrote(d, Reordered(d, i, by, how), i, by)
         /\ Unmoved(d, Reordered(d, i, by, how))
<1> DEFINE k == d.card[i].col
           s == d.order[k]
           to == Target(s, i, how)
           t == InsertAt(Minus(s, i), to, i)
           e == [d EXCEPT !.order[k] = t]
<1>1. i \in Id /\ k \in Column /\ s \in Seq(Id) /\ IsInjective(s) /\ i \in Range(s) BY InItsColumn
<1>2. Reordered(d, i, by, how) \in {d, Logged(e, i, by, "prio")} BY DEF Reordered
<1> HIDE DEF k
<1>3. /\ Minus(s, i) \in Seq(Id) /\ IsInjective(Minus(s, i)) /\ Range(Minus(s, i)) = Range(s) \ {i}
      /\ Len(Minus(s, i)) = Len(s) - 1 /\ Place(s, i) \in 1..Len(s)
  BY <1>1, MinusIs
<1>4. to \in 1..Len(s) BY <1>1, <1>3 DEF Target
<1> HIDE DEF to
<1>5. t \in Seq(Id) /\ IsInjective(t) /\ Range(t) = Range(s)
  <2>1. to \in 1..(Len(Minus(s, i)) + 1) /\ i \notin Range(Minus(s, i)) BY <1>1, <1>3, <1>4
  <2>2. t \in Seq(Id) /\ IsInjective(t) /\ Range(t) = Range(Minus(s, i)) \cup {i}
    BY <1>1, <1>3, <2>1, InsertIs
  <2> QED BY <2>2, <1>1, <1>3
<1> HIDE DEF t
<1>6. WellFormed(e) BY <1>1, <1>5, OrderKept
<1>7. Only({"order"}, d, e)
  <2> DEFINE os == [d.order EXCEPT ![k] = t]
  <2>1. e = [d EXCEPT !.order = os] OBVIOUS
  <2> HIDE DEF os
  <2> QED BY <2>1, WellFormedTables, Put_order
<1> HIDE DEF e
<1>8. Exists(e, i) BY <1>7 DEF Exists, Only
<1>9. WellFormed(Logged(e, i, by, "prio")) BY <1>6, <1>8, LogKept DEF LineKind
<1>10. Wrote(d, e, i, by) BY <1>7 DEF Wrote, Only, Lines, WellFormed, Lined
<1>11. Wrote(d, Logged(e, i, by, "prio"), i, by) BY <1>6, <1>10, WroteLine, WroteAgain
<1>12. Unmoved(d, e) BY <1>7 DEF Unmoved, Only, Exists
<1>13. Unmoved(d, Logged(e, i, by, "prio")) BY <1>6, <1>12, WroteLine, UnmovedAgain
<1> QED BY <1>2, <1>9, <1>11, <1>13, Unwritten

LEMMA BlockedKept ==
  ASSUME NEW d, WellFormed(d), NEW i, Exists(d, i), NEW by \in STRING \cup {Unset}, NEW block \in Said
  PROVE  /\ WellFormed(Blocked(d, i, by, block)) /\ Wrote(d, Blocked(d, i, by, block), i, by)
         /\ Unmoved(d, Blocked(d, i, by, block))
<1> DEFINE r == [d.card[i] EXCEPT !.block = block, !.on = None]
           e == [d EXCEPT !.card[i] = r]
<1>1. i \in Id /\ d.card[i] \in CardRow BY InItsColumn
<1>2. r \in CardRow /\ r.col = d.card[i].col /\ r.owner = d.card[i].owner BY <1>1 DEF CardRow
<1>3. Blocked(d, i, by, block) = Logged(e, i, by, IF block = None THEN "unblocked" ELSE "blocked")
  BY DEF Blocked
<1>4. WellFormed(e) BY <1>1, <1>2, RowKept
<1>5. Wrote(d, e, i, by) /\ Unmoved(d, e) BY <1>1, <1>2, WroteRow, UnmovedRow
<1> HIDE DEF e
<1>6. Exists(e, i) BY <1>5 DEF Unmoved
<1>7. \A kind \in LineKind : WellFormed(Logged(e, i, by, kind)) BY <1>4, <1>6, LogKept
<1>8. \A kind \in LineKind : Wrote(d, Logged(e, i, by, kind), i, by) BY <1>4, <1>5, WroteLine, WroteAgain
<1>9. \A kind \in LineKind \ {"created"} : Unmoved(d, Logged(e, i, by, kind)) BY <1>4, <1>5, WroteLine, UnmovedAgain
<1> QED BY <1>3, <1>7, <1>8, <1>9 DEF LineKind

LEMMA SetDueKept ==
  ASSUME NEW d, WellFormed(d), NEW i, Exists(d, i), NEW by \in STRING \cup {Unset}, NEW due \in Said
  PROVE  /\ WellFormed(SetDue(d, i, by, due)) /\ Wrote(d, SetDue(d, i, by, due), i, by)
         /\ Unmoved(d, SetDue(d, i, by, due))
<1> DEFINE r == [d.card[i] EXCEPT !.due = due]
           e == [d EXCEPT !.card[i] = r]
<1>1. i \in Id /\ d.card[i] \in CardRow BY InItsColumn
<1>2. r \in CardRow /\ r.col = d.card[i].col /\ r.owner = d.card[i].owner BY <1>1 DEF CardRow
<1>3. SetDue(d, i, by, due) \in {d, Logged(e, i, by, "due")} BY DEF SetDue
<1>4. WellFormed(e) BY <1>1, <1>2, RowKept
<1>5. Wrote(d, e, i, by) /\ Unmoved(d, e) BY <1>1, <1>2, WroteRow, UnmovedRow
<1> HIDE DEF e
<1>6. Exists(e, i) BY <1>5 DEF Unmoved
<1>7. WellFormed(Logged(e, i, by, "due")) BY <1>4, <1>6, LogKept DEF LineKind
<1>8. Wrote(d, Logged(e, i, by, "due"), i, by) BY <1>4, <1>5, WroteLine, WroteAgain
<1>9. Unmoved(d, Logged(e, i, by, "due"))  BY <1>4, <1>5, WroteLine, UnmovedAgain
<1> QED BY <1>3, <1>7, <1>8, <1>9, Unwritten

LEMMA EditedKept ==
  ASSUME NEW d, WellFormed(d), NEW i, Exists(d, i), NEW by \in STRING \cup {Unset}, NEW base,
         NEW title \in Said, NEW desc \in Said
  PROVE  /\ WellFormed(Edited(d, i, by, base, title, desc))
         /\ Wrote(d, Edited(d, i, by, base, title, desc), i, by)
         /\ Unmoved(d, Edited(d, i, by, base, title, desc))
<1> DEFINE r == [d.card[i] EXCEPT !.title = IF Writes(base, "title", title) THEN title ELSE @]
           f == [d EXCEPT !.card[i] = r]
           q == [f.card[i] EXCEPT !.desc = IF Writes(base, "desc", desc) THEN desc ELSE @]
           e == [f EXCEPT !.card[i] = q]
<1>1. i \in Id /\ d.card[i] \in CardRow BY InItsColumn
<1>2. r \in CardRow /\ r.col = d.card[i].col /\ r.owner = d.card[i].owner BY <1>1 DEF CardRow
<1>3. Edited(d, i, by, base, title, desc) = Logged(e, i, by, "edit") BY DEF Edited
<1> HIDE DEF r
<1>4. WellFormed(f) BY <1>1, <1>2, RowKept
<1>5. f.card[i] = r BY <1>1 DEF WellFormed, Placed
<1>6. Wrote(d, f, i, by) /\ Unmoved(d, f) BY <1>1, <1>2, WroteRow, UnmovedRow
<1> HIDE DEF f
<1>7. Exists(f, i) BY <1>6 DEF Unmoved
<1>8. q \in CardRow /\ q.col = f.card[i].col /\ q.owner = f.card[i].owner BY <1>2, <1>5 DEF CardRow
<1> HIDE DEF q
<1>9. WellFormed(e) BY <1>1, <1>4, <1>7, <1>8, RowKept
<1>10. Wrote(d, e, i, by) /\ Unmoved(d, e) BY <1>4, <1>6, <1>7, <1>8, WroteRow, UnmovedRow, WroteAgain, UnmovedAgain
<1> HIDE DEF e
<1>11. Exists(e, i) BY <1>10 DEF Unmoved
<1>12. WellFormed(Logged(e, i, by, "edit")) BY <1>9, <1>11, LogKept DEF LineKind
<1>13. /\ Wrote(d, Logged(e, i, by, "edit"), i, by)
       /\ Unmoved(d, Logged(e, i, by, "edit")) BY <1>9, <1>10, WroteLine, WroteAgain, UnmovedAgain
<1> QED BY <1>3, <1>12, <1>13

LEMMA ShiftedKept ==
  ASSUME NEW d, WellFormed(d), NEW i, Exists(d, i), NEW by \in STRING \cup {Unset}, NEW k \in Column,
         NEW owner \in STRING \cup {None}, d.card[i].col # k
  PROVE  LET s == Shifted(d, i, by, k, owner)
         IN WellFormed(s) /\ Wrote(d, s, i, by) /\ Grows(d, s) /\ Exists(s, i) /\ s.card[i].col = k
<1> DEFINE r == d.card[i]
           j == r.col
           bl == IF k = "done" THEN None ELSE r.block
           q == [r EXCEPT !.col = k, !.owner = owner, !.block = bl,
                          !.returned = @ \/ (r.col = "review" /\ k = "doing")]
           cs == [d.card EXCEPT ![i] = q]
           f == [d EXCEPT !.card = cs]
           os == [f.order EXCEPT ![j] = Minus(f.order[j], i)]
           g == [f EXCEPT !.order = os]
           ot == [g.order EXCEPT ![k] = Append(g.order[k], i)]
           e == [g EXCEPT !.order = ot]
<1>1. /\ i \in Id /\ r \in CardRow /\ j \in Column /\ i < d.next /\ d.order[j] \in Seq(Id)
      /\ IsInjective(d.order[j]) /\ i \in Range(d.order[j])
  BY InItsColumn
<1> DEFINE mv == Under(d, i, k, q)
           u == IF k = "done" /\ r.block # None THEN Logged(mv, i, by, "unblocked") ELSE mv
           z == Logged(u, i, by, "moved")
<1>a. Shifted(d, i, by, k, owner) = z BY DEF Shifted
<1> HIDE DEF q
<1>b. mv = e BY DEF Under
<1> HIDE DEF mv
<1>2. j # k OBVIOUS
<1>3. q \in CardRow /\ q.col = k
  <2>1. bl \in Said BY <1>1 DEF CardRow, Said
  <2> HIDE DEF bl
  <2> QED BY <1>1, <2>1 DEF CardRow, q
<1> HIDE DEF j
<1>4. d.card \in [Id -> CardRow \cup {None}] /\ d.order \in [Column -> Seq(Id)] BY DEF WellFormed, Placed
<1>5. cs \in [Id -> CardRow \cup {None}] /\ \A c \in Id : cs[c] = IF c = i THEN q ELSE d.card[c] BY <1>1, <1>3, <1>4
<1> HIDE DEF cs
<1>6. Only({"card"}, d, f) /\ f.card = cs BY WellFormedTables, Put_card
<1> HIDE DEF f
<1>7. f.order = d.order BY <1>6 DEF Only
<1>8. /\ Minus(d.order[j], i) \in Seq(Id) /\ IsInjective(Minus(d.order[j], i))
      /\ Range(Minus(d.order[j], i)) = Range(d.order[j]) \ {i}
  BY <1>1, MinusIs
<1>9. os \in [Column -> Seq(Id)] /\ \A c \in Column : os[c] = IF c = j THEN Minus(d.order[j], i) ELSE d.order[c]
  BY <1>1, <1>4, <1>7, <1>8
<1> HIDE DEF os
<1>10. Only({"order"}, f, g) /\ g.order = os BY <1>6, OnlyTables, Put_order
<1> HIDE DEF g
<1>11. \A c \in Column : IsInjective(d.order[c]) /\ \A x \in Range(d.order[c]) : Exists(d, x) /\ d.card[x].col = c
  BY DEF WellFormed, Placed
<1>12. i \notin Range(d.order[k]) BY <1>11 DEF j
<1>13. /\ Append(d.order[k], i) \in Seq(Id) /\ IsInjective(Append(d.order[k], i))
       /\ Range(Append(d.order[k], i)) = Range(d.order[k]) \cup {i}
  BY <1>1, <1>4, <1>11, <1>12, AppendIs
<1>14. ot \in [Column -> Seq(Id)] /\ \A c \in Column :
         ot[c] = IF c = k THEN Append(d.order[k], i) ELSE IF c = j THEN Minus(d.order[j], i) ELSE d.order[c]
  BY <1>1, <1>2, <1>4, <1>9, <1>10, <1>13
<1> HIDE DEF ot
<1>15. Only({"order"}, g, e) /\ e.order = ot BY <1>10, OnlyTables, Put_order
<1> HIDE DEF e
<1>16. Only({"card", "order"}, d, e) /\ e.card = cs
  BY <1>6, <1>10, <1>15 DEF Only
<1>17. \A x : Exists(e, x) <=> Exists(d, x) BY <1>1, <1>3, <1>5, <1>16, RowsAssumption DEF Exists
<1>18. \A c \in Column : /\ IsInjective(e.order[c])
                         /\ Range(e.order[c]) = IF c = k THEN Range(d.order[k]) \cup {i}
                                                ELSE IF c = j THEN Range(d.order[j]) \ {i} ELSE Range(d.order[c])
  BY <1>8, <1>11, <1>13, <1>14, <1>15
<1>19. Placed(e)
  <2>1. e.next = d.next /\ e.next \in Nat \ {0} BY <1>16 DEF Only, WellFormed, Placed
  <2>2. ASSUME NEW x \in Id, e.card[x] # None PROVE x < e.next /\ x \in Range(e.order[e.card[x].col])
    <3>1. CASE x = i BY <3>1, <1>1, <1>3, <1>5, <1>16, <1>18, <2>1
    <3>2. CASE x # i
      <4>1. e.card[x] = d.card[x] BY <3>2, <1>5, <1>16
      <4>2. Exists(d, x) BY <4>1, <2>2 DEF Exists
      <4>3. x < d.next /\ d.card[x].col \in Column /\ x \in Range(d.order[d.card[x].col]) BY <4>2, InItsColumn
      <4> QED BY <3>2, <4>1, <4>3, <2>1, <1>18
    <3> QED BY <3>1, <3>2
  <2>3. ASSUME NEW c \in Column, NEW x \in Range(e.order[c]) PROVE Exists(e, x) /\ e.card[x].col = c
    <3>1. CASE x = i BY <3>1, <1>1, <1>3, <1>5, <1>11, <1>16, <1>17, <1>18 DEF j
    <3>2. CASE x # i
      <4>1. x \in Range(d.order[c]) BY <3>2, <1>18
      <4>2. Exists(d, x) /\ d.card[x].col = c BY <4>1, <1>11
      <4> QED BY <3>2, <4>2, <1>5, <1>16, <1>17 DEF Exists
    <3> QED BY <3>1, <3>2
  <2> QED BY <1>5, <1>14, <1>15, <1>16, <1>18, <2>1, <2>2, <2>3 DEF Placed
<1>20. Tables(e) /\ DOMAIN e.conf \subseteq Key \cup {SetupDone} BY <1>16 DEF Only, WellFormed
<1>21. Lined(e) BY <1>16, <1>17 DEF WellFormed, Lined, Lines, Only
<1>22. Hung(e) BY <1>16, <1>17 DEF WellFormed, Hung, Only
<1>23. Shelved(e) BY <1>16, <1>17 DEF WellFormed, Shelved, Only
<1>24. WellFormed(e) /\ Exists(e, i) BY <1>17, <1>19, <1>20, <1>21, <1>22, <1>23, WellFormedParts
<1>25. Wrote(d, e, i, by) BY <1>5, <1>16 DEF Wrote, Only, Lines, WellFormed, Lined
<1>26. Grows(d, e)
  <2>1. /\ e.next = d.next /\ e.eid = d.eid /\ e.log = d.log /\ e.away = d.away /\ e.shelf = d.shelf
        /\ d.next \in Nat /\ d.eid \in Nat
    BY <1>16 DEF Only, WellFormed, Placed, Lined
  <2> QED BY <1>17, <2>1 DEF Grows, Has, Lines
<1>27. WellFormed(u) /\ Wrote(e, u, i, by) /\ Unmoved(e, u)
  <2>1. WellFormed(Logged(e, i, by, "unblocked")) BY <1>24, LogKept DEF LineKind
  <2>2. Wrote(e, Logged(e, i, by, "unblocked"), i, by) /\ Unmoved(e, Logged(e, i, by, "unblocked"))
    BY <1>24, WroteLine
  <2> QED BY <1>b, <1>24, <2>1, <2>2, Unwritten
<1>28. Exists(u, i) /\ u.card = e.card
  <2>1. Logged(e, i, by, "unblocked").card = e.card BY <1>20, LoggedIs DEF Only
  <2> QED BY <1>b, <1>24, <2>1 DEF Exists
<1> HIDE DEF u
<1>29. WellFormed(z) BY <1>27, <1>28, LogKept DEF LineKind
<1>30. Wrote(u, z, i, by) /\ Unmoved(u, z) BY <1>27, WroteLine
<1>31. Exists(z, i) /\ z.card[i].col = k
  <2>1. z.card = u.card BY <1>27, WellFormedTables, LoggedIs DEF Only
  <2> QED BY <2>1, <1>1, <1>3, <1>5, <1>16, <1>28 DEF Exists
<1> HIDE DEF z
<1>32. Wrote(e, z, i, by) /\ Unmoved(e, z) BY <1>27, <1>30, WroteAgain, UnmovedAgain
<1>33. Wrote(d, z, i, by) BY <1>25, <1>32, WroteAgain
<1>34. Grows(d, z) BY <1>24, <1>26, <1>29, <1>32, UnmovedGrows, GrowsAgain
<1> QED BY <1>a, <1>29, <1>31, <1>33, <1>34 DEF z

\* From d to e the cards that waited for card i were let go, with lines under the name by.
Frees(d, e, i, by) ==
  /\ e.items = d.items /\ e.links = d.links /\ e.conf = d.conf /\ d.eid <= e.eid
  /\ \A j \in Id : \/ e.card[j] = d.card[j]
                   \/ /\ Exists(d, j) /\ d.card[j].on = i
                      /\ e.card[j] = [d.card[j] EXCEPT !.block = None, !.on = None]
  /\ \A l \in Lines(e) : l \in Lines(d) \/ (l.eid \in Nat /\ l.eid >= d.eid /\ l.by = by)

LEMMA OnDoneKept ==
  ASSUME NEW d, WellFormed(d), NEW i, NEW by \in STRING \cup {Unset}
  PROVE  /\ WellFormed(OnDone(d, i, by)) /\ Grows(d, OnDone(d, i, by)) /\ Frees(d, OnDone(d, i, by), i, by)
<1> DEFINE W == WaitingOn(d, i)
           B(w) == {v \in W : v < w}
           line(w) == [eid |-> d.eid + Cardinality(B(w)), card |-> w, by |-> by, kind |-> "unblocked"]
           S == {line(w) : w \in W}
           cs == [j \in Id |-> IF j \in W THEN [d.card[j] EXCEPT !.block = None, !.on = None] ELSE d.card[j]]
           f == [d EXCEPT !.card = cs]
           lg == f.log \cup S
           g == [f EXCEPT !.log = lg]
           n == g.eid + Cardinality(W)
           e == [g EXCEPT !.eid = n]
<1>1. OnDone(d, i, by) = e BY DEF OnDone
<1>2. W \subseteq Id /\ IsFiniteSet(W) /\ Cardinality(W) \in Nat
  <2>1. W \subseteq 1..MaxId /\ W \subseteq Id BY DEF WaitingOn, Id
  <2>2. IsFiniteSet(1..MaxId) BY RowsAssumption, FS_Interval
  <2> QED BY <2>1, <2>2, FS_Subset, FS_CardinalityType
<1>3. \A w \in W : Exists(d, w) /\ d.card[w].on = i /\ w \in Int BY DEF WaitingOn, Id
<1> HIDE DEF W
<1>4. \A w \in W : IsFiniteSet(B(w)) /\ Cardinality(B(w)) \in Nat /\ Cardinality(B(w)) < Cardinality(W)
  <2> SUFFICES ASSUME NEW w \in W
               PROVE  IsFiniteSet(B(w)) /\ Cardinality(B(w)) \in Nat /\ Cardinality(B(w)) < Cardinality(W)
    OBVIOUS
  <2>1. B(w) \subseteq W /\ w \notin B(w) BY <1>3
  <2>2. IsFiniteSet(B(w)) /\ Cardinality(B(w)) \in Nat /\ Cardinality(B(w)) <= Cardinality(W)
        /\ (Cardinality(W) = Cardinality(B(w)) => W = B(w))
    BY <1>2, <2>1, FS_Subset, FS_CardinalityType
  <2> QED BY <1>2, <2>1, <2>2
<1>5. \A v, w \in W : v < w => Cardinality(B(v)) < Cardinality(B(w))
  <2> SUFFICES ASSUME NEW v \in W, NEW w \in W, v < w PROVE Cardinality(B(v)) < Cardinality(B(w)) OBVIOUS
  <2>1. B(v) \subseteq B(w) /\ v \in B(w) /\ v \notin B(v) BY <1>3
  <2>2. Cardinality(B(v)) <= Cardinality(B(w)) /\ (Cardinality(B(w)) = Cardinality(B(v)) => B(w) = B(v))
    BY <1>4, <2>1, FS_Subset
  <2> QED BY <1>4, <2>1, <2>2
<1> HIDE DEF B
<1>6. d.card \in [Id -> CardRow \cup {None}] /\ d.eid \in Nat BY DEF WellFormed, Placed, Lined
<1>7. \A j \in Id : cs[j] = IF j \in W THEN [d.card[j] EXCEPT !.block = None, !.on = None] ELSE d.card[j] OBVIOUS
<1>8. \A j \in W : /\ d.card[j] \in CardRow /\ cs[j] \in CardRow /\ cs[j].col = d.card[j].col
                   /\ cs[j].owner = d.card[j].owner
  <2> SUFFICES ASSUME NEW j \in W
               PROVE  /\ d.card[j] \in CardRow /\ cs[j] \in CardRow /\ cs[j].col = d.card[j].col
                      /\ cs[j].owner = d.card[j].owner
    OBVIOUS
  <2>1. d.card[j] \in CardRow /\ j \in Id BY <1>2, <1>3, <1>6 DEF Exists
  <2>2. cs[j] = [d.card[j] EXCEPT !.block = None, !.on = None] BY <1>7, <2>1
  <2> HIDE DEF cs
  <2> QED BY <2>1, <2>2 DEF CardRow, Said
<1>9. cs \in [Id -> CardRow \cup {None}] BY <1>6, <1>7, <1>8
<1> HIDE DEF cs
<1>10. Only({"card"}, d, f) /\ f.card = cs BY WellFormedTables, Put_card
<1> HIDE DEF f
<1>11. Standing(d, f)
  <2>1. None \notin CardRow BY RowsAssumption
  <2> QED BY <1>2, <1>3, <1>7, <1>8, <1>9, <1>10, <2>1 DEF Standing, Exists
<1>12. WellFormed(f) BY <1>10, <1>11, StandingKept
<1> HIDE DEF lg
<1>13. Only({"log"}, f, g) /\ g.log = lg BY <1>10, OnlyTables, Put_log
<1> HIDE DEF g, n
<1>14. Only({"eid"}, g, e) /\ e.eid = n BY <1>13, OnlyTables, Put_eid
<1> HIDE DEF e
<1>15. Only({"log", "eid"}, f, e) /\ e.log = f.log \cup S BY <1>13, <1>14 DEF Only, lg
<1>16. f.eid = d.eid /\ f.log = d.log /\ e.eid = d.eid + Cardinality(W) BY <1>10, <1>13, <1>14 DEF Only, n
<1>17. \A w \in W : /\ line(w).eid = d.eid + Cardinality(B(w)) /\ line(w).card = w /\ line(w).by = by
                    /\ line(w) \in [eid : Nat, card : Id, by : STRING \cup {Unset}, kind : LineKind]
  <2> SUFFICES ASSUME NEW w \in W
               PROVE  line(w) \in [eid : Nat, card : Id, by : STRING \cup {Unset}, kind : LineKind]
    OBVIOUS
  <2>1. d.eid + Cardinality(B(w)) \in Nat /\ w \in Id BY <1>2, <1>4, <1>6
  <2> QED BY <2>1 DEF LineKind
<1>18. \A v, w \in W : line(v).eid = line(w).eid => v = w
  <2> SUFFICES ASSUME NEW v \in W, NEW w \in W, line(v).eid = line(w).eid, v # w PROVE FALSE OBVIOUS
  <2>1. Cardinality(B(v)) = Cardinality(B(w)) BY <1>4, <1>6
  <2>2. v < w \/ w < v BY <1>3
  <2> QED BY <1>4, <1>5, <2>1, <2>2
<1>19. \A w \in W : d.eid <= line(w).eid /\ line(w).eid < d.eid + Cardinality(W) BY <1>2, <1>4, <1>6, <1>17
<1> HIDE DEF line
<1>20. /\ S \subseteq [eid : Nat, card : Id, by : STRING \cup {Unset}, kind : LineKind]
       /\ \A l \in S : /\ Exists(f, l.card) /\ f.eid <= l.eid /\ l.eid < e.eid /\ l.by = by /\ l.eid \in Nat
       /\ \A l, m \in S : m.eid = l.eid => m = l
  <2>1. \A j \in W : Exists(f, j) BY <1>2, <1>3, <1>11 DEF Standing, Exists
  <2>2. S \subseteq [eid : Nat, card : Id, by : STRING \cup {Unset}, kind : LineKind] BY <1>17
  <2>3. \A l \in S : l.eid \in Nat BY <2>2
  <2>4. \A l \in S : Exists(f, l.card) /\ f.eid <= l.eid /\ l.eid < e.eid /\ l.by = by
    BY <1>16, <1>17, <1>19, <2>1
  <2>5. \A l, m \in S : m.eid = l.eid => m = l BY <1>18
  <2> QED BY <2>2, <2>3, <2>4, <2>5
<1> HIDE DEF S
<1>21. e.eid \in Nat /\ d.eid <= e.eid BY <1>2, <1>6, <1>16
<1>22. WellFormed(e) BY <1>12, <1>15, <1>16, <1>20, <1>21, LinesKept
<1>23. /\ e.card = cs /\ e.items = d.items /\ e.links = d.links /\ e.conf = d.conf /\ e.next = d.next
       /\ e.shelf = d.shelf /\ e.away = d.away /\ e.log = d.log \cup S
  BY <1>10, <1>15, <1>16 DEF Only
<1>24. \A j : Exists(e, j) <=> Exists(d, j) BY <1>10, <1>11, <1>23 DEF Standing, Exists
<1>25. Grows(d, e)
  <2>1. d.next \in Nat BY DEF WellFormed, Placed
  <2> QED BY <1>21, <1>23, <1>24, <2>1 DEF Grows, Has, Lines
<1>26. \A l \in Lines(e) : l \in Lines(d) \/ (l.eid \in Nat /\ l.eid >= d.eid /\ l.by = by)
  BY <1>6, <1>16, <1>20, <1>23 DEF Lines
<1>27. \A j \in Id : \/ e.card[j] = d.card[j]
                     \/ /\ Exists(d, j) /\ d.card[j].on = i
                        /\ e.card[j] = [d.card[j] EXCEPT !.block = None, !.on = None]
  BY <1>3, <1>7, <1>23
<1>28. Frees(d, e, i, by) BY <1>21, <1>23, <1>26, <1>27 DEF Frees
<1> QED BY <1>1, <1>22, <1>25, <1>28

LEMMA MoveToKept ==
  ASSUME NEW d, WellFormed(d), NEW i, Exists(d, i), NEW by \in STRING \cup {Unset}, NEW k \in Column,
         NEW owner \in STRING \cup {None}
  PROVE  /\ WellFormed(MoveTo(d, i, by, k, owner)) /\ Acted(d, MoveTo(d, i, by, k, owner), i, by)
         /\ Grows(d, MoveTo(d, i, by, k, owner))
<1> DEFINE s == Shifted(d, i, by, k, owner)
           e == OnDone(s, i, by)
<1>1. MoveTo(d, i, by, k, owner) = IF d.card[i].col = k THEN d ELSE IF k = "done" THEN e ELSE s
  BY DEF MoveTo
<1>2. WellFormed(d) /\ Acted(d, d, i, by) /\ Grows(d, d) BY Unwritten, WroteActed
<1> SUFFICES ASSUME d.card[i].col # k
             PROVE  /\ WellFormed(s) /\ Acted(d, s, i, by) /\ Grows(d, s)
                    /\ k = "done" => WellFormed(e) /\ Acted(d, e, i, by) /\ Grows(d, e)
  BY <1>1, <1>2
<1>3. WellFormed(s) /\ Wrote(d, s, i, by) /\ Grows(d, s) /\ Exists(s, i) /\ s.card[i].col = k BY ShiftedKept
<1> HIDE DEF s
<1>4. WellFormed(e) /\ Grows(s, e) /\ Frees(s, e, i, by) BY <1>3, OnDoneKept
<1> HIDE DEF e
<1>5. Grows(d, e) BY <1>3, <1>4, GrowsAgain
<1>6. ASSUME k = "done" PROVE Acted(d, e, i, by)
  <2>1. /\ d.eid \in Nat /\ s.eid \in Nat /\ e.eid \in Nat /\ d.eid <= s.eid /\ s.eid <= e.eid /\ e.conf = d.conf
        /\ \A j \in Id \ {i} : s.card[j] = d.card[j] /\ e.items[j] = d.items[j] /\ e.links[j] = d.links[j]
    BY <1>3, <1>4 DEF Wrote, Frees, WellFormed, Lined
  <2>2. Finishes(d, e, i)
    <3>1. i \in Id /\ s.card[i] \in CardRow BY <1>3, InItsColumn
    <3>2. e.card[i] \in CardRow /\ e.card[i].col = "done"
      <4>1. [s.card[i] EXCEPT !.block = None, !.on = None] \in CardRow BY <3>1 DEF CardRow, Said
      <4>2. [s.card[i] EXCEPT !.block = None, !.on = None].col = s.card[i].col BY <3>1 DEF CardRow
      <4> QED BY <1>3, <1>4, <1>6, <3>1, <4>1, <4>2 DEF Frees
    <3>3. Exists(e, i) BY <3>1, <3>2, RowsAssumption DEF Exists
    <3> QED BY <1>6, <3>2, <3>3 DEF Finishes
  <2>3. ASSUME NEW j \in Id \ {i} PROVE Alike(d, e, j) \/ (Finishes(d, e, i) /\ FreedOf(d, e, i, j))
    <3>1. e.items[j] = d.items[j] /\ e.links[j] = d.links[j] /\ s.card[j] = d.card[j] BY <2>1
    <3>2. Exists(s, j) => Exists(d, j) BY <3>1 DEF Exists
    <3> QED BY <1>4, <2>2, <3>1, <3>2 DEF Alike, FreedOf, Frees
  <2>4. ASSUME NEW l \in Lines(e) PROVE l \in Lines(d) \/ (l.eid \in Nat /\ l.eid >= d.eid /\ l.by = by)
    <3>1. CASE l \in Lines(s) BY <1>3, <3>1 DEF Wrote
    <3>2. CASE l \notin Lines(s)
      <4>1. l.eid \in Nat /\ l.eid >= s.eid /\ l.by = by BY <1>4, <3>2 DEF Frees
      <4> QED BY <4>1, <2>1
    <3> QED BY <3>1, <3>2
  <2>5. d.eid <= e.eid BY <2>1
  <2> QED BY <2>1, <2>3, <2>4, <2>5 DEF Acted
<1> QED BY <1>3, <1>4, <1>5, <1>6, WroteActed

LEMMA GoneIs ==
  ASSUME NEW d, Tables(d), NEW i
  PROVE  LET e == Gone(d, i)
             j == d.card[i].col
         IN /\ Only({"card", "items", "links", "order", "log"}, d, e)
            /\ e.card = [d.card EXCEPT ![i] = None] /\ e.items = [d.items EXCEPT ![i] = <<>>]
            /\ e.links = [d.links EXCEPT ![i] = <<>>]
            /\ e.order = [d.order EXCEPT ![j] = Minus(d.order[j], i)]
            /\ e.log = {x \in d.log : x.card # i}
<1> DEFINE j == d.card[i].col
           cs == [d.card EXCEPT ![i] = None]
           f == [d EXCEPT !.card = cs]
           is == [f.items EXCEPT ![i] = <<>>]
           g == [f EXCEPT !.items = is]
           ls == [g.links EXCEPT ![i] = <<>>]
           h == [g EXCEPT !.links = ls]
           os == [h.order EXCEPT ![j] = Minus(h.order[j], i)]
           o == [h EXCEPT !.order = os]
           lg == {x \in o.log : x.card # i}
           e == [o EXCEPT !.log = lg]
<1>1. Gone(d, i) = e BY DEF Gone
<1> HIDE DEF j, cs
<1>2. Only({"card"}, d, f) /\ f.card = cs BY Put_card
<1> HIDE DEF f, is
<1>3. Only({"items"}, f, g) /\ g.items = is BY <1>2, OnlyTables, Put_items
<1> HIDE DEF g, ls
<1>4. Only({"links"}, g, h) /\ h.links = ls BY <1>3, OnlyTables, Put_links
<1> HIDE DEF h, os
<1>5. Only({"order"}, h, o) /\ o.order = os BY <1>4, OnlyTables, Put_order
<1> HIDE DEF o, lg
<1>6. Only({"log"}, o, e) /\ e.log = lg BY <1>5, OnlyTables, Put_log
<1> HIDE DEF e
<1>7. h.order = d.order /\ f.items = d.items /\ g.links = d.links /\ o.log = d.log
  BY <1>2, <1>3, <1>4, <1>5 DEF Only
<1>8. Only({"card", "items", "links", "order", "log"}, d, e) /\ e.card = cs /\ e.items = is /\ e.links = ls /\ e.order = os
  BY <1>2, <1>3, <1>4, <1>5, <1>6 DEF Only
<1> QED BY <1>1, <1>6, <1>7, <1>8 DEF cs, is, ls, os, lg, j

\* What is left of a board when the rows of card i leave it, whether or not they are kept aside.
LEMMA GoneKept ==
  ASSUME NEW d, WellFormed(d), NEW i, Exists(d, i), NEW by, NEW row, row.card \in CardRow, NEW b,
         Only({"shelf", "away"}, Gone(d, i), b),
         \/ b.shelf = d.shelf /\ b.away = d.away
         \/ /\ b.shelf = [j \in DOMAIN d.shelf \cup {i} |-> IF j = i THEN row ELSE d.shelf[j]]
            /\ b.away = d.away \cup {l \in d.log : l.card = i}
  PROVE  WellFormed(b) /\ Wrote(d, b, i, by) /\ Grows(d, b)
<1> DEFINE j == d.card[i].col
           e == Gone(d, i)
           os == [d.order EXCEPT ![j] = Minus(d.order[j], i)]
<1>1. /\ i \in Id /\ j \in Column /\ i < d.next /\ d.order[j] \in Seq(Id)
      /\ IsInjective(d.order[j]) /\ i \in Range(d.order[j])
  BY InItsColumn
<1>2. d.card \in [Id -> CardRow \cup {None}] /\ d.order \in [Column -> Seq(Id)] BY DEF WellFormed, Placed
<1>3. /\ Only({"card", "items", "links", "order", "log"}, d, e)
       /\ e.card = [d.card EXCEPT ![i] = None] /\ e.items = [d.items EXCEPT ![i] = <<>>]
       /\ e.links = [d.links EXCEPT ![i] = <<>>] /\ e.order = os /\ e.log = {x \in d.log : x.card # i}
  <2>1. Tables(d) BY WellFormedTables
  <2> QED BY <2>1, GoneIs
<1> HIDE DEF e, j
<1>4. /\ Tables(b) /\ b.card = [d.card EXCEPT ![i] = None] /\ b.items = [d.items EXCEPT ![i] = <<>>]
       /\ b.links = [d.links EXCEPT ![i] = <<>>] /\ b.order = os /\ b.log = {x \in d.log : x.card # i}
       /\ b.eid = d.eid /\ b.conf = d.conf /\ b.next = d.next
  <2>1. Only({"shelf", "away"}, e, b) BY DEF e
  <2> QED BY <1>3, <2>1 DEF Only
<1>5. b.card \in [Id -> CardRow \cup {None}] /\ \A c \in Id : b.card[c] = IF c = i THEN None ELSE d.card[c]
  BY <1>1, <1>2, <1>4
<1>6. /\ Minus(d.order[j], i) \in Seq(Id) /\ IsInjective(Minus(d.order[j], i))
       /\ Range(Minus(d.order[j], i)) = Range(d.order[j]) \ {i}
  BY <1>1, MinusIs
<1>7. os \in [Column -> Seq(Id)] /\ \A c \in Column : os[c] = IF c = j THEN Minus(d.order[j], i) ELSE d.order[c]
  BY <1>1, <1>2, <1>6
<1> HIDE DEF os
<1>8. \A x : Exists(b, x) <=> Exists(d, x) /\ x # i BY <1>1, <1>5, <1>4 DEF Exists
<1>9. \A c \in Column : IsInjective(d.order[c]) /\ \A x \in Range(d.order[c]) : Exists(d, x) /\ d.card[x].col = c
  BY DEF WellFormed, Placed
<1>10. \A c \in Column : IsInjective(b.order[c]) /\ Range(b.order[c]) = Range(d.order[c]) \ {i}
  <2>1. \A c \in Column : c # j => i \notin Range(d.order[c]) BY <1>9 DEF j
  <2> QED BY <1>4, <1>6, <1>7, <1>9, <2>1
<1>11. Placed(b)
  <2>1. b.next = d.next /\ b.next \in Nat \ {0} BY <1>4 DEF WellFormed, Placed
  <2>2. ASSUME NEW x \in Id, b.card[x] # None PROVE x < b.next /\ x \in Range(b.order[b.card[x].col])
    <3>1. x # i /\ b.card[x] = d.card[x] BY <2>2, <1>5, <1>4
    <3>2. Exists(d, x) BY <3>1, <2>2 DEF Exists
    <3>3. x < d.next /\ d.card[x].col \in Column /\ x \in Range(d.order[d.card[x].col]) BY <3>2, InItsColumn
    <3> QED BY <3>1, <3>3, <2>1, <1>10
  <2>3. ASSUME NEW c \in Column, NEW x \in Range(b.order[c]) PROVE Exists(b, x) /\ b.card[x].col = c
    <3>1. x \in Range(d.order[c]) /\ x # i BY <1>10
    <3>2. Exists(d, x) /\ d.card[x].col = c BY <3>1, <1>9
    <3> QED BY <3>1, <3>2, <1>5, <1>4, <1>8 DEF Exists
  <2> QED BY <1>5, <1>4, <1>7, <1>10, <2>1, <2>2, <2>3 DEF Placed
<1>12. b.log = {x \in d.log : x.card # i} BY <1>4
<1>13. /\ DOMAIN b.shelf \subseteq DOMAIN d.shelf \cup {i} /\ DOMAIN d.shelf \subseteq DOMAIN b.shelf
       /\ b.shelf = [x \in DOMAIN b.shelf |-> b.shelf[x]]
       /\ \A x \in DOMAIN b.shelf : b.shelf[x].card \in CardRow
       /\ d.away \subseteq b.away
       /\ \A l \in b.away : l \in d.away \/ (l \in d.log /\ l.card = i /\ i \in DOMAIN b.shelf)
  <2>1. /\ d.shelf = [x \in DOMAIN d.shelf |-> d.shelf[x]] /\ \A x \in DOMAIN d.shelf : d.shelf[x].card \in CardRow
    BY DEF WellFormed, Shelved
  <2>2. CASE b.shelf = d.shelf /\ b.away = d.away BY <2>1, <2>2
  <2>3. CASE /\ b.shelf = [x \in DOMAIN d.shelf \cup {i} |-> IF x = i THEN row ELSE d.shelf[x]]
             /\ b.away = d.away \cup {l \in d.log : l.card = i}
    <3>1. DOMAIN b.shelf = DOMAIN d.shelf \cup {i} BY <2>3
    <3>2. \A x \in DOMAIN b.shelf : b.shelf[x] = IF x = i THEN row ELSE d.shelf[x] BY <2>3, <3>1
    <3>3. b.shelf = [x \in DOMAIN b.shelf |-> b.shelf[x]] BY <2>3
    <3> QED BY <2>1, <2>3, <3>1, <3>2, <3>3
  <2> QED BY <2>2, <2>3
<1>14. Lines(b) \subseteq Lines(d) /\ \A l \in Lines(d) : l \in Lines(b) \/ (l.card = i /\ ~Exists(b, i) /\ i \notin DOMAIN b.shelf)
  <2>1. Lines(b) \subseteq Lines(d) BY <1>12, <1>13 DEF Lines
  <2>2. ASSUME NEW l \in d.log, l.card = i PROVE l \in Lines(b) \/ i \notin DOMAIN b.shelf
    <3>1. i \notin DOMAIN d.shelf BY DEF WellFormed, Shelved
    <3> QED BY <2>2, <3>1 DEF Lines
  <2> QED BY <1>8, <1>12, <1>13, <2>1, <2>2 DEF Lines
<1>15. Lined(b)
  <2>1. /\ d.eid \in Nat /\ Lines(d) \subseteq [eid : Nat, card : Id, by : STRING \cup {Unset}, kind : LineKind]
        /\ \A x \in Lines(d) : x.eid < d.eid /\ \A y \in Lines(d) : y.eid = x.eid => y = x
    BY DEF WellFormed, Lined
  <2>2. \A x \in b.log : Exists(b, x.card) BY <1>8, <1>12 DEF WellFormed, Lined
  <2>3. \A x \in b.away : x.card \in DOMAIN b.shelf BY <1>13 DEF WellFormed, Lined
  <2>4. Lines(b) \subseteq [eid : Nat, card : Id, by : STRING \cup {Unset}, kind : LineKind] BY <1>14, <2>1
  <2> QED BY <1>4, <1>14, <2>1, <2>2, <2>3, <2>4 DEF Lined
<1>16. Shelved(b)
  <2>1. DOMAIN d.shelf \subseteq Id /\ \A x \in DOMAIN d.shelf : ~Exists(d, x) /\ x < d.next
    BY DEF WellFormed, Shelved
  <2> QED BY <1>1, <1>4, <1>8, <1>13, <2>1 DEF Shelved
<1>17. Hung(b)
  <2>1. /\ d.items = [x \in Id |-> d.items[x]] /\ d.links = [x \in Id |-> d.links[x]]
        /\ \A x \in Id : ~Exists(d, x) => d.items[x] = <<>> /\ d.links[x] = <<>>
    BY DEF WellFormed, Hung
  <2>2. b.items = [d.items EXCEPT ![i] = <<>>] /\ b.links = [d.links EXCEPT ![i] = <<>>] BY <1>4
  <2>3. /\ b.items = [x \in Id |-> b.items[x]] /\ b.links = [x \in Id |-> b.links[x]]
        /\ \A x \in Id : b.items[x] = (IF x = i THEN <<>> ELSE d.items[x])
        /\ \A x \in Id : b.links[x] = (IF x = i THEN <<>> ELSE d.links[x])
    BY <2>1, <2>2
  <2> QED BY <1>8, <2>1, <2>3 DEF Hung
<1>18. WellFormed(b)
  <2>1. DOMAIN b.conf \subseteq Key \cup {SetupDone} BY <1>4 DEF WellFormed
  <2> QED BY <1>4, <1>11, <1>15, <1>16, <1>17, <2>1, WellFormedParts
<1>19. Wrote(d, b, i, by)
  <2>1. \A x \in Id \ {i} : b.card[x] = d.card[x] BY <1>5, <1>4
  <2>2. d.items = [x \in Id |-> d.items[x]] /\ d.links = [x \in Id |-> d.links[x]] /\ d.eid \in Nat
    BY DEF WellFormed, Hung, Lined
  <2>3. \A x \in Id \ {i} : b.items[x] = d.items[x] /\ b.links[x] = d.links[x]
    BY <1>4, <2>2
  <2> QED BY <1>4, <1>14, <2>1, <2>2, <2>3 DEF Wrote
<1>20. Grows(d, b)
  <2>1. d.next \in Nat /\ d.eid \in Nat BY DEF WellFormed, Placed, Lined
  <2>2. \A x : Has(b, x) => Has(d, x) BY <1>8, <1>13 DEF Has
  <2> QED BY <1>4, <1>14, <2>1, <2>2 DEF Grows, Has
<1> QED BY <1>18, <1>19, <1>20

\* A line of the board's log is no line about a card.
LEMMA NotedIs ==
  ASSUME NEW d, WellFormed(d), NEW i, NEW by, NEW name, NEW kind, NEW text
  PROVE  LET e == BoardLogged(d, name, kind, text)
         IN WellFormed(e) /\ Wrote(d, e, i, by) /\ Grows(d, e) /\ Unmoved(d, e) /\ e.card = d.card /\ e.shelf = d.shelf
<1> DEFINE e == BoardLogged(d, name, kind, text)
<1>1. Only({"blog"}, d, e) BY WellFormedTables, BoardLoggedIs
<1>2. WellFormed(e) BY BoardLogKept
<1> HIDE DEF e
<1>3. Wrote(d, e, i, by) BY <1>1 DEF Wrote, Only, Lines, WellFormed, Lined
<1>4. Unmoved(d, e) BY <1>1 DEF Unmoved, Only, Exists
<1>5. Grows(d, e) BY <1>2, <1>3, <1>4, UnmovedGrows
<1> QED BY <1>1, <1>2, <1>3, <1>4, <1>5 DEF e, Only

LEMMA ForcedKept ==
  ASSUME NEW d, WellFormed(d), NEW i, Exists(d, i), NEW by \in STRING \cup {Unset}
  PROVE  LET e == Forced(d, i, by)
         IN WellFormed(e) /\ Wrote(d, e, i, by) /\ Grows(d, e) /\ Exists(e, i)
<1> DEFINE l == Logged(d, i, by, "force")
           e == BoardLogged(l, by, "force", Unset)
<1>1. Forced(d, i, by) \in {d, e} BY DEF Forced, LogForced
<1>2. WellFormed(l) /\ Wrote(d, l, i, by) /\ Unmoved(d, l) BY LogKept, WroteLine DEF LineKind
<1> HIDE DEF l
<1>3. WellFormed(e) /\ Wrote(l, e, i, by) /\ Unmoved(l, e) BY <1>2, NotedIs
<1> HIDE DEF e
<1>4. Wrote(d, e, i, by) /\ Unmoved(d, e) BY <1>2, <1>3, WroteAgain, UnmovedAgain
<1>5. Grows(d, e) /\ Exists(e, i) BY <1>3, <1>4, UnmovedGrows DEF Unmoved
<1> QED BY <1>1, <1>3, <1>4, <1>5, Unwritten

LEMMA RemovedKept ==
  ASSUME NEW d, WellFormed(d), NEW i, Exists(d, i), NEW by \in STRING \cup {Unset}
  PROVE  WellFormed(Removed(d, i, by)) /\ Wrote(d, Removed(d, i, by), i, by) /\ Grows(d, Removed(d, i, by))
<1> DEFINE f == Forced(d, i, by)
           g == Gone(f, i)
           e == BoardLogged(g, by, "delete", Unset)
<1>1. Removed(d, i, by) = e BY DEF Removed
<1>2. WellFormed(f) /\ Wrote(d, f, i, by) /\ Grows(d, f) /\ Exists(f, i) BY ForcedKept
<1> HIDE DEF f
<1>3. Only({"shelf", "away"}, g, g) /\ g.shelf = f.shelf /\ g.away = f.away
  <2>1. Only({"card", "items", "links", "order", "log"}, f, g) BY <1>2, WellFormedTables, GoneIs
  <2> HIDE DEF g
  <2> QED BY <2>1 DEF Only
<1>4. \E row : row.card \in CardRow
  <2>1. f.card[i] \in CardRow BY <1>2, InItsColumn
  <2>2. [card |-> f.card[i]].card \in CardRow BY <2>1
  <2> QED BY <2>2
<1>5. WellFormed(g) /\ Wrote(f, g, i, by) /\ Grows(f, g) BY <1>2, <1>3, <1>4, GoneKept
<1> HIDE DEF g
<1>6. WellFormed(e) /\ Wrote(g, e, i, by) /\ Grows(g, e) BY <1>5, NotedIs
<1> HIDE DEF e
<1> QED BY <1>1, <1>2, <1>5, <1>6, WroteAgain, GrowsAgain

LEMMA ArchivedKept ==
  ASSUME NEW d, WellFormed(d), NEW i, Exists(d, i), NEW by \in STRING \cup {Unset}
  PROVE  WellFormed(Archived(d, i, by)) /\ Wrote(d, Archived(d, i, by), i, by) /\ Grows(d, Archived(d, i, by))
<1> DEFINE f == Forced(d, i, by)
           l == Logged(f, i, by, "archived")
           row == [card |-> l.card[i], items |-> l.items[i], links |-> l.links[i]]
           g == Gone(l, i)
           sh == [j \in DOMAIN g.shelf \cup {i} |-> IF j = i THEN row ELSE g.shelf[j]]
           h == [g EXCEPT !.shelf = sh]
           aw == h.away \cup {x \in l.log : x.card = i}
           b == [h EXCEPT !.away = aw]
           e == BoardLogged(b, by, "archive", Unset)
<1>1. Archived(d, i, by) = e BY DEF Archived
<1>2. WellFormed(f) /\ Wrote(d, f, i, by) /\ Grows(d, f) /\ Exists(f, i) BY ForcedKept
<1> HIDE DEF f
<1>3. WellFormed(l) /\ Wrote(f, l, i, by) /\ Unmoved(f, l) BY <1>2, LogKept, WroteLine DEF LineKind
<1> HIDE DEF l
<1>4. Exists(l, i) /\ Grows(f, l) BY <1>2, <1>3, UnmovedGrows DEF Unmoved
<1>5. row.card \in CardRow BY <1>3, <1>4, InItsColumn
<1> HIDE DEF row
<1>6. Tables(g) /\ g.shelf = l.shelf /\ g.away = l.away
  <2>1. Only({"card", "items", "links", "order", "log"}, l, g) BY <1>3, WellFormedTables, GoneIs
  <2> HIDE DEF g
  <2> QED BY <2>1 DEF Only
<1> HIDE DEF g, sh
<1>8. Only({"shelf"}, g, h) /\ h.shelf = sh BY <1>6, Put_shelf
<1> HIDE DEF h, aw
<1>9. Only({"away"}, h, b) /\ b.away = aw BY <1>8, OnlyTables, Put_away
<1> HIDE DEF b
<1>10. Only({"shelf", "away"}, g, b) /\ b.shelf = sh /\ h.away = g.away BY <1>8, <1>9 DEF Only
<1>11. /\ b.shelf = [j \in DOMAIN l.shelf \cup {i} |-> IF j = i THEN row ELSE l.shelf[j]]
       /\ b.away = l.away \cup {x \in l.log : x.card = i}
  BY <1>6, <1>9, <1>10 DEF sh, aw
<1>12. WellFormed(b) /\ Wrote(l, b, i, by) /\ Grows(l, b) BY <1>3, <1>4, <1>5, <1>10, <1>11, GoneKept DEF g
<1>13. WellFormed(e) /\ Wrote(b, e, i, by) /\ Grows(b, e) BY <1>12, NotedIs
<1> HIDE DEF e
<1>14. Wrote(d, l, i, by) /\ Grows(d, l) BY <1>2, <1>3, <1>4, WroteAgain, GrowsAgain
<1>15. Wrote(l, e, i, by) /\ Grows(l, e) BY <1>3, <1>12, <1>13, WroteAgain, GrowsAgain
<1> QED BY <1>1, <1>3, <1>13, <1>14, <1>15, WroteAgain, GrowsAgain

\* A card that is in the archive comes back with its rows, and no line is lost or gained.
LEMMA RestoredKept ==
  ASSUME NEW d, WellFormed(d), NEW i \in DOMAIN d.shelf, NEW by \in STRING \cup {Unset}
  PROVE  WellFormed(Restored(d, i, by)) /\ Wrote(d, Restored(d, i, by), i, by) /\ Grows(d, Restored(d, i, by))
<1> DEFINE row == d.shelf[i]
           k == row.card.col
           cs == [d.card EXCEPT ![i] = row.card]
           f == [d EXCEPT !.card = cs]
           is == [f.items EXCEPT ![i] = row.items]
           g == [f EXCEPT !.items = is]
           ls == [g.links EXCEPT ![i] = row.links]
           h == [g EXCEPT !.links = ls]
           os == [h.order EXCEPT ![k] = Append(h.order[k], i)]
           o == [h EXCEPT !.order = os]
           lg == o.log \cup {x \in d.away : x.card = i}
           m == [o EXCEPT !.log = lg]
           aw == {x \in m.away : x.card # i}
           n == [m EXCEPT !.away = aw]
           sh == [j \in DOMAIN n.shelf \ {i} |-> n.shelf[j]]
           e == [n EXCEPT !.shelf = sh]
           z == Logged(e, i, by, "restored")
<1>1. /\ i \in Id /\ ~Exists(d, i) /\ i < d.next /\ row.card \in CardRow /\ DOMAIN d.shelf \subseteq Id
      /\ \A x \in DOMAIN d.shelf : ~Exists(d, x) /\ x < d.next /\ d.shelf[x].card \in CardRow
  BY DEF WellFormed, Shelved
<1>2. Restored(d, i, by) = BoardLogged(z, by, "restore", Unset) BY DEF Restored
<1>3. k \in Column /\ row.card # None BY <1>1, RowsAssumption DEF CardRow
<1> HIDE DEF row, k
<1>4. /\ d.card \in [Id -> CardRow \cup {None}] /\ d.order \in [Column -> Seq(Id)]
      /\ \A c \in Column : IsInjective(d.order[c]) /\ \A x \in Range(d.order[c]) : Exists(d, x) /\ d.card[x].col = c
  BY DEF WellFormed, Placed
<1>5. cs \in [Id -> CardRow \cup {None}] /\ \A c \in Id : cs[c] = IF c = i THEN row.card ELSE d.card[c] BY <1>1, <1>4
<1> HIDE DEF cs
<1>6. Only({"card"}, d, f) /\ f.card = cs BY WellFormedTables, Put_card
<1> HIDE DEF f, is
<1>7. Only({"items"}, f, g) /\ g.items = is BY <1>6, OnlyTables, Put_items
<1> HIDE DEF g, ls
<1>8. Only({"links"}, g, h) /\ h.links = ls BY <1>7, OnlyTables, Put_links
<1> HIDE DEF h, os
<1>9. Only({"order"}, h, o) /\ o.order = os BY <1>8, OnlyTables, Put_order
<1> HIDE DEF o, lg
<1>10. Only({"log"}, o, m) /\ m.log = lg BY <1>9, OnlyTables, Put_log
<1> HIDE DEF m, aw
<1>11. Only({"away"}, m, n) /\ n.away = aw BY <1>10, OnlyTables, Put_away
<1> HIDE DEF n, sh
<1>12. Only({"shelf"}, n, e) /\ e.shelf = sh BY <1>11, OnlyTables, Put_shelf
<1> HIDE DEF e
<1>13. Only({"card", "items", "links", "order", "log", "away", "shelf"}, d, e) /\ e.card = cs /\ e.items = is
  BY <1>6, <1>7, <1>8, <1>9, <1>10, <1>11, <1>12 DEF Only
<1>14. e.links = ls /\ e.order = os /\ e.log = lg /\ e.away = aw
  BY <1>8, <1>9, <1>10, <1>11, <1>12 DEF Only
<1>15. f.items = d.items /\ g.links = d.links /\ h.order = d.order /\ o.log = d.log
  BY <1>6, <1>7, <1>8, <1>9 DEF Only
<1>16. m.away = d.away /\ n.shelf = d.shelf
  BY <1>6, <1>7, <1>8, <1>9, <1>10, <1>11 DEF Only
<1>17. e.eid = d.eid /\ e.next = d.next /\ e.conf = d.conf /\ Tables(e) BY <1>13 DEF Only
<1>18. \A x : Exists(e, x) <=> Exists(d, x) \/ x = i BY <1>1, <1>3, <1>5, <1>13 DEF Exists
<1>19. i \notin Range(d.order[k]) BY <1>1, <1>3, <1>4
<1>20. /\ Append(d.order[k], i) \in Seq(Id) /\ IsInjective(Append(d.order[k], i))
       /\ Range(Append(d.order[k], i)) = Range(d.order[k]) \cup {i}
  BY <1>1, <1>3, <1>4, <1>19, AppendIs
<1>21. os \in [Column -> Seq(Id)] /\ \A c \in Column : os[c] = IF c = k THEN Append(d.order[k], i) ELSE d.order[c]
  BY <1>3, <1>4, <1>15, <1>20 DEF os
<1>22. \A c \in Column : /\ IsInjective(e.order[c])
                         /\ Range(e.order[c]) = IF c = k THEN Range(d.order[k]) \cup {i} ELSE Range(d.order[c])
  BY <1>4, <1>14, <1>20, <1>21
<1>23. Placed(e)
  <2>1. e.next = d.next /\ e.next \in Nat \ {0} BY <1>17 DEF WellFormed, Placed
  <2>2. ASSUME NEW x \in Id, e.card[x] # None PROVE x < e.next /\ x \in Range(e.order[e.card[x].col])
    <3>1. CASE x = i BY <3>1, <1>1, <1>3, <1>5, <1>13, <1>22, <2>1 DEF k
    <3>2. CASE x # i
      <4>1. e.card[x] = d.card[x] BY <3>2, <1>5, <1>13
      <4>2. Exists(d, x) BY <4>1, <2>2 DEF Exists
      <4>3. x < d.next /\ d.card[x].col \in Column /\ x \in Range(d.order[d.card[x].col]) BY <4>2, InItsColumn
      <4> QED BY <4>1, <4>3, <2>1, <1>22
    <3> QED BY <3>1, <3>2
  <2>3. ASSUME NEW c \in Column, NEW x \in Range(e.order[c]) PROVE Exists(e, x) /\ e.card[x].col = c
    <3>1. CASE x = i
      <4>1. i \notin Range(d.order[c]) BY <1>1, <1>4
      <4> QED BY <3>1, <4>1, <1>1, <1>5, <1>13, <1>18, <1>22 DEF k
    <3>2. CASE x # i
      <4>1. x \in Range(d.order[c]) BY <3>2, <1>22
      <4>2. Exists(d, x) /\ d.card[x].col = c BY <4>1, <1>4
      <4> QED BY <3>2, <4>2, <1>5, <1>13, <1>18 DEF Exists
    <3> QED BY <3>1, <3>2
  <2> QED BY <1>5, <1>13, <1>14, <1>21, <1>22, <2>1, <2>2, <2>3 DEF Placed
<1>24. e.log = d.log \cup {x \in d.away : x.card = i} /\ e.away = {x \in d.away : x.card # i}
  BY <1>14, <1>15, <1>16 DEF lg, aw
<1>25. Lines(e) = Lines(d) BY <1>24 DEF Lines
<1>26. /\ DOMAIN e.shelf = DOMAIN d.shelf \ {i} /\ e.shelf = [x \in DOMAIN e.shelf |-> e.shelf[x]]
       /\ \A x \in DOMAIN e.shelf : e.shelf[x] = d.shelf[x]
  <2>1. e.shelf = [x \in DOMAIN d.shelf \ {i} |-> d.shelf[x]] BY <1>12, <1>16 DEF sh
  <2> QED BY <2>1
<1>27. Lined(e)
  <2>1. /\ d.eid \in Nat /\ Lines(d) \subseteq [eid : Nat, card : Id, by : STRING \cup {Unset}, kind : LineKind]
        /\ \A x \in Lines(d) : x.eid < d.eid /\ \A y \in Lines(d) : y.eid = x.eid => y = x
    BY DEF WellFormed, Lined
  <2>2. \A x \in e.log : Exists(e, x.card) BY <1>18, <1>24 DEF WellFormed, Lined
  <2>3. \A x \in e.away : x.card \in DOMAIN e.shelf BY <1>24, <1>26 DEF WellFormed, Lined
  <2> QED BY <1>17, <1>25, <2>1, <2>2, <2>3 DEF Lined
<1>28. Shelved(e) BY <1>1, <1>17, <1>18, <1>26 DEF Shelved
<1>29. Hung(e)
  <2>1. /\ d.items = [x \in Id |-> d.items[x]] /\ d.links = [x \in Id |-> d.links[x]]
        /\ \A x \in Id : ~Exists(d, x) => d.items[x] = <<>> /\ d.links[x] = <<>>
    BY DEF WellFormed, Hung
  <2>2. e.items = [d.items EXCEPT ![i] = row.items] /\ e.links = [d.links EXCEPT ![i] = row.links]
    BY <1>13, <1>14, <1>15 DEF is, ls
  <2>3. /\ e.items = [x \in Id |-> e.items[x]] /\ e.links = [x \in Id |-> e.links[x]]
        /\ \A x \in Id \ {i} : e.items[x] = d.items[x] /\ e.links[x] = d.links[x]
    BY <2>1, <2>2
  <2> QED BY <1>18, <2>1, <2>3 DEF Hung
<1>30. WellFormed(e) /\ Exists(e, i)
  <2>1. DOMAIN e.conf \subseteq Key \cup {SetupDone} BY <1>17 DEF WellFormed
  <2> QED BY <1>17, <1>18, <1>23, <1>27, <1>28, <1>29, <2>1, WellFormedParts
<1>31. Wrote(d, e, i, by)
  <2>1. \A x \in Id \ {i} : e.card[x] = d.card[x] BY <1>5, <1>13
  <2>2. d.items = [x \in Id |-> d.items[x]] /\ d.links = [x \in Id |-> d.links[x]] /\ d.eid \in Nat
    BY DEF WellFormed, Hung, Lined
  <2>3. \A x \in Id \ {i} : e.items[x] = d.items[x] /\ e.links[x] = d.links[x]
    BY <1>13, <1>14, <1>15, <2>2 DEF is, ls
  <2> QED BY <1>17, <1>25, <2>1, <2>2, <2>3 DEF Wrote
<1>32. Grows(d, e)
  <2>1. d.next \in Nat /\ d.eid \in Nat BY DEF WellFormed, Placed, Lined
  <2>2. \A x : Has(e, x) => Has(d, x) BY <1>18, <1>26 DEF Has
  <2> QED BY <1>17, <1>25, <2>1, <2>2 DEF Grows
<1>33. WellFormed(z) /\ Wrote(e, z, i, by) /\ Unmoved(e, z) BY <1>30, LogKept, WroteLine DEF LineKind
<1> HIDE DEF z
<1>34. Wrote(d, z, i, by) /\ Grows(d, z) BY <1>30, <1>31, <1>32, <1>33, UnmovedGrows, WroteAgain, GrowsAgain
<1> DEFINE y == BoardLogged(z, by, "restore", Unset)
<1>35. WellFormed(y) /\ Wrote(z, y, i, by) /\ Grows(z, y) BY <1>33, NotedIs
<1> HIDE DEF y
<1>36. WellFormed(y) /\ Wrote(d, y, i, by) /\ Grows(d, y) BY <1>33, <1>34, <1>35, WroteAgain, GrowsAgain
<1> QED BY <1>2, <1>36 DEF y

LEMMA AddTaggedKept ==
  ASSUME NEW d, WellFormed(d), d.next \in Id, NEW by \in STRING \cup {Unset}, NEW title \in Said,
         NEW ref \in Nat \cup {None}, NEW checks
  PROVE  /\ WellFormed(AddTagged(d, by, title, ref, checks))
         /\ Exists(AddTagged(d, by, title, ref, checks), d.next)
         /\ Wrote(d, AddTagged(d, by, title, ref, checks), d.next, by)
         /\ Creates(d, AddTagged(d, by, title, ref, checks), by)
         /\ Grows(d, AddTagged(d, by, title, ref, checks))
<1> DEFINE i == d.next
           q == [NewCard(title, None, None, None) EXCEPT !.ref = ref]
           cs == [d.card EXCEPT ![i] = q]
           f == [d EXCEPT !.card = cs]
           nx == f.next + 1
           g == [f EXCEPT !.next = nx]
           os == [g.order EXCEPT !["todo"] = Append(g.order["todo"], i)]
           h == [g EXCEPT !.order = os]
           is == [h.items EXCEPT ![i] = [n \in DOMAIN checks |-> [what |-> checks[n], done |-> FALSE]]]
           e == [h EXCEPT !.items = is]
<1>1. AddTagged(d, by, title, ref, checks) = Logged(e, i, by, "created") BY DEF AddTagged
<1>2. i \in Id /\ i \in Nat BY DEF Id
<1>3. q \in CardRow /\ q.col = "todo" BY DEF CardRow, NewCard, Column, Said
<1> HIDE DEF q
<1>4. /\ d.card \in [Id -> CardRow \cup {None}] /\ d.order \in [Column -> Seq(Id)]
      /\ \A c \in Column : IsInjective(d.order[c]) /\ \A x \in Range(d.order[c]) : Exists(d, x) /\ d.card[x].col = c
      /\ \A x \in Id : d.card[x] # None => x < i
  BY DEF WellFormed, Placed
<1>5. ~Exists(d, i) /\ "todo" \in Column BY <1>2, <1>4 DEF Exists, Column
<1>6. cs \in [Id -> CardRow \cup {None}] /\ \A c \in Id : cs[c] = IF c = i THEN q ELSE d.card[c]
  BY <1>2, <1>3, <1>4
<1> HIDE DEF cs
<1>7. Only({"card"}, d, f) /\ f.card = cs BY WellFormedTables, Put_card
<1> HIDE DEF f, nx
<1>8. Only({"next"}, f, g) /\ g.next = nx BY <1>7, OnlyTables, Put_next
<1> HIDE DEF g, os
<1>9. Only({"order"}, g, h) /\ h.order = os BY <1>8, OnlyTables, Put_order
<1> HIDE DEF h, is
<1>10. Only({"items"}, h, e) /\ e.items = is BY <1>9, OnlyTables, Put_items
<1> HIDE DEF e
<1>11. /\ Tables(e) /\ e.card = cs /\ e.items = is /\ e.links = d.links /\ e.order = os /\ e.log = d.log
       /\ e.eid = d.eid /\ e.conf = d.conf /\ e.next = nx /\ e.shelf = d.shelf /\ e.away = d.away
  BY <1>7, <1>8, <1>9, <1>10 DEF Only
<1>12. f.next = d.next /\ g.order = d.order /\ h.items = d.items
  BY <1>7, <1>8, <1>9 DEF Only
<1>13. e.next = d.next + 1 BY <1>11, <1>12 DEF nx
<1>14. i \notin Range(d.order["todo"]) BY <1>4, <1>5
<1>15. /\ Append(d.order["todo"], i) \in Seq(Id) /\ IsInjective(Append(d.order["todo"], i))
       /\ Range(Append(d.order["todo"], i)) = Range(d.order["todo"]) \cup {i}
  BY <1>2, <1>4, <1>5, <1>14, AppendIs
<1>16. os \in [Column -> Seq(Id)]
       /\ \A c \in Column : os[c] = IF c = "todo" THEN Append(d.order["todo"], i) ELSE d.order[c]
  BY <1>4, <1>5, <1>12, <1>15 DEF os
<1>17. \A x : Exists(e, x) <=> Exists(d, x) \/ x = i BY <1>2, <1>3, <1>6, <1>11, RowsAssumption DEF Exists
<1>18. \A c \in Column : /\ IsInjective(e.order[c])
                         /\ Range(e.order[c]) = IF c = "todo" THEN Range(d.order[c]) \cup {i} ELSE Range(d.order[c])
  BY <1>4, <1>11, <1>15, <1>16
<1>19. Placed(e)
  <2>1. e.next \in Nat \ {0} BY <1>2, <1>13
  <2>2. ASSUME NEW x \in Id, e.card[x] # None PROVE x < e.next /\ x \in Range(e.order[e.card[x].col])
    <3>1. CASE x = i
      <4>1. e.card[x].col = "todo" BY <3>1, <1>2, <1>3, <1>6, <1>11
      <4>2. i < e.next BY <1>2, <1>13
      <4> QED BY <3>1, <4>1, <4>2, <1>5, <1>18
    <3>2. CASE x # i
      <4>1. e.card[x] = d.card[x] BY <3>2, <1>6, <1>11
      <4>2. Exists(d, x) BY <4>1, <2>2 DEF Exists
      <4>3. x < d.next /\ d.card[x].col \in Column /\ x \in Range(d.order[d.card[x].col]) BY <4>2, InItsColumn
      <4>4. x < e.next BY <4>3, <1>2, <1>13 DEF Id
      <4> QED BY <4>1, <4>3, <4>4, <1>18
    <3> QED BY <3>1, <3>2
  <2>3. ASSUME NEW c \in Column, NEW x \in Range(e.order[c]) PROVE Exists(e, x) /\ e.card[x].col = c
    <3>1. CASE x = i
      <4>1. i \notin Range(d.order[c]) BY <1>4, <1>5
      <4> QED BY <3>1, <4>1, <1>2, <1>3, <1>6, <1>11, <1>17, <1>18
    <3>2. CASE x # i
      <4>1. x \in Range(d.order[c]) BY <3>2, <1>18
      <4>2. Exists(d, x) /\ d.card[x].col = c BY <4>1, <1>4
      <4> QED BY <3>2, <4>2, <1>6, <1>11, <1>17 DEF Exists
    <3> QED BY <3>1, <3>2
  <2> QED BY <1>6, <1>11, <1>16, <1>18, <2>1, <2>2, <2>3 DEF Placed
<1>20. Lined(e) /\ Shelved(e)
  <2>1. Lined(e) BY <1>11, <1>17 DEF WellFormed, Lined, Lines
  <2>2. DOMAIN d.shelf \subseteq Id /\ \A x \in DOMAIN d.shelf : ~Exists(d, x) /\ x < i /\ d.shelf[x].card \in CardRow
    BY DEF WellFormed, Shelved
  <2>3. \A x \in DOMAIN d.shelf : ~Exists(e, x) /\ x < e.next BY <1>2, <1>13, <1>17, <2>2 DEF Id
  <2>4. e.shelf = [x \in DOMAIN e.shelf |-> e.shelf[x]] BY <1>11 DEF WellFormed, Shelved
  <2>5. Shelved(e) BY <1>11, <2>2, <2>3, <2>4 DEF Shelved
  <2> QED BY <2>1, <2>5
<1>21. Hung(e)
  <2>1. /\ d.items = [x \in Id |-> d.items[x]] /\ d.links = [x \in Id |-> d.links[x]]
        /\ \A x \in Id : ~Exists(d, x) => d.items[x] = <<>> /\ d.links[x] = <<>>
    BY DEF WellFormed, Hung
  <2>2. \E y : e.items = [d.items EXCEPT ![i] = y] BY <1>11, <1>12 DEF is
  <2>3. /\ e.items = [x \in Id |-> e.items[x]] /\ e.links = d.links
        /\ \A x \in Id \ {i} : e.items[x] = d.items[x]
    BY <2>1, <2>2, <1>11
  <2> QED BY <1>17, <2>1, <2>3 DEF Hung
<1>22. WellFormed(e)
  <2>1. DOMAIN e.conf \subseteq Key \cup {SetupDone} BY <1>11 DEF WellFormed
  <2> QED BY <1>11, <1>19, <1>20, <1>21, <2>1, WellFormedParts
<1>23. WellFormed(Logged(e, i, by, "created")) BY <1>17, <1>22, LogKept DEF LineKind
<1>24. Exists(Logged(e, i, by, "created"), i)
  <2>1. Only({"log", "eid"}, e, Logged(e, i, by, "created")) BY <1>11, LoggedIs
  <2> QED BY <2>1, <1>17 DEF Only, Exists
<1>25. Wrote(d, e, i, by)
  <2>1. \A x \in Id \ {i} : e.card[x] = d.card[x] BY <1>6, <1>11
  <2>2. d.items = [x \in Id |-> d.items[x]] /\ d.eid \in Nat BY DEF WellFormed, Hung, Lined
  <2>3. \A x \in Id \ {i} : e.items[x] = d.items[x] BY <1>11, <1>12, <2>2 DEF is
  <2> QED BY <1>11, <2>1, <2>2, <2>3 DEF Wrote, Lines
<1>26. Wrote(d, Logged(e, i, by, "created"), i, by) BY <1>22, <1>25, WroteLine, WroteAgain
<1>27. Creates(d, Logged(e, i, by, "created"), by)
  <2> DEFINE l == [eid |-> e.eid, card |-> i, by |-> by, kind |-> "created"]
  <2>1. Logged(e, i, by, "created").log = d.log \cup {l}
    <3>1. Tables(e) /\ e.log = d.log BY <1>11
    <3> QED BY <3>1, LoggedIs
  <2>2. l \notin d.log
    <3>1. d.eid \in Nat /\ \A x \in d.log : x.eid \in Nat /\ x.eid < d.eid BY DEF WellFormed, Lined, Lines
    <3>2. l.eid = d.eid BY <1>11
    <3> QED BY <3>1, <3>2
  <2>3. l.kind = "created" /\ l.by = by OBVIOUS
  <2> HIDE DEF l
  <2> QED BY <2>1, <2>2, <2>3 DEF Creates
<1>28. Grows(d, Logged(e, i, by, "created"))
  <2> DEFINE b == Logged(e, i, by, "created")
  <2>1. Only({"log", "eid"}, e, b) /\ b.eid = e.eid + 1 /\ e.log \subseteq b.log BY <1>11, LoggedIs
  <2> HIDE DEF b
  <2>2. /\ b.next = d.next + 1 /\ b.eid = d.eid + 1 /\ Lines(d) \subseteq Lines(b) /\ d.eid \in Nat
        /\ b.shelf = d.shelf
    BY <2>1, <1>11, <1>13 DEF Only, Lines, WellFormed, Lined
  <2>3. \A x : Has(b, x) => Has(d, x) \/ x = d.next BY <2>1, <2>2, <1>17 DEF Only, Exists, Has
  <2>4. \A m, n \in Nat : m <= m + 1 /\ m >= m OBVIOUS
  <2>5. Grows(d, b) BY <2>2, <2>3, <2>4, <1>2 DEF Grows
  <2> QED BY <2>5 DEF b
<1> QED BY <1>1, <1>23, <1>24, <1>26, <1>27, <1>28

\* A checklist or the links of a card, whatever is put there.
LEMMA ItemsPut ==
  ASSUME NEW d, WellFormed(d), NEW i, Exists(d, i), NEW x
  PROVE  WellFormed([d EXCEPT !.items[i] = x]) /\ Exists([d EXCEPT !.items[i] = x], i)
<1> DEFINE is == [d.items EXCEPT ![i] = x]
           e == [d EXCEPT !.items = is]
<1>1. [d EXCEPT !.items[i] = x] = e OBVIOUS
<1> HIDE DEF is
<1>2. Only({"items"}, d, e) /\ e.items = is BY WellFormedTables, Put_items
<1> HIDE DEF e
<1>3. Only({"items", "links"}, d, e) /\ e.links = d.links /\ e.card = d.card BY <1>2 DEF Only
<1>4. i \in Id BY DEF Exists
<1>5. WellFormed(e) BY <1>2, <1>3, <1>4, HungKept DEF is
<1> QED BY <1>1, <1>3, <1>5 DEF Exists

LEMMA LinksPut ==
  ASSUME NEW d, WellFormed(d), NEW i, Exists(d, i), NEW x
  PROVE  WellFormed([d EXCEPT !.links[i] = x]) /\ Exists([d EXCEPT !.links[i] = x], i)
<1> DEFINE ls == [d.links EXCEPT ![i] = x]
           e == [d EXCEPT !.links = ls]
<1>1. [d EXCEPT !.links[i] = x] = e OBVIOUS
<1> HIDE DEF ls
<1>2. Only({"links"}, d, e) /\ e.links = ls BY WellFormedTables, Put_links
<1> HIDE DEF e
<1>3. Only({"items", "links"}, d, e) /\ e.items = d.items /\ e.card = d.card BY <1>2 DEF Only
<1>4. i \in Id BY DEF Exists
<1>5. WellFormed(e) BY <1>2, <1>3, <1>4, HungKept DEF ls
<1> QED BY <1>1, <1>3, <1>5 DEF Exists

LEMMA TickedKept ==
  ASSUME NEW d, WellFormed(d), NEW i, Exists(d, i), NEW n, NEW item
  PROVE  \A by : /\ WellFormed(Ticked(d, i, n, item)) /\ Wrote(d, Ticked(d, i, n, item), i, by)
                 /\ Unmoved(d, Ticked(d, i, n, item))
<1> DEFINE x == [d.items[i] EXCEPT ![n].done = ~item.done]
           e == [d EXCEPT !.items[i] = x]
<1>1. Ticked(d, i, n, item) \in {d, e} BY DEF Ticked
<1> HIDE DEF x
<1>2. WellFormed(e) /\ \A by : Wrote(d, e, i, by) /\ Unmoved(d, e) BY ItemsPut, WroteItems
<1> HIDE DEF e
<1>3. \A by : Wrote(d, d, i, by) /\ Unmoved(d, d) BY Unwritten
<1> QED BY <1>1, <1>2, <1>3

LEMMA ChecklistKept ==
  ASSUME NEW d, WellFormed(d), NEW i, Exists(d, i), NEW by \in STRING \cup {Unset}, NEW text, NEW n
  PROVE  /\ WellFormed(AddCheck(d, i, by, text)) /\ WellFormed(RemoveCheck(d, i, by, n))
         /\ WellFormed(AddLink(d, i, by, text)) /\ WellFormed(RemoveLink(d, i, by, n))
         /\ Wrote(d, AddCheck(d, i, by, text), i, by) /\ Wrote(d, RemoveCheck(d, i, by, n), i, by)
         /\ Wrote(d, AddLink(d, i, by, text), i, by) /\ Wrote(d, RemoveLink(d, i, by, n), i, by)
         /\ Unmoved(d, AddCheck(d, i, by, text)) /\ Unmoved(d, RemoveCheck(d, i, by, n))
         /\ Unmoved(d, AddLink(d, i, by, text)) /\ Unmoved(d, RemoveLink(d, i, by, n))
<1>1. WellFormed(AddCheck(d, i, by, text)) /\ Wrote(d, AddCheck(d, i, by, text), i, by) /\ Unmoved(d, AddCheck(d, i, by, text))
  <2> DEFINE x == Append(d.items[i], [what |-> text, done |-> FALSE])
             e == [d EXCEPT !.items[i] = x]
  <2>1. AddCheck(d, i, by, text) = Logged(e, i, by, "check") BY DEF AddCheck
  <2> HIDE DEF x
  <2>2. WellFormed(e) /\ Exists(e, i) /\ Wrote(d, e, i, by) /\ Unmoved(d, e) BY ItemsPut, WroteItems
  <2> HIDE DEF e
  <2>3. WellFormed(Logged(e, i, by, "check")) BY <2>2, LogKept DEF LineKind
  <2>4. Wrote(d, Logged(e, i, by, "check"), i, by) /\ Unmoved(d, Logged(e, i, by, "check"))
    BY <2>2, WroteLine, WroteAgain, UnmovedAgain
  <2> QED BY <2>1, <2>3, <2>4
<1>2. WellFormed(RemoveCheck(d, i, by, n)) /\ Wrote(d, RemoveCheck(d, i, by, n), i, by) /\ Unmoved(d, RemoveCheck(d, i, by, n))
  <2> DEFINE x == RemoveAt(d.items[i], n)
             f == [d EXCEPT !.items[i] = x]
             e == IF n \in DOMAIN d.items[i] THEN f ELSE d
  <2>1. RemoveCheck(d, i, by, n) = Logged(e, i, by, "check") BY DEF RemoveCheck
  <2> HIDE DEF x
  <2>2. WellFormed(f) /\ Exists(f, i) /\ Wrote(d, f, i, by) /\ Unmoved(d, f) BY ItemsPut, WroteItems
  <2> HIDE DEF f
  <2>3. WellFormed(e) /\ Exists(e, i) /\ Wrote(d, e, i, by) /\ Unmoved(d, e) BY <2>2, Unwritten
  <2> HIDE DEF e
  <2>4. WellFormed(Logged(e, i, by, "check")) BY <2>3, LogKept DEF LineKind
  <2>5. Wrote(d, Logged(e, i, by, "check"), i, by) /\ Unmoved(d, Logged(e, i, by, "check"))
    BY <2>3, WroteLine, WroteAgain, UnmovedAgain
  <2> QED BY <2>1, <2>4, <2>5
<1>3. WellFormed(AddLink(d, i, by, text)) /\ Wrote(d, AddLink(d, i, by, text), i, by) /\ Unmoved(d, AddLink(d, i, by, text))
  <2> DEFINE x == Append(d.links[i], text)
             e == [d EXCEPT !.links[i] = x]
  <2>1. AddLink(d, i, by, text) = Logged(e, i, by, "link") BY DEF AddLink
  <2> HIDE DEF x
  <2>2. WellFormed(e) /\ Exists(e, i) /\ Wrote(d, e, i, by) /\ Unmoved(d, e) BY LinksPut, WroteLinks
  <2> HIDE DEF e
  <2>3. WellFormed(Logged(e, i, by, "link")) BY <2>2, LogKept DEF LineKind
  <2>4. Wrote(d, Logged(e, i, by, "link"), i, by) /\ Unmoved(d, Logged(e, i, by, "link"))
    BY <2>2, WroteLine, WroteAgain, UnmovedAgain
  <2> QED BY <2>1, <2>3, <2>4
<1>4. WellFormed(RemoveLink(d, i, by, n)) /\ Wrote(d, RemoveLink(d, i, by, n), i, by) /\ Unmoved(d, RemoveLink(d, i, by, n))
  <2> DEFINE x == RemoveAt(d.links[i], n)
             f == [d EXCEPT !.links[i] = x]
             e == IF n \in DOMAIN d.links[i] THEN f ELSE d
  <2>1. RemoveLink(d, i, by, n) = Logged(e, i, by, "link") BY DEF RemoveLink
  <2> HIDE DEF x
  <2>2. WellFormed(f) /\ Exists(f, i) /\ Wrote(d, f, i, by) /\ Unmoved(d, f) BY LinksPut, WroteLinks
  <2> HIDE DEF f
  <2>3. WellFormed(e) /\ Exists(e, i) /\ Wrote(d, e, i, by) /\ Unmoved(d, e) BY <2>2, Unwritten
  <2> HIDE DEF e
  <2>4. WellFormed(Logged(e, i, by, "link")) BY <2>3, LogKept DEF LineKind
  <2>5. Wrote(d, Logged(e, i, by, "link"), i, by) /\ Unmoved(d, Logged(e, i, by, "link"))
    BY <2>3, WroteLine, WroteAgain, UnmovedAgain
  <2> QED BY <2>1, <2>4, <2>5
<1> QED BY <1>1, <1>2, <1>3, <1>4

-----------------------------------------------------------------------------
(* A row of a document                                                     *)

\* A row the store applies.
PlanMeant(row) ==
  {row.title, row.desc, row.due, row.block} \subseteq Said /\ row.ref \in Nat \cup {None, Unset}

LEMMA CreatesUnmoved ==
  ASSUME NEW d, NEW e, NEW f, NEW by, Creates(d, e, by), Unmoved(e, f)
  PROVE  Creates(d, f, by)
<1>1. PICK l : /\ l.kind = "created" /\ l.by = by /\ l \notin d.log
               /\ \A x : x.kind = "created" => (x \in e.log <=> x \in d.log \/ x = l)
  BY DEF Creates
<1>2. \A x : x.kind = "created" => (x \in f.log <=> x \in d.log \/ x = l) BY <1>1 DEF Unmoved
<1> QED BY <1>1, <1>2 DEF Creates

LEMMA ImportRowKept ==
  ASSUME NEW d, WellFormed(d), d.next \in Id, NEW by \in STRING \cup {Unset}, NEW row, PlanMeant(row)
  PROVE  /\ WellFormed(ImportRow(d, by, row)) /\ Wrote(d, ImportRow(d, by, row), d.next, by)
         /\ Creates(d, ImportRow(d, by, row), by) /\ Grows(d, ImportRow(d, by, row))
<1> DEFINE i == d.next
           a == AddTagged(d, by, row.title, Given(row.ref), <<>>)
           b == Logged(a, i, by, "imported")
           c == [b EXCEPT !.items[i] = row.checks]
           r == [c.card[i] EXCEPT !.desc = Given(row.desc)]
           e == [c EXCEPT !.card[i] = r]
           f == IF Given(row.due) = None THEN e ELSE SetDue(e, i, by, row.due)
           g == IF Given(row.block) = None THEN f ELSE Blocked(f, i, by, row.block)
<1>1. ImportRow(d, by, row) = g BY DEF ImportRow
<1>2. /\ row.title \in Said /\ row.due \in Said /\ row.block \in Said /\ Given(row.desc) \in Said
      /\ Given(row.ref) \in Nat \cup {None}
  BY DEF PlanMeant, Given, Said
<1>3. WellFormed(a) /\ Exists(a, i) /\ Wrote(d, a, i, by) /\ Creates(d, a, by) /\ Grows(d, a) BY <1>2, AddTaggedKept
<1> HIDE DEF a
<1>4. WellFormed(b) /\ Wrote(a, b, i, by) /\ Unmoved(a, b) BY <1>3, LogKept, WroteLine DEF LineKind
<1> HIDE DEF b
<1>5. Grows(d, b) /\ Exists(b, i) /\ Wrote(d, b, i, by) /\ Creates(d, b, by)
  BY <1>3, <1>4, WroteAgain, CreatesUnmoved, UnmovedGrows, GrowsAgain DEF Unmoved
<1>6. WellFormed(c) /\ Exists(c, i) /\ Wrote(b, c, i, by) /\ Unmoved(b, c) BY <1>4, <1>5, ItemsPut, WroteItems
<1> HIDE DEF c
<1>7. Grows(d, c) /\ Wrote(d, c, i, by) /\ Creates(d, c, by) BY <1>4, <1>5, <1>6, WroteAgain, CreatesUnmoved, UnmovedGrows, GrowsAgain
<1>8. i \in Id /\ c.card[i] \in CardRow BY <1>6, InItsColumn
<1>9. r \in CardRow /\ r.col = c.card[i].col /\ r.owner = c.card[i].owner BY <1>2, <1>8 DEF CardRow
<1> HIDE DEF r
<1>10. WellFormed(e) /\ Wrote(c, e, i, by) /\ Unmoved(c, e) BY <1>6, <1>8, <1>9, RowKept, WroteRow, UnmovedRow
<1> HIDE DEF e
<1>11. Grows(d, e) /\ Exists(e, i) /\ Wrote(d, e, i, by) /\ Creates(d, e, by)
  BY <1>6, <1>7, <1>10, WroteAgain, CreatesUnmoved, UnmovedGrows, GrowsAgain DEF Unmoved
<1>12. WellFormed(f) /\ Wrote(e, f, i, by) /\ Unmoved(e, f) BY <1>2, <1>10, <1>11, SetDueKept, Unwritten
<1> HIDE DEF f
<1>13. Grows(d, f) /\ Exists(f, i) /\ Wrote(d, f, i, by) /\ Creates(d, f, by)
  BY <1>10, <1>11, <1>12, WroteAgain, CreatesUnmoved, UnmovedGrows, GrowsAgain DEF Unmoved
<1>14. WellFormed(g) /\ Wrote(f, g, i, by) /\ Unmoved(f, g) BY <1>2, <1>12, <1>13, BlockedKept, Unwritten
<1> HIDE DEF g
<1> QED BY <1>1, <1>12, <1>13, <1>14, WroteAgain, CreatesUnmoved, UnmovedGrows, GrowsAgain

LEMMA EditRowKept ==
  ASSUME NEW d, WellFormed(d), NEW by \in STRING \cup {Unset}, NEW row, PlanMeant(row), Exists(d, row.card)
  PROVE  /\ WellFormed(EditRow(d, by, row)) /\ Wrote(d, EditRow(d, by, row), row.card, by)
         /\ Unmoved(d, EditRow(d, by, row))
<1> DEFINE i == row.card
           r == d.card[i]
           texts == \E field \in {"title", "desc", "ref"} : Differs(r, row, field)
           q == [r EXCEPT !.ref = row.ref]
           m == [d EXCEPT !.card[i] = q]
           a == IF Differs(r, row, "ref") THEN m ELSE d
           b == IF texts THEN Edited(a, i, by, None, row.title, row.desc) ELSE d
           c == IF Differs(r, row, "due") THEN SetDue(b, i, by, row.due) ELSE b
           e == IF Differs(r, row, "block") THEN Blocked(c, i, by, row.block) ELSE c
           f == LogForced(e, i, by)
<1>1. EditRow(d, by, row) \in {e, f} BY DEF EditRow
<1>2. row.title \in Said /\ row.desc \in Said /\ row.due \in Said /\ row.block \in Said BY DEF PlanMeant
<1>3. i \in Id /\ r \in CardRow BY InItsColumn
<1>4. WellFormed(a) /\ Wrote(d, a, i, by) /\ Unmoved(d, a)
  <2>1. CASE Differs(r, row, "ref")
    <3>1. row.ref \in Nat \cup {None} BY <2>1 DEF Differs, PlanMeant
    <3>2. q \in CardRow /\ q.col = r.col /\ q.owner = r.owner BY <1>3, <3>1 DEF CardRow
    <3> HIDE DEF q
    <3>3. WellFormed(m) /\ Wrote(d, m, i, by) /\ Unmoved(d, m) BY <1>3, <3>2, RowKept, WroteRow, UnmovedRow
    <3> QED BY <2>1, <3>3
  <2>2. CASE ~Differs(r, row, "ref") BY <2>2, Unwritten
  <2> QED BY <2>1, <2>2
<1> HIDE DEF a
<1>5. Exists(a, i) BY <1>4 DEF Unmoved
<1> HIDE DEF texts, r
<1>6. WellFormed(b) /\ Wrote(d, b, i, by) /\ Unmoved(d, b)
  <2> DEFINE x == Edited(a, i, by, None, row.title, row.desc)
  <2>1. WellFormed(x) /\ Wrote(a, x, i, by) /\ Unmoved(a, x) BY <1>2, <1>4, <1>5, EditedKept
  <2> HIDE DEF x
  <2>2. Wrote(d, x, i, by) /\ Unmoved(d, x) BY <2>1, <1>4, WroteAgain, UnmovedAgain
  <2>3. b \in {x, d} BY DEF x
  <2> HIDE DEF b
  <2> QED BY <2>1, <2>2, <2>3, Unwritten
<1> HIDE DEF b
<1>7. Exists(b, i) BY <1>6 DEF Unmoved
<1>8. WellFormed(c) /\ Wrote(d, c, i, by) /\ Unmoved(d, c)
  <2>1. WellFormed(c) /\ Wrote(b, c, i, by) /\ Unmoved(b, c) BY <1>2, <1>6, <1>7, SetDueKept, Unwritten
  <2> HIDE DEF c
  <2> QED BY <2>1, <1>6, WroteAgain, UnmovedAgain
<1> HIDE DEF c
<1>9. Exists(c, i) BY <1>8 DEF Unmoved
<1>10. WellFormed(e) /\ Wrote(d, e, i, by) /\ Unmoved(d, e)
  <2>1. WellFormed(e) /\ Wrote(c, e, i, by) /\ Unmoved(c, e) BY <1>2, <1>8, <1>9, BlockedKept, Unwritten
  <2> HIDE DEF e
  <2> QED BY <2>1, <1>8, WroteAgain, UnmovedAgain
<1> HIDE DEF e
<1>11. Exists(e, i) BY <1>10 DEF Unmoved
<1>12. WellFormed(f) /\ Wrote(d, f, i, by) /\ Unmoved(d, f)
  <2>1. WellFormed(f) /\ Wrote(e, f, i, by) /\ Unmoved(e, f)
    BY <1>10, <1>11, LogKept, WroteLine DEF LogForced, LineKind
  <2> HIDE DEF f
  <2> QED BY <2>1, <1>10, WroteAgain, UnmovedAgain
<1> QED BY <1>1, <1>10, <1>12

-----------------------------------------------------------------------------
(* The one transaction of a command                                        *)

LEMMA EffectKept ==
  ASSUME NEW d, WellFormed(d), NEW c, Meant(c), Someone(c), NEW s, Takes(d, c, s)
  PROVE  /\ WellFormed(Effect(d, c, s)) /\ Grows(d, Effect(d, c, s))
         /\ \E i : Acted(d, Effect(d, c, s), i, c.by) /\ (c.op \notin {"add", "next"} => i = c.card)
<1> DEFINE e == Effect(d, c, s)
           by == c.by
           i == c.card
<1>1. /\ by \in STRING /\ c.title \in Said /\ c.desc \in Said /\ c.due \in Said /\ c.block \in Said
      /\ c.ref \in Nat \cup {None} /\ c.col \in Column
  BY DEF Meant, Someone
<1>2. c.op \notin {"add", "next", "restore"} => Exists(d, i) BY DEF Takes
<1>3. CASE c.op = "add"
  <2>1. e = AddTagged(d, by, c.title, c.ref, c.checks) BY <1>3 DEF Effect
  <2>2. d.next \in Id BY <1>3 DEF Takes
  <2>3. WellFormed(e) /\ Wrote(d, e, d.next, by) /\ Grows(d, e) BY <1>1, <2>1, <2>2, AddTaggedKept
  <2> QED BY <2>3, <1>3, WroteActed
<1>4. CASE c.op = "check"
  <2>1. e = Ticked(d, i, c.n, s.item) BY <1>4 DEF Effect
  <2>2. WellFormed(e) /\ Wrote(d, e, i, by) /\ Unmoved(d, e)
    BY <1>2, <1>4, <2>1, TickedKept
  <2> QED BY <2>2, WroteActed, UnmovedGrows
<1>5. CASE c.op \in {"addcheck", "rmcheck", "link", "unlink"}
  <2>1. e \in {AddCheck(d, i, by, c.text), RemoveCheck(d, i, by, c.n), AddLink(d, i, by, c.text),
               RemoveLink(d, i, by, c.n)}
    BY <1>5 DEF Effect
  <2> HIDE DEF e
  <2>2. WellFormed(e) /\ Wrote(d, e, i, by) /\ Unmoved(d, e)
    BY <1>1, <1>2, <1>5, <2>1, ChecklistKept
  <2> QED BY <2>2, WroteActed, UnmovedGrows DEF e
<1>6. CASE c.op = "block"
  <2>1. e = Blocked(d, i, by, c.block) BY <1>6 DEF Effect
  <2>2. WellFormed(e) /\ Wrote(d, e, i, by) /\ Unmoved(d, e)
    BY <1>1, <1>2, <1>6, <2>1, BlockedKept
  <2> QED BY <2>2, WroteActed, UnmovedGrows
<1>7. CASE c.op = "prio"
  <2>1. e = Reordered(d, i, by, c.how) BY <1>7 DEF Effect
  <2>2. WellFormed(e) /\ Wrote(d, e, i, by) /\ Unmoved(d, e)
    BY <1>1, <1>2, <1>7, <2>1, ReorderedKept
  <2> QED BY <2>2, WroteActed, UnmovedGrows
<1>8. CASE c.op = "edit"
  <2>1. e = Edited(d, i, by, s.base, c.title, c.desc) BY <1>8 DEF Effect
  <2>2. WellFormed(e) /\ Wrote(d, e, i, by) /\ Unmoved(d, e)
    BY <1>1, <1>2, <1>8, <2>1, EditedKept
  <2> QED BY <2>2, WroteActed, UnmovedGrows
<1>9. CASE c.op = "note"
  <2>1. e = Logged(d, i, by, "note") BY <1>9 DEF Effect
  <2>2. WellFormed(e) /\ Wrote(d, e, i, by) /\ Unmoved(d, e)
    BY <1>1, <1>2, <1>9, <2>1, LogKept, WroteLine DEF LineKind
  <2> QED BY <2>2, WroteActed, UnmovedGrows
<1>10. CASE c.op = "take"
  <2>1. e = MoveTo(d, i, by, "doing", by) BY <1>10 DEF Effect
  <2>2. "doing" \in Column BY DEF Column
  <2>3. WellFormed(e) /\ Acted(d, e, i, by) /\ Grows(d, e) BY <1>1, <1>2, <1>10, <2>1, <2>2, MoveToKept
  <2> QED BY <2>3
<1>11. CASE c.op = "next"
  <2> DEFINE j == CHOOSE x \in Foremost(d) : TRUE
  <2>1. e = MoveTo(d, j, by, "doing", by) BY <1>11 DEF Effect
  <2>2. j \in Foremost(d) BY <1>11 DEF Takes
  <2> HIDE DEF j
  <2>3. j \in Range(d.order["todo"]) BY <2>2 DEF Foremost, Waiting
  <2>4. "doing" \in Column /\ "todo" \in Column BY DEF Column
  <2>5. Exists(d, j) BY <2>3, <2>4 DEF WellFormed, Placed
  <2>6. WellFormed(e) /\ Acted(d, e, j, by) /\ Grows(d, e) BY <1>1, <2>1, <2>4, <2>5, MoveToKept
  <2> QED BY <2>6, <1>11
<1>12. CASE c.op = "move"
  <2> DEFINE owner == OwnerAfter(d.card[i], c)
  <2>1. e = MoveTo(d, i, by, c.col, owner) BY <1>12 DEF Effect
  <2>2. d.card[i] \in CardRow BY <1>2, <1>12, InItsColumn
  <2>3. owner \in STRING \cup {None} BY <1>1, <2>2 DEF OwnerAfter, CardRow
  <2> HIDE DEF owner
  <2>4. WellFormed(e) /\ Acted(d, e, i, by) /\ Grows(d, e) BY <1>1, <1>2, <1>12, <2>1, <2>3, MoveToKept
  <2> QED BY <2>4
<1>13. CASE c.op = "restore"
  <2>1. e = Restored(d, i, by) /\ i \in DOMAIN d.shelf BY <1>13 DEF Effect, Takes
  <2>2. WellFormed(e) /\ Wrote(d, e, i, by) /\ Grows(d, e) BY <1>1, <2>1, RestoredKept
  <2> QED BY <2>2, WroteActed
<1>14. CASE c.op \notin {"add", "check", "addcheck", "rmcheck", "link", "unlink", "block", "prio", "edit", "note",
                         "take", "next", "move", "restore"}
  <2>1. e \in {Archived(d, i, by), Removed(d, i, by)} BY <1>14 DEF Effect
  <2> HIDE DEF e
  <2>2. WellFormed(e) /\ Wrote(d, e, i, by) /\ Grows(d, e) BY <1>1, <1>2, <1>14, <2>1, RemovedKept, ArchivedKept
  <2> QED BY <2>2, WroteActed DEF e
<1> QED BY <1>3, <1>4, <1>5, <1>6, <1>7, <1>8, <1>9, <1>10, <1>11, <1>12, <1>13, <1>14

-----------------------------------------------------------------------------
(* The rows of a document, in their order                                  *)

Below == {pair \in Nat \X Nat : pair[1] < pair[2]}

LEMMA Least == ASSUME NEW T, T \subseteq Nat, T # {} PROVE \E x \in T : \A y \in T : x <= y
<1>1. IsWellFoundedOn(Below, Nat) BY NatLessThanWellFounded DEF OpToRel, Below
<1>2. PICK x \in T : \A y \in T : ~(<<y, x>> \in Below) BY <1>1, WFMin
<1>3. \A y \in T : y \in Nat /\ x \in Nat /\ ~(y < x) BY <1>2 DEF Below
<1> QED BY <1>3

Rising(s, n) == \A j, k \in 1..n : j < k => s[j] < s[k]
Listable(S) == \E s \in [1..Cardinality(S) -> S] : Rising(s, Cardinality(S))

LEMMA AllListable == ASSUME NEW N \in Nat, NEW S, S \subseteq 1..N PROVE Listable(S)
<1> DEFINE Wrong == {n \in Nat : \E U \in SUBSET (1..N) : Cardinality(U) = n /\ ~Listable(U)}
<1>1. \A U \in SUBSET (1..N) : IsFiniteSet(U) /\ Cardinality(U) \in Nat
  <2>1. IsFiniteSet(1..N) BY FS_Interval
  <2>2. \A U \in SUBSET (1..N) : IsFiniteSet(U) BY <2>1, FS_Subset
  <2> QED BY <2>2, FS_CardinalityType
<1> SUFFICES ASSUME Wrong # {} PROVE FALSE BY <1>1
<1>2. PICK n \in Wrong : \A m \in Wrong : n <= m BY Least
<1>3. PICK U \in SUBSET (1..N) : Cardinality(U) = n /\ ~Listable(U) BY <1>2
<1>4. n # 0
  <2>1. ASSUME n = 0 PROVE FALSE
    <3> DEFINE s == [x \in 1..0 |-> x]
    <3>1. s \in [1..0 -> U] /\ Rising(s, 0) BY DEF Rising
    <3> QED BY <3>1, <2>1, <1>3 DEF Listable
  <2> QED BY <2>1
<1>5. PICK m \in U : \A x \in U : x <= m
  <2> DEFINE V == {y \in Nat : \E x \in U : y = N - x}
  <2>1. U # {} BY <1>3, <1>4, FS_EmptySet
  <2>2. V # {}
    <3>1. PICK x \in U : TRUE BY <2>1
    <3>2. N - x \in V BY <3>1
    <3> QED BY <3>2
  <2>3. PICK v \in V : \A y \in V : v <= y BY <2>2, Least
  <2>4. PICK m \in U : v = N - m BY <2>3
  <2>5. \A x \in U : N - x \in V OBVIOUS
  <2>6. \A x \in U : N - m <= N - x BY <2>3, <2>4, <2>5
  <2> QED BY <2>4, <2>6
<1> DEFINE T == U \ {m}
<1>6. T \in SUBSET (1..N) /\ Cardinality(T) = n - 1 /\ n - 1 \in Nat
  BY <1>1, <1>2, <1>3, <1>4, <1>5, FS_RemoveElement
<1>7. n - 1 \notin Wrong BY <1>2
<1>8. Listable(T) BY <1>6, <1>7
<1>9. PICK s \in [1..(n - 1) -> T] : Rising(s, n - 1) BY <1>6, <1>8 DEF Listable
<1> DEFINE t == [k \in 1..n |-> IF k = n THEN m ELSE s[k]]
<1>10. t \in [1..n -> U]
  <2>1. \A k \in 1..n : k = n \/ k \in 1..(n - 1) BY <1>2
  <2> QED BY <2>1, <1>5, <1>9
<1>11. Rising(t, n)
  <2> SUFFICES ASSUME NEW j \in 1..n, NEW k \in 1..n, j < k PROVE t[j] < t[k] BY DEF Rising
  <2>1. j \in 1..(n - 1) /\ t[j] = s[j] BY <1>2
  <2>2. CASE k = n
    <3>1. s[j] \in T BY <2>1, <1>9
    <3>2. U \subseteq 1..N /\ s[j] \in U BY <3>1
    <3>5. \A x \in U : x \in Int BY <3>2
    <3>3. s[j] \in Int /\ m \in Int BY <3>2, <3>5
    <3>4. s[j] <= m /\ s[j] # m BY <3>1, <1>5
    <3> QED BY <2>1, <2>2, <3>3, <3>4
  <2>3. CASE k # n
    <3>1. k \in 1..(n - 1) /\ t[k] = s[k] BY <2>3, <1>2
    <3> QED BY <2>1, <3>1, <1>9 DEF Rising
  <2> QED BY <2>2, <2>3
<1> QED BY <1>3, <1>10, <1>11 DEF Listable

LEMMA InOrderIs ==
  ASSUME NEW N \in Nat, NEW S, S \subseteq 1..N
  PROVE  InOrder(S) \in [1..Cardinality(S) -> S] /\ Rising(InOrder(S), Cardinality(S))
BY AllListable DEF InOrder, Listable, Rising

\* Every number of S is named.
LEMMA InOrderNames ==
  ASSUME NEW N \in Nat, NEW S, S \subseteq 1..N, NEW x \in S
  PROVE  \E k \in 1..Cardinality(S) : InOrder(S)[k] = x
<1> DEFINE n == Cardinality(S)
           s == InOrder(S)
<1>1. IsFiniteSet(S) /\ n \in Nat
  <2>1. IsFiniteSet(1..N) BY FS_Interval
  <2>2. IsFiniteSet(S) BY <2>1, FS_Subset
  <2> QED BY <2>2, FS_CardinalityType
<1>2. s \in [1..n -> S] /\ Rising(s, n) BY InOrderIs
<1> HIDE DEF s
<1>3. ASSUME NEW j \in 1..n, NEW k \in 1..n, s[j] = s[k] PROVE j = k
  <2>1. s[j] \in S /\ s[k] \in S BY <1>2
  <2>4. \A y \in S : y \in Int OBVIOUS
  <2>0. s[j] \in Int /\ s[k] \in Int BY <2>1, <2>4
  <2>2. ~(j < k) BY <1>2, <1>3, <2>0 DEF Rising
  <2>3. ~(k < j) BY <1>2, <1>3, <2>0 DEF Rising
  <2> QED BY <2>2, <2>3
<1>4. s \in Injection(1..n, S) BY <1>2, <1>3 DEF Injection, IsInjective
<1>5. IsFiniteSet(1..n) /\ Cardinality(1..n) = n BY <1>1, FS_Interval
<1>6. s \in Surjection(1..n, S) BY <1>1, <1>4, <1>5, FS_Injection
<1> QED BY <1>6 DEF Surjection, s

LEMMA InOrderAll ==
  ASSUME NEW N \in Nat, NEW S, S \subseteq 1..N
  PROVE  \A x \in S : \E k \in 1..Cardinality(S) : InOrder(S)[k] = x
BY InOrderNames

-----------------------------------------------------------------------------
(* The phases of a command                                                 *)

Bulk == {"import", "bulkedit"}

LEMMA PersonKeysAre == PersonKeys \subseteq {"verifier_only", "verifiers", "readers"}
<1> SUFFICES ASSUME NEW key \in Key, key \notin {"verifier_only", "verifiers", "readers"}, Setting(key).person
             PROVE  FALSE
  BY DEF PersonKeys
<1> QED
  BY DEF Key, Setting, Named, Labels, Panels, Hooks, Quiet, Noted, Personal, Wip, WipPerOwner, Actors,
         VerifierOnly, Verifiers, Readers, Rules, Kind, RmMode, FileMode, Hook, DoneBy, DoneNeedsNote,
         DoneNeedsLink, MaxRounds, WipCountsBlocked, WaitingLane, CardLine, Label, Sort, Tz, DueWarn,
         Theme, Layout, Panel, GithubRepo

\* Which commands have which phases: those about a card, those that set something.
CardOps == {"add", "check", "addcheck", "rmcheck", "link", "unlink", "block", "prio", "edit", "next", "move",
            "note", "take", "rm", "restore"}
Sets(c) == c.op \in {"new", "from"} \/ (c.op = "config" /\ Asks(c) # "read")
CardWords == {"hold", "write", "force", "due", "item", "mode", "log", "issue", "rules", "seen"}
DeskWords == CardWords \cup {"open", "begin", "row", "commit", "old", "ask", "put", "forget", "note"}
Fits(c, x) ==
  /\ x.do \in DeskWords
  /\ x.do \in CardWords => c.op \in CardOps
  /\ x.do = "due" => c.op \in {"add", "edit"}
  /\ x.do \in {"put", "forget", "note"} => Sets(c)
  /\ x.do = "put" => /\ x.arg[1] \in Key \cup {SetupDone}
                     /\ x.arg[1] \in PersonKeys => c.op = "config" /\ x.arg[1] = c.key

\* A phase that is a statement of its own.
Plainly(c, x) == x.do \notin {"open", "begin", "row", "commit"} /\ Fits(c, x)
Simple(c, s) == \E S : s \in Seq(S) /\ \A x \in S : Plainly(c, x)


\* The program of a command: it begins by being let in; a long transaction begins, goes through
\* its rows and ends, and nothing else comes between.
Phased(c, P) ==
  /\ P \in Seq(Range(P)) /\ 1 \in 1..Len(P) /\ P[1].do = "open"
  /\ \A n \in 2..Len(P) :
       /\ P[n].do # "open"
       /\ P[n].do \in {"begin", "row"} => n + 1 \in 2..Len(P) /\ P[n + 1].do \in {"row", "commit"}
       /\ P[n].do \in {"row", "commit"} => n - 1 \in 2..Len(P) /\ P[n - 1].do \in {"begin", "row"}
       /\ P[n].do = "row" => PlanMeant(P[n].arg)
       /\ P[n].do \in {"begin", "row", "commit"} => c.op \in Bulk
       /\ Fits(c, P[n])

LEMMA SimpleOf ==
  ASSUME NEW c, NEW s, NEW S, s \in Seq(S), \A x \in S : Plainly(c, x)
  PROVE  Simple(c, s)
BY DEF Simple

LEMMA PlainNone == ASSUME NEW c PROVE Simple(c, <<>>)
<1> DEFINE s == <<>>
           S == {}
<1>1. s \in Seq(S) /\ \A x \in S : Plainly(c, x) OBVIOUS
<1> HIDE DEF s, S
<1>2. Simple(c, s) BY <1>1, SimpleOf
<1> QED BY <1>2 DEF s

LEMMA PlainOne == ASSUME NEW c, NEW x, Plainly(c, x) PROVE Simple(c, <<x>>)
<1> DEFINE s == <<x>>
           S == {x}
<1>1. s \in Seq(S) /\ \A y \in S : Plainly(c, y) OBVIOUS
<1> HIDE DEF s, S
<1>2. Simple(c, s) BY <1>1, SimpleOf
<1> QED BY <1>2 DEF s

LEMMA PlainAnd == ASSUME NEW c, NEW s, NEW t, Simple(c, s), Simple(c, t) PROVE Simple(c, s \o t)
<1>1. PICK S : s \in Seq(S) /\ \A x \in S : Plainly(c, x) BY DEF Simple
<1>2. PICK T : t \in Seq(T) /\ \A x \in T : Plainly(c, x) BY DEF Simple
<1>3. s \in Seq(S \cup T) /\ t \in Seq(S \cup T) BY <1>1, <1>2, SeqMonotonic
<1>4. s \o t \in Seq(S \cup T) BY <1>3, ConcatProperties
<1> QED BY <1>1, <1>2, <1>4 DEF Simple

LEMMA PlainWords ==
  ASSUME NEW c, NEW w \in CardWords, c.op \in CardOps, w = "due" => c.op \in {"add", "edit"}
  PROVE  Plainly(c, Do(w)) /\ Simple(c, <<Do(w)>>)
<1>1. Plainly(c, Do(w)) BY DEF Plainly, Fits, Do, CardWords, DeskWords
<1> QED BY <1>1, PlainOne

LEMMA SettingWords ==
  ASSUME NEW c, NEW w \in {"old", "ask", "note"}, w = "note" => Sets(c)
  PROVE  Plainly(c, Do(w)) /\ Simple(c, <<Do(w)>>)
<1>1. Plainly(c, Do(w)) BY DEF Plainly, Fits, Do, CardWords, DeskWords
<1> QED BY <1>1, PlainOne

LEMMA PlainPut ==
  ASSUME NEW c, Sets(c), NEW key \in Key \cup {SetupDone}, NEW v, key \in PersonKeys => c.op = "config" /\ key = c.key
  PROVE  Plainly(c, Put(key, v)) /\ Simple(c, <<Put(key, v)>>)
<1>1. Plainly(c, Put(key, v)) BY DEF Plainly, Fits, Put, CardWords, DeskWords
<1> QED BY <1>1, PlainOne

LEMMA PlainThree ==
  ASSUME NEW c, NEW x, NEW y, NEW z, Plainly(c, x), Plainly(c, y), Plainly(c, z)
  PROVE  Simple(c, <<x, y, z>>) /\ Simple(c, <<x, y>>)
<1> DEFINE s == <<x, y, z>>
           t == <<x, y>>
           S == {x, y, z}
<1>1. s \in Seq(S) /\ t \in Seq(S) /\ \A a \in S : Plainly(c, a) OBVIOUS
<1> HIDE DEF s, t, S
<1>2. Simple(c, s) /\ Simple(c, t) BY <1>1, SimpleOf
<1> QED BY <1>2 DEF s, t

LEMMA PlainPhased ==
  ASSUME NEW c, NEW s, Simple(c, s)
  PROVE  Phased(c, <<Do("open")>> \o s)
<1> DEFINE o == Do("open")
           P == <<o>> \o s
<1>1. PICK S : s \in Seq(S) /\ \A x \in S : Plainly(c, x) BY DEF Simple
<1>2. <<o>> \in Seq({o}) /\ Len(<<o>>) = 1 /\ <<o>>[1] = o OBVIOUS
<1>3. <<o>> \in Seq({o} \cup S) /\ s \in Seq({o} \cup S) BY <1>1, <1>2, SeqMonotonic
<1>4. /\ P \in Seq({o} \cup S) /\ Len(P) = 1 + Len(s)
      /\ \A n \in 1..(1 + Len(s)) : P[n] = IF n <= 1 THEN <<o>>[n] ELSE s[n - 1]
  BY <1>2, <1>3, ConcatProperties
<1>5. P \in Seq(Range(P)) BY <1>4, SeqOfRange
<1>6. Len(s) \in Nat BY <1>1
<1>7. P[1] = o BY <1>2, <1>4, <1>6
<1> HIDE DEF P, o
<1>8. ASSUME NEW n \in 2..Len(P) PROVE Plainly(c, P[n])
  <2>1. n - 1 \in 1..Len(s) /\ P[n] = s[n - 1] BY <1>4, <1>6
  <2>2. s[n - 1] \in S BY <2>1, <1>1, ElementOfSeq
  <2> QED BY <2>1, <2>2, <1>1
<1>9. 1 \in 1..Len(P) BY <1>4, <1>6
<1>10. o.do = "open" BY DEF o, Do
<1>11. Phased(c, P) BY <1>5, <1>7, <1>8, <1>9, <1>10 DEF Phased, Plainly
<1> QED BY <1>11 DEF P, o

LEMMA BundleKeys ==
  {"sort", "card_line", "due_warn", "waiting_lane", "wip_counts_blocked", "label.todo", "label.doing",
   "label.review", "label.done", "kind", "github", "github-panel"} \subseteq Key \ PersonKeys
<1>1. {"sort", "card_line", "due_warn", "waiting_lane", "wip_counts_blocked", "label.todo", "label.doing",
       "label.review", "label.done", "kind", "github", "github-panel"} \subseteq Key
  BY DEF Key, Named, Labels, Panels
<1> QED BY <1>1, PersonKeysAre

LEMMA NineInOrder ==
  ASSUME NEW a, NEW b, NEW c, NEW d, NEW e, NEW f, NEW g, NEW h, NEW i
  PROVE  <<a, b, c, d, e, f, g, h, i>> \in Seq({a, b, c, d, e, f, g, h, i})
OBVIOUS

LEMMA KindSimple == ASSUME NEW c, Sets(c), NEW kind PROVE Simple(c, ApplyKind(kind))
<1>1. Simple(c, Bundle(kind))
  <2>1. CASE kind # "deadline" BY <2>1, PlainNone DEF Bundle
  <2>2. CASE kind = "deadline"
    <3> DEFINE s == Bundle("deadline")
               S == {Put("sort", "due"), Put("card_line", "due"), Put("due_warn", "7"),
                     Put("waiting_lane", "shown"), Put("wip_counts_blocked", "no"),
                     Put("label.todo", "TO PREPARE"), Put("label.doing", "IN HAND"),
                     Put("label.review", "WITH REVIEWER"), Put("label.done", "FILED")}
    <3>1. s \in Seq(S) BY NineInOrder DEF Bundle
    <3>2. \A key \in Key \ PersonKeys : \A v : Plainly(c, Put(key, v)) BY PlainPut
    <3>3. \A x \in S : Plainly(c, x) BY <3>2, BundleKeys
    <3> HIDE DEF s, S
    <3>4. Simple(c, s) BY <3>1, <3>3, SimpleOf
    <3> QED BY <2>2, <3>4 DEF s
  <2> QED BY <2>1, <2>2
<1>2. Simple(c, <<Put("kind", IF kind = "default" THEN None ELSE kind)>>) BY PlainPut, BundleKeys
<1> QED BY <1>1, <1>2, PlainAnd DEF ApplyKind

\* The settings of another board are copied in one order, each once, but for those of a person.
LEMMA CopySimple ==
  ASSUME NEW c, Sets(c), NEW there, IsFiniteSet(DOMAIN there), DOMAIN there \subseteq Key \cup {SetupDone}
  PROVE  Simple(c, CopySettings(there))
<1> DEFINE K == DOMAIN there \ (NotCopied \cup {SetupDone})
           n == Cardinality(K)
           keys == SetToSeq(K)
           S == {Put(key, there[key]) : key \in K}
<1>1. IsFiniteSet(K) BY FS_Subset
<1>2. n \in Nat /\ ExistsBijection(1..n, K) BY <1>1, FS_CardinalityType
<1>3. \E f \in [1..n -> K] : IsInjective(f) BY <1>2 DEF ExistsBijection, Bijection, Injection
<1>4. keys \in [1..n -> K] BY <1>3 DEF SetToSeq
<1>5. CopySettings(there) = [j \in DOMAIN keys |-> Put(keys[j], there[keys[j]])] BY DEF CopySettings
<1> HIDE DEF keys
<1>6. DOMAIN keys = 1..n BY <1>4
<1>7. \A j \in 1..n : Put(keys[j], there[keys[j]]) \in S BY <1>4
<1> HIDE DEF S
<1>8. CopySettings(there) \in Seq(S)
  <2> DEFINE f == [j \in 1..n |-> Put(keys[j], there[keys[j]])]
  <2>1. f \in [1..n -> S] BY <1>7
  <2>2. CopySettings(there) = f BY <1>5, <1>6
  <2> HIDE DEF f, n
  <2> QED BY <1>2, <2>1, <2>2
<1>9. \A x \in S : Plainly(c, x)
  <2> SUFFICES ASSUME NEW key \in K PROVE Plainly(c, Put(key, there[key])) BY DEF S
  <2>1. key \in Key \cup {SetupDone} /\ key \notin PersonKeys BY PersonKeysAre DEF NotCopied
  <2> QED BY <2>1, PlainPut
<1> QED BY <1>8, <1>9, SimpleOf

LEMMA ConfigSimple ==
  ASSUME NEW c, c.op = "config", c.key \in Key
  PROVE  Simple(c, ConfigSteps(c))
<1>1. \A w \in {"ask", "old"} : Simple(c, <<Do(w)>>) BY SettingWords
<1>2. ASSUME Sets(c) PROVE Simple(c, SetSteps(c))
  <2>1. CASE c.key = "github"
    <3> DEFINE repo == Wanted(c)
               f == [do |-> "forget", arg |-> repo]
    <3>1. Plainly(c, f) BY <1>2 DEF Plainly, Fits, CardWords, DeskWords
    <3>2. \A key \in {"github", "github-panel"} : \A v : Plainly(c, Put(key, v)) BY <1>2, PlainPut, BundleKeys
    <3>3. SetSteps(c) \in {<<Put("github", None), f>>, <<f, Put("github", repo), Put("github-panel", "shown")>>}
      BY <2>1 DEF SetSteps, SetGithub
    <3> HIDE DEF f, repo
    <3> QED BY <3>1, <3>2, <3>3, PlainThree
  <2>2. CASE c.key = "kind" BY <1>2, <2>2, KindSimple DEF SetSteps
  <2>3. CASE c.key \notin {"github", "kind"} BY <1>2, <2>3, PlainPut DEF SetSteps
  <2> QED BY <2>1, <2>2, <2>3
<1>3. CASE Asks(c) = "read" BY <1>1, <1>3 DEF ConfigSteps
<1>4. CASE Asks(c) # "read"
  <2> DEFINE a == IF c.key = "github" /\ Asks(c) = "set" THEN <<Do("ask")>> ELSE <<>>
  <2>1. Simple(c, a) BY <1>1, PlainNone
  <2>2. ConfigSteps(c) = ((a \o <<Do("old")>>) \o SetSteps(c)) \o <<Do("note")>> BY <1>4 DEF ConfigSteps
  <2> HIDE DEF a
  <2>3. Simple(c, a \o <<Do("old")>>) BY <1>1, <2>1, PlainAnd
  <2>6. Sets(c) BY <1>4 DEF Sets
  <2>4. Simple(c, (a \o <<Do("old")>>) \o SetSteps(c)) BY <1>2, <2>3, <2>6, PlainAnd
  <2>5. Simple(c, <<Do("note")>>) BY <2>6, SettingWords
  <2> QED BY <2>2, <2>4, <2>5, PlainAnd
<1> QED BY <1>3, <1>4

\* The settings from are those of a board.
FromOK == IsFiniteSet(DOMAIN from) /\ DOMAIN from \subseteq Key \cup {SetupDone}

LEMMA PlainProgram ==
  ASSUME NEW c, Meant(c), c.op \notin Bulk, FromOK
  PROVE  Phased(c, Program(c))
<1> DEFINE o == <<Do("open")>>
<1> SUFFICES \E s : Program(c) = o \o s /\ Simple(c, s) BY PlainPhased
<1>1. c.op \in CardOps => \A w \in CardWords \ {"due"} : Plainly(c, Do(w)) /\ Simple(c, <<Do(w)>>)
  BY PlainWords
<1>2. c.op \in {"add", "edit"} => Simple(c, DueStep(c))
  <2> SUFFICES ASSUME c.op \in {"add", "edit"} PROVE Simple(c, DueStep(c)) OBVIOUS
  <2>1. Simple(c, <<Do("due")>>) BY PlainWords DEF CardOps, CardWords
  <2> QED BY <2>1, PlainNone DEF DueStep
<1>3. CASE c.op = "add"
  <2>0. \A w \in CardWords \ {"due"} : Plainly(c, Do(w)) /\ Simple(c, <<Do(w)>>) BY <1>1, <1>3 DEF CardOps
  <2>1. Program(c) = o \o AddSteps(c) BY <1>3 DEF Program
  <2>2. Simple(c, <<Do("write")>>) BY <2>0 DEF CardWords
  <2>3. Simple(c, AddSteps(c)) BY <1>3, <1>2, <2>2, PlainAnd DEF AddSteps
  <2> QED BY <2>1, <2>3
<1>4. CASE c.op \in {"check", "addcheck", "rmcheck"}
  <2>0. \A w \in CardWords \ {"due"} : Plainly(c, Do(w)) /\ Simple(c, <<Do(w)>>) BY <1>1, <1>4 DEF CardOps
  <2> DEFINE a == IF c.op = "addcheck" THEN <<>> ELSE <<Do("item")>>
             b == IF c.op = "check" THEN <<Do("log")>> ELSE <<>>
  <2>1. Program(c) = o \o CheckSteps(c) BY <1>4 DEF Program
  <2>2. CheckSteps(c) = (((<<Do("hold")>> \o a) \o <<Do("write")>>) \o b) \o <<Do("force")>> BY DEF CheckSteps
  <2>3. Simple(c, a) /\ Simple(c, b) BY <2>0, PlainNone DEF CardWords
  <2> HIDE DEF a, b
  <2>4. Simple(c, <<Do("hold")>>) /\ Simple(c, <<Do("write")>>) /\ Simple(c, <<Do("force")>>) BY <2>0 DEF CardWords
  <2>5. Simple(c, <<Do("hold")>> \o a) BY <2>3, <2>4, PlainAnd
  <2>6. Simple(c, (<<Do("hold")>> \o a) \o <<Do("write")>>) BY <2>4, <2>5, PlainAnd
  <2>7. Simple(c, ((<<Do("hold")>> \o a) \o <<Do("write")>>) \o b) BY <2>3, <2>6, PlainAnd
  <2>8. Simple(c, CheckSteps(c)) BY <2>2, <2>4, <2>7, PlainAnd
  <2> QED BY <2>1, <2>8
<1>5. CASE c.op \in {"link", "unlink"}
  <2>0. \A w \in CardWords \ {"due"} : Plainly(c, Do(w)) /\ Simple(c, <<Do(w)>>) BY <1>1, <1>5 DEF CardOps
  <2> DEFINE a == IF c.op = "link" THEN <<>> ELSE <<Do("item")>>
  <2>1. Program(c) = o \o LinkSteps(c) BY <1>5 DEF Program
  <2>2. LinkSteps(c) = a \o <<Do("write")>> BY DEF LinkSteps
  <2>3. Simple(c, a) /\ Simple(c, <<Do("write")>>) BY <2>0, PlainNone DEF CardWords
  <2> HIDE DEF a
  <2>4. Simple(c, LinkSteps(c)) BY <2>2, <2>3, PlainAnd
  <2> QED BY <2>1, <2>4
<1>6. CASE c.op \in {"block", "prio"}
  <2>0. \A w \in CardWords \ {"due"} : Plainly(c, Do(w)) /\ Simple(c, <<Do(w)>>) BY <1>1, <1>6 DEF CardOps
  <2> DEFINE s == <<Do("hold"), Do("write"), Do("force")>>
  <2>1. Program(c) = o \o s BY <1>6 DEF Program, BlockSteps, PrioSteps
  <2>2. Simple(c, s) BY <2>0, PlainThree DEF CardWords
  <2> QED BY <2>1, <2>2
<1>7. CASE c.op = "edit"
  <2>0. \A w \in CardWords \ {"due"} : Plainly(c, Do(w)) /\ Simple(c, <<Do(w)>>) BY <1>1, <1>7 DEF CardOps
  <2> DEFINE a == IF c.due = Unset \/ c.title # Unset \/ c.desc # Unset THEN <<Do("write")>> ELSE <<>>
  <2>1. Program(c) = o \o EditSteps(c) BY <1>7 DEF Program
  <2>2. EditSteps(c) = ((<<Do("hold")>> \o a) \o DueStep(c)) \o <<Do("force")>> BY DEF EditSteps
  <2>3. Simple(c, a) /\ Simple(c, <<Do("hold")>>) /\ Simple(c, <<Do("force")>>) BY <2>0, PlainNone DEF CardWords
  <2> HIDE DEF a
  <2>4. Simple(c, <<Do("hold")>> \o a) BY <2>3, PlainAnd
  <2>5. Simple(c, (<<Do("hold")>> \o a) \o DueStep(c)) BY <1>7, <1>2, <2>4, PlainAnd
  <2>6. Simple(c, EditSteps(c)) BY <2>2, <2>3, <2>5, PlainAnd
  <2> QED BY <2>1, <2>6
<1>8. CASE c.op = "config"
  <2>1. Program(c) = o \o ConfigSteps(c) BY <1>8 DEF Program
  <2>2. Simple(c, ConfigSteps(c)) BY <1>8, ConfigSimple DEF Meant
  <2> QED BY <2>1, <2>2
<1>9. CASE c.op \in {"new", "from"}
  <2> DEFINE s == IF c.op = "from" THEN CopySettings(from) ELSE ApplyKind(c.value)
  <2>1. Program(c) = o \o (s \o <<Do("note")>>) BY <1>9 DEF Program, NewSteps
  <2>5. Sets(c) BY <1>9 DEF Sets
  <2>2. Simple(c, s) BY <2>5, CopySimple, KindSimple DEF FromOK
  <2>3. Simple(c, <<Do("note")>>) BY <2>5, SettingWords
  <2> HIDE DEF s
  <2>4. Simple(c, s \o <<Do("note")>>) BY <2>2, <2>3, PlainAnd
  <2> QED BY <2>1, <2>4
<1>10. CASE c.op = "next"
  <2>0. \A w \in CardWords \ {"due"} : Plainly(c, Do(w)) /\ Simple(c, <<Do(w)>>) BY <1>1, <1>10 DEF CardOps
  <2> DEFINE s == <<Do("write"), Do("rules"), Do("seen")>>
  <2>1. Program(c) = o \o s BY <1>10 DEF Program, NextSteps
  <2>2. Simple(c, s) BY <2>0, PlainThree DEF CardWords
  <2> QED BY <2>1, <2>2
<1>11. CASE c.op = "move"
  <2>0. \A w \in CardWords \ {"due"} : Plainly(c, Do(w)) /\ Simple(c, <<Do(w)>>) BY <1>1, <1>11 DEF CardOps
  <2> DEFINE a == IF c.col = "done" /\ ~c.force THEN <<Do("issue")>> ELSE <<>>
  <2>1. Program(c) = o \o MoveSteps(c) BY <1>11 DEF Program
  <2>2. MoveSteps(c) = a \o <<Do("write")>> BY DEF MoveSteps
  <2>3. Simple(c, a) /\ Simple(c, <<Do("write")>>) BY <2>0, PlainNone DEF CardWords
  <2> HIDE DEF a
  <2>4. Simple(c, MoveSteps(c)) BY <2>2, <2>3, PlainAnd
  <2> QED BY <2>1, <2>4
<1>12. CASE c.op = "rm"
  <2>0. \A w \in CardWords \ {"due"} : Plainly(c, Do(w)) /\ Simple(c, <<Do(w)>>) BY <1>1, <1>12 DEF CardOps
  <2> DEFINE s == <<Do("mode"), Do("write")>>
  <2>1. Program(c) = o \o s BY <1>12 DEF Program, RmSteps
  <2>3. Plainly(c, Do("mode")) /\ Plainly(c, Do("write")) BY <2>0 DEF CardWords
  <2>2. Simple(c, s) BY <2>3, PlainThree
  <2> QED BY <2>1, <2>2
<1>13. CASE c.op \in {"note", "take", "restore"}
  <2>0. \A w \in CardWords \ {"due"} : Plainly(c, Do(w)) /\ Simple(c, <<Do(w)>>) BY <1>1, <1>13 DEF CardOps
  <2>1. Program(c) = o \o <<Do("write")>> BY <1>13 DEF Program
  <2>2. Simple(c, <<Do("write")>>) BY <2>0 DEF CardWords
  <2> QED BY <2>1, <2>2
<1>14. CASE c.op \notin {"add", "check", "addcheck", "rmcheck", "link", "unlink", "block", "prio", "edit", "config",
                         "new", "from", "next", "move", "note", "take", "rm", "restore"}
  <2>1. Program(c) = o \o <<>> BY <1>14 DEF Program, Bulk
  <2> QED BY <2>1, PlainNone
<1> QED BY <1>3, <1>4, <1>5, <1>6, <1>7, <1>8, <1>9, <1>10, <1>11, <1>12, <1>13, <1>14


\* A row of a document without a problem is one the store applies.
LEMMA PlanIsMeant ==
  ASSUME NEW rows, NEW n, NEW mode \in Bulk, ~Flawed(rows, n, mode), RowMeant(rows[n])
  PROVE  PlanMeant(PlanRow(rows[n], mode))
<1> DEFINE row == rows[n]
<1>1. {f \in Applied(mode) : row[f] = Bad} = {} BY DEF Flawed, ProblemsIn
<1>2. {"title", "description", "due", "blocked", "gh_ref"} \subseteq Applied(mode) BY DEF Applied, Fields
<1>3. row.title # Bad /\ row.description # Bad /\ row.due # Bad /\ row.blocked # Bad /\ row.gh_ref # Bad
  BY <1>1, <1>2
<1>4. row.title \in Said /\ row.description \in Said /\ row.due \in Said /\ row.blocked \in Said
  BY <1>3 DEF RowMeant
<1>5. row.gh_ref \in Nat \cup {None, Unset} /\ row.inRef \in Nat \cup {None} BY <1>3 DEF RowMeant
<1>6. Cleared(row.description) \in Said /\ Cleared(row.blocked) \in Said BY <1>4 DEF Cleared, Said
<1> HIDE DEF row
<1>7. PlanRow(row, mode).ref \in Nat \cup {None, Unset} BY <1>5 DEF PlanRow
<1>8. {PlanRow(row, mode).title, PlanRow(row, mode).desc, PlanRow(row, mode).due, PlanRow(row, mode).block} \subseteq Said
  BY <1>4, <1>6 DEF PlanRow
<1> QED BY <1>7, <1>8 DEF PlanMeant, row

\* The plans of a document, one for each of its rows without a problem, in their order.
LEMMA PlansAre ==
  ASSUME NEW c, Meant(c), c.op \in Bulk
  PROVE  LET rows == RowsOf(c.doc)
             good == {n \in DOMAIN rows : ~Flawed(rows, n, c.op)}
             N == Cardinality(good)
         IN /\ rows \in Seq(Range(rows)) /\ good \subseteq 1..Len(rows) /\ IsFiniteSet(good) /\ N \in Nat
            /\ InOrder(good) \in [1..N -> good] /\ DOMAIN Request(c).plans = 1..N
            /\ \A k \in 1..N : /\ Request(c).plans[k] = PlanRow(rows[InOrder(good)[k]], c.op)
                               /\ PlanMeant(Request(c).plans[k])
<1> DEFINE rows == RowsOf(c.doc)
           good == {n \in DOMAIN rows : ~Flawed(rows, n, c.op)}
           N == Cardinality(good)
           s == InOrder(good)
           plans == [k \in DOMAIN s |-> PlanRow(rows[s[k]], c.op)]
<1>1. rows \in Seq(Range(rows)) /\ \A row \in Range(rows) : row # Bad => RowMeant(row) BY DEF Meant, Bulk
<1>2. Request(c).plans = plans BY DEF Request, Plans
<1> HIDE DEF rows
<1>3. DOMAIN rows = 1..Len(rows) /\ Len(rows) \in Nat BY <1>1
<1>4. good \subseteq 1..Len(rows) BY <1>3
<1>5. IsFiniteSet(good) /\ N \in Nat
  <2>1. IsFiniteSet(1..Len(rows)) BY <1>3, FS_Interval
  <2>2. IsFiniteSet(good) BY <1>4, <2>1, FS_Subset
  <2> QED BY <2>2, FS_CardinalityType
<1>6. s \in [1..N -> good] BY <1>3, <1>4, InOrderIs
<1>7. \A n \in good : RowMeant(rows[n]) /\ ~Flawed(rows, n, c.op)
  <2> SUFFICES ASSUME NEW n \in good PROVE RowMeant(rows[n]) OBVIOUS
  <2>1. rows[n] # Bad BY DEF Flawed
  <2>2. rows[n] \in Range(rows) BY DEF Range
  <2> QED BY <2>1, <2>2, <1>1
<1> HIDE DEF s, good
<1>8. DOMAIN plans = 1..N BY <1>6
<1>9. \A k \in 1..N : plans[k] = PlanRow(rows[s[k]], c.op) /\ PlanMeant(plans[k])
  <2> SUFFICES ASSUME NEW k \in 1..N PROVE plans[k] = PlanRow(rows[s[k]], c.op) /\ PlanMeant(plans[k]) OBVIOUS
  <2>1. s[k] \in good /\ k \in DOMAIN s BY <1>6
  <2>2. plans[k] = PlanRow(rows[s[k]], c.op) BY <2>1
  <2> QED BY <2>1, <2>2, <1>7, PlanIsMeant
<1> HIDE DEF N, plans
<1> QED BY <1>1, <1>2, <1>4, <1>5, <1>6, <1>8, <1>9 DEF s, good, rows, N

\* What a bulk command does: it opens, its transaction begins, a row for each plan, it ends.
LEMMA BulkProgram ==
  ASSUME NEW c, Meant(c), c.op \in Bulk
  PROVE  LET P == Program(c)
             N == Cardinality({n \in DOMAIN RowsOf(c.doc) : ~Flawed(RowsOf(c.doc), n, c.op)})
         IN /\ N \in Nat /\ P \in Seq(Range(P)) /\ Len(P) = N + 3
            /\ P[1] = Do("open") /\ P[2] = Do("begin") /\ P[N + 3] = Do("commit")
            /\ \A n \in 3..(N + 2) : P[n] = [do |-> "row", arg |-> Request(c).plans[n - 2]]
<1> DEFINE N == Cardinality({n \in DOMAIN RowsOf(c.doc) : ~Flawed(RowsOf(c.doc), n, c.op)})
           plans == Request(c).plans
           R == [n \in DOMAIN plans |-> [do |-> "row", arg |-> plans[n]]]
           P == Program(c)
<1>1. N \in Nat /\ DOMAIN plans = 1..N BY PlansAre
<1>2. P = <<Do("open")>> \o ((<<Do("begin")>> \o R) \o <<Do("commit")>>)
  BY DEF Program, BulkSteps, Bulk
<1> HIDE DEF N, plans
<1> DEFINE S == {Do("open"), Do("begin"), Do("commit")} \cup {[do |-> "row", arg |-> plans[n]] : n \in 1..N}
           f == [n \in 1..N |-> [do |-> "row", arg |-> plans[n]]]
<1>3. f \in [1..N -> S] /\ \A n \in 1..N : f[n] = [do |-> "row", arg |-> plans[n]] OBVIOUS
<1>4. R = f BY <1>1
<1>5. Do("open") \in S /\ Do("begin") \in S /\ Do("commit") \in S OBVIOUS
<1> HIDE DEF S, f, R, P
<1>6. R \in Seq(S) /\ Len(R) = N BY <1>1, <1>3, <1>4
<1> DEFINE o == Do("open")   b == Do("begin")   e == Do("commit")
<1> HIDE DEF o, b, e
<1>7. <<o>> \in Seq(S) /\ <<b>> \in Seq(S) /\ <<e>> \in Seq(S) BY <1>5 DEF o, b, e
<1>8. /\ <<b>> \o R \in Seq(S) /\ Len(<<b>> \o R) = N + 1 /\ (<<b>> \o R)[1] = b
      /\ \A n \in 2..(N + 1) : (<<b>> \o R)[n] = R[n - 1]
  BY <1>1, <1>6, <1>7
<1> DEFINE Q == <<b>> \o R
<1> HIDE DEF Q
<1>9. /\ Q \o <<e>> \in Seq(S) /\ Len(Q \o <<e>>) = N + 2 /\ (Q \o <<e>>)[N + 2] = e
      /\ \A n \in 1..(N + 1) : (Q \o <<e>>)[n] = Q[n]
  <2>1. Q \in Seq(S) /\ Len(Q) = N + 1 BY <1>8 DEF Q
  <2>2. <<e>> \in Seq(S) /\ Len(<<e>>) = 1 /\ <<e>>[1] = e BY <1>7
  <2>3. /\ Q \o <<e>> \in Seq(S) /\ Len(Q \o <<e>>) = N + 1 + 1
        /\ \A n \in 1..(N + 1 + 1) : (Q \o <<e>>)[n] = IF n <= N + 1 THEN Q[n] ELSE <<e>>[n - (N + 1)]
    BY <2>1, <2>2, ConcatProperties
  <2>4. N + 1 + 1 = N + 2 /\ N + 2 - (N + 1) = 1 /\ N + 2 \in 1..(N + 2) /\ ~(N + 2 <= N + 1) BY <1>1
  <2>5. (Q \o <<e>>)[N + 2] = e BY <2>2, <2>3, <2>4
  <2>6. \A n \in 1..(N + 1) : n \in 1..(N + 1 + 1) /\ n <= N + 1 BY <1>1
  <2> QED BY <2>3, <2>4, <2>5, <2>6
<1> DEFINE T == Q \o <<e>>
<1> HIDE DEF T
<1>10. P = <<o>> \o T BY <1>2 DEF o, b, e, Q, T
<1>11. /\ P \in Seq(S) /\ Len(P) = N + 3 /\ P[1] = o
       /\ \A n \in 2..(N + 3) : P[n] = T[n - 1]
  BY <1>1, <1>7, <1>9, <1>10 DEF T
<1>12. P \in Seq(Range(P)) BY <1>11, SeqOfRange
<1>13. P[2] = b
  <2>1. 2 \in 2..(N + 3) /\ 1 \in 1..(N + 1) BY <1>1
  <2> QED BY <2>1, <1>8, <1>9, <1>11 DEF T, Q
<1>14. P[N + 3] = e
  <2>1. N + 3 \in 2..(N + 3) /\ N + 3 - 1 = N + 2 BY <1>1
  <2>2. \A n \in 2..(N + 3) : P[n] = T[n - 1] BY <1>11
  <2>3. T[N + 2] = e BY <1>9 DEF T
  <2> DEFINE n == N + 3
  <2>4. n \in 2..(N + 3) /\ n - 1 = N + 2 BY <1>1
  <2> HIDE DEF n
  <2>5. P[n] = T[n - 1] BY <2>2, <2>4
  <2> QED BY <2>3, <2>4, <2>5 DEF n
<1>15. ASSUME NEW n \in 3..(N + 2) PROVE P[n] = [do |-> "row", arg |-> plans[n - 2]]
  <2>1. n \in 2..(N + 3) /\ n - 1 \in 1..(N + 1) /\ n - 1 \in 2..(N + 1) /\ n - 1 - 1 = n - 2 /\ n - 2 \in 1..N BY <1>1
  <2>2. P[n] = T[n - 1] BY <2>1, <1>11
  <2>3. T[n - 1] = Q[n - 1] BY <2>1, <1>9 DEF T
  <2>4. Q[n - 1] = R[n - 2] BY <2>1, <1>8 DEF Q
  <2> QED BY <2>1, <2>2, <2>3, <2>4, <1>3, <1>4
<1> QED BY <1>1, <1>11, <1>12, <1>13, <1>14, <1>15 DEF o, b, e, N, P, plans

LEMMA BulkPhased ==
  ASSUME NEW c, Meant(c), c.op \in Bulk
  PROVE  Phased(c, Program(c))
<1> DEFINE P == Program(c)
           plans == Request(c).plans
           N == Cardinality({n \in DOMAIN RowsOf(c.doc) : ~Flawed(RowsOf(c.doc), n, c.op)})
<1>1. /\ N \in Nat /\ P \in Seq(Range(P)) /\ Len(P) = N + 3
      /\ P[1] = Do("open") /\ P[2] = Do("begin") /\ P[N + 3] = Do("commit")
      /\ \A n \in 3..(N + 2) : P[n] = [do |-> "row", arg |-> plans[n - 2]]
  BY BulkProgram
<1>2. \A k \in 1..N : PlanMeant(plans[k]) BY PlansAre
<1> HIDE DEF P, plans, N
<1>3. P[1].do = "open" /\ P[2].do = "begin" /\ P[N + 3].do = "commit" BY <1>1 DEF Do
<1>4. \A n \in 3..(N + 2) : P[n].do = "row" /\ PlanMeant(P[n].arg)
  <2> SUFFICES ASSUME NEW n \in 3..(N + 2) PROVE P[n].do = "row" /\ PlanMeant(P[n].arg) OBVIOUS
  <2>1. n - 2 \in 1..N BY <1>1
  <2>2. PlanMeant(plans[n - 2]) BY <2>1, <1>2
  <2>3. P[n] = [do |-> "row", arg |-> plans[n - 2]] BY <1>1
  <2>4. P[n].do = "row" /\ P[n].arg = plans[n - 2] BY <2>3
  <2> QED BY <2>2, <2>4
<1>5. \A n \in 2..Len(P) : n = 2 \/ n \in 3..(N + 2) \/ n = N + 3 BY <1>1
<1>6. ASSUME NEW n \in 2..Len(P), P[n].do \in {"begin", "row"}
      PROVE  n + 1 \in 2..Len(P) /\ P[n + 1].do \in {"row", "commit"}
  <2>1. n # N + 3 BY <1>3, <1>6
  <2>2. n + 1 \in 3..(N + 2) \/ n + 1 = N + 3 BY <2>1, <1>1, <1>5
  <2> QED BY <2>2, <1>1, <1>3, <1>4
<1>7. ASSUME NEW n \in 2..Len(P), P[n].do \in {"row", "commit"}
      PROVE  n - 1 \in 2..Len(P) /\ P[n - 1].do \in {"begin", "row"}
  <2>1. n # 2 BY <1>3, <1>7
  <2>2. n - 1 = 2 \/ n - 1 \in 3..(N + 2) BY <2>1, <1>1, <1>5
  <2> QED BY <2>2, <1>1, <1>3, <1>4
<1>8. \A n \in 2..Len(P) : P[n].do \in {"begin", "row", "commit"} /\ (P[n].do = "row" => PlanMeant(P[n].arg))
  BY <1>3, <1>4, <1>5
<1>9. 1 \in 1..Len(P) BY <1>1
<1>11. \A n \in 2..Len(P) : Fits(c, P[n]) BY <1>8 DEF Fits, CardWords, DeskWords
<1>10. Phased(c, P) BY <1>1, <1>3, <1>6, <1>7, <1>8, <1>9, <1>11 DEF Phased
<1> QED BY <1>10 DEF P

LEMMA ProgramPhased == ASSUME NEW c, Meant(c), FromOK PROVE Phased(c, Program(c))
BY PlainProgram, BulkPhased


-----------------------------------------------------------------------------
(* What always holds of a board and of the commands on it                  *)

\* What the session of c was asked before it began, whatever is on the board.
LetIn(c) ==
  /\ IF c.op \in {"new", "from"} THEN MayMake(c)
     ELSE Someone(c) /\ ReadOnlyAllows(c) /\ OwnName(c) /\ HasPlace(c) /\ PinGuards(c) /\ BoundAllows(c)
  /\ c.op = "config" => Asks(c) # "refused"

CreatedBy(d, by) == {e \in d.log : e.by = by /\ e.kind = "created"}

\* What k rows of c have made of the board d, in its transaction.
SoFar(c, k, d, w, flawed) ==
  /\ c.op \in Bulk /\ w.conf = d.conf /\ d.eid \in Nat /\ w.eid \in Nat /\ d.eid <= w.eid
  /\ \A l \in Lines(w) : l \in Lines(d) \/ (l.eid \in Nat /\ l.eid >= d.eid /\ l.by = c.by)
  /\ c.op = "import" => Cardinality(CreatedBy(w, c.by)) = Cardinality(CreatedBy(d, c.by)) + k
  /\ c.op = "bulkedit" =>
       /\ Unmoved(d, w)
       /\ ~flawed => \A j \in 1..k : LET i == Request(c).plans[j].card
                                      IN Exists(d, i) /\ HolderGuard(d.card[i], c.by, c.force)

\* What a command remembers.
Shape(s) ==
  /\ s = [left |-> s.left, item |-> s.item, old |-> s.old, past |-> s.past, base |-> s.base,
          made |-> s.made, flawed |-> s.flawed, end |-> s.end]
  /\ s.flawed \in BOOLEAN /\ s.end \in {None, "ok", "refused", "killed"}

\* Command p is at phase n of its program.
RunsAt(p, n) ==
  LET c == plan[p]   P == Program(c)
  IN /\ n \in 1..Len(P) /\ cmd[p].left = SubSeq(P, n, Len(P))
     /\ n > 1 => LetIn(c)
     /\ n > 2 /\ c.op = "config" /\ c.key \in PersonKeys => Asks(c) = "read" \/ MaySet(c)
     /\ P[n].do \in {"row", "commit"} <=> writer = p
     /\ writer = p => SoFar(c, n - 3, db, work, cmd[p].flawed)

CmdInv(p) ==
  /\ Meant(plan[p]) /\ Shape(cmd[p])
  /\ IF cmd[p].left = <<>> THEN writer # p ELSE \E n \in 1..Len(Program(plan[p])) : RunsAt(p, n)

DeskInv ==
  /\ WellFormed(db) /\ FromOK /\ cmd = [p \in Proc |-> cmd[p]]
  /\ IF writer = None THEN work = None ELSE writer \in Proc /\ WellFormed(work)
  /\ \A p \in Proc : CmdInv(p)

-----------------------------------------------------------------------------
(* From phase to phase                                                     *)

\* The phase a command is at, and what it has left after it.
LEMMA Phase ==
  ASSUME NEW p \in Proc, DeskInv, cmd[p].left # <<>>
  PROVE  LET P == Program(plan[p])
         IN /\ Meant(plan[p]) /\ Phased(plan[p], P) /\ Len(P) \in Nat
            /\ \E n \in 1..Len(P) :
                 /\ RunsAt(p, n) /\ P[n] = Head(cmd[p].left)
                 /\ n = Len(P) => Tail(cmd[p].left) = <<>>
                 /\ n # Len(P) => /\ n + 1 \in 2..Len(P) /\ Tail(cmd[p].left) # <<>>
                                  /\ Tail(cmd[p].left) = SubSeq(P, n + 1, Len(P))
<1> DEFINE P == Program(plan[p])
<1>1. Meant(plan[p]) /\ FromOK BY DEF DeskInv, CmdInv
<1>2. Phased(plan[p], P) BY <1>1, ProgramPhased
<1>3. P \in Seq(Range(P)) /\ Len(P) \in Nat BY <1>2 DEF Phased
<1>4. PICK n \in 1..Len(P) : RunsAt(p, n) BY DEF DeskInv, CmdInv
<1>5. cmd[p].left = SubSeq(P, n, Len(P)) BY <1>4 DEF RunsAt
<1> HIDE DEF P
<1>6. n \in 1..(Len(P) + 1) /\ Len(P) \in (n - 1)..Len(P) /\ n <= Len(P) /\ Len(P) \in n..Len(P) BY <1>3
<1>7. /\ Head(SubSeq(P, n, Len(P))) = P[n]
      /\ Tail(SubSeq(P, n, Len(P))) = SubSeq(P, n + 1, Len(P))
  BY <1>3, <1>6, HeadTailOfSubSeq
<1>8. CASE n = Len(P)
  <2>1. SubSeq(P, n + 1, Len(P)) = <<>> BY <1>3, <1>8
  <2> QED BY <1>1, <1>2, <1>3, <1>4, <1>5, <1>7, <1>8, <2>1 DEF P
<1>9. CASE n # Len(P)
  <2>1. n + 1 \in 2..Len(P) BY <1>3, <1>9
  <2>2. Len(SubSeq(P, n + 1, Len(P))) = Len(P) - n BY <1>3, <2>1
  <2>3. Len(P) - n # 0 BY <1>3, <1>9
  <2>4. SubSeq(P, n + 1, Len(P)) # <<>> BY <2>2, <2>3
  <2> QED BY <1>1, <1>2, <1>3, <1>4, <1>5, <1>7, <1>9, <2>1, <2>4 DEF P
<1> QED BY <1>8, <1>9

\* The program of a command stays what it is.
LEMMA SameProgram ==
  ASSUME Still, NEW p
  PROVE  plan[p]' = plan[p] /\ Program(plan[p])' = Program(plan[p])
<1>1. plan[p]' = plan[p] /\ from' = from BY DEF Still
<1> QED BY <1>1 DEF Program, NewSteps


\* Who sets a setting of a person is asked first.
LEMMA PersonProgram ==
  ASSUME NEW c, c.op = "config", c.key \in PersonKeys
  PROVE  /\ Program(c)[2] = Do("old")
         /\ Asks(c) = "read" => Len(Program(c)) = 2
<1> DEFINE o == Do("open")   r == Do("old")   w == Put(c.key, Wanted(c))   n == Do("note")
           S == {o, r, w, n}
<1>1. c.key \notin {"github", "kind"} BY PersonKeysAre
<1>2. Program(c) = <<o>> \o ConfigSteps(c) BY DEF Program
<1>3. Asks(c) = "read" => ConfigSteps(c) = <<r>> BY DEF ConfigSteps
<1>4. Asks(c) # "read" => ConfigSteps(c) = <<>> \o <<r>> \o <<w>> \o <<n>>
  BY <1>1 DEF ConfigSteps, SetSteps
<1> HIDE DEF o, r, w, n
<1>5. <<o>> \in Seq(S) /\ <<r>> \in Seq(S) /\ <<w>> \in Seq(S) /\ <<n>> \in Seq(S) /\ <<>> \in Seq(S) OBVIOUS
<1> HIDE DEF S
<1>6. \A a, b \in Seq(S) : Len(a) > 0 => (a \o b)[1] = a[1] /\ a \o b \in Seq(S) /\ Len(a \o b) > 0
  <2> SUFFICES ASSUME NEW a \in Seq(S), NEW b \in Seq(S), Len(a) > 0
               PROVE  (a \o b)[1] = a[1] /\ a \o b \in Seq(S) /\ Len(a \o b) > 0
    OBVIOUS
  <2> QED BY ConcatProperties
<1>7. <<>> \o <<r>> = <<r>> BY <1>5, ConcatEmptySeq
<1>8. <<r>> \o <<w>> \in Seq(S) /\ (<<r>> \o <<w>>)[1] = r /\ Len(<<r>> \o <<w>>) > 0 BY <1>5, <1>6
<1> DEFINE a == <<r>> \o <<w>>
<1> HIDE DEF a
<1>9. a \o <<n>> \in Seq(S) /\ (a \o <<n>>)[1] = r /\ Len(a \o <<n>>) > 0 BY <1>5, <1>6, <1>8 DEF a
<1>10. ConfigSteps(c) \in Seq(S) /\ ConfigSteps(c)[1] = r /\ Len(ConfigSteps(c)) > 0
  <2>1. CASE Asks(c) = "read"
    <3>1. <<r>>[1] = r /\ Len(<<r>>) > 0 OBVIOUS
    <3> QED BY <2>1, <3>1, <1>3, <1>5
  <2>2. CASE Asks(c) # "read" BY <2>2, <1>4, <1>7, <1>9 DEF a
  <2> QED BY <2>1, <2>2
<1> DEFINE s == ConfigSteps(c)
<1>11. Asks(c) = "read" => Len(s) = 1 BY <1>3
<1> HIDE DEF s
<1>12. s \in Seq(S) /\ s[1] = r /\ Len(s) > 0 BY <1>10 DEF s
<1>13. (<<o>> \o s)[2] = s[1] /\ Len(<<o>> \o s) = 1 + Len(s) BY <1>5, <1>12, ConcatProperties
<1> QED BY <1>2, <1>11, <1>12, <1>13 DEF s, r

LEMMA EndedIs ==
  ASSUME NEW how \in {"ok", "refused", "killed"}
  PROVE  Shape(Ended(how)) /\ Ended(how).left = <<>> /\ Ended(how).end = how
<1> DEFINE none == <<>>
           f == Fresh(none)
<1>1. Ended(how) = [f EXCEPT !.end = how] BY DEF Ended
<1> HIDE DEF none
<1>2. f = [left |-> none, item |-> None, old |-> None, past |-> None, base |-> None, made |-> None,
                     flawed |-> FALSE, end |-> None]
  BY DEF Fresh
<1> DEFINE e == [left |-> none, item |-> None, old |-> None, past |-> None, base |-> None, made |-> None,
                 flawed |-> FALSE, end |-> how]
<1> HIDE DEF f
<1>6. [f EXCEPT !.end = how] = [k \in DOMAIN f |-> IF k = "end" THEN how ELSE f[k]] OBVIOUS
<1>3. Ended(how) = e BY <1>1, <1>2, <1>6
<1>4. /\ e.left = none /\ e.item = None /\ e.old = None /\ e.past = None /\ e.base = None /\ e.made = None
      /\ e.flawed = FALSE /\ e.end = how
  OBVIOUS
<1>5. e = [left |-> e.left, item |-> e.item, old |-> e.old, past |-> e.past, base |-> e.base,
           made |-> e.made, flawed |-> e.flawed, end |-> e.end]
  BY <1>4
<1> HIDE DEF e
<1> QED BY <1>3, <1>4, <1>5 DEF Shape, none

\* What a step of p leaves the others.
Apart(p) == \A q \in Proc \ {p} : (writer' = q <=> writer = q) /\ (writer = q => db' = db /\ work' = work)
BoardsOK == WellFormed(db) /\ IF writer = None THEN work = None ELSE writer \in Proc /\ WellFormed(work)

LEMMA OthersKept ==
  ASSUME DeskInv, Still, NEW p \in Proc, NEW s, cmd' = [cmd EXCEPT ![p] = s], Apart(p)
  PROVE  /\ cmd' = [q \in Proc |-> cmd'[q]] /\ cmd'[p] = s
         /\ \A q \in Proc \ {p} : cmd'[q] = cmd[q] /\ CmdInv(q)'
<1>1. cmd = [q \in Proc |-> cmd[q]] BY DEF DeskInv
<1>2. cmd' = [q \in Proc |-> IF q = p THEN s ELSE cmd[q]] BY <1>1
<1>3. cmd' = [q \in Proc |-> cmd'[q]] /\ cmd'[p] = s /\ \A q \in Proc \ {p} : cmd'[q] = cmd[q] BY <1>2
<1>4. ASSUME NEW q \in Proc \ {p} PROVE CmdInv(q)'
  <2>1. CmdInv(q) /\ cmd[q]' = cmd[q] BY <1>3 DEF DeskInv
  <2>2. plan[q]' = plan[q] /\ Program(plan[q])' = Program(plan[q]) BY SameProgram
  <2>3. (writer' = q <=> writer = q) /\ (writer = q => db' = db /\ work' = work) BY DEF Apart
  <2>4. ASSUME NEW n, RunsAt(q, n) PROVE RunsAt(q, n)' BY <2>1, <2>2, <2>3, <2>4 DEF RunsAt
  <2>5. (Shape(cmd[q]) => Shape(cmd[q])') /\ (Meant(plan[q]) => Meant(plan[q])') BY <2>1, <2>2
  <2> QED BY <2>1, <2>2, <2>3, <2>4, <2>5 DEF CmdInv
<1> QED BY <1>3, <1>4

LEMMA StopKeeps ==
  ASSUME DeskInv, Still, NEW p \in Proc, NEW how \in {"refused", "killed"}, Stops(p, how), writer' # p,
         Apart(p), BoardsOK'
  PROVE  DeskInv' /\ cmd'[p].left = <<>> /\ cmd'[p].end = how
<1>1. cmd' = [cmd EXCEPT ![p] = Ended(how)] BY DEF Stops
<1>2. /\ cmd' = [q \in Proc |-> cmd'[q]] /\ cmd'[p] = Ended(how)
      /\ \A q \in Proc \ {p} : cmd'[q] = cmd[q] /\ CmdInv(q)'
  BY <1>1, OthersKept
<1>3. Shape(Ended(how)) /\ Ended(how).left = <<>> /\ Ended(how).end = how BY EndedIs
<1>4. Shape(cmd[p])' BY <1>2, <1>3
<1>5. Meant(plan[p]) BY DEF DeskInv, CmdInv
<1>6. Meant(plan[p])' BY <1>5, SameProgram
<1>7. CmdInv(p)' BY <1>2, <1>3, <1>4, <1>6 DEF CmdInv
<1>8. \A q \in Proc : CmdInv(q)' BY <1>2, <1>7
<1>9. FromOK' BY DEF DeskInv, FromOK, Still
<1> QED BY <1>2, <1>3, <1>8, <1>9 DEF DeskInv, BoardsOK

LEMMA GoKeeps ==
  ASSUME DeskInv, Still, NEW p \in Proc, NEW s, Shape(s), s.left = cmd[p].left, Goes(p, s),
         Apart(p), BoardsOK', NEW n \in 1..Len(Program(plan[p])), Len(Program(plan[p])) \in Nat,
         RunsAt(p, n),
         n = Len(Program(plan[p])) => Tail(s.left) = <<>> /\ writer' # p,
         n # Len(Program(plan[p])) =>
           /\ n + 1 \in 2..Len(Program(plan[p])) /\ Tail(s.left) # <<>>
           /\ Tail(s.left) = SubSeq(Program(plan[p]), n + 1, Len(Program(plan[p])))
           /\ LetIn(plan[p])
           /\ n + 1 > 2 /\ plan[p].op = "config" /\ plan[p].key \in PersonKeys =>
                Asks(plan[p]) = "read" \/ MaySet(plan[p])
           /\ Program(plan[p])[n + 1].do \in {"row", "commit"} <=> writer' = p
           /\ writer' = p => SoFar(plan[p], n - 2, db', work', s.flawed)
  PROVE  /\ DeskInv'
         /\ n = Len(Program(plan[p])) => cmd'[p].left = <<>> /\ cmd'[p].end = "ok"
<1> DEFINE P == Program(plan[p])
           t == IF Tail(s.left) = <<>> THEN Ended("ok") ELSE [s EXCEPT !.left = Tail(@)]
<1>1. cmd' = [cmd EXCEPT ![p] = t] BY DEF Goes
<1>2. /\ cmd' = [q \in Proc |-> cmd'[q]] /\ cmd'[p] = t
      /\ \A q \in Proc \ {p} : cmd'[q] = cmd[q] /\ CmdInv(q)'
  BY <1>1, OthersKept
<1>3. plan[p]' = plan[p] /\ P' = P BY SameProgram
<1>4. Meant(plan[p]) BY DEF DeskInv, CmdInv
<1>5. Meant(plan[p])' BY <1>3, <1>4
<1>6. Shape(Ended("ok")) /\ Ended("ok").left = <<>> /\ Ended("ok").end = "ok" BY EndedIs
<1>7. CmdInv(p)' /\ (n = Len(P) => cmd'[p].left = <<>> /\ cmd'[p].end = "ok")
  <2>1. CASE n = Len(P)
    <3>1. cmd'[p] = Ended("ok") BY <1>2, <2>1
    <3>2. Shape(cmd[p])' BY <1>6, <3>1
    <3>3. writer' # p BY <2>1
    <3> QED BY <1>5, <1>6, <3>1, <3>2, <3>3 DEF CmdInv
  <2>2. CASE n # Len(P)
    <3> DEFINE x == Tail(s.left)
               u == [s EXCEPT !.left = x]
    <3>1. cmd'[p] = u BY <1>2, <2>2
    <3>2. x # <<>> /\ x = SubSeq(P, n + 1, Len(P)) /\ n + 1 \in 2..Len(P) BY <2>2
    <3>3. Shape(u) /\ u.left = x /\ u.flawed = s.flawed
      <4> HIDE DEF x
      <4> QED BY DEF Shape
    <3> HIDE DEF u, x
    <3>4. Shape(cmd[p])' BY <3>1, <3>3
    <3>5. /\ LetIn(plan[p])
          /\ n + 1 > 2 /\ plan[p].op = "config" /\ plan[p].key \in PersonKeys =>
               Asks(plan[p]) = "read" \/ MaySet(plan[p])
          /\ P[n + 1].do \in {"row", "commit"} <=> writer' = p
          /\ writer' = p => SoFar(plan[p], n - 2, db', work', s.flawed)
      BY <2>2
    <3>6. n + 1 - 3 = n - 2 /\ n + 1 \in 1..Len(P) BY <3>2
    <3>7. writer' = p => SoFar(plan[p], n + 1 - 3, db', work', u.flawed) BY <3>3, <3>5, <3>6
    <3>8. u.left = SubSeq(P, n + 1, Len(P)) BY <3>2, <3>3
    <3> HIDE DEF P
    <3> DEFINE m == n + 1
    <3>9. /\ m \in 1..Len(P) /\ u.left = SubSeq(P, m, Len(P)) /\ LetIn(plan[p])
          /\ m > 2 /\ plan[p].op = "config" /\ plan[p].key \in PersonKeys =>
               Asks(plan[p]) = "read" \/ MaySet(plan[p])
          /\ P[m].do \in {"row", "commit"} <=> writer' = p
          /\ writer' = p => SoFar(plan[p], m - 3, db', work', u.flawed)
      BY <3>5, <3>6, <3>7, <3>8
    <3> HIDE DEF m
    <3>10. RunsAt(p, m)' BY <1>3, <3>1, <3>9 DEF RunsAt, P
    <3>11. m \in 1..Len(P)' BY <1>3, <3>9
    <3>12. cmd'[p].left # <<>> BY <3>1, <3>2, <3>3
    <3> QED BY <1>5, <2>2, <3>4, <3>10, <3>11, <3>12 DEF CmdInv, P
  <2> QED BY <2>1, <2>2
<1>8. \A q \in Proc : CmdInv(q)' BY <1>2, <1>7
<1>9. FromOK' BY DEF DeskInv, FromOK, Still
<1> QED BY <1>2, <1>7, <1>8, <1>9 DEF DeskInv, BoardsOK


\* What is known of a command by the phase that is its next.
LEMMA InPhase ==
  ASSUME DeskInv, NEW p \in Proc, cmd[p].left # <<>>
  PROVE  LET x == Head(cmd[p].left)   c == plan[p]
         IN /\ Meant(c) /\ Shape(cmd[p]) /\ (x.do \in {"row", "commit"} <=> writer = p)
            /\ x.do # "open" => LetIn(c) /\ Someone(c)
            /\ x.do = "row" => PlanMeant(x.arg)
            /\ x.do \in {"begin", "row", "commit"} => c.op \in Bulk
            /\ Fits(c, x)
            /\ x.do = "put" => /\ x.arg[1] \in Key \cup {SetupDone}
                               /\ x.arg[1] \in PersonKeys => c.op = "config" /\ x.arg[1] = c.key /\ MaySet(c)
<1> DEFINE c == plan[p]   P == Program(c)   x == Head(cmd[p].left)
<1>1. Meant(c) /\ Phased(c, P) /\ Len(P) \in Nat BY Phase
<1>2. PICK n \in 1..Len(P) : RunsAt(p, n) /\ P[n] = x BY Phase
<1>3. Shape(cmd[p]) BY DEF DeskInv, CmdInv
<1>4. x.do \in {"row", "commit"} <=> writer = p BY <1>2 DEF RunsAt
<1>5. n > 1 => LetIn(c) BY <1>2 DEF RunsAt
<1>6. n > 2 /\ c.op = "config" /\ c.key \in PersonKeys => Asks(c) = "read" \/ MaySet(c) BY <1>2 DEF RunsAt
<1>7. LetIn(c) => Someone(c) BY DEF LetIn, MayMake
<1>8. c.op = "config" /\ c.key \in PersonKeys => P[2] = Do("old") /\ (Asks(c) = "read" => Len(P) = 2) BY PersonProgram
<1> HIDE DEF P, x, c
<1>9. P[1].do = "open" BY <1>1 DEF Phased
<1>12. x.do = "open" => Fits(c, x) BY DEF Fits, CardWords, DeskWords
<1>10. CASE n = 1 BY <1>1, <1>2, <1>3, <1>4, <1>9, <1>10, <1>12 DEF x, c
<1>11. CASE n # 1
  <2>1. n \in 2..Len(P) /\ n > 1 BY <1>1, <1>11
  <2>2. /\ x.do = "row" => PlanMeant(x.arg)
        /\ x.do \in {"begin", "row", "commit"} => c.op \in Bulk
        /\ x.do = "put" => /\ x.arg[1] \in Key \cup {SetupDone}
                           /\ x.arg[1] \in PersonKeys => c.op = "config" /\ x.arg[1] = c.key
       /\ Fits(c, x)
    BY <1>1, <1>2, <2>1 DEF Phased, Fits
  <2>3. ASSUME x.do = "put", x.arg[1] \in PersonKeys PROVE MaySet(c)
    <3>1. c.op = "config" /\ c.key \in PersonKeys BY <2>2, <2>3
    <3>2. n # 2 BY <1>2, <1>8, <2>3, <3>1 DEF Do
    <3>3. n > 2 /\ Len(P) # 2
      <4>1. \A m, l \in Int : m \in 2..l /\ m # 2 => m > 2 /\ l # 2 OBVIOUS
      <4> HIDE DEF P
      <4>2. Len(P) \in Int /\ n \in 2..Len(P) BY <1>1, <2>1
      <4>3. n \in Int BY <4>2
      <4> QED BY <3>2, <4>1, <4>2, <4>3
    <3> QED BY <1>6, <1>8, <3>1, <3>3
  <2> QED BY <1>1, <1>3, <1>4, <1>5, <1>7, <2>1, <2>2, <2>3 DEF x, c
<1> QED BY <1>10, <1>11

LEMMA ShapeWith ==
  ASSUME NEW s, Shape(s), NEW x
  PROVE  /\ Shape([s EXCEPT !.past = x]) /\ [s EXCEPT !.past = x].left = s.left
         /\ Shape([s EXCEPT !.item = x]) /\ [s EXCEPT !.item = x].left = s.left
         /\ Shape([s EXCEPT !.old = x]) /\ [s EXCEPT !.old = x].left = s.left
         /\ Shape([s EXCEPT !.made = x]) /\ [s EXCEPT !.made = x].left = s.left
         /\ x \in BOOLEAN => /\ Shape([s EXCEPT !.flawed = x]) /\ [s EXCEPT !.flawed = x].left = s.left
                             /\ [s EXCEPT !.flawed = x].flawed = x
BY DEF Shape

\* A phase outside a long transaction.
LEMMA PlainKeeps ==
  ASSUME DeskInv, Still, NEW p \in Proc, cmd[p].left # <<>>,
         Head(cmd[p].left).do \notin {"begin", "row", "commit"},
         NEW s, Shape(s), s.left = cmd[p].left, Goes(p, s), UNCHANGED <<writer, work>>,
         WellFormed(db'), db' = db \/ writer = None,
         Head(cmd[p].left).do = "open" => LetIn(plan[p]),
         Head(cmd[p].left).do = "old" => Asks(plan[p]) = "read" \/ MaySet(plan[p])
  PROVE  DeskInv'
<1> DEFINE c == plan[p]   P == Program(c)   x == Head(cmd[p].left)
<1>1. Meant(c) /\ Phased(c, P) /\ Len(P) \in Nat BY Phase
<1>2. PICK n \in 1..Len(P) : /\ RunsAt(p, n) /\ P[n] = x
                             /\ n = Len(P) => Tail(s.left) = <<>>
                             /\ n # Len(P) => /\ n + 1 \in 2..Len(P) /\ Tail(s.left) # <<>>
                                              /\ Tail(s.left) = SubSeq(P, n + 1, Len(P))
  BY Phase
<1>3. writer # p BY InPhase
<1>4. LetIn(c) BY InPhase
<1>5. Apart(p)
  <2>1. \A q \in Proc : q # None BY ProcAssumption
  <2> QED BY <2>1 DEF Apart
<1>6. BoardsOK' BY DEF BoardsOK, DeskInv
<1>7. n + 1 > 2 /\ c.op = "config" /\ c.key \in PersonKeys => Asks(c) = "read" \/ MaySet(c)
  <2> SUFFICES ASSUME n + 1 > 2, c.op = "config", c.key \in PersonKeys PROVE Asks(c) = "read" \/ MaySet(c) OBVIOUS
  <2>1. CASE n = 2
    <3>1. x = Do("old") BY <1>2, <2>1, PersonProgram
    <3> QED BY <3>1 DEF Do
  <2>2. CASE n # 2
    <3>1. n > 2 BY <1>1, <2>2
    <3> QED BY <1>2, <3>1 DEF RunsAt
  <2> QED BY <2>1, <2>2
<1>8. n # Len(P) => ~(P[n + 1].do \in {"row", "commit"})
  <2> SUFFICES ASSUME n # Len(P), P[n + 1].do \in {"row", "commit"} PROVE FALSE OBVIOUS
  <2>1. n + 1 \in 2..Len(P) BY <1>2
  <2>2. P[n + 1 - 1].do \in {"begin", "row"} BY <2>1, <1>1 DEF Phased
  <2>3. n + 1 - 1 = n BY <1>1
  <2>4. P[n].do \in {"begin", "row"} BY <2>2, <2>3
  <2> QED BY <2>4, <1>2
<1>9. writer' # p BY <1>3
<1> HIDE DEF x
<1> QED BY <1>1, <1>2, <1>4, <1>5, <1>6, <1>7, <1>8, <1>9, GoKeeps

LEMMA RefusedKeeps ==
  ASSUME DeskInv, Still, NEW p \in Proc, cmd[p].left # <<>>,
         Head(cmd[p].left).do \notin {"row", "commit"}, Refused(p)
  PROVE  DeskInv'
<1>1. writer # p BY InPhase
<1>2. Stops(p, "refused") /\ UNCHANGED <<db, writer, work>> BY DEF Refused
<1>3. Apart(p) BY <1>2 DEF Apart
<1>4. BoardsOK' BY <1>2 DEF BoardsOK, DeskInv
<1> QED BY <1>1, <1>2, <1>3, <1>4, StopKeeps


-----------------------------------------------------------------------------
(* Each phase keeps what always holds                                      *)

LEMMA ReadsKeep ==
  ASSUME DeskInv, Still, NEW p \in Proc, NEW what, At(p, what), what \notin {"begin", "row", "commit"},
         NEW s, Shape(s), s.left = cmd[p].left, Reads(p, s),
         what = "open" => LetIn(plan[p]),
         what = "old" => Asks(plan[p]) = "read" \/ MaySet(plan[p])
  PROVE  DeskInv'
<1>1. Goes(p, s) /\ UNCHANGED <<db, writer, work>> BY DEF Reads
<1>2. cmd[p].left # <<>> /\ Head(cmd[p].left).do = what BY DEF At
<1>3. WellFormed(db') BY <1>1 DEF DeskInv
<1> QED BY <1>1, <1>2, <1>3, PlainKeeps

LEMMA CommitsKeep ==
  ASSUME DeskInv, Still, NEW p \in Proc, NEW what, At(p, what), what \notin {"open", "old", "begin", "row", "commit"},
         NEW d, WellFormed(d), NEW s, Shape(s), s.left = cmd[p].left, Commits(p, d, s)
  PROVE  DeskInv'
<1>1. Goes(p, s) /\ UNCHANGED <<writer, work>> /\ writer = None /\ db' = d BY DEF Commits
<1>2. cmd[p].left # <<>> /\ Head(cmd[p].left).do = what BY DEF At
<1> QED BY <1>1, <1>2, PlainKeeps

LEMMA RefusedKeep ==
  ASSUME DeskInv, Still, NEW p \in Proc, NEW what, At(p, what), what \notin {"row", "commit"}, Refused(p)
  PROVE  DeskInv'
BY RefusedKeeps DEF At

LEMMA InPhaseAt ==
  ASSUME DeskInv, NEW p \in Proc, NEW what, At(p, what)
  PROVE  LET c == plan[p]
         IN /\ Meant(c) /\ Shape(cmd[p]) /\ c.by \in STRING \cup {Unset} /\ c.due \in Said
            /\ what \in {"row", "commit"} <=> writer = p
            /\ what # "open" => LetIn(c) /\ Someone(c)
            /\ what = "row" => PlanMeant(Arg(p))
            /\ what \in {"begin", "row", "commit"} => c.op \in Bulk
            /\ what \in CardWords => c.op \in CardOps
            /\ what = "due" => c.op \in {"add", "edit"}
            /\ what \in {"put", "forget", "note"} => Sets(c)
            /\ what = "put" => /\ Arg(p)[1] \in Key \cup {SetupDone}
                               /\ Arg(p)[1] \in PersonKeys => c.op = "config" /\ Arg(p)[1] = c.key /\ MaySet(c)
<1>1. cmd[p].left # <<>> /\ Head(cmd[p].left).do = what BY DEF At
<1>2. \A c : Meant(c) => c.by \in STRING \cup {Unset} /\ c.due \in Said BY DEF Meant
<1> QED BY <1>1, <1>2, InPhase DEF Arg, Fits

LEMMA OpenKeeps == ASSUME DeskInv, NEW p \in Proc, Open(p) PROVE DeskInv'
<1>1. At(p, "open") /\ Still BY DEF Open
<1>2. Shape(cmd[p]) BY <1>1, InPhaseAt
<1>3. CASE Reads(p, cmd[p]) /\ Admitted(db, plan[p]) /\ (plan[p].op = "config" => Asks(plan[p]) # "refused")
  <2>1. LetIn(plan[p]) BY <1>3 DEF LetIn, Admitted
  <2> QED BY <1>1, <1>2, <1>3, <2>1, ReadsKeep
<1>4. CASE Refused(p) BY <1>1, <1>4, RefusedKeep
<1> QED BY <1>3, <1>4 DEF Open, C

LEMMA HoldKeeps == ASSUME DeskInv, NEW p \in Proc, Hold(p) PROVE DeskInv'
<1>1. At(p, "hold") /\ Still BY DEF Hold
<1>2. Shape(cmd[p]) BY <1>1, InPhaseAt
<1> DEFINE x == Past(db.card[C(p).card], C(p).by)   s == [cmd[p] EXCEPT !.past = x]
<1>3. CASE Reads(p, s)
  <2> HIDE DEF x
  <2>1. Shape(s) /\ s.left = cmd[p].left BY <1>2, ShapeWith
  <2> HIDE DEF s
  <2> QED BY <1>1, <1>3, <2>1, ReadsKeep
<1>4. CASE Refused(p) BY <1>1, <1>4, RefusedKeep
<1> QED BY <1>3, <1>4 DEF Hold

LEMMA ItemKeeps == ASSUME DeskInv, NEW p \in Proc, Item(p) PROVE DeskInv'
<1>1. At(p, "item") /\ Still BY DEF Item
<1>2. Shape(cmd[p]) BY <1>1, InPhaseAt
<1>3. ASSUME NEW x, Reads(p, [cmd[p] EXCEPT !.item = x]) PROVE DeskInv'
  <2> DEFINE s == [cmd[p] EXCEPT !.item = x]
  <2>1. Shape(s) /\ s.left = cmd[p].left BY <1>2, ShapeWith
  <2>2. Reads(p, s) BY <1>3
  <2> HIDE DEF s
  <2> QED BY <1>1, <2>1, <2>2, ReadsKeep
<1>4. CASE Refused(p) BY <1>1, <1>4, RefusedKeep
<1> QED BY <1>3, <1>4 DEF Item

LEMMA IssueKeeps == ASSUME DeskInv, NEW p \in Proc, Issue(p) PROVE DeskInv'
<1>1. At(p, "issue") /\ Still BY DEF Issue
<1>2. Shape(cmd[p]) BY <1>1, InPhaseAt
<1>3. CASE Reads(p, cmd[p]) BY <1>1, <1>2, <1>3, ReadsKeep
<1>4. CASE Refused(p) BY <1>1, <1>4, RefusedKeep
<1> QED BY <1>3, <1>4 DEF Issue

LEMMA AskKeeps == ASSUME DeskInv, NEW p \in Proc, Ask(p) PROVE DeskInv'
<1>1. At(p, "ask") /\ Still BY DEF Ask
<1>2. Shape(cmd[p]) BY <1>1, InPhaseAt
<1>3. CASE Reads(p, cmd[p]) BY <1>1, <1>2, <1>3, ReadsKeep
<1>4. CASE Refused(p) BY <1>1, <1>4, RefusedKeep
<1> QED BY <1>3, <1>4 DEF Ask

LEMMA OldKeeps == ASSUME DeskInv, NEW p \in Proc, Old(p) PROVE DeskInv'
<1>1. At(p, "old") /\ Still BY DEF Old
<1>2. Shape(cmd[p]) BY <1>1, InPhaseAt
<1> DEFINE x == Get(db, C(p).key)   s == [cmd[p] EXCEPT !.old = x]
<1>3. CASE Reads(p, s) /\ (Asks(plan[p]) = "read" \/ MaySet(plan[p]))
  <2> HIDE DEF x
  <2>1. Shape(s) /\ s.left = cmd[p].left BY <1>2, ShapeWith
  <2> HIDE DEF s
  <2> QED BY <1>1, <1>3, <2>1, ReadsKeep
<1>4. CASE Refused(p) BY <1>1, <1>4, RefusedKeep
<1> QED BY <1>3, <1>4 DEF Old, C

LEMMA ReadRulesKeeps == ASSUME DeskInv, NEW p \in Proc, ReadRules(p) PROVE DeskInv'
<1>1. At(p, "rules") /\ Still BY DEF ReadRules
<1>2. Shape(cmd[p]) BY <1>1, InPhaseAt
<1>3. PICK x : Reads(p, [cmd[p] EXCEPT !.item = x]) BY DEF ReadRules
<1> DEFINE s == [cmd[p] EXCEPT !.item = x]
<1>4. Shape(s) /\ s.left = cmd[p].left BY <1>2, ShapeWith
<1>5. Reads(p, s) BY <1>3
<1> HIDE DEF s
<1> QED BY <1>1, <1>4, <1>5, ReadsKeep

LEMMA ModeKeeps == ASSUME DeskInv, NEW p \in Proc, Mode(p) PROVE DeskInv'
<1>1. At(p, "mode") /\ Still BY DEF Mode
<1>2. Shape(cmd[p]) BY <1>1, InPhaseAt
<1>3. PICK x : Reads(p, [cmd[p] EXCEPT !.item = x]) BY DEF Mode
<1> DEFINE s == [cmd[p] EXCEPT !.item = x]
<1>4. Shape(s) /\ s.left = cmd[p].left BY <1>2, ShapeWith
<1>5. Reads(p, s) BY <1>3
<1> HIDE DEF s
<1> QED BY <1>1, <1>4, <1>5, ReadsKeep

LEMMA WriteKeeps == ASSUME DeskInv, NEW p \in Proc, Write(p) PROVE DeskInv'
<1>1. At(p, "write") /\ Still BY DEF Write
<1>2. Shape(cmd[p]) /\ Meant(plan[p]) /\ Someone(plan[p]) BY <1>1, InPhaseAt
<1>3. CASE Refused(p) BY <1>1, <1>3, RefusedKeep
<1>4. CASE Takes(db, C(p), cmd[p])
  <2> DEFINE d == Effect(db, C(p), cmd[p])
             x == db.next
             t == [cmd[p] EXCEPT !.made = x]
             s == IF C(p).op = "add" THEN t ELSE cmd[p]
  <2>1. Commits(p, d, s) BY <1>4 DEF Write
  <2>2. WellFormed(d) BY <1>2, <1>4, EffectKept DEF DeskInv, C
  <2>3. Shape(t) /\ t.left = cmd[p].left
    <3> HIDE DEF x
    <3> QED BY <1>2, ShapeWith
  <2> HIDE DEF t, d
  <2>4. Shape(s) /\ s.left = cmd[p].left BY <1>2, <2>3
  <2> HIDE DEF s
  <2> QED BY <1>1, <2>1, <2>2, <2>4, CommitsKeep
<1> QED BY <1>3, <1>4 DEF Write

LEMMA LogTickKeeps == ASSUME DeskInv, NEW p \in Proc, LogTick(p) PROVE DeskInv'
<1>1. At(p, "log") /\ Still BY DEF LogTick
<1>2. Shape(cmd[p]) /\ plan[p].by \in STRING \cup {Unset} BY <1>1, InPhaseAt
<1>3. CASE Refused(p) BY <1>1, <1>3, RefusedKeep
<1> DEFINE d == Logged(db, C(p).card, C(p).by, "check")
<1>4. CASE Commits(p, d, cmd[p]) /\ Exists(db, C(p).card)
  <2>1. WellFormed(d) BY <1>2, <1>4, LogKept DEF DeskInv, LineKind, C
  <2> HIDE DEF d
  <2> QED BY <1>1, <1>2, <1>4, <2>1, CommitsKeep
<1> QED BY <1>3, <1>4 DEF LogTick

LEMMA DueKeeps == ASSUME DeskInv, NEW p \in Proc, Due(p) PROVE DeskInv'
<1>1. At(p, "due") /\ Still BY DEF Due
<1>2. Shape(cmd[p]) /\ plan[p].by \in STRING \cup {Unset} /\ plan[p].due \in Said BY <1>1, InPhaseAt
<1>3. CASE Refused(p) BY <1>1, <1>3, RefusedKeep
<1> DEFINE d == SetDue(db, About(p), C(p).by, C(p).due)
<1>4. CASE Commits(p, d, cmd[p]) /\ Exists(db, About(p))
  <2>1. WellFormed(d) BY <1>2, <1>4, SetDueKept DEF DeskInv, C
  <2> HIDE DEF d
  <2> QED BY <1>1, <1>2, <1>4, <2>1, CommitsKeep
<1> QED BY <1>3, <1>4 DEF Due

LEMMA LogPastKeeps == ASSUME DeskInv, NEW p \in Proc, LogPast(p) PROVE DeskInv'
<1>1. At(p, "force") /\ Still BY DEF LogPast
<1>2. Shape(cmd[p]) /\ plan[p].by \in STRING \cup {Unset} BY <1>1, InPhaseAt
<1>3. CASE Refused(p) BY <1>1, <1>3, RefusedKeep
<1> DEFINE d == LogForced(db, C(p).card, C(p).by)
<1>4. CASE Commits(p, d, cmd[p]) /\ Exists(db, C(p).card)
  <2>1. WellFormed(d) BY <1>2, <1>4, LogKept DEF DeskInv, LineKind, C, LogForced
  <2> HIDE DEF d
  <2> QED BY <1>1, <1>2, <1>4, <2>1, CommitsKeep
<1>5. CASE Reads(p, cmd[p]) BY <1>1, <1>2, <1>5, ReadsKeep
<1> QED BY <1>3, <1>4, <1>5 DEF LogPast

LEMMA PutRowKeeps == ASSUME DeskInv, NEW p \in Proc, PutRow(p) PROVE DeskInv'
<1>1. At(p, "put") /\ Still BY DEF PutRow
<1>2. Shape(cmd[p]) /\ Arg(p)[1] \in Key \cup {SetupDone} BY <1>1, InPhaseAt
<1> DEFINE d == SetConfig(db, Arg(p)[1], Arg(p)[2])
<1>3. Commits(p, d, cmd[p]) BY DEF PutRow
<1>4. WellFormed(d) BY <1>2, SetConfigKept DEF DeskInv
<1> HIDE DEF d
<1> QED BY <1>1, <1>2, <1>3, <1>4, CommitsKeep

LEMMA ForgetSnapKeeps == ASSUME DeskInv, NEW p \in Proc, ForgetSnap(p) PROVE DeskInv'
<1>1. At(p, "forget") /\ Still BY DEF ForgetSnap
<1>2. Shape(cmd[p]) BY <1>1, InPhaseAt
<1> DEFINE d == Forget(db, Arg(p))
<1>3. Commits(p, d, cmd[p]) BY DEF ForgetSnap
<1>4. WellFormed(d) BY ForgetKept DEF DeskInv
<1> HIDE DEF d
<1> QED BY <1>1, <1>2, <1>3, <1>4, CommitsKeep

LEMMA NoteKeeps == ASSUME DeskInv, NEW p \in Proc, Note(p) PROVE DeskInv'
<1>1. At(p, "note") /\ Still BY DEF Note
<1>2. Shape(cmd[p]) BY <1>1, InPhaseAt
<1> DEFINE d == IF IsNews(C(p), cmd[p].old) THEN BoardLogged(db, C(p).by, C(p).key, Unset) ELSE db
<1>3. Commits(p, d, cmd[p]) BY DEF Note
<1>4. WellFormed(d) BY BoardLogKept DEF DeskInv
<1> HIDE DEF d
<1> QED BY <1>1, <1>2, <1>3, <1>4, CommitsKeep

LEMMA MarkSeenKeeps == ASSUME DeskInv, NEW p \in Proc, MarkSeen(p) PROVE DeskInv'
<1>1. At(p, "seen") /\ Still BY DEF MarkSeen
<1>2. Shape(cmd[p]) BY <1>1, InPhaseAt
<1> DEFINE d == IF cmd[p].item = None THEN db ELSE BoardLogged(db, C(p).by, "rules-seen", cmd[p].item)
<1>3. Commits(p, d, cmd[p]) BY DEF MarkSeen
<1>4. WellFormed(d) BY BoardLogKept DEF DeskInv
<1> HIDE DEF d
<1> QED BY <1>1, <1>2, <1>3, <1>4, CommitsKeep

LEMMA BusyKeeps == ASSUME DeskInv, NEW p \in Proc, Busy(p) PROVE DeskInv'
<1>1. PICK w \in {"write", "log", "due", "begin", "put", "forget", "note", "seen"} : At(p, w) BY DEF Busy
<1>2. Refused(p) /\ Still BY DEF Busy
<1> QED BY <1>1, <1>2, RefusedKeep

LEMMA DieKeeps == ASSUME DeskInv, NEW p \in Proc, Die(p) PROVE DeskInv'
<1>1. Stops(p, "killed") /\ UNCHANGED db /\ Still BY DEF Die
<1>2. writer' # p /\ Apart(p) BY ProcAssumption DEF Die, Apart
<1>3. BoardsOK' BY <1>1 DEF Die, BoardsOK, DeskInv
<1> QED BY <1>1, <1>2, <1>3, StopKeeps


-----------------------------------------------------------------------------
(* Many rows at once                                                       *)

LEMMA CreatedFinite ==
  ASSUME NEW d, WellFormed(d), NEW by
  PROVE  IsFiniteSet(CreatedBy(d, by)) /\ Cardinality(CreatedBy(d, by)) \in Nat
<1> DEFINE S == CreatedBy(d, by)
           f == [e \in S |-> e.eid]
<1>1. d.eid \in Nat BY DEF WellFormed, Lined
<1> S \subseteq Lines(d) BY DEF CreatedBy, Lines
<1>2. \A e \in S : e.eid \in 0..d.eid BY DEF WellFormed, Lined
<1>3. \A e, g \in S : e.eid = g.eid => e = g BY DEF WellFormed, Lined
<1> HIDE DEF S
<1>4. f \in [S -> 0..d.eid] BY <1>2
<1>5. f \in Injection(S, 0..d.eid) BY <1>3, <1>4 DEF Injection, IsInjective
<1>6. IsFiniteSet(0..d.eid) BY <1>1, FS_Interval
<1> HIDE DEF f
<1>7. IsFiniteSet(S) BY <1>5, <1>6, FS_Injection
<1> QED BY <1>7, FS_CardinalityType DEF S

LEMMA CreatedOneMore ==
  ASSUME NEW d, WellFormed(d), NEW e, NEW by, Creates(d, e, by)
  PROVE  Cardinality(CreatedBy(e, by)) = Cardinality(CreatedBy(d, by)) + 1
<1>1. PICK l : /\ l.kind = "created" /\ l.by = by /\ l \notin d.log
               /\ \A x : x.kind = "created" => (x \in e.log <=> x \in d.log \/ x = l)
  BY DEF Creates
<1>2. CreatedBy(e, by) = CreatedBy(d, by) \cup {l} BY <1>1 DEF CreatedBy
<1>3. l \notin CreatedBy(d, by) BY <1>1 DEF CreatedBy
<1> QED BY <1>2, <1>3, CreatedFinite, FS_AddElement

\* The phase of a bulk command in its transaction.
LEMMA BulkPhase ==
  ASSUME DeskInv, NEW p \in Proc, NEW what \in {"begin", "row", "commit"}, At(p, what)
  PROVE  LET c == plan[p]   P == Program(c)
             N == Cardinality({n \in DOMAIN RowsOf(c.doc) : ~Flawed(RowsOf(c.doc), n, c.op)})
         IN /\ Meant(c) /\ c.op \in Bulk /\ N \in Nat /\ Len(P) = N + 3
            /\ \E n \in 1..Len(P) :
                 /\ RunsAt(p, n)
                 /\ what = "begin" => n = 2 /\ P[n + 1].do \in {"row", "commit"}
                 /\ what = "row" => /\ n \in 3..(N + 2) /\ n - 2 \in 1..N /\ Arg(p) = Request(c).plans[n - 2]
                                    /\ P[n + 1].do \in {"row", "commit"}
                 /\ what = "commit" => n = N + 3
                 /\ n = Len(P) => Tail(cmd[p].left) = <<>>
                 /\ n # Len(P) => /\ n + 1 \in 2..Len(P) /\ Tail(cmd[p].left) # <<>>
                                  /\ Tail(cmd[p].left) = SubSeq(P, n + 1, Len(P))
<1> DEFINE c == plan[p]   P == Program(c)
           N == Cardinality({n \in DOMAIN RowsOf(c.doc) : ~Flawed(RowsOf(c.doc), n, c.op)})
           x == Head(cmd[p].left)
           plans == Request(c).plans
<1>1. cmd[p].left # <<>> /\ x.do = what BY DEF At
<1>2. c.op \in Bulk /\ Meant(c) BY InPhaseAt
<1>3. Phased(c, P) /\ Len(P) \in Nat BY <1>1, Phase
<1>4. PICK n \in 1..Len(P) : /\ RunsAt(p, n) /\ P[n] = x
                             /\ n = Len(P) => Tail(cmd[p].left) = <<>>
                             /\ n # Len(P) => /\ n + 1 \in 2..Len(P) /\ Tail(cmd[p].left) # <<>>
                                              /\ Tail(cmd[p].left) = SubSeq(P, n + 1, Len(P))
  BY <1>1, Phase
<1>5. /\ N \in Nat /\ Len(P) = N + 3 /\ P[1] = Do("open") /\ P[2] = Do("begin") /\ P[N + 3] = Do("commit")
      /\ \A k \in 3..(N + 2) : P[k] = [do |-> "row", arg |-> plans[k - 2]]
  BY <1>2, BulkProgram
<1> HIDE DEF P, N, plans
<1>6. P[1].do = "open" /\ P[2].do = "begin" /\ P[N + 3].do = "commit" BY <1>5 DEF Do
<1>7. \A k \in 3..(N + 2) : P[k].do = "row" /\ P[k].arg = plans[k - 2]
  <2> SUFFICES ASSUME NEW k \in 3..(N + 2) PROVE P[k].do = "row" /\ P[k].arg = plans[k - 2] OBVIOUS
  <2>1. P[k] = [do |-> "row", arg |-> plans[k - 2]] BY <1>5
  <2> QED BY <2>1
<1>8. n = 1 \/ n = 2 \/ n \in 3..(N + 2) \/ n = N + 3 BY <1>5
<1>9. P[n].do = what /\ P[n].arg = Arg(p) BY <1>1, <1>4 DEF Arg
<1>10. what = "begin" => n = 2 BY <1>6, <1>7, <1>8, <1>9
<1>11. what = "row" => n \in 3..(N + 2) BY <1>6, <1>7, <1>8, <1>9
<1>12. what = "commit" => n = N + 3 BY <1>6, <1>7, <1>8, <1>9
<1>13. what \in {"begin", "row"} => P[n + 1].do \in {"row", "commit"}
  <2> SUFFICES ASSUME what \in {"begin", "row"} PROVE P[n + 1].do \in {"row", "commit"} OBVIOUS
  <2>1. n + 1 \in 3..(N + 2) \/ n + 1 = N + 3 BY <1>5, <1>10, <1>11
  <2>2. CASE n + 1 = N + 3 BY <2>2, <1>6
  <2>3. CASE n + 1 \in 3..(N + 2) BY <2>3, <1>7
  <2> QED BY <2>1, <2>2, <2>3
<1>14. what = "row" => n - 2 \in 1..N /\ Arg(p) = plans[n - 2]
  <2> SUFFICES ASSUME what = "row" PROVE n - 2 \in 1..N /\ Arg(p) = plans[n - 2] OBVIOUS
  <2>1. n \in 3..(N + 2) BY <1>11
  <2>2. n - 2 \in 1..N BY <2>1, <1>5
  <2> QED BY <2>1, <2>2, <1>7, <1>9
<1> QED BY <1>2, <1>4, <1>5, <1>10, <1>11, <1>12, <1>13, <1>14 DEF P, N, plans


LEMMA SoFarBegins ==
  ASSUME NEW d, WellFormed(d), NEW c, c.op \in Bulk, NEW flawed
  PROVE  SoFar(c, 0, d, d, flawed)
<1>1. d.eid \in Nat BY DEF WellFormed, Lined
<1>2. Unmoved(d, d) BY DEF Unmoved
<1>3. Cardinality(CreatedBy(d, c.by)) = Cardinality(CreatedBy(d, c.by)) + 0 BY CreatedFinite
<1>4. \A j \in 1..0 : FALSE OBVIOUS
<1> QED BY <1>1, <1>2, <1>3, <1>4 DEF SoFar

\* One row more.
LEMMA SoFarGoes ==
  ASSUME NEW d, WellFormed(d), NEW w, WellFormed(w), NEW c, Meant(c), NEW k \in Nat, NEW flawed \in BOOLEAN,
         SoFar(c, k, d, w, flawed), NEW row, row = Request(c).plans[k + 1], PlanMeant(row),
         c.op = "import" => w.next \in Id,
         NEW problem, problem = (c.op = "bulkedit" /\ RowProblem(w, c.by, row, c.force)),
         NEW x, x = IF problem THEN w ELSE IF c.op = "import" THEN ImportRow(w, c.by, row) ELSE EditRow(w, c.by, row)
  PROVE  WellFormed(x) /\ SoFar(c, k + 1, d, x, flawed \/ problem)
<1>1. c.by \in STRING \cup {Unset} BY DEF Meant
<1>2. c.op = "import" \/ (c.op = "bulkedit" /\ c.op # "import") BY DEF SoFar, Bulk
<1>3. CASE c.op = "import"
  <2>1. x = ImportRow(w, c.by, row) BY <1>3
  <2>2. WellFormed(x) /\ Wrote(w, x, w.next, c.by) /\ Creates(w, x, c.by) BY <1>1, <1>3, <2>1, ImportRowKept
  <2>3. x.conf = d.conf /\ x.eid \in Nat /\ d.eid <= x.eid BY <2>2 DEF SoFar, Wrote
  <2>4. ASSUME NEW l \in Lines(x) PROVE l \in Lines(d) \/ (l.eid \in Nat /\ l.eid >= d.eid /\ l.by = c.by)
    <3>1. l \in Lines(w) \/ (l.eid \in Nat /\ l.eid >= w.eid /\ l.by = c.by) BY <2>2 DEF Wrote
    <3> QED BY <3>1 DEF SoFar
  <2>5. Cardinality(CreatedBy(x, c.by)) = Cardinality(CreatedBy(d, c.by)) + (k + 1)
    <3>1. Cardinality(CreatedBy(x, c.by)) = Cardinality(CreatedBy(w, c.by)) + 1 BY <2>2, CreatedOneMore
    <3>2. Cardinality(CreatedBy(w, c.by)) = Cardinality(CreatedBy(d, c.by)) + k BY <1>3 DEF SoFar
    <3>3. Cardinality(CreatedBy(d, c.by)) \in Nat BY CreatedFinite
    <3> QED BY <3>1, <3>2, <3>3
  <2> QED BY <1>3, <2>2, <2>3, <2>4, <2>5 DEF SoFar
<1>4. CASE c.op = "bulkedit" /\ problem
  <2>1. x = w BY <1>4
  <2>2. SoFar(c, k, d, x, flawed) BY <2>1
  <2> QED BY <1>4, <2>1, <2>2 DEF SoFar
<1>5. CASE c.op = "bulkedit" /\ ~problem
  <2>1. x = EditRow(w, c.by, row) BY <1>5
  <2>2. Exists(w, row.card) /\ HolderGuard(w.card[row.card], c.by, c.force) BY <1>5 DEF RowProblem
  <2>3. WellFormed(x) /\ Wrote(w, x, row.card, c.by) /\ Unmoved(w, x) BY <1>1, <2>1, <2>2, EditRowKept
  <2>4. Unmoved(d, w) BY <1>5 DEF SoFar
  <2>5. Unmoved(d, x) BY <2>3, <2>4, UnmovedAgain
  <2>6. x.conf = d.conf /\ x.eid \in Nat /\ d.eid <= x.eid BY <2>3 DEF SoFar, Wrote
  <2>7. ASSUME NEW l \in Lines(x) PROVE l \in Lines(d) \/ (l.eid \in Nat /\ l.eid >= d.eid /\ l.by = c.by)
    <3>1. l \in Lines(w) \/ (l.eid \in Nat /\ l.eid >= w.eid /\ l.by = c.by) BY <2>3 DEF Wrote
    <3> QED BY <3>1 DEF SoFar
  <2>8. Exists(d, row.card) /\ HolderGuard(d.card[row.card], c.by, c.force)
    BY <2>2, <2>4 DEF Unmoved, HolderGuard, HeldByOther
  <2>9. ASSUME ~(flawed \/ problem), NEW j \in 1..(k + 1)
        PROVE  LET i == Request(c).plans[j].card IN Exists(d, i) /\ HolderGuard(d.card[i], c.by, c.force)
    <3>1. CASE j = k + 1 BY <2>8, <3>1
    <3>2. CASE j # k + 1
      <4>1. j \in 1..k BY <3>2
      <4> QED BY <1>5, <2>9, <4>1 DEF SoFar
    <3> QED BY <3>1, <3>2
  <2> HIDE DEF Request
  <2> QED BY <1>5, <2>3, <2>5, <2>6, <2>7, <2>9 DEF SoFar
<1> QED BY <1>2, <1>3, <1>4, <1>5

LEMMA BeginKeeps == ASSUME DeskInv, NEW p \in Proc, Begin(p) PROVE DeskInv'
<1> DEFINE c == plan[p]   P == Program(c)
<1>1. /\ At(p, "begin") /\ writer = None /\ writer' = p /\ work' = db /\ Goes(p, cmd[p]) /\ db' = db /\ Still
  BY DEF Begin
<1>2. Shape(cmd[p]) /\ LetIn(c) /\ c.op \in Bulk BY <1>1, InPhaseAt
<1>3. Len(P) \in Nat BY <1>1, BulkPhase
<1>4. PICK n \in 1..Len(P) :
        /\ RunsAt(p, n) /\ n = 2 /\ P[n + 1].do \in {"row", "commit"} /\ n # Len(P)
        /\ n + 1 \in 2..Len(P) /\ Tail(cmd[p].left) # <<>> /\ Tail(cmd[p].left) = SubSeq(P, n + 1, Len(P))
  <2> DEFINE N == Cardinality({n \in DOMAIN RowsOf(c.doc) : ~Flawed(RowsOf(c.doc), n, c.op)})
  <2>1. N \in Nat /\ Len(P) = N + 3 BY <1>1, BulkPhase
  <2> HIDE DEF N
  <2>2. 2 # Len(P) BY <2>1
  <2> QED BY <1>1, <2>2, BulkPhase
<1>5. Apart(p) BY <1>1, ProcAssumption DEF Apart
<1>6. BoardsOK' BY <1>1, ProcAssumption DEF BoardsOK, DeskInv
<1>7. n - 2 = 0 BY <1>4
<1>8. SoFar(c, n - 2, db', work', cmd[p].flawed) BY <1>1, <1>2, <1>7, SoFarBegins DEF DeskInv
<1>9. c.op # "config" BY <1>2 DEF Bulk
<1> QED BY <1>1, <1>2, <1>3, <1>4, <1>5, <1>6, <1>8, <1>9, GoKeeps

LEMMA RowKeeps == ASSUME DeskInv, NEW p \in Proc, Row(p) PROVE DeskInv'
<1> DEFINE c == plan[p]   P == Program(c)   row == Arg(p)
           problem == c.op = "bulkedit" /\ RowProblem(work, c.by, row, c.force)
           x == cmd[p].flawed \/ problem
           s == [cmd[p] EXCEPT !.flawed = x]
<1>1. At(p, "row") /\ db' = db /\ Still BY DEF Row
<1>2. /\ Shape(cmd[p]) /\ LetIn(c) /\ c.op \in Bulk /\ Meant(c) /\ writer = p /\ PlanMeant(row)
      /\ WellFormed(db) /\ WellFormed(work)
  BY <1>1, InPhaseAt, ProcAssumption DEF DeskInv
<1>3. Apart(p) BY <1>1, <1>2, ProcAssumption DEF Apart, Row
<1>4. CASE Stops(p, "refused") /\ writer' = None /\ work' = None
  <2>1. BoardsOK' BY <1>1, <1>2, <1>4 DEF BoardsOK
  <2>2. writer' # p BY <1>4, ProcAssumption
  <2> QED BY <1>1, <1>3, <1>4, <2>1, <2>2, StopKeeps
<1>5. CASE /\ UNCHANGED writer /\ Goes(p, s) /\ (c.op = "import" => work.next \in Id)
           /\ work' = IF problem THEN work
                      ELSE IF c.op = "import" THEN ImportRow(work, c.by, row) ELSE EditRow(work, c.by, row)
  <2>1. Len(P) \in Nat BY <1>1, BulkPhase
  <2>2. PICK n \in 1..Len(P) :
          /\ RunsAt(p, n) /\ n - 2 \in Nat /\ n - 3 \in Nat /\ row = Request(c).plans[n - 2]
          /\ P[n + 1].do \in {"row", "commit"} /\ n # Len(P)
          /\ n + 1 \in 2..Len(P) /\ Tail(cmd[p].left) # <<>> /\ Tail(cmd[p].left) = SubSeq(P, n + 1, Len(P))
    <3> DEFINE N == Cardinality({n \in DOMAIN RowsOf(c.doc) : ~Flawed(RowsOf(c.doc), n, c.op)})
    <3>1. N \in Nat /\ Len(P) = N + 3 BY <1>1, BulkPhase
    <3> HIDE DEF N
    <3>2. \A n \in 3..(N + 2) : n # Len(P) /\ n - 2 \in Nat /\ n - 3 \in Nat BY <3>1
    <3> HIDE DEF row, P
    <3>3. PICK n \in 1..Len(P) :
            /\ RunsAt(p, n) /\ n \in 3..(N + 2) /\ row = Request(c).plans[n - 2]
            /\ P[n + 1].do \in {"row", "commit"}
            /\ n # Len(P) => /\ n + 1 \in 2..Len(P) /\ Tail(cmd[p].left) # <<>>
                             /\ Tail(cmd[p].left) = SubSeq(P, n + 1, Len(P))
      BY <1>1, BulkPhase DEF N, row, P
    <3> QED BY <3>2, <3>3
  <2>3. SoFar(c, n - 3, db, work, cmd[p].flawed) BY <1>2, <2>2 DEF RunsAt
  <2>4. n - 3 + 1 = n - 2 BY <2>2
  <2>5. cmd[p].flawed \in BOOLEAN BY <1>2 DEF Shape
  <2>6. row = Request(c).plans[n - 3 + 1] BY <2>2, <2>4
  <2>7. Shape(s) /\ s.left = cmd[p].left /\ s.flawed = x
    <3>1. x \in BOOLEAN OBVIOUS
    <3> HIDE DEF x
    <3> QED BY <1>2, <3>1, ShapeWith
  <2> DEFINE y == work'   k == n - 3
  <2>8. y = IF problem THEN work
            ELSE IF c.op = "import" THEN ImportRow(work, c.by, row) ELSE EditRow(work, c.by, row)
    BY <1>5
  <2>9. /\ SoFar(c, k, db, work, cmd[p].flawed) /\ k \in Nat /\ row = Request(c).plans[k + 1]
        /\ k + 1 = n - 2 /\ (c.op = "import" => work.next \in Id)
    BY <1>5, <2>2, <2>3, <2>4, <2>6
  <2>10. problem = (c.op = "bulkedit" /\ RowProblem(work, c.by, row, c.force)) OBVIOUS
  <2> HIDE DEF y, problem, row, k
  <2>11. WellFormed(y) /\ SoFar(c, k + 1, db, y, cmd[p].flawed \/ problem)
    BY <1>2, <2>5, <2>8, <2>9, <2>10, SoFarGoes
  <2>12. BoardsOK' BY <1>1, <1>2, <1>5, <2>11, ProcAssumption DEF BoardsOK, y
  <2>13. SoFar(c, n - 2, db', work', s.flawed) BY <1>1, <2>7, <2>9, <2>11 DEF y
  <2>14. c.op # "config" BY <1>2 DEF Bulk
  <2>15. writer' = p BY <1>2, <1>5
  <2>16. Goes(p, s) BY <1>5
  <2> HIDE DEF s
  <2> QED BY <1>1, <1>2, <1>3, <2>1, <2>2, <2>7, <2>12, <2>13, <2>14, <2>15, <2>16, GoKeeps
<1> QED BY <1>4, <1>5 DEF Row, C

LEMMA CommitKeeps == ASSUME DeskInv, NEW p \in Proc, Commit(p) PROVE DeskInv'
<1> DEFINE c == plan[p]   P == Program(c)
<1>1. /\ At(p, "commit") /\ Still /\ writer' = None /\ work' = None
      /\ (Stops(p, "refused") \/ Goes(p, cmd[p])) /\ (db' = work \/ db' = db)
  BY DEF Commit
<1>2. Shape(cmd[p]) /\ writer = p /\ WellFormed(db) /\ WellFormed(work)
  BY <1>1, InPhaseAt, ProcAssumption DEF DeskInv
<1>3. Apart(p) BY <1>1, <1>2, ProcAssumption DEF Apart
<1>4. BoardsOK' BY <1>1, <1>2 DEF BoardsOK
<1>5. writer' # p BY <1>1, ProcAssumption
<1>6. CASE Stops(p, "refused") BY <1>1, <1>3, <1>4, <1>5, <1>6, StopKeeps
<1>7. CASE Goes(p, cmd[p])
  <2>1. Len(P) \in Nat BY <1>1, BulkPhase
  <2>2. PICK n \in 1..Len(P) : RunsAt(p, n) /\ n = Len(P) /\ Tail(cmd[p].left) = <<>> BY <1>1, BulkPhase
  <2> QED BY <1>1, <1>2, <1>3, <1>4, <1>5, <1>7, <2>1, <2>2, GoKeeps
<1> QED BY <1>1, <1>6, <1>7


-----------------------------------------------------------------------------
(* What holds of every behaviour                                           *)

LEMMA StartInv == DeskInit => DeskInv
<1> SUFFICES ASSUME DeskInit PROVE DeskInv OBVIOUS
<1>1. PICK w \in Worlds :
        /\ db = w.db /\ from = w.from /\ writer = None /\ work = None
        /\ \A p \in Proc : plan[p] \in w.plans[p]
        /\ cmd = [p \in Proc |-> Fresh(Program(plan[p]))]
  BY DEF DeskInit, StartsIn
<1>2. WellFormed(db) /\ FromOK /\ \A p \in Proc : Meant(plan[p]) BY <1>1, WorldsAssumption DEF FromOK
<1>3. cmd = [p \in Proc |-> cmd[p]] BY <1>1
<1>4. ASSUME NEW p \in Proc PROVE CmdInv(p)
  <2> DEFINE P == Program(plan[p])
  <2>1. Phased(plan[p], P) BY <1>2, ProgramPhased
  <2> HIDE DEF P
  <2>2. P \in Seq(Range(P)) /\ 1 \in 1..Len(P) /\ P[1].do = "open" BY <2>1 DEF Phased
  <2>3. P = SubSeq(P, 1, Len(P)) BY <2>2, SubSeqFull
  <2>4. P # <<>> BY <2>2
  <2>5. cmd[p] = Fresh(P) BY <1>1 DEF P
  <2>6. Shape(cmd[p]) /\ cmd[p].left = P BY <2>5 DEF Fresh, Shape
  <2>7. writer # p BY <1>1, ProcAssumption
  <2>8. ~(P[1].do \in {"row", "commit"}) BY <2>2
  <2>9. RunsAt(p, 1) BY <2>2, <2>3, <2>6, <2>7, <2>8 DEF RunsAt, P
  <2> QED BY <1>2, <2>2, <2>4, <2>6, <2>9 DEF CmdInv, P
<1> QED BY <1>1, <1>2, <1>3, <1>4 DEF DeskInv

LEMMA WatchedInv ==
  ASSUME DeskInv, UNCHANGED <<db, writer, work, plan, cmd, from>>
  PROVE  DeskInv'
<1>1. ASSUME NEW p \in Proc PROVE CmdInv(p)'
  <2>1. CmdInv(p) /\ cmd[p]' = cmd[p] /\ plan[p]' = plan[p] BY DEF DeskInv
  <2>2. Program(plan[p])' = Program(plan[p]) BY DEF Program, NewSteps
  <2>3. ASSUME NEW n, RunsAt(p, n) PROVE RunsAt(p, n)' BY <2>1, <2>2, <2>3 DEF RunsAt
  <2>4. (Shape(cmd[p]) => Shape(cmd[p])') /\ (Meant(plan[p]) => Meant(plan[p])') BY <2>1
  <2> QED BY <2>1, <2>2, <2>3, <2>4 DEF CmdInv
<1> QED BY <1>1 DEF DeskInv, FromOK

\* One step of one command.
LEMMA StepInv == ASSUME DeskInv, NEW p \in Proc, DeskStep(p) PROVE DeskInv'
BY OpenKeeps, HoldKeeps, ItemKeeps, ModeKeeps, IssueKeeps, WriteKeeps, LogTickKeeps, DueKeeps, LogPastKeeps, BeginKeeps,
   RowKeeps, CommitKeeps, AskKeeps, OldKeeps, PutRowKeeps, ForgetSnapKeeps, NoteKeeps, ReadRulesKeeps,
   MarkSeenKeeps, BusyKeeps, DieKeeps
   DEF DeskStep

LEMMA NextInv == DeskInv /\ [DeskNext]_deskVars => DeskInv'
<1> SUFFICES ASSUME DeskInv, [DeskNext]_deskVars PROVE DeskInv' OBVIOUS
<1>1. CASE Watch BY <1>1, WatchedInv DEF Watch, Poll, PrintLine
<1>2. CASE UNCHANGED deskVars BY <1>2, WatchedInv DEF deskVars
<1>3. ASSUME NEW p \in Proc, DeskStep(p) PROVE DeskInv' BY <1>3, StepInv
<1> QED BY <1>1, <1>2, <1>3 DEF DeskNext

\* Whatever commands run on a board, one statement or one transaction at a time, and wherever one of
\* them is killed: every command goes through its phases in their order; a long transaction is its
\* writer's, begins from the board as it is and has done the rows before its next one; and what a
\* session may never ask was asked before its first write.
THEOREM DeskInvariant == DeskSpec => []DeskInv
BY StartInv, NextInv, PTL DEF DeskSpec

\* The board file is always one: each card once in the order of its column, no line of the log and
\* no checklist without its card, whatever was added, moved, edited, imported or removed (store.rs,
\* bulk.rs, archive.rs); and so is what a long transaction has written so far.
THEOREM DeskTypes == DeskSpec => []TypeOK
<1>1. DeskInv => TypeOK BY DEF DeskInv, TypeOK, CmdInv, Shape
<1> QED BY <1>1, DeskInvariant, PTL


-----------------------------------------------------------------------------
(* Whose step it was                                                       *)

\* A step of q is one of its own command, and changes the board as one of these does.
Writing(q) ==
  Write(q) \/ LogTick(q) \/ Due(q) \/ LogPast(q) \/ PutRow(q) \/ ForgetSnap(q) \/ Note(q) \/ MarkSeen(q) \/ Commit(q)

LEMMA StepOwn ==
  ASSUME DeskInv, NEW q \in Proc, DeskStep(q)
  PROVE  /\ \E s : cmd' = [cmd EXCEPT ![q] = s]
         /\ \A p \in Proc \ {q} : cmd'[p] = cmd[p]
         /\ plan' = plan
         /\ db' # db => Writing(q)
<1>1. \A s : Goes(q, s) => \E t : cmd' = [cmd EXCEPT ![q] = t] BY DEF Goes
<1>2. \A how : Stops(q, how) => \E t : cmd' = [cmd EXCEPT ![q] = t] BY DEF Stops
<1>3. \A s : Reads(q, s) => Goes(q, s) BY DEF Reads
<1>4. Refused(q) => Stops(q, "refused") BY DEF Refused
<1>5. \A d, s : Commits(q, d, s) => Goes(q, s) BY DEF Commits
<1>6. PICK t : cmd' = [cmd EXCEPT ![q] = t]
  <2>1. CASE Open(q) \/ Hold(q) \/ Item(q) \/ Mode(q) \/ Issue(q) \/ Ask(q) \/ Old(q) \/ ReadRules(q)
    BY <2>1, <1>1, <1>2, <1>3, <1>4 DEF Open, Hold, Item, Mode, Issue, Ask, Old, ReadRules
  <2>2. CASE Write(q) \/ LogTick(q) \/ Due(q) \/ LogPast(q)
    BY <2>2, <1>1, <1>2, <1>3, <1>4, <1>5 DEF Write, LogTick, Due, LogPast
  <2>3. CASE PutRow(q) \/ ForgetSnap(q) \/ Note(q) \/ MarkSeen(q)
    BY <2>3, <1>1, <1>5 DEF PutRow, ForgetSnap, Note, MarkSeen
  <2>4. CASE Begin(q) \/ Row(q) \/ Commit(q) BY <2>4, <1>1, <1>2 DEF Begin, Row, Commit
  <2>5. CASE Busy(q) \/ Die(q) BY <2>5, <1>2, <1>4 DEF Busy, Die
  <2> QED BY <2>1, <2>2, <2>3, <2>4, <2>5 DEF DeskStep
<1>7. \A p \in Proc \ {q} : cmd'[p] = cmd[p]
  <2>1. cmd = [p \in Proc |-> cmd[p]] BY DEF DeskInv
  <2>2. \A p \in Proc \ {q} : [cmd EXCEPT ![q] = t][p] = cmd[p] BY <2>1
  <2> QED BY <1>6, <2>2
<1>8. plan' = plan
  <2>1. Still
    BY DEF DeskStep, Open, Hold, Item, Mode, Issue, Ask, Old, ReadRules, Write, LogTick, Due, LogPast, PutRow,
           ForgetSnap, Note, MarkSeen, Begin, Row, Commit, Busy, Die
  <2> QED BY <2>1 DEF Still
<1>9. db' # db => Writing(q)
  <2>1. Reads(q, cmd[q]) \/ Refused(q) => db' = db BY DEF Reads, Refused
  <2>2. \A s : Reads(q, s) => db' = db BY DEF Reads
  <2>3. Open(q) \/ Hold(q) \/ Item(q) \/ Mode(q) \/ Issue(q) \/ Ask(q) \/ Old(q) \/ ReadRules(q) => db' = db
    BY <2>1, <2>2 DEF Open, Hold, Item, Mode, Issue, Ask, Old, ReadRules
  <2>4. Begin(q) \/ Row(q) \/ Busy(q) \/ Die(q) => db' = db BY <2>1 DEF Begin, Row, Busy, Die
  <2> QED BY <2>3, <2>4 DEF DeskStep, Writing
<1> QED BY <1>6, <1>7, <1>8, <1>9

\* Who took the step, when the board is another or a command is.
LEMMA NextOwn ==
  ASSUME DeskInv, [DeskNext]_deskVars, NEW p \in Proc, cmd'[p] # cmd[p]
  PROVE  DeskStep(p) /\ plan' = plan /\ (db' # db => Writing(p))
<1>1. CASE Watch \/ UNCHANGED deskVars BY <1>1 DEF Watch, Poll, PrintLine, deskVars
<1>2. ASSUME NEW q \in Proc, DeskStep(q) PROVE q = p /\ plan' = plan /\ (db' # db => Writing(q))
  BY <1>2, StepOwn
<1> QED BY <1>1, <1>2 DEF DeskNext

\* A bulk command does nothing else.
LEMMA BulkWords ==
  ASSUME DeskInv, NEW p \in Proc, plan[p].op \in Bulk, NEW what, At(p, what)
  PROVE  what \in {"open", "begin", "row", "commit"}
<1> DEFINE c == plan[p]   P == Program(c)
           N == Cardinality({n \in DOMAIN RowsOf(c.doc) : ~Flawed(RowsOf(c.doc), n, c.op)})
<1>1. cmd[p].left # <<>> /\ Head(cmd[p].left).do = what BY DEF At
<1>2. PICK n \in 1..Len(P) : P[n].do = what BY <1>1, Phase
<1>3. Meant(c) BY DEF DeskInv, CmdInv
<1>4. /\ N \in Nat /\ Len(P) = N + 3 /\ P[1] = Do("open") /\ P[2] = Do("begin") /\ P[N + 3] = Do("commit")
      /\ \A k \in 3..(N + 2) : P[k] = [do |-> "row", arg |-> Request(c).plans[k - 2]]
  BY <1>3, BulkProgram
<1> HIDE DEF P, N
<1>5. n = 1 \/ n = 2 \/ n \in 3..(N + 2) \/ n = N + 3 BY <1>4
<1>6. CASE n \in 3..(N + 2)
  <2>1. P[n] = [do |-> "row", arg |-> Request(c).plans[n - 2]] BY <1>4, <1>6
  <2> QED BY <1>2, <2>1
<1>7. CASE n \notin 3..(N + 2)
  <2>1. P[n] \in {Do("open"), Do("begin"), Do("commit")} BY <1>4, <1>5, <1>7
  <2> QED BY <1>2, <2>1 DEF Do
<1> QED BY <1>6, <1>7

-----------------------------------------------------------------------------
(* A document is on the board whole or not at all                          *)

\* A document nothing was refused of has a plan for each of its rows.
LEMMA AllPlanned ==
  ASSUME NEW c, Meant(c), c.op \in Bulk, ~Request(c).refused
  PROVE  LET rows == RowsOf(c.doc)
             N == Cardinality({n \in DOMAIN rows : ~Flawed(rows, n, c.op)})
         IN /\ N = Len(rows) /\ N \in Nat
            /\ \A row \in Range(rows) : \E k \in 1..N : Request(c).plans[k].card = row.id
<1> DEFINE rows == RowsOf(c.doc)
           good == {n \in DOMAIN rows : ~Flawed(rows, n, c.op)}
           N == Cardinality(good)
           plans == Request(c).plans
<1>1. \A n \in DOMAIN rows : ~Flawed(rows, n, c.op) BY DEF Request
<1>2. good = DOMAIN rows BY <1>1
<1>3. /\ rows \in Seq(Range(rows)) /\ good \subseteq 1..Len(rows) /\ N \in Nat
      /\ \A k \in 1..N : plans[k] = PlanRow(rows[InOrder(good)[k]], c.op)
  BY PlansAre
<1> HIDE DEF rows, good, plans
<1>4. Len(rows) \in Nat /\ good = 1..Len(rows) BY <1>2, <1>3
<1>5. N = Len(rows)
  <2> DEFINE m == Len(rows)
  <2>1. m \in Nat /\ good = 1..m BY <1>4
  <2> HIDE DEF m
  <2>2. Cardinality(1..m) = IF 1 > m THEN 0 ELSE m - 1 + 1 BY <2>1, FS_Interval
  <2>3. Cardinality(1..m) = m BY <2>1, <2>2
  <2> QED BY <2>1, <2>3 DEF m
<1>6. ASSUME NEW row \in Range(rows) PROVE \E k \in 1..N : plans[k].card = row.id
  <2>1. PICK x \in 1..Len(rows) : rows[x] = row BY <1>3 DEF Range
  <2>2. x \in good BY <1>4
  <2> DEFINE m == Len(rows)
  <2>6. good \subseteq 1..m /\ m \in Nat BY <1>3, <1>4
  <2> HIDE DEF m
  <2>8. \A y \in good : \E k \in 1..Cardinality(good) : InOrder(good)[k] = y BY ONLY <2>6, InOrderAll
  <2>7. \E k \in 1..Cardinality(good) : InOrder(good)[k] = x BY <2>2, <2>8
  <2>3. PICK k \in 1..N : InOrder(good)[k] = x BY <2>7
  <2>4. plans[k] = PlanRow(row, c.op) BY <1>3, <2>1, <2>3
  <2>5. plans[k].card = row.id BY <2>4 DEF PlanRow
  <2> QED BY <2>5
<1> QED BY <1>3, <1>5, <1>6 DEF rows, good, plans, N

LEMMA CommitWhole ==
  ASSUME DeskInv, NEW p \in Proc, Commit(p), db' # db
  PROVE  /\ cmd'[p].end = "ok" /\ WillWrite(plan[p])
         /\ plan[p].op = "import" => Made(p)' = Made(p) + Len(RowsOf(plan[p].doc))
         /\ plan[p].op = "bulkedit" =>
              \A row \in Range(RowsOf(plan[p].doc)) :
                \E i \in Id : i = row.id /\ Exists(db, i)
                              /\ HolderGuard(db.card[i], plan[p].by, plan[p].force)
<1> DEFINE c == plan[p]   P == Program(c)
           N == Cardinality({n \in DOMAIN RowsOf(c.doc) : ~Flawed(RowsOf(c.doc), n, c.op)})
<1>1. At(p, "commit") /\ Still /\ ~cmd[p].flawed /\ WillWrite(c) /\ db' = work BY DEF Commit, C
<1>2. ~Request(c).refused BY <1>1 DEF WillWrite
<1>3. Goes(p, cmd[p]) BY <1>1, <1>2 DEF Commit, C
<1>4. writer = p /\ c.op \in Bulk /\ Meant(c) BY <1>1, InPhaseAt
<1>5. N \in Nat /\ \E n \in 1..Len(P) : RunsAt(p, n) /\ n = N + 3 /\ Tail(cmd[p].left) = <<>>
  <2>1. N \in Nat /\ Len(P) = N + 3 BY <1>1, BulkPhase
  <2> HIDE DEF N
  <2>2. PICK n \in 1..Len(P) : RunsAt(p, n) /\ n = N + 3 /\ (n = Len(P) => Tail(cmd[p].left) = <<>>)
    BY <1>1, BulkPhase DEF N
  <2> QED BY <2>1, <2>2
<1>6. PICK n : RunsAt(p, n) /\ n = N + 3 /\ Tail(cmd[p].left) = <<>> BY <1>5
<1>7. cmd'[p].end = "ok"
  <2>1. cmd' = [cmd EXCEPT ![p] = Ended("ok")] BY <1>3, <1>6 DEF Goes
  <2>2. cmd = [q \in Proc |-> cmd[q]] BY DEF DeskInv
  <2>3. cmd'[p] = Ended("ok") BY <2>1, <2>2
  <2> QED BY <2>3, EndedIs
<1> HIDE DEF N
<1>8. SoFar(c, N, db, work, cmd[p].flawed)
  <2>1. n - 3 = N BY <1>5, <1>6
  <2> QED BY <1>4, <1>6, <2>1 DEF RunsAt
<1>9. N = Len(RowsOf(c.doc)) /\ \A row \in Range(RowsOf(c.doc)) : \E k \in 1..N : Request(c).plans[k].card = row.id
  BY <1>2, <1>4, AllPlanned DEF N
<1>10. ASSUME c.op = "import" PROVE Made(p)' = Made(p) + Len(RowsOf(c.doc))
  <2>1. Cardinality(CreatedBy(work, c.by)) = Cardinality(CreatedBy(db, c.by)) + N BY <1>8, <1>10 DEF SoFar
  <2>2. plan[p]' = plan[p] BY <1>1 DEF Still
  <2>3. Made(p) = Cardinality(CreatedBy(db, c.by)) BY DEF Made, CreatedBy
  <2>4. Made(p)' = Cardinality(CreatedBy(work, c.by)) BY <1>1, <2>2 DEF Made, CreatedBy
  <2> QED BY <1>9, <2>1, <2>3, <2>4
<1>11. ASSUME c.op = "bulkedit", NEW row \in Range(RowsOf(c.doc))
       PROVE  \E i \in Id : i = row.id /\ Exists(db, i) /\ HolderGuard(db.card[i], c.by, c.force)
  <2>1. PICK k \in 1..N : Request(c).plans[k].card = row.id BY <1>9
  <2> HIDE DEF Request
  <2>2. Exists(db, row.id) /\ HolderGuard(db.card[row.id], c.by, c.force) BY <1>1, <1>8, <1>11, <2>1 DEF SoFar
  <2> QED BY <2>2 DEF Exists
<1> QED BY <1>1, <1>7, <1>10, <1>11

\* A document is imported or applied whole, or nothing of it is on the board, however the rows of
\* others and the deaths of commands fall between its phases (import.rs, run; bulk.rs, bulk_apply).
THEOREM DocumentsAreWhole == DeskSpec => BulkWhole
<1> DEFINE A == \A p \in Proc : plan[p].op \in {"import", "bulkedit"} /\ cmd'[p] # cmd[p] /\ db' # db =>
                  /\ cmd'[p].end = "ok" /\ WillWrite(plan[p])
                  /\ plan[p].op = "import" => Made(p)' = Made(p) + Len(RowsOf(plan[p].doc))
                  /\ plan[p].op = "bulkedit" =>
                       \A row \in Range(RowsOf(plan[p].doc)) :
                         \E i \in Id : i = row.id /\ Exists(db, i)
                                      /\ HolderGuard(db.card[i], plan[p].by, plan[p].force)
<1>1. DeskInv /\ [DeskNext]_deskVars => [A]_deskVars
  <2> SUFFICES ASSUME DeskInv, [DeskNext]_deskVars, NEW p \in Proc,
                      plan[p].op \in {"import", "bulkedit"}, cmd'[p] # cmd[p], db' # db
               PROVE  /\ cmd'[p].end = "ok" /\ WillWrite(plan[p])
                      /\ plan[p].op = "import" => Made(p)' = Made(p) + Len(RowsOf(plan[p].doc))
                      /\ plan[p].op = "bulkedit" =>
                           \A row \in Range(RowsOf(plan[p].doc)) :
                             \E i \in Id : i = row.id /\ Exists(db, i)
                                          /\ HolderGuard(db.card[i], plan[p].by, plan[p].force)
    OBVIOUS
  <2>1. Writing(p) BY NextOwn
  <2>2. \A what : At(p, what) => what \in {"open", "begin", "row", "commit"} BY BulkWords DEF Bulk
  <2>3. Commit(p)
    BY <2>1, <2>2 DEF Writing, Write, LogTick, Due, LogPast, PutRow, ForgetSnap, Note, MarkSeen
  <2> QED BY <2>3, CommitWhole
<1>2. DeskSpec => [][DeskNext]_deskVars BY PTL DEF DeskSpec
<1>3. DeskSpec => [][A]_deskVars BY <1>1, <1>2, DeskInvariant, PTL
<1> QED BY <1>3 DEF BulkWhole


-----------------------------------------------------------------------------
(* What a session leaves alone                                             *)

\* Only add remembers a card it made.
MadeInv == \A p \in Proc : cmd[p].made # None => plan[p].op = "add"

LEMMA StepMade == ASSUME DeskInv, MadeInv, NEW q \in Proc, DeskStep(q) PROVE MadeInv'
<1> DEFINE Ok(s) == s.made # None => plan[q].op = "add"
<1>1. cmd = [p \in Proc |-> cmd[p]] /\ Shape(cmd[q]) /\ Ok(cmd[q]) BY DEF DeskInv, CmdInv, MadeInv
<1>2. \A how : Ended(how).made = None BY DEF Ended, Fresh
<1>3. ASSUME NEW s, Shape(s), Ok(s), Goes(q, s) PROVE \E t : cmd' = [cmd EXCEPT ![q] = t] /\ Ok(t)
  <2> DEFINE x == Tail(s.left)   t == [s EXCEPT !.left = x]
  <2>1. Ok(t)
    <3> HIDE DEF x
    <3> QED BY <1>3 DEF Shape
  <2>2. cmd' = [cmd EXCEPT ![q] = IF x = <<>> THEN Ended("ok") ELSE t] BY <1>3 DEF Goes
  <2> HIDE DEF t, x
  <2> QED BY <2>1, <2>2, <1>2
<1>4. ASSUME NEW how, Stops(q, how) PROVE \E t : cmd' = [cmd EXCEPT ![q] = t] /\ Ok(t)
  BY <1>2, <1>4 DEF Stops
<1>5. \A x : /\ Shape([cmd[q] EXCEPT !.past = x]) /\ [cmd[q] EXCEPT !.past = x].made = cmd[q].made
             /\ Shape([cmd[q] EXCEPT !.item = x]) /\ [cmd[q] EXCEPT !.item = x].made = cmd[q].made
             /\ Shape([cmd[q] EXCEPT !.old = x]) /\ [cmd[q] EXCEPT !.old = x].made = cmd[q].made
             /\ Shape([cmd[q] EXCEPT !.made = x])
             /\ x \in BOOLEAN => Shape([cmd[q] EXCEPT !.flawed = x]) /\ [cmd[q] EXCEPT !.flawed = x].made = cmd[q].made
  BY <1>1 DEF Shape
<1>6. Refused(q) => Stops(q, "refused") BY DEF Refused
<1>7. PICK t : cmd' = [cmd EXCEPT ![q] = t] /\ Ok(t)
  <2>1. CASE Open(q) \/ Issue(q) \/ Ask(q) \/ LogPast(q) \/ LogTick(q) \/ Due(q)
    <3>1. Goes(q, cmd[q]) \/ Stops(q, "refused")
      BY <1>6, <2>1 DEF Open, Issue, Ask, LogPast, LogTick, Due, Reads, Commits
    <3> QED BY <1>1, <1>3, <1>4, <3>1
  <2>2. CASE PutRow(q) \/ ForgetSnap(q) \/ Note(q) \/ MarkSeen(q) \/ Begin(q) \/ Commit(q)
    <3>1. Goes(q, cmd[q]) \/ Stops(q, "refused")
      BY <2>2 DEF PutRow, ForgetSnap, Note, MarkSeen, Begin, Commit, Commits
    <3> QED BY <1>1, <1>3, <1>4, <3>1
  <2>3. CASE Hold(q) \/ Item(q) \/ Mode(q) \/ Old(q) \/ ReadRules(q)
    <3>1. \/ Stops(q, "refused")
          \/ \E x : \/ Goes(q, [cmd[q] EXCEPT !.past = x]) \/ Goes(q, [cmd[q] EXCEPT !.item = x])
                    \/ Goes(q, [cmd[q] EXCEPT !.old = x])
      BY <1>6, <2>3 DEF Hold, Item, Mode, Old, ReadRules, Reads
    <3>2. CASE Stops(q, "refused") BY <1>4, <3>2
    <3>3. ASSUME NEW s, Shape(s), s.made = cmd[q].made, Goes(q, s) PROVE \E t : cmd' = [cmd EXCEPT ![q] = t] /\ Ok(t)
      BY <1>1, <1>3, <3>3
    <3> QED BY <1>5, <3>1, <3>2, <3>3
  <2>4. CASE Write(q)
    <3> DEFINE x == db.next   u == [cmd[q] EXCEPT !.made = x]
    <3>1. \/ Stops(q, "refused") \/ Goes(q, cmd[q]) \/ (Goes(q, u) /\ plan[q].op = "add")
      BY <1>6, <2>4 DEF Write, Commits, C
    <3>2. Shape(u) BY <1>5
    <3> HIDE DEF u
    <3>3. CASE Goes(q, u) /\ plan[q].op = "add" BY <1>3, <3>2, <3>3
    <3> QED BY <1>1, <1>3, <1>4, <3>1, <3>3
  <2>5. CASE Row(q)
    <3> DEFINE x == cmd[q].flawed \/ (C(q).op = "bulkedit" /\ RowProblem(work, C(q).by, Arg(q), C(q).force))
               u == [cmd[q] EXCEPT !.flawed = x]
    <3>1. Stops(q, "refused") \/ Goes(q, u) BY <2>5 DEF Row
    <3>2. x \in BOOLEAN OBVIOUS
    <3> HIDE DEF x
    <3>3. Shape(u) /\ u.made = cmd[q].made BY <1>5, <3>2
    <3> HIDE DEF u
    <3> QED BY <1>1, <1>3, <1>4, <3>1, <3>3
  <2>6. CASE Busy(q) \/ Die(q) BY <1>4, <1>6, <2>6 DEF Busy, Die
  <2> QED BY <2>1, <2>2, <2>3, <2>4, <2>5, <2>6 DEF DeskStep
<1>8. plan' = plan BY StepOwn
<1>9. cmd'[q] = t /\ \A p \in Proc \ {q} : cmd'[p] = cmd[p] BY <1>1, <1>7
<1> HIDE DEF Ok
<1>10. ASSUME NEW p \in Proc PROVE cmd'[p].made # None => plan'[p].op = "add"
  BY <1>7, <1>8, <1>9 DEF MadeInv, Ok
<1> QED BY <1>10 DEF MadeInv

LEMMA MadeInvariant == DeskSpec => []MadeInv
<1>1. DeskInit => MadeInv
  <2> SUFFICES ASSUME DeskInit, NEW p \in Proc PROVE cmd[p].made = None BY DEF MadeInv
  <2>1. cmd[p] = Fresh(Program(plan[p])) BY DEF DeskInit, StartsIn
  <2> QED BY <2>1 DEF Fresh
<1>2. DeskInv /\ MadeInv /\ [DeskNext]_deskVars => MadeInv'
  <2> SUFFICES ASSUME DeskInv, MadeInv, [DeskNext]_deskVars PROVE MadeInv' OBVIOUS
  <2>1. CASE Watch \/ UNCHANGED deskVars BY <2>1 DEF MadeInv, Watch, Poll, PrintLine, deskVars
  <2>2. ASSUME NEW q \in Proc, DeskStep(q) PROVE MadeInv' BY <2>2, StepMade
  <2> QED BY <2>1, <2>2 DEF DeskNext
<1> QED BY <1>1, <1>2, DeskInvariant, PTL DEF DeskSpec


LEMMA SetConfigIs ==
  ASSUME NEW d, WellFormed(d), NEW key, NEW value
  PROVE  LET e == SetConfig(d, key, value)
         IN /\ e.card = d.card /\ e.items = d.items /\ e.links = d.links /\ Lines(e) = Lines(d)
            /\ \A k : k # key => Get(e, k) = Get(d, k)
<1> DEFINE x == [k \in (DOMAIN d.conf \cup {key}) \ (IF value = None THEN {key} ELSE {}) |->
                   IF k = key THEN value ELSE d.conf[k]]
           e == [d EXCEPT !.conf = x]
<1>1. SetConfig(d, key, value) = e BY DEF SetConfig
<1>2. Only({"conf"}, d, e) /\ e.conf = x
  <2> HIDE DEF x
  <2> QED BY Put_conf, WellFormedTables
<1>3. ASSUME NEW k, k # key PROVE Get(e, k) = Get(d, k)
  <2>1. k \in DOMAIN x <=> k \in DOMAIN d.conf BY <1>3
  <2>2. k \in DOMAIN x => x[k] = d.conf[k] BY <1>3
  <2> HIDE DEF x, e
  <2> QED BY <1>2, <2>1, <2>2 DEF Get
<1> HIDE DEF e
<1> QED BY <1>1, <1>2, <1>3 DEF Only, Lines

\* A board that only logged for itself, or forgot its snapshot.
LEMMA AsideIs ==
  ASSUME NEW d, WellFormed(d), NEW by, NEW kind, NEW text, NEW repo
  PROVE  \A e \in {BoardLogged(d, by, kind, text), Forget(d, repo)} :
           /\ e.card = d.card /\ e.items = d.items /\ e.links = d.links /\ Lines(e) = Lines(d)
           /\ e.conf = d.conf
<1>1. Only({"blog"}, d, BoardLogged(d, by, kind, text)) BY BoardLoggedIs, WellFormedTables
<1> DEFINE f == [d EXCEPT !.snap = None]
<1>2. Only({"snap"}, d, f) BY Put_snap, WellFormedTables
<1>3. Forget(d, repo) \in {d, f} BY DEF Forget
<1> HIDE DEF f
<1> QED BY <1>1, <1>2, <1>3 DEF Only, Lines

\* A line about a card is no change of it.
LEMMA LineIs ==
  ASSUME NEW d, WellFormed(d), NEW i, NEW by, NEW kind
  PROVE  LET e == Logged(d, i, by, kind)
         IN e.card = d.card /\ e.items = d.items /\ e.links = d.links /\ e.conf = d.conf
BY LoggedIs, WellFormedTables DEF Only

-----------------------------------------------------------------------------
(* What a session may do                                                   *)

\* A session that was launched for a card and steers nothing.
Launched(c) ==
  c.env.bound # None /\ ~Steers(c) /\ ~DbExempt(c) /\ c.op \notin {"next", "sync"}

\* To ask for nothing is to read.
LEMMA AsksNothing ==
  ASSUME NEW c, c.value = None, ~c.off
  PROVE  Asks(c) \in {"read", "refused"}
BY DEF Asks, WordArm, LabelArm, RoundsArm, PersonArm, CloseArm, KindArm, GithubArm, LimitArm, LookArm, DateArm,
       FileArm, ValueOrRead

\* Who writes was let in to write that.
LEMMA MayWrite ==
  ASSUME NEW c, Meant(c), LetIn(c), c.op \in CardOps \/ Sets(c) \/ (c.op \in Bulk /\ ~c.dry)
  PROVE  /\ ~c.env.readonly
         /\ Launched(c) => /\ c.op \notin Bulk /\ c.op # "add"
                           /\ c.op \in CardOps => c.op = "note" \/ c.card \in {None, c.env.bound}
         /\ c.env.pin # None /\ ~c.env.ticket /\ ~DbExempt(c) => c.env.pin = c.by
<1>1. ReadOnlyAllows(c) /\ PinGuards(c) BY DEF LetIn, MayMake
<1>2. ~c.env.readonly
  <2> SUFFICES ASSUME c.env.readonly PROVE FALSE OBVIOUS
  <2>1. (c.op = "config" /\ c.value = None /\ ~c.off) \/ c.op = "refresh"
    BY <1>1 DEF ReadOnlyAllows, ChangesTheBoard
  <2>2. CASE c.op = "refresh" BY <2>2 DEF CardOps, Sets, Bulk
  <2>3. CASE c.op = "config" /\ c.value = None /\ ~c.off
    <3>1. Asks(c) \in {"read", "refused"} BY <2>3, AsksNothing
    <3>2. Asks(c) # "read" BY <2>3 DEF CardOps, Sets, Bulk
    <3>3. Asks(c) # "refused" BY <2>3 DEF LetIn
    <3> QED BY <3>1, <3>2, <3>3
  <2> QED BY <2>1, <2>2, <2>3
<1>3. ASSUME Launched(c)
      PROVE  /\ c.op \notin Bulk /\ c.op # "add"
             /\ c.op \in CardOps => c.op = "note" \/ c.card \in {None, c.env.bound}
  <2>1. CASE c.op \in {"new", "from"} BY <2>1 DEF CardOps, Bulk
  <2>2. CASE c.op \notin {"new", "from"}
    <3>1. CardBoundWrite(c) \in {None, c.env.bound} BY <1>3, <2>2 DEF LetIn, BoundAllows, Launched
    <3>2. Unset \notin {None, c.env.bound} BY RowsAssumption DEF Meant
    <3>3. c.op # "add" BY <3>1, <3>2 DEF CardBoundWrite
    <3>4. c.op \notin Bulk
      <4>1. c.op = "bulkedit" \/ (c.op = "import" /\ ~c.dry) => CardBoundWrite(c) = Unset BY DEF CardBoundWrite
      <4>2. c.op \in Bulk => ~c.dry BY DEF CardOps, Sets, Bulk
      <4> QED BY <3>1, <3>2, <4>1, <4>2 DEF Bulk
    <3>5. c.op \in CardOps \ {"add", "next", "note"} => CardBoundWrite(c) = c.card BY DEF CardOps, CardBoundWrite
    <3>6. c.op # "next" BY <1>3 DEF Launched
    <3> QED BY <3>1, <3>3, <3>4, <3>5, <3>6
  <2> QED BY <2>1, <2>2
<1>4. c.env.pin # None /\ ~c.env.ticket /\ ~DbExempt(c) => c.env.pin = c.by BY <1>1 DEF PinGuards
<1> QED BY <1>2, <1>3, <1>4

-----------------------------------------------------------------------------
(* What a write of a session changes                                       *)

\* From d to e the command c wrote what its session may.
Keeps(c, d, e) ==
  /\ ~c.env.readonly
  /\ \A l \in Lines(e) : l \in Lines(d) \/ l.by = c.by
  /\ Launched(c) => LET b == c.env.bound
                     IN \A j \in Id \ {b} : Alike(d, e, j) \/ (Finishes(d, e, b) /\ FreedOf(d, e, b, j))
  /\ c.env.pin # None /\ ~c.env.ticket /\ ~DbExempt(c) => c.env.pin = c.by

\* The card of a command, or no card of the board.
LEMMA KeepsOne ==
  ASSUME NEW c, Meant(c), LetIn(c), c.op \in CardOps, NEW d, NEW e, NEW i, Acted(d, e, i, c.by),
         Launched(c) /\ c.op # "note" => i = c.card, c.card \in Id \/ ~Launched(c),
         c.op = "note" => e.card = d.card /\ e.items = d.items /\ e.links = d.links
  PROVE  Keeps(c, d, e) /\ e.conf = d.conf
<1>1. /\ ~c.env.readonly
      /\ Launched(c) => c.op = "note" \/ c.card \in {None, c.env.bound}
      /\ c.env.pin # None /\ ~c.env.ticket /\ ~DbExempt(c) => c.env.pin = c.by
  BY MayWrite
<1>2. c.card \in Id => c.card # None BY RowsAssumption DEF Id
<1> DEFINE b == c.env.bound
<1>3. ASSUME Launched(c), NEW j \in Id \ {b} PROVE Alike(d, e, j) \/ (Finishes(d, e, b) /\ FreedOf(d, e, b, j))
  <2>1. CASE c.op = "note" BY <2>1 DEF Alike
  <2>2. CASE c.op # "note"
    <3>1. i = b BY <1>1, <1>2, <1>3, <2>2
    <3> QED BY <3>1 DEF Acted
  <2> QED BY <2>1, <2>2
<1>4. (\A l \in Lines(e) : l \in Lines(d) \/ l.by = c.by) /\ e.conf = d.conf BY DEF Acted
<1> QED BY <1>1, <1>3, <1>4 DEF Keeps

\* What is no write to a card.
LEMMA KeepsAll ==
  ASSUME NEW c, Meant(c), LetIn(c), c.op \in CardOps \/ Sets(c), NEW d, NEW e,
         e.card = d.card, e.items = d.items, e.links = d.links, \A l \in Lines(e) : l \in Lines(d) \/ l.by = c.by
  PROVE  Keeps(c, d, e)
<1>1. /\ ~c.env.readonly
      /\ c.env.pin # None /\ ~c.env.ticket /\ ~DbExempt(c) => c.env.pin = c.by
  BY MayWrite
<1> QED BY <1>1 DEF Keeps, Alike


-----------------------------------------------------------------------------
(* Each phase writes what its session may                                  *)

\* What a phase leaves for SessionKeeps to be about.
LEMMA WriteMeant ==
  ASSUME DeskInv, NEW p \in Proc, Write(p), db' # db
  PROVE  Keeps(plan[p], db, db') /\ db'.conf = db.conf
<1> DEFINE c == plan[p]   e == Effect(db, c, cmd[p])
<1>1. At(p, "write") BY DEF Write
<1>2. Meant(c) /\ Someone(c) /\ LetIn(c) /\ c.op \in CardOps BY <1>1, InPhaseAt DEF CardWords
<1>3. Takes(db, c, cmd[p]) /\ db' = e BY DEF Write, Commits, Refused, C
<1>4. WellFormed(db) BY DEF DeskInv
<1> HIDE DEF c, e
<1>5. PICK i : Acted(db, e, i, c.by) /\ (c.op \notin {"add", "next"} => i = c.card)
  BY <1>2, <1>3, <1>4, EffectKept DEF e
<1>6. Launched(c) => c.op \notin {"add", "next"} BY <1>2, MayWrite DEF Launched
<1>7. c.op \notin {"add", "next"} => c.card \in Id
  <2>1. CASE c.op = "restore" BY <2>1, <1>3, <1>4 DEF Takes, WellFormed, Shelved
  <2>2. CASE c.op # "restore" BY <2>2, <1>3 DEF Takes, Exists
  <2> QED BY <2>1, <2>2
<1>8. c.op = "note" => e.card = db.card /\ e.items = db.items /\ e.links = db.links
  <2> SUFFICES ASSUME c.op = "note" PROVE e.card = db.card /\ e.items = db.items /\ e.links = db.links OBVIOUS
  <2>1. e = Logged(db, c.card, c.by, "note") BY DEF e, Effect
  <2> QED BY <1>4, <2>1, LineIs
<1>9. Keeps(c, db, e) /\ e.conf = db.conf BY <1>2, <1>5, <1>6, <1>7, <1>8, KeepsOne
<1> QED BY <1>3, <1>9 DEF c

LEMMA LineMeant ==
  ASSUME DeskInv, NEW p \in Proc, LogTick(p) \/ LogPast(p), db' # db
  PROVE  Keeps(plan[p], db, db') /\ db'.conf = db.conf
<1> DEFINE c == plan[p]
<1>1. At(p, "log") \/ At(p, "force") BY DEF LogTick, LogPast
<1>2. Meant(c) /\ LetIn(c) /\ c.op \in CardOps BY <1>1, InPhaseAt DEF CardWords
<1>3. PICK kind : db' = Logged(db, c.card, c.by, kind)
  BY DEF LogTick, LogPast, Commits, Reads, Refused, LogForced, C
<1>4. WellFormed(db) BY DEF DeskInv
<1> HIDE DEF c
<1>5. db'.card = db.card /\ db'.items = db.items /\ db'.links = db.links /\ db'.conf = db.conf
  BY <1>3, <1>4, LineIs
<1>6. Wrote(db, Logged(db, c.card, c.by, kind), c.card, c.by) BY <1>4, WroteLine
<1>7. \A l \in Lines(db') : l \in Lines(db) \/ l.by = c.by BY <1>3, <1>6 DEF Wrote
<1>8. Keeps(c, db, db') BY <1>2, <1>5, <1>7, KeepsAll
<1> QED BY <1>5, <1>8 DEF c

LEMMA DueMeant ==
  ASSUME DeskInv, MadeInv, NEW p \in Proc, Due(p), db' # db
  PROVE  Keeps(plan[p], db, db') /\ db'.conf = db.conf
<1> DEFINE c == plan[p]   i == About(p)   e == SetDue(db, i, c.by, c.due)
<1>1. At(p, "due") BY DEF Due
<1>2. Meant(c) /\ LetIn(c) /\ c.op \in CardOps /\ c.op \in {"add", "edit"} /\ c.by \in STRING \cup {Unset} /\ c.due \in Said
  BY <1>1, InPhaseAt DEF CardWords
<1>3. Exists(db, i) /\ db' = e BY DEF Due, Commits, Refused, C
<1>4. WellFormed(db) BY DEF DeskInv
<1>5. c.op # "add" => i = c.card BY DEF About, MadeInv, C
<1> HIDE DEF c, i, e
<1>6. Acted(db, e, i, c.by) BY <1>2, <1>3, <1>4, SetDueKept, WroteActed DEF e
<1>7. Launched(c) => c.op # "add" BY <1>2, MayWrite
<1>8. i \in Id BY <1>3 DEF Exists
<1>9. Keeps(c, db, e) /\ e.conf = db.conf BY <1>2, <1>5, <1>6, <1>7, <1>8, KeepsOne
<1> QED BY <1>3, <1>9 DEF c

LEMMA PutMeant ==
  ASSUME DeskInv, NEW p \in Proc, PutRow(p)
  PROVE  /\ Keeps(plan[p], db, db')
         /\ \A key \in PersonKeys : Get(db', key) # Get(db, key) => ~plan[p].agent
<1> DEFINE c == plan[p]   k == Arg(p)[1]   v == Arg(p)[2]
<1>1. At(p, "put") BY DEF PutRow
<1>2. Meant(c) /\ LetIn(c) /\ Sets(c) BY <1>1, InPhaseAt
<1>3. k \in PersonKeys => k = c.key /\ MaySet(c) BY <1>1, InPhaseAt
<1>4. db' = SetConfig(db, k, v) BY DEF PutRow, Commits
<1>5. WellFormed(db) BY DEF DeskInv
<1> HIDE DEF c, k, v
<1>6. /\ db'.card = db.card /\ db'.items = db.items /\ db'.links = db.links /\ Lines(db') = Lines(db)
      /\ \A key : key # k => Get(db', key) = Get(db, key)
  BY <1>4, <1>5, SetConfigIs
<1>7. Keeps(c, db, db') BY <1>2, <1>6, KeepsAll
<1>8. ASSUME NEW key \in PersonKeys, Get(db', key) # Get(db, key) PROVE ~c.agent
  <2>1. key = k BY <1>6, <1>8
  <2> QED BY <1>3, <2>1 DEF MaySet, PersonKeys
<1> QED BY <1>7, <1>8 DEF c

LEMMA AsideMeant ==
  ASSUME DeskInv, NEW p \in Proc, ForgetSnap(p) \/ Note(p) \/ MarkSeen(p), db' # db
  PROVE  Keeps(plan[p], db, db') /\ db'.conf = db.conf
<1> DEFINE c == plan[p]
<1>1. At(p, "forget") \/ At(p, "note") \/ At(p, "seen") BY DEF ForgetSnap, Note, MarkSeen
<1>2. Meant(c) /\ LetIn(c) /\ (c.op \in CardOps \/ Sets(c)) BY <1>1, InPhaseAt DEF CardWords
<1>3. PICK by, kind, text, repo : db' \in {BoardLogged(db, by, kind, text), Forget(db, repo)}
  BY DEF ForgetSnap, Note, MarkSeen, Commits
<1>4. WellFormed(db) BY DEF DeskInv
<1> HIDE DEF c
<1>5. /\ db'.card = db.card /\ db'.items = db.items /\ db'.links = db.links /\ Lines(db') = Lines(db)
      /\ db'.conf = db.conf
  BY <1>3, <1>4, AsideIs
<1>6. Keeps(c, db, db') BY <1>2, <1>5, KeepsAll
<1> QED BY <1>5, <1>6 DEF c

LEMMA CommitMeant ==
  ASSUME DeskInv, NEW p \in Proc, Commit(p), db' # db
  PROVE  Keeps(plan[p], db, db') /\ db'.conf = db.conf
<1> DEFINE c == plan[p]
<1>1. At(p, "commit") /\ WillWrite(c) /\ db' = work BY DEF Commit, C
<1>2. writer = p /\ Meant(c) /\ LetIn(c) /\ c.op \in Bulk BY <1>1, InPhaseAt
<1>3. cmd[p].left # <<>> BY <1>1 DEF At
<1>4. PICK n \in 1..Len(Program(c)) : RunsAt(p, n) BY <1>3 DEF DeskInv, CmdInv
<1>5. SoFar(c, n - 3, db, work, cmd[p].flawed) BY <1>2, <1>4 DEF RunsAt
<1> HIDE DEF c
<1>6. ~c.dry BY <1>1 DEF WillWrite
<1>7. /\ ~c.env.readonly /\ ~Launched(c)
      /\ c.env.pin # None /\ ~c.env.ticket /\ ~DbExempt(c) => c.env.pin = c.by
  BY <1>2, <1>6, MayWrite
<1>8. db'.conf = db.conf /\ \A l \in Lines(db') : l \in Lines(db) \/ l.by = c.by BY <1>1, <1>5 DEF SoFar
<1> QED BY <1>7, <1>8 DEF Keeps, c

LEMMA WritesMeant ==
  ASSUME DeskInv, MadeInv, NEW p \in Proc, Writing(p), db' # db
  PROVE  /\ Keeps(plan[p], db, db')
         /\ \A key \in PersonKeys : Get(db', key) # Get(db, key) => ~plan[p].agent
<1>1. db'.conf = db.conf => \A key : Get(db', key) = Get(db, key) BY DEF Get
<1> QED BY <1>1, WriteMeant, LineMeant, DueMeant, PutMeant, AsideMeant, CommitMeant DEF Writing

\* A phase is gone from the program when it has been run.
LEMMA WritingSteps ==
  ASSUME DeskInv, NEW p \in Proc, Writing(p)
  PROVE  Steps(p)
<1>1. cmd = [q \in Proc |-> cmd[q]] BY DEF DeskInv
<1>2. PICK what : At(p, what)
  BY DEF Writing, Write, LogTick, Due, LogPast, PutRow, ForgetSnap, Note, MarkSeen, Commit
<1>3. cmd[p].left # <<>> BY <1>2 DEF At
<1> DEFINE P == Program(plan[p])
<1>4. P \in Seq(Range(P)) /\ Len(P) \in Nat BY <1>3, Phase DEF Phased
<1>5. PICK n \in 1..Len(P) : /\ cmd[p].left = SubSeq(P, n, Len(P))
                             /\ n # Len(P) => Tail(cmd[p].left) = SubSeq(P, n + 1, Len(P))
                             /\ n = Len(P) => Tail(cmd[p].left) = <<>>
  BY <1>3, Phase DEF RunsAt
<1>6. Tail(cmd[p].left) # cmd[p].left
  <2> HIDE DEF P
  <2>1. CASE n = Len(P) BY <1>3, <1>5, <2>1
  <2>2. CASE n # Len(P)
    <3>1. Len(SubSeq(P, n, Len(P))) = Len(P) - n + 1 BY <1>4
    <3>2. n + 1 \in 1..Len(P) BY <1>4, <2>2
    <3>3. Len(SubSeq(P, n + 1, Len(P))) = Len(P) - n BY <1>4, <3>2
    <3>4. Len(P) - n + 1 # Len(P) - n BY <1>4
    <3> QED BY <1>5, <2>2, <3>1, <3>3, <3>4
  <2> QED BY <2>1, <2>2
<1>7. \A how : Ended(how).left = <<>> BY DEF Ended, Fresh
<1>8. ASSUME NEW s, Shape(s), s.left = cmd[p].left, Goes(p, s) PROVE cmd'[p] # cmd[p]
  <2> DEFINE x == Tail(s.left)   t == [s EXCEPT !.left = x]
  <2>1. t.left = x
    <3> HIDE DEF x
    <3> QED BY <1>8 DEF Shape
  <2>2. cmd' = [cmd EXCEPT ![p] = IF x = <<>> THEN Ended("ok") ELSE t] BY <1>8 DEF Goes
  <2>3. x # cmd[p].left BY <1>6, <1>8
  <2> HIDE DEF t, x
  <2>4. cmd'[p] = IF x = <<>> THEN Ended("ok") ELSE t BY <1>1, <2>2
  <2> QED BY <1>3, <1>7, <2>1, <2>3, <2>4
<1>9. ASSUME NEW how, Stops(p, how) PROVE cmd'[p] # cmd[p]
  <2>1. cmd'[p] = Ended(how) BY <1>1, <1>9 DEF Stops
  <2> QED BY <1>3, <1>7, <2>1
<1>10. Shape(cmd[p]) BY <1>2, InPhaseAt
<1> DEFINE m == db.next   u == [cmd[p] EXCEPT !.made = m]
<1>11. \/ Goes(p, cmd[p]) \/ Goes(p, u) \/ \E how : Stops(p, how)
  BY DEF Writing, Write, LogTick, Due, LogPast, PutRow, ForgetSnap, Note, MarkSeen, Commit, Commits, Reads, Refused
<1>12. Shape(u) /\ u.left = cmd[p].left
  <2> HIDE DEF m
  <2> QED BY <1>10, ShapeWith
<1> HIDE DEF u
<1> QED BY <1>8, <1>9, <1>10, <1>11, <1>12 DEF Steps

\* Whatever a session runs and whatever others run between its phases, it does nothing it may not:
\* no agent changes what only a person sets, a read-only session writes nothing, a launched one
\* logs under its own name and changes its own card (main.rs, run; verifier.rs, person_only).
THEOREM SessionsKeep == DeskSpec => SessionKeeps
<1> DEFINE A == /\ \A key \in PersonKeys : Get(db', key) # Get(db, key) => \E p \in Proc : Steps(p) /\ ~plan[p].agent
                /\ \A p \in Proc : Steps(p) /\ db' # db =>
                     /\ ~plan[p].env.readonly
                     /\ plan[p].env.pin # None /\ ~plan[p].env.ticket /\ ~Outsider(p) =>
                          \A e \in NewLines : e.by \in {plan[p].env.pin, Github}
                     /\ plan[p].env.bound # None /\ ~Steers(plan[p]) /\ ~Outsider(p) /\ plan[p].op \notin {"next", "sync"} =>
                          Touched \subseteq {plan[p].env.bound} \cup LetGo(plan[p].env.bound)
<1>1. DeskInv /\ MadeInv /\ [DeskNext]_deskVars => [A]_deskVars
  <2> SUFFICES ASSUME DeskInv, MadeInv, [DeskNext]_deskVars PROVE A OBVIOUS
  <2>1. ASSUME NEW key \in PersonKeys, Get(db', key) # Get(db, key)
        PROVE  \E p \in Proc : Steps(p) /\ ~plan[p].agent
    <3>1. db' # db BY <2>1
    <3>2. PICK q \in Proc : DeskStep(q) BY <3>1 DEF DeskNext, Watch, Poll, PrintLine, deskVars
    <3>3. Writing(q) BY <3>1, <3>2, StepOwn
    <3>4. Steps(q) /\ ~plan[q].agent BY <2>1, <3>1, <3>3, WritesMeant, WritingSteps
    <3> QED BY <3>4
  <2>2. ASSUME NEW p \in Proc, Steps(p), db' # db
        PROVE  /\ ~plan[p].env.readonly
               /\ plan[p].env.pin # None /\ ~plan[p].env.ticket /\ ~Outsider(p) =>
                    \A e \in NewLines : e.by \in {plan[p].env.pin, Github}
               /\ plan[p].env.bound # None /\ ~Steers(plan[p]) /\ ~Outsider(p) /\ plan[p].op \notin {"next", "sync"} =>
                    Touched \subseteq {plan[p].env.bound} \cup LetGo(plan[p].env.bound)
    <3>1. Writing(p) BY <2>2, NextOwn DEF Steps
    <3>2. Keeps(plan[p], db, db') BY <2>2, <3>1, WritesMeant
    <3>3. \A e \in NewLines : e.by = plan[p].by
      <4>1. \A l \in Lines(db) : l.eid < db.eid /\ l.eid \in Nat /\ db.eid \in Nat BY DEF DeskInv, WellFormed, Lined
      <4>2. \A l \in Lines(db) : ~(l.eid >= db.eid) BY <4>1
      <4> QED BY <3>2, <4>2 DEF NewLines, Keeps
    <3> DEFINE b == plan[p].env.bound
    <3>4. ASSUME Launched(plan[p]), NEW j \in Touched, j # b PROVE j \in LetGo(b)
      <4>1. ~Alike(db, db', j) BY <3>4 DEF Touched, Alike
      <4>2. j \in Id \ {b} BY <3>4 DEF Touched
      <4>3. Finishes(db, db', b) /\ FreedOf(db, db', b, j) BY <3>2, <3>4, <4>1, <4>2 DEF Keeps
      <4> QED BY <3>4, <4>3 DEF Finishes, FreedOf, LetGo, Done
    <3>5. Launched(plan[p]) => Touched \subseteq {b} \cup LetGo(b) BY <3>4
    <3> HIDE DEF b
    <3> QED BY <3>2, <3>3, <3>5 DEF Keeps, Launched, Outsider, b
  <2> QED BY <2>1, <2>2
<1>2. DeskSpec => [][DeskNext]_deskVars BY PTL DEF DeskSpec
<1>3. DeskSpec => [][A]_deskVars BY <1>1, <1>2, DeskInvariant, MadeInvariant, PTL
<1> QED BY <1>3 DEF SessionKeeps
-----------------------------------------------------------------------------
(* The one ordering, and what tb next takes by it                          *)

LEMMA PlaceIs ==
  ASSUME NEW S, NEW s \in Seq(S), NEW i \in Range(s)
  PROVE  Place(s, i) \in Nat /\ s[Place(s, i)] = i
<1>1. \E n \in DOMAIN s : s[n] = i BY DEF Range
<1>2. Place(s, i) \in DOMAIN s /\ s[Place(s, i)] = i BY <1>1 DEF Place
<1>3. DOMAIN s \subseteq Nat BY LenProperties
<1> QED BY <1>2, <1>3

\* What decides between two cards of a column that is not DONE: their days under sort due, and
\* their places.
Precedes(dated, x, y, m, n) == IF ~dated \/ x = y THEN m < n ELSE x # None /\ (y = None \/ x < y)

LEMMA BeforeIs ==
  ASSUME NEW d, WellFormed(d), NEW sort, NEW k \in {"todo", "doing", "review"},
         NEW i \in Range(d.order[k]), NEW j \in Range(d.order[k])
  PROVE  Before(d, sort, i, j) <=>
           Precedes(ByDate(sort, k), DateOf(d.card[i].due), DateOf(d.card[j].due),
                  Place(d.order[k], i), Place(d.order[k], j))
<1>1. d.card[i].col = k /\ k # "done" BY DEF WellFormed, Placed, Column
<1> QED BY <1>1 DEF Before, ByPosition, Precedes

LEMMA DaysAndPlaces ==
  ASSUME NEW d, WellFormed(d), NEW k \in {"todo", "doing", "review"}, NEW i \in Range(d.order[k])
  PROVE  /\ DateOf(d.card[i].due) \in Nat \cup {None} /\ Place(d.order[k], i) \in Nat
         /\ \A j \in Range(d.order[k]) : Place(d.order[k], j) = Place(d.order[k], i) => j = i
<1>1. d.order[k] \in Seq(Id) BY DEF WellFormed, Placed, Column
<1>2. \A j \in Range(d.order[k]) : Place(d.order[k], j) \in Nat /\ d.order[k][Place(d.order[k], j)] = j
  BY <1>1, PlaceIs
<1>3. DateOf(d.card[i].due) \in Nat \cup {None} BY OrderAssumption DEF DateOf
<1> QED BY <1>2, <1>3

\* The one ordering is total and strict on each column that is not DONE, whatever the dates and
\* the sort, and whatever else is on the board: of two cards one comes first for everybody
\* (order.rs, cmp).
THEOREM OrderIsStrict ==
  ASSUME NEW d, WellFormed(d), NEW sort, NEW k \in {"todo", "doing", "review"},
         NEW i \in Range(d.order[k]), NEW j \in Range(d.order[k]), NEW l \in Range(d.order[k])
  PROVE  /\ ~Before(d, sort, i, i)
         /\ i # j => Before(d, sort, i, j) \/ Before(d, sort, j, i)
         /\ Before(d, sort, i, j) /\ Before(d, sort, j, l) => Before(d, sort, i, l)
<1> DEFINE b == ByDate(sort, k)
           x == DateOf(d.card[i].due)
           y == DateOf(d.card[j].due)
           z == DateOf(d.card[l].due)
           m == Place(d.order[k], i)
           n == Place(d.order[k], j)
           o == Place(d.order[k], l)
<1>1. /\ x \in Nat \cup {None} /\ y \in Nat \cup {None} /\ z \in Nat \cup {None}
      /\ m \in Nat /\ n \in Nat /\ o \in Nat /\ (i # j => m # n)
  BY DaysAndPlaces
<1>2. /\ Before(d, sort, i, i) <=> Precedes(b, x, x, m, m)
      /\ Before(d, sort, i, j) <=> Precedes(b, x, y, m, n)
      /\ Before(d, sort, j, i) <=> Precedes(b, y, x, n, m)
      /\ Before(d, sort, j, l) <=> Precedes(b, y, z, n, o)
      /\ Before(d, sort, i, l) <=> Precedes(b, x, z, m, o)
  BY BeforeIs
<1> HIDE DEF b, x, y, z, m, n, o
<1>3. ~Precedes(b, x, x, m, m) BY <1>1 DEF Precedes
<1>4. i # j => Precedes(b, x, y, m, n) \/ Precedes(b, y, x, n, m) BY <1>1, RowsAssumption DEF Precedes
<1>5. Precedes(b, x, y, m, n) /\ Precedes(b, y, z, n, o) => Precedes(b, x, z, m, o)
  BY <1>1, RowsAssumption DEF Precedes
<1> QED BY <1>2, <1>3, <1>4, <1>5

LEMMA WaitingIs == ASSUME NEW d PROVE Waiting(d) \subseteq Range(d.order["todo"])
BY DEF Waiting

\* Who comes before everybody else that waits is alone in that.
LEMMA ForemostOnly ==
  ASSUME NEW d, WellFormed(d), NEW i \in Foremost(d)
  PROVE  Foremost(d) = {i}
<1>1. SUFFICES ASSUME NEW j \in Foremost(d), j # i PROVE FALSE OBVIOUS
<1> DEFINE sort == SortOf(d)
<1>2. i \in Waiting(d) /\ j \in Waiting(d) /\ Before(d, sort, i, j) /\ Before(d, sort, j, i)
  BY <1>1 DEF Foremost
<1> HIDE DEF sort
<1>3. i \in Range(d.order["todo"]) /\ j \in Range(d.order["todo"]) BY <1>2, WaitingIs
<1> QED BY <1>2, <1>3, OrderIsStrict

\* While a card waits that nothing blocks, tb next takes the first such card of the TODO column as
\* everybody is shown it, whatever the dates and the sort: any list s of that column that leaves no
\* card out and is in the one order (store.rs, claim_target; order.rs).
THEOREM NextTakesFirst ==
  ASSUME NEW d, WellFormed(d), Waiting(d) # {}, NEW n \in Nat, NEW s \in [1..n -> Range(d.order["todo"])],
         \A i \in Range(d.order["todo"]) : \E m \in 1..n : s[m] = i,
         \A m, l \in 1..n : m < l => Before(d, SortOf(d), s[m], s[l])
  PROVE  \E m \in 1..n : Foremost(d) = {s[m]} /\ \A l \in 1..n : l < m => s[l] \notin Waiting(d)
<1> DEFINE T == {m \in 1..n : s[m] \in Waiting(d)}
<1>1. T # {} /\ T \subseteq Nat BY WaitingIs
<1>2. PICK m \in T : \A l \in T : m <= l BY <1>1, Least
<1>3. m \in 1..n /\ s[m] \in Waiting(d) /\ \A l \in 1..n : l < m => s[l] \notin Waiting(d) BY <1>2
<1>4. ASSUME NEW j \in Waiting(d) \ {s[m]} PROVE Before(d, SortOf(d), s[m], j)
  <2>1. PICK l \in 1..n : s[l] = j BY WaitingIs
  <2>2. m < l BY <1>3, <2>1, <1>4
  <2> QED BY <1>3, <2>1, <2>2
<1>5. s[m] \in Foremost(d) BY <1>3, <1>4 DEF Foremost
<1>6. Foremost(d) = {s[m]} BY <1>5, ForemostOnly
<1> QED BY <1>3, <1>6

LEMMA LeastBy ==
  ASSUME NEW T, T # {}, NEW f, \A i \in T : f[i] \in Nat
  PROVE  \E i \in T : \A j \in T : f[i] <= f[j]
<1> DEFINE U == {f[i] : i \in T}
<1>1. U # {} /\ U \subseteq Nat OBVIOUS
<1>2. PICK u \in U : \A w \in U : u <= w BY <1>1, Least
<1> QED BY <1>2

\* While a card waits that nothing blocks, there is one that tb next takes, and one only, whatever
\* the dates (store.rs, claim_target).
THEOREM NextIsForemost ==
  ASSUME NEW d, WellFormed(d), Waiting(d) # {}
  PROVE  \E i \in Waiting(d) : Foremost(d) = {i}
<1> DEFINE W == Waiting(d)
           b == ByDate(SortOf(d), "todo")
           day == [i \in W |-> DateOf(d.card[i].due)]
           at == [i \in W |-> Place(d.order["todo"], i)]
<1>1. ASSUME NEW i \in W
      PROVE  /\ day[i] \in Nat \cup {None} /\ at[i] \in Nat /\ i \in Range(d.order["todo"])
             /\ \A j \in W : at[j] = at[i] => j = i
  BY WaitingIs, DaysAndPlaces
<1>2. ASSUME NEW i \in W, NEW j \in W
      PROVE  Before(d, SortOf(d), i, j) <=> Precedes(b, day[i], day[j], at[i], at[j])
  BY WaitingIs, BeforeIs
<1> SUFFICES \E i \in W : \A j \in W \ {i} : Precedes(b, day[i], day[j], at[i], at[j])
  <2>1. PICK i \in W : \A j \in W \ {i} : Precedes(b, day[i], day[j], at[i], at[j]) OBVIOUS
  <2>2. i \in Foremost(d) BY <2>1, <1>2 DEF Foremost
  <2> QED BY <2>1, <2>2, ForemostOnly
<1> HIDE DEF day, at, b
<1> DEFINE D == {i \in W : day[i] # None}
<1>3. CASE ~b \/ D = {}
  <2>1. PICK i \in W : \A j \in W : at[i] <= at[j] BY <1>1, LeastBy
  <2>2. \A j \in W \ {i} : at[i] < at[j] BY <1>1, <2>1
  <2>3. ~b \/ \A j \in W : day[i] = day[j] BY <1>3, <2>1
  <2> QED BY <2>1, <2>2, <2>3 DEF Precedes
<1>4. CASE b /\ D # {}
  <2>1. \A i \in D : day[i] \in Nat BY <1>1
  <2>2. PICK f \in D : \A j \in D : day[f] <= day[j] BY <1>4, <2>1, LeastBy
  <2> DEFINE T == {i \in D : day[i] = day[f]}
  <2>3. f \in T /\ \A i \in T : at[i] \in Nat BY <1>1
  <2> HIDE DEF T
  <2>4. PICK i \in T : \A j \in T : at[i] <= at[j] BY <2>3, LeastBy
  <2> USE DEF T
  <2>5. ASSUME NEW j \in W \ {i} PROVE Precedes(b, day[i], day[j], at[i], at[j])
    <3>1. day[i] = day[f] /\ day[i] \in Nat /\ day[i] # None /\ i \in W BY <2>1, <2>4
    <3>2. CASE day[j] = day[i]
      <4>1. j \in T BY <3>1, <3>2
      <4>2. at[i] <= at[j] /\ at[i] \in Nat /\ at[j] \in Nat /\ at[i] # at[j] BY <1>1, <2>4, <3>1, <4>1
      <4> QED BY <3>2, <4>2 DEF Precedes
    <3>3. CASE day[j] # day[i] /\ day[j] # None
      <4>1. j \in D /\ day[j] \in Nat BY <2>1, <3>3
      <4>2. day[i] < day[j] BY <2>2, <3>1, <3>3, <4>1
      <4> QED BY <1>4, <3>1, <3>3, <4>2 DEF Precedes
    <3>4. CASE day[j] # day[i] /\ day[j] = None BY <1>4, <3>1, <3>4 DEF Precedes
    <3> QED BY <3>2, <3>3, <3>4
  <2> QED BY <2>4, <2>5
<1> QED BY <1>3, <1>4

\* As the days pass, what a due date says only gets nearer: an overdue card stays overdue, and one
\* that is soon never becomes ok again (due.rs, DueCtx::of).
THEOREM DueOnlyNears ==
  ASSUME NEW due, NEW k, NEW today \in Nat, NEW later \in Nat, today <= later, NEW warn \in Nat
  PROVE  /\ DueState(due, k, today, warn) = "overdue" => DueState(due, k, later, warn) = "overdue"
         /\ DueState(due, k, today, warn) = "soon" => DueState(due, k, later, warn) \in {"soon", "overdue"}
<1> DEFINE day == DateOf(due)
<1>1. CASE day = None \/ k = "done" BY <1>1 DEF DueState
<1>2. CASE ~(day = None \/ k = "done")
  <2>1. day \in Nat BY <1>2, OrderAssumption DEF DateOf
  <2>2. \A t \in Nat : DueState(due, k, t, warn) = IF day < t THEN "overdue" ELSE IF day - t <= warn THEN "soon" ELSE "ok"
    BY <1>2 DEF DueState
  <2> HIDE DEF day
  <2> QED BY <2>1, <2>2
<1> QED BY <1>1, <1>2
=============================================================================
