-------------------------- MODULE Catalogue_proofs --------------------------
(***************************************************************************)
(* Proofs about Catalogue, for any number of products, sites, tasks and    *)
(* collectors.                                                             *)
(*   ImportInv  not only the table but every copy of a row that a task     *)
(*              holds says what is so, and the copies of a task that is    *)
(*              past its assignments name its site;                        *)
(*   CountInv   what a collector has still to look at it has not counted,  *)
(*              and what it has counted is in a table until a user edits.  *)
(***************************************************************************)
EXTENDS Catalogue, FiniteSetTheorems, TLAPS

\* The states of a task.
Task == [at : Places, kind : Kinds, site : Sites \cup {NoSite}, copy : Copies,
         todo : SUBSET Products, cur : SUBSET Products, left : SUBSET Sites]

\* What a row of product p says of the sites is so, when they have what sh says.
SoundRow(row, p, sh) ==
    /\ row.st = "success" => row.site \in Sites /\ sh[row.site][p] > 0
    /\ \A s \in row.hist : sh[s][p] > 0

OneInHand == {"put", "post", "recheck", "save"}
OwnCopies == {"release", "queued", "test", "sync"} \cup OneInHand

\* A task whose copies are right, and name its site when it imports them.
Fits(q, sh) ==
    /\ q \in Task /\ q.todo \subseteq DOMAIN q.copy /\ q.cur \subseteq q.todo
    /\ q.at \notin {"idle", "done", "next"} => q.site \in Sites
    /\ IF q.at \in OneInHand THEN \E p \in q.todo : q.cur = {p} ELSE q.cur = {}
    /\ \A p \in DOMAIN q.copy : SoundRow(q.copy[p], p, sh)
    /\ q.at \in OwnCopies => \A p \in DOMAIN q.copy : q.copy[p].site = q.site
    /\ q.at = "assign" => \A p \in DOMAIN q.copy \ q.todo : q.copy[p].site = q.site
    /\ q.at = "put" => \A p \in q.cur : sh[q.site][p] > 0

SoundRows(table, sh) == table \in Copies /\ \A p \in DOMAIN table : SoundRow(table[p], p, sh)

Shops == [Sites -> [Products -> Nat]]

ImportInv ==
    /\ SoundRows(rows, shop) /\ shop \in Shops
    /\ imp \in [Importers -> Task]
    /\ \A t \in Importers : Fits(imp[t], shop)

\* A collector's count is of what it got, and what it has on its page it has not
\* got yet.
Counts(k) ==
    /\ IsFiniteSet(k.got) /\ IsFiniteSet(k.cur) /\ k.count = Cardinality(k.got)
    /\ k.got \cap (k.page \cup k.cur) = {} /\ k.page \cap k.cur = {}
    /\ k.at # "done" => k.got \cup k.page \cup k.cur \subseteq k.seen
    /\ k.at = "finish" => k.seen \subseteq Sources

\* Its state has the fields of an idle one.
IsCollector(k) ==
    k \in [at : {k.at}, src : {k.src}, copy : {k.copy}, seen : {k.seen}, page : {k.page}, cur : {k.cur},
           got : {k.got}, count : {k.count}, fails : {k.fails}, ok : {k.ok}, last : {k.last}]

CountInv ==
    /\ edits \in Nat
    /\ DOMAIN sources \subseteq Sources
    /\ col = [c \in Collectors |-> col[c]] /\ \A c \in Collectors : IsCollector(col[c]) /\ Counts(col[c])
    /\ edits = 0 => \A c \in Collectors :
          /\ col[c].got \subseteq DOMAIN rows \cup DOMAIN sources
          /\ \A d \in Collectors \ {c} : col[c].got \cap col[d].got = {}

------------------------------------------------------------------------------
(* Rows, copies and what the sites have.                                    *)

\* A table or a copy is a function from some products to rows.
LEMMA CopiesTyped ==
    \A f : f \in Copies <=> DOMAIN f \subseteq Products /\ f \in [DOMAIN f -> Row]
<1>1. ASSUME NEW f, f \in Copies PROVE DOMAIN f \subseteq Products /\ f \in [DOMAIN f -> Row]
  <2>1. PICK S \in SUBSET Products : f \in [S -> Row]
    BY <1>1 DEF Copies
  <2>2. QED
    BY <2>1
<1>2. ASSUME NEW f, DOMAIN f \subseteq Products, f \in [DOMAIN f -> Row] PROVE f \in Copies
  BY <1>2 DEF Copies
<1>3. QED
  BY <1>1, <1>2

\* One row of it changed is one again.
LEMMA RowChanged ==
    ASSUME NEW f \in Copies, NEW p \in DOMAIN f, NEW row \in Row
    PROVE  /\ [f EXCEPT ![p] = row] \in Copies /\ DOMAIN [f EXCEPT ![p] = row] = DOMAIN f
           /\ [f EXCEPT ![p] = row][p] = row
           /\ \A q \in DOMAIN f \ {p} : [f EXCEPT ![p] = row][q] = f[q]
<1>1. DOMAIN f \subseteq Products /\ f \in [DOMAIN f -> Row]
  BY CopiesTyped
<1>2. [f EXCEPT ![p] = row] \in [DOMAIN f -> Row]
  BY <1>1
<1>3. QED
  BY <1>1, <1>2, CopiesTyped

\* Some of its rows are one, too.
LEMMA RowsTaken ==
    ASSUME NEW f \in Copies, NEW S \in SUBSET DOMAIN f
    PROVE  /\ [p \in S |-> f[p]] \in Copies /\ DOMAIN [p \in S |-> f[p]] = S
           /\ \A p \in S : [q \in S |-> f[q]][p] = f[p]
<1>1. DOMAIN f \subseteq Products /\ f \in [DOMAIN f -> Row]
  BY CopiesTyped
<1>2. [p \in S |-> f[p]] \in [S -> Row]
  BY <1>1
<1>3. QED
  BY <1>1, <1>2, CopiesTyped

\* What a site has it keeps, so what a row says stays so.
Grows(sh1, sh2) ==
    /\ sh2 \in Shops
    /\ \A s \in Sites, p \in Products : sh1[s][p] > 0 => sh2[s][p] > 0

LEMMA SoundStays ==
    ASSUME NEW sh1, NEW sh2, Grows(sh1, sh2), NEW p \in Products, NEW row \in Row, SoundRow(row, p, sh1)
    PROVE  SoundRow(row, p, sh2)
BY DEF Grows, SoundRow, Row

LEMMA FitsStays ==
    ASSUME NEW sh1, NEW sh2, Grows(sh1, sh2), NEW q, Fits(q, sh1)
    PROVE  Fits(q, sh2)
<1>1. q.copy \in Copies /\ DOMAIN q.copy \subseteq Products /\ \A p \in DOMAIN q.copy : q.copy[p] \in Row
  BY CopiesTyped DEF Fits, Task
<1>2. \A p \in DOMAIN q.copy : SoundRow(q.copy[p], p, sh2)
  BY <1>1, SoundStays DEF Fits
<1>3. q.at = "put" => \A p \in q.cur : sh2[q.site][p] > 0
  BY <1>1 DEF Fits, Grows
<1>4. QED
  BY <1>2, <1>3 DEF Fits

\* Saving a sound row, of a product that may be gone by now.
LEMMA SaveRowSound ==
    ASSUME SoundRows(rows, shop), NEW p, NEW row \in Row, SoundRow(row, p, shop), SaveRow(p, row)
    PROVE  SoundRows(rows', shop)
<1>1. CASE p \in DOMAIN rows
  <2>1. rows' = [rows EXCEPT ![p] = row]
    BY <1>1 DEF SaveRow
  <2>2. QED
    BY <1>1, <2>1, RowChanged DEF SoundRows
<1>2. CASE p \notin DOMAIN rows
  BY <1>2 DEF SaveRow
<1>3. QED
  BY <1>1, <1>2

\* A task has moved to state q.
Moves(t, q) == Fits(q, shop') /\ imp' = [imp EXCEPT ![t] = q]

\* A step of one task keeps ImportInv when what it saved and what it is now are right.
LEMMA TaskMoves ==
    ASSUME ImportInv, NEW t \in Importers, NEW q, Moves(t, q), Grows(shop, shop'), SoundRows(rows', shop')
    PROVE  ImportInv'
<1>1. q \in Task /\ imp' \in [Importers -> Task] /\ shop' \in Shops
  BY DEF ImportInv, Moves, Fits, Grows
<1>2. \A u \in Importers : imp'[u] = IF u = t THEN q ELSE imp[u]
  BY DEF ImportInv, Moves
<1>3. \A u \in Importers : Fits(imp'[u], shop')
  BY <1>2, FitsStays DEF ImportInv, Moves
<1>4. QED
  BY <1>1, <1>3 DEF ImportInv

\* When the sites stay as they are, what a task saves and becomes is all there is to show.
LEMMA QuietMoves ==
    ASSUME ImportInv, NEW t \in Importers, NEW q, Fits(q, shop), imp' = [imp EXCEPT ![t] = q],
           shop' = shop, SoundRows(rows', shop)
    PROVE  ImportInv'
<1>1. Grows(shop, shop')
  BY DEF Grows, ImportInv
<1>2. QED
  BY <1>1, TaskMoves DEF Moves

------------------------------------------------------------------------------
(* The steps of an import.                                                  *)

\* What is known of a task and of its copies.
LEMMA TaskKnown ==
    ASSUME ImportInv, NEW t \in Importers
    PROVE  /\ imp[t] \in Task /\ Fits(imp[t], shop)
           /\ imp[t].copy \in Copies /\ DOMAIN imp[t].copy \subseteq Products
           /\ imp[t].todo \subseteq DOMAIN imp[t].copy /\ imp[t].cur \subseteq imp[t].todo
           /\ \A p \in DOMAIN imp[t].copy : imp[t].copy[p] \in Row /\ SoundRow(imp[t].copy[p], p, shop)
BY CopiesTyped DEF ImportInv, Fits, Task

\* The rows of the table that a task takes copies of are as sound as the table.
LEMMA CopyOfSound ==
    ASSUME ImportInv, NEW S \in SUBSET DOMAIN rows
    PROVE  /\ CopyOf(S) \in Copies /\ DOMAIN CopyOf(S) = S
           /\ \A p \in S : CopyOf(S)[p] = rows[p] /\ SoundRow(CopyOf(S)[p], p, shop)
BY RowsTaken DEF ImportInv, SoundRows, CopyOf

\* What is not a success may say of a row what it likes, the history apart.
LEMMA MarkedSound ==
    ASSUME NEW row \in Row, NEW p, SoundRow(row, p, shop), NEW s \in Sites \cup {NoSite}
    PROVE  /\ Marked(row, s) \in Row /\ SoundRow(Marked(row, s), p, shop) /\ Marked(row, s).site = s
           /\ [row EXCEPT !.site = s, !.st = ""] \in Row
           /\ SoundRow([row EXCEPT !.site = s, !.st = ""], p, shop)
           /\ Wiped(row, s) \in Row /\ SoundRow(Wiped(row, s), p, shop)
BY DEF Row, SoundRow, Marked, Wiped

\* A task that is over has nothing in its hands.
LEMMA OverFits == Fits(Over, shop) /\ Fits(BatchOver, shop) /\ Fits(NoTask, shop)
<1>1. <<>> \in Copies /\ DOMAIN <<>> = {}
  <2>1. <<>> \in [{} -> Row]
    OBVIOUS
  <2>2. QED
    BY <2>1, CopiesTyped
<1>2. QED
  BY <1>1 DEF Fits, Over, BatchOver, NoTask, Task, Places, Kinds, OneInHand, OwnCopies

LEMMA ImportRequests ==
    ASSUME ImportInv, NEW t \in Importers, Request(t)
    PROVE  ImportInv'
<1> DEFINE Asked(at, kind, s, copy, todo) ==
             [NoTask EXCEPT !.at = at, !.kind = kind, !.site = s, !.copy = copy, !.todo = todo]
<1>1. ASSUME NEW s \in Sites, NEW S \in SUBSET DOMAIN rows, NEW T \in SUBSET S,
             NEW at \in {"release", "mark"}, NEW kind \in Kinds,
             at = "release" => \A p \in S : rows[p].site = s
      PROVE  Fits(Asked(at, kind, s, CopyOf(S), T), shop)
  <2>1. DOMAIN rows \subseteq Products
    BY CopiesTyped DEF ImportInv, SoundRows
  <2>2. CopyOf(S) \in Copies /\ DOMAIN CopyOf(S) = S
    BY CopyOfSound
  <2>3. \A p \in S : CopyOf(S)[p] = rows[p] /\ SoundRow(CopyOf(S)[p], p, shop)
    BY CopyOfSound
  <2> DEFINE q == Asked(at, kind, s, CopyOf(S), T)
  <2>4. q.at = at /\ q.site = s /\ q.copy = CopyOf(S) /\ q.todo = T /\ q.cur = {}
    BY DEF NoTask
  <2>5. q \in Task
    <3>1. <<>> \in Copies /\ NoTask \in Task
      BY OverFits DEF Fits, NoTask, Task
    <3>2. QED
      BY <2>1, <2>2, <3>1 DEF Task, Places
  <2> HIDE DEF Asked
  <2>6. QED
    BY <1>1, <2>2, <2>3, <2>4, <2>5 DEF Fits, OneInHand, OwnCopies
<1>2. ASSUME NEW s \in Sites, Select(t, s) PROVE ImportInv'
  <2>1. OwnRows(s) \subseteq DOMAIN rows /\ \A p \in OwnRows(s) : rows[p].site = s
    BY DEF OwnRows
  <2>2. Fits(Asked("release", "pipeline", s, CopyOf(OwnRows(s)), {p \in OwnRows(s) : rows[p].st = "failed"}), shop)
    BY <1>1, <2>1 DEF Kinds
  <2>3. QED
    BY <1>2, <2>2, QuietMoves DEF Select, ImportInv
<1>3. ASSUME NEW s \in Sites, RandomAssign(t, s) PROVE ImportInv'
  <2>1. PICK S \in SUBSET DOMAIN rows : \/ imp' = [imp EXCEPT ![t] = Over]
                                        \/ imp' = [imp EXCEPT ![t] = Asked("mark", "random", s, CopyOf(S), S)]
    BY <1>3 DEF RandomAssign, Sample
  <2>2. Fits(Asked("mark", "random", s, CopyOf(S), S), shop)
    BY <1>1 DEF Kinds
  <2>3. rows' = rows /\ shop' = shop /\ SoundRows(rows', shop)
    BY <1>3 DEF RandomAssign, ImportInv
  <2>4. QED
    BY <2>1, <2>2, <2>3, QuietMoves, OverFits
<1>4. ASSUME NEW s \in Sites, NEW S \in SUBSET DOMAIN rows, ImportTo(t, s, S) PROVE ImportInv'
  <2>1. Fits(Asked("mark", "manual", s, CopyOf(S), S), shop)
    BY <1>1 DEF Kinds
  <2>2. QED
    BY <1>4, <2>1, QuietMoves DEF ImportTo, ImportInv
<1>5. ASSUME NEW S \in SUBSET Sites, BatchAssign(t, S) PROVE ImportInv'
  <2> DEFINE c == CopyOf(DOMAIN rows)
             q == [NoTask EXCEPT !.at = "next", !.kind = "batch", !.copy = c, !.left = S]
  <2>1. c \in Copies /\ \A p \in DOMAIN c : SoundRow(c[p], p, shop)
    BY CopyOfSound
  <2>2. imp' = [imp EXCEPT ![t] = q] /\ rows' = rows /\ shop' = shop /\ SoundRows(rows', shop)
    BY <1>5 DEF BatchAssign, ImportInv
  <2> HIDE DEF c
  <2>3. q \in Task /\ q.at = "next" /\ q.copy = c /\ q.todo = {} /\ q.cur = {}
    BY <2>1 DEF NoTask, Task, Places, Kinds
  <2> HIDE DEF q
  <2>4. Fits(q, shop)
    BY <2>1, <2>3 DEF Fits, OneInHand, OwnCopies
  <2>5. QED
    BY <2>2, <2>4, QuietMoves
<1>6. QED
  BY <1>2, <1>3, <1>4, <1>5 DEF Request

\* Choosing and assigning products.
LEMMA ImportAssigns ==
    ASSUME ImportInv, NEW t \in Importers,
           Release(t) \/ Pick(t) \/ Assign(t) \/ NextSite(t) \/ Mark(t) \/ MarkFails(t) \/ Reread(t)
    PROVE  ImportInv'
<1> DEFINE k == imp[t]
<1>0. /\ k \in Task /\ Fits(k, shop) /\ k.copy \in Copies /\ DOMAIN k.copy \subseteq Products
      /\ k.todo \subseteq DOMAIN k.copy /\ k.cur \subseteq k.todo
      /\ \A p \in DOMAIN k.copy : k.copy[p] \in Row /\ SoundRow(k.copy[p], p, shop)
      /\ SoundRows(rows, shop) /\ imp \in [Importers -> Task]
  BY TaskKnown DEF ImportInv
<1>1. CASE Release(t)
  <2>1. PICK p \in k.todo :
           /\ SaveRow(p, [k.copy[p] EXCEPT !.site = NoSite, !.st = ""])
           /\ imp' = [imp EXCEPT ![t].todo = @ \ {p}, ![t].copy = [q \in DOMAIN @ \ {p} |-> @[q]]]
    BY <1>1 DEF Release
  <2> DEFINE D == DOMAIN k.copy \ {p}
             c == [q \in D |-> k.copy[q]]
             n == [k EXCEPT !.todo = k.todo \ {p}, !.copy = c]
  <2>2. c \in Copies /\ DOMAIN c = D /\ \A q \in D : c[q] = k.copy[q]
    BY <1>0, RowsTaken
  <2>3. imp' = [imp EXCEPT ![t] = n]
    BY <1>0, <2>1
  <2>4. Fits(n, shop)
    <3>1. k.at = "release" /\ k.site \in Sites /\ \A q \in DOMAIN k.copy : k.copy[q].site = k.site
      BY <1>0, <1>1 DEF Fits, OwnCopies, Release, At
    <3> HIDE DEF c
    <3>2. n \in Task /\ n.todo = k.todo \ {p} /\ n.copy = c /\ n.at = "release" /\ n.site = k.site /\ n.cur = k.cur
      BY <1>0, <2>2, <3>1 DEF Task
    <3>3. n.cur = {}
      BY <1>0, <3>1, <3>2 DEF Fits, OneInHand
    <3>4. QED
      BY <1>0, <2>2, <3>1, <3>2, <3>3 DEF Fits, OneInHand
  <2>5. SoundRows(rows', shop)
    BY <1>0, <2>1, SaveRowSound, MarkedSound
  <2>6. QED
    BY <1>1, <2>3, <2>4, <2>5, QuietMoves DEF Release
<1>2. ASSUME NEW n, Fits(n, shop), imp' = [imp EXCEPT ![t] = n], shop' = shop, SoundRows(rows', shop)
      PROVE  ImportInv'
  BY <1>2, QuietMoves
<1>3. CASE Pick(t)
  <2>1. /\ k.at = "release" /\ k.todo = {} /\ k.cur = {} /\ k.site \in Sites
        /\ \A p \in DOMAIN k.copy : k.copy[p].site = k.site
    BY <1>0, <1>3 DEF Fits, OwnCopies, Pick, At
  <2>2. ASSUME NEW S \in SUBSET DOMAIN k.copy,
               imp' = [imp EXCEPT ![t].copy = [p \in S |-> @[p]], ![t].at = "queued"]
        PROVE  ImportInv'
    <3> DEFINE c == [p \in S |-> k.copy[p]]
               n == [k EXCEPT !.copy = c, !.at = "queued"]
    <3>1. c \in Copies /\ DOMAIN c = S /\ \A q \in S : c[q] = k.copy[q]
      BY <1>0, RowsTaken
    <3>2. imp' = [imp EXCEPT ![t] = n]
      BY <1>0, <2>2
    <3> HIDE DEF c
    <3>3. n \in Task /\ n.todo = {} /\ n.copy = c /\ n.at = "queued" /\ n.site = k.site /\ n.cur = {}
      BY <1>0, <2>1, <3>1 DEF Task, Places
    <3>4. Fits(n, shop)
      BY <1>0, <2>1, <3>1, <3>3 DEF Fits, OneInHand
    <3>5. QED
      BY <1>0, <1>2, <1>3, <3>2, <3>4 DEF Pick
  <2>3. ASSUME NEW S \in SUBSET DOMAIN rows,
               imp' = [imp EXCEPT ![t].copy = CopyOf(S), ![t].todo = S, ![t].at = "assign"]
        PROVE  ImportInv'
    <3> DEFINE n == [k EXCEPT !.copy = CopyOf(S), !.todo = S, !.at = "assign"]
    <3>1. /\ CopyOf(S) \in Copies /\ DOMAIN CopyOf(S) = S
          /\ \A q \in S : CopyOf(S)[q] = rows[q] /\ SoundRow(CopyOf(S)[q], q, shop)
      BY CopyOfSound
    <3>2. imp' = [imp EXCEPT ![t] = n] /\ S \subseteq Products
      BY <1>0, <2>3, CopiesTyped DEF SoundRows
    <3>3. n \in Task /\ n.todo = S /\ n.copy = CopyOf(S) /\ n.at = "assign" /\ n.site = k.site /\ n.cur = {}
      BY <1>0, <2>1, <3>1, <3>2 DEF Task, Places
    <3>4. Fits(n, shop)
      BY <1>0, <2>1, <3>1, <3>3 DEF Fits, OneInHand, OwnCopies
    <3>5. QED
      BY <1>0, <1>2, <1>3, <3>2, <3>4 DEF Pick
  <2>4. CASE imp' = [imp EXCEPT ![t] = Over]
    BY <1>0, <1>2, <1>3, <2>4, OverFits DEF Pick
  <2>5. QED
    BY <1>3, <2>2, <2>3, <2>4 DEF Pick, Sample, Available
<1>4. CASE Assign(t)
  <2>1. /\ k.at = "assign" /\ k.cur = {} /\ k.site \in Sites
        /\ \A p \in DOMAIN k.copy \ k.todo : k.copy[p].site = k.site
    BY <1>0, <1>4 DEF Fits, OneInHand, Assign, At
  <2>2. ASSUME NEW p \in k.todo, SaveRow(p, Marked(k.copy[p], k.site)),
               imp' = [imp EXCEPT ![t].todo = @ \ {p}, ![t].copy[p] = Marked(@, k.site)]
        PROVE  ImportInv'
    <3> DEFINE row == Marked(k.copy[p], k.site)
               c == [k.copy EXCEPT ![p] = row]
               n == [k EXCEPT !.todo = k.todo \ {p}, !.copy = c]
    <3>1. row \in Row /\ SoundRow(row, p, shop) /\ row.site = k.site
      BY <1>0, <2>1, MarkedSound
    <3>2. imp' = [imp EXCEPT ![t] = n]
      BY <1>0, <2>2
    <3>3. SoundRows(rows', shop)
      BY <1>0, <2>2, <3>1, SaveRowSound
    <3> HIDE DEF row
    <3>4. /\ c \in Copies /\ DOMAIN c = DOMAIN k.copy /\ c[p] = row
          /\ \A q \in DOMAIN k.copy \ {p} : c[q] = k.copy[q]
      BY <1>0, <3>1, RowChanged
    <3> HIDE DEF c
    <3>5. n \in Task /\ n.todo = k.todo \ {p} /\ n.copy = c /\ n.at = "assign" /\ n.site = k.site /\ n.cur = {}
      BY <1>0, <2>1, <3>4 DEF Task
    <3>6. \A q \in DOMAIN n.copy : SoundRow(n.copy[q], q, shop) /\ (q \notin n.todo => n.copy[q].site = n.site)
      BY <1>0, <2>1, <3>1, <3>4, <3>5
    <3>7. Fits(n, shop)
      BY <1>0, <2>1, <3>4, <3>5, <3>6 DEF Fits, OneInHand, OwnCopies
    <3>8. QED
      BY <1>2, <1>4, <3>2, <3>3, <3>7 DEF Assign
  <2>3. ASSUME k.todo = {}, NEW at \in {"queued", "test"}, imp' = [imp EXCEPT ![t].at = at], rows' = rows
        PROVE  ImportInv'
    <3> DEFINE n == [k EXCEPT !.at = at]
    <3>1. imp' = [imp EXCEPT ![t] = n]
      BY <1>0, <2>3
    <3>2. n \in Task /\ n.todo = {} /\ n.copy = k.copy /\ n.at = at /\ n.site = k.site /\ n.cur = {}
      BY <1>0, <2>1, <2>3 DEF Task, Places
    <3>3. Fits(n, shop)
      BY <1>0, <2>1, <2>3, <3>2 DEF Fits, OneInHand, OwnCopies
    <3>4. QED
      BY <1>0, <1>2, <1>4, <2>3, <3>1, <3>3 DEF Assign
  <2>4. QED
    BY <1>4, <2>2, <2>3 DEF Assign, Site
<1>5. CASE Mark(t)
  <2>1. k.at = "mark" /\ k.cur = {} /\ k.site \in Sites
    BY <1>0, <1>5 DEF Fits, OneInHand, Mark, At
  <2>2. ASSUME NEW p \in k.todo, SaveRow(p, Wiped(k.copy[p], k.site)),
               imp' = [imp EXCEPT ![t].todo = @ \ {p}, ![t].copy[p] = Wiped(@, k.site)]
        PROVE  ImportInv'
    <3> DEFINE row == Wiped(k.copy[p], k.site)
               c == [k.copy EXCEPT ![p] = row]
               n == [k EXCEPT !.todo = k.todo \ {p}, !.copy = c]
    <3>1. imp' = [imp EXCEPT ![t] = n]
      BY <1>0, <2>2
    <3>2. row \in Row /\ SoundRow(row, p, shop)
      BY <1>0, <2>1, <2>2, MarkedSound
    <3>3. SoundRows(rows', shop)
      BY <1>0, <2>2, <3>2, SaveRowSound
    <3> HIDE DEF row
    <3>4. c \in Copies /\ DOMAIN c = DOMAIN k.copy /\ \A q \in DOMAIN c : SoundRow(c[q], q, shop)
      BY <1>0, <2>2, <3>2, RowChanged
    <3> HIDE DEF c
    <3>5. n \in Task /\ n.todo = k.todo \ {p} /\ n.copy = c /\ n.at = "mark" /\ n.site = k.site /\ n.cur = {}
      BY <1>0, <2>1, <3>4 DEF Task
    <3> HIDE DEF n
    <3>6. Fits(n, shop)
      BY <1>0, <2>1, <3>4, <3>5 DEF Fits, OneInHand, OwnCopies
    <3>7. shop' = shop
      BY <1>5 DEF Mark
    <3>8. QED
      BY <1>2, <3>1, <3>3, <3>6, <3>7
  <2>3. CASE imp' = [imp EXCEPT ![t] = Over] /\ rows' = rows
    BY <1>0, <1>2, <1>5, <2>3, OverFits DEF Mark
  <2>4. ASSUME NEW at \in {"reread", "next"}, k.todo = {}, imp' = [imp EXCEPT ![t].at = at], rows' = rows
        PROVE  ImportInv'
    <3> DEFINE n == [k EXCEPT !.at = at]
    <3>1. imp' = [imp EXCEPT ![t] = n]
      BY <1>0, <2>4
    <3>2. n \in Task /\ n.todo = {} /\ n.copy = k.copy /\ n.at = at /\ n.site = k.site /\ n.cur = {}
      BY <1>0, <2>1, <2>4 DEF Task, Places
    <3>3. Fits(n, shop)
      BY <1>0, <2>1, <2>4, <3>2 DEF Fits, OneInHand, OwnCopies
    <3>4. QED
      BY <1>0, <1>2, <1>5, <2>4, <3>1, <3>3 DEF Mark
  <2>5. QED
    BY <1>5, <2>2, <2>3, <2>4 DEF Mark, Site
<1>6. CASE Reread(t)
  <2> DEFINE S == DOMAIN k.copy \cap DOMAIN rows
             T == {p \in S : rows[p].site # k.site \/ rows[p].st # "assigned"}
  <2>1. k.at = "reread" /\ k.cur = {} /\ k.site \in Sites
    BY <1>0, <1>6 DEF Fits, OneInHand, Reread, At
  <2>2. CASE imp' = [imp EXCEPT ![t] = [@ EXCEPT !.at = "assign", !.copy = CopyOf(S), !.todo = T]]
    <3> DEFINE n == [k EXCEPT !.at = "assign", !.copy = CopyOf(S), !.todo = T]
    <3>1. /\ CopyOf(S) \in Copies /\ DOMAIN CopyOf(S) = S
          /\ \A q \in S : CopyOf(S)[q] = rows[q] /\ SoundRow(CopyOf(S)[q], q, shop)
      BY CopyOfSound
    <3>2. imp' = [imp EXCEPT ![t] = n] /\ T \subseteq Products
      BY <1>0, <2>2
    <3>3. n \in Task /\ n.todo = T /\ n.copy = CopyOf(S) /\ n.at = "assign" /\ n.site = k.site /\ n.cur = {}
      BY <1>0, <2>1, <3>1, <3>2 DEF Task, Places
    <3>4. T \subseteq S /\ \A q \in S \ T : CopyOf(S)[q].site = k.site
      BY <3>1
    <3> HIDE DEF n, T
    <3>5. Fits(n, shop)
      BY <1>0, <2>1, <3>1, <3>3, <3>4 DEF Fits, OneInHand, OwnCopies
    <3> USE DEF n, T
    <3>6. QED
      BY <1>0, <1>2, <1>6, <3>2, <3>5 DEF Reread
  <2>3. CASE imp' = [imp EXCEPT ![t] = Over]
    BY <1>0, <1>2, <1>6, <2>3, OverFits DEF Reread
  <2>4. QED
    BY <1>6, <2>2, <2>3 DEF Reread, Site
<1>7. CASE NextSite(t)
  <2>1. k.at = "next" /\ k.cur = {} /\ rows' = rows /\ shop' = shop /\ SoundRows(rows', shop)
    BY <1>0, <1>7 DEF Fits, OneInHand, NextSite, At
  <2>2. CASE imp' = [imp EXCEPT ![t] = BatchOver]
    BY <1>2, <2>1, <2>2, OverFits
  <2>3. ASSUME NEW s \in k.left, NEW S \in SUBSET DOMAIN k.copy, NEW at \in {"next", "mark"},
               imp' = [imp EXCEPT ![t].at = at, ![t].site = s, ![t].todo = S, ![t].left = @ \ {s}]
        PROVE  ImportInv'
    <3> DEFINE n == [k EXCEPT !.at = at, !.site = s, !.todo = S, !.left = k.left \ {s}]
    <3>1. imp' = [imp EXCEPT ![t] = n]
      BY <1>0, <2>3
    <3>2. n \in Task /\ n.todo = S /\ n.copy = k.copy /\ n.at = at /\ n.site = s /\ n.cur = {} /\ s \in Sites
      BY <1>0, <2>1, <2>3 DEF Task, Places
    <3> HIDE DEF n
    <3>3. Fits(n, shop)
      BY <1>0, <2>3, <3>2 DEF Fits, OneInHand, OwnCopies
    <3>4. QED
      BY <1>2, <2>1, <3>1, <3>3
  <2>4. QED
    BY <1>7, <2>2, <2>3 DEF NextSite, Sample
<1>8. CASE MarkFails(t)
  BY <1>0, <1>2, <1>8, OverFits DEF MarkFails
<1>9. QED
  BY <1>1, <1>3, <1>4, <1>5, <1>6, <1>7, <1>8

\* A task that has noted a sound outcome in the copy of its product may save it.
LEMMA OutcomeFits ==
    ASSUME NEW sh1, NEW sh2, Grows(sh1, sh2), NEW k, Fits(k, sh1), k.at \in {"sync"} \cup OneInHand,
           NEW p \in k.todo, NEW row \in Row, row.site = k.site, SoundRow(row, p, sh2), NEW n \in Task,
           n.at = "save", n.site = k.site, n.todo = k.todo, n.cur = {p}, n.copy = [k.copy EXCEPT ![p] = row]
    PROVE  Fits(n, sh2)
<1>1. k.copy \in Copies /\ p \in DOMAIN k.copy /\ k.site \in Sites
  BY DEF Fits, Task, OneInHand
<1>2. Fits(k, sh2)
  BY FitsStays
<1>3. /\ DOMAIN n.copy = DOMAIN k.copy /\ n.copy[p] = row
      /\ \A q \in DOMAIN k.copy \ {p} : n.copy[q] = k.copy[q]
  BY <1>1, RowChanged
<1>4. \A q \in DOMAIN k.copy : SoundRow(k.copy[q], q, sh2) /\ k.copy[q].site = k.site
  BY <1>2 DEF Fits, OwnCopies
<1>5. \A q \in DOMAIN n.copy : SoundRow(n.copy[q], q, sh2) /\ n.copy[q].site = n.site
  BY <1>3, <1>4
<1>6. QED
  BY <1>1, <1>2, <1>3, <1>5 DEF Fits, OneInHand

\* The product in hand.
LEMMA InHand ==
    ASSUME ImportInv, NEW t \in Importers, imp[t].at \in OneInHand
    PROVE  imp[t].cur = {Cur(t)} /\ Cur(t) \in imp[t].todo
BY TaskKnown DEF Fits, Cur

\* Noting an outcome of the product in hand.
LEMMA Noted ==
    ASSUME ImportInv, NEW t \in Importers, imp[t].at \in OneInHand, Grows(shop, shop'), rows' = rows,
           NEW st \in {"success", "failed"}, st = "success" => shop'[imp[t].site][Cur(t)] > 0,
           imp' = Outcome(t, st)
    PROVE  ImportInv'
<1> DEFINE k == imp[t]  p == Cur(t)
           row == [k.copy[p] EXCEPT !.st = st, !.hist = IF st = "success" THEN k.copy[p].hist \cup {k.site} ELSE k.copy[p].hist]
           c == [k.copy EXCEPT ![p] = row]
           n == [k EXCEPT !.at = "save", !.copy = c]
<1>1. /\ k \in Task /\ Fits(k, shop) /\ k.copy \in Copies /\ DOMAIN k.copy \subseteq Products
      /\ k.todo \subseteq DOMAIN k.copy /\ imp \in [Importers -> Task] /\ k.site \in Sites
      /\ k.cur = {p} /\ p \in k.todo /\ k.copy[p] \in Row /\ SoundRow(k.copy[p], p, shop) /\ k.copy[p].site = k.site
  BY TaskKnown, InHand DEF ImportInv, Fits, OneInHand, OwnCopies
<1>2. imp' = [imp EXCEPT ![t] = n]
  <2>1. CASE st = "success"
    BY <1>1, <2>1 DEF Outcome, Site
  <2>2. CASE st = "failed"
    BY <1>1, <2>2 DEF Outcome, Site
  <2>3. QED
    BY <2>1, <2>2
<1>3. row \in Row /\ SoundRow(row, p, shop')
  <2>1. SoundRow(k.copy[p], p, shop')
    BY <1>1, SoundStays
  <2>2. QED
    BY <1>1, <2>1 DEF SoundRow, Row
<1>4. row.site = k.site
  BY <1>1 DEF Row
<1> HIDE DEF row
<1>5. c \in Copies
  BY <1>1, <1>3, RowChanged
<1>6. n \in Task /\ n.at = "save" /\ n.site = k.site /\ n.todo = k.todo /\ n.cur = {p} /\ n.copy = c
  BY <1>1, <1>5 DEF Task, Places
<1> HIDE DEF n
<1>7. Fits(n, shop')
  BY <1>1, <1>3, <1>4, <1>6, OutcomeFits
<1>8. SoundRows(rows', shop')
  BY SoundStays, CopiesTyped DEF ImportInv, SoundRows
<1>9. QED
  BY <1>2, <1>7, <1>8, TaskMoves DEF Moves

\* Noting the outcome of a product just taken up.
LEMMA NotedAtOnce ==
    ASSUME ImportInv, NEW t \in Importers, imp[t].at = "sync", Grows(shop, shop'), rows' = rows,
           NEW p \in imp[t].todo, NEW h, h \in {{}, imp[t].copy[p].hist},
           NEW st \in {"success", "failed"}, st = "success" => shop'[imp[t].site][p] > 0,
           imp' = [imp EXCEPT ![t].at = "save", ![t].cur = {p}, ![t].copy[p] = [@ EXCEPT !.st = st, !.hist = h]]
    PROVE  ImportInv'
<1> DEFINE k == imp[t]
           row == [k.copy[p] EXCEPT !.st = st, !.hist = h]
           c == [k.copy EXCEPT ![p] = row]
           n == [k EXCEPT !.at = "save", !.cur = {p}, !.copy = c]
<1>1. /\ k \in Task /\ Fits(k, shop) /\ k.copy \in Copies /\ DOMAIN k.copy \subseteq Products
      /\ k.todo \subseteq DOMAIN k.copy /\ imp \in [Importers -> Task] /\ k.site \in Sites
      /\ k.copy[p] \in Row /\ SoundRow(k.copy[p], p, shop) /\ k.copy[p].site = k.site
  BY TaskKnown DEF ImportInv, Fits, OneInHand, OwnCopies
<1>2. imp' = [imp EXCEPT ![t] = n]
  BY <1>1
<1>3. row \in Row /\ row.site = k.site /\ SoundRow(row, p, shop')
  <2>1. SoundRow(k.copy[p], p, shop')
    BY <1>1, SoundStays
  <2>2. QED
    BY <1>1, <2>1 DEF SoundRow, Row
<1> HIDE DEF row
<1>4. c \in Copies
  BY <1>1, <1>3, RowChanged
<1>5. n \in Task /\ n.at = "save" /\ n.site = k.site /\ n.todo = k.todo /\ n.cur = {p} /\ n.copy = c
  BY <1>1, <1>4 DEF Task, Places
<1> HIDE DEF n
<1>6. Fits(n, shop')
  BY <1>1, <1>3, <1>5, OutcomeFits
<1>7. SoundRows(rows', shop')
  BY SoundStays, CopiesTyped DEF ImportInv, SoundRows
<1>8. QED
  BY <1>2, <1>6, <1>7, TaskMoves DEF Moves

\* Moving on to another place, with a product in hand or with none.
LEMMA PlaceMoves ==
    ASSUME ImportInv, NEW t \in Importers, NEW n \in Task, imp' = [imp EXCEPT ![t] = n],
           imp[t].at \in OwnCopies \ {"release"}, n.at \in {"test", "sync", "put", "post", "recheck"},
           n.site = imp[t].site, n.copy = imp[t].copy, n.todo \subseteq DOMAIN imp[t].copy,
           n.at \in OneInHand => \E p \in n.todo : n.cur = {p}, n.at \notin OneInHand => n.cur = {},
           n.at = "put" => \A p \in n.cur : shop[n.site][p] > 0,
           rows' = rows, Grows(shop, shop')
    PROVE  ImportInv'
<1>1. Fits(imp[t], shop) /\ imp[t].site \in Sites
  BY TaskKnown DEF Fits, OwnCopies, OneInHand
<1>2. Fits(imp[t], shop')
  BY <1>1, FitsStays
<1>3. imp[t].copy \in Copies /\ DOMAIN imp[t].copy \subseteq Products
  BY TaskKnown
<1>4. n.at = "put" => \A p \in n.cur : shop'[n.site][p] > 0
  BY <1>1, <1>3 DEF Grows, Task
<1>5. Fits(n, shop')
  BY <1>1, <1>2, <1>4 DEF Fits, OneInHand, OwnCopies
<1>6. SoundRows(rows', shop')
  BY SoundStays, CopiesTyped DEF ImportInv, SoundRows
<1>7. QED
  BY <1>5, <1>6, TaskMoves DEF Moves

\* A task that is over.
LEMMA OverMoves ==
    ASSUME ImportInv, NEW t \in Importers, imp' = [imp EXCEPT ![t] = Over], rows' = rows, Grows(shop, shop')
    PROVE  ImportInv'
<1>1. Fits(Over, shop')
  BY OverFits, FitsStays
<1>2. SoundRows(rows', shop')
  BY SoundStays, CopiesTyped DEF ImportInv, SoundRows
<1>3. QED
  BY <1>1, <1>2, TaskMoves DEF Moves

\* The import itself: the sites' answers, and the outcome in the copy.
LEMMA ImportRuns ==
    ASSUME ImportInv, NEW t \in Importers,
           Acquire(t) \/ Test(t) \/ LookUp(t) \/ Put(t) \/ Post(t) \/ Recheck(t) \/ Finish(t)
    PROVE  ImportInv'
<1> DEFINE k == imp[t]
<1>0. /\ k \in Task /\ Fits(k, shop) /\ k.copy \in Copies /\ DOMAIN k.copy \subseteq Products
      /\ k.todo \subseteq DOMAIN k.copy /\ k.cur \subseteq k.todo /\ k.todo \subseteq Products
      /\ SoundRows(rows, shop) /\ shop \in Shops /\ imp \in [Importers -> Task] /\ Grows(shop, shop)
  BY TaskKnown DEF ImportInv, Grows
<1>2. CASE Acquire(t)
  <2> DEFINE n == [k EXCEPT !.at = "test"]
  <2>1. k.at = "queued" /\ k.cur = {} /\ rows' = rows /\ shop' = shop
    BY <1>0, <1>2 DEF Acquire, At, Fits, OneInHand
  <2>2. imp' = [imp EXCEPT ![t] = n]
    BY <1>0, <1>2 DEF Acquire
  <2>3. n \in Task /\ n.at = "test" /\ n.site = k.site /\ n.copy = k.copy /\ n.todo = k.todo /\ n.cur = {}
    BY <1>0, <2>1 DEF Task, Places
  <2> HIDE DEF n
  <2>4. QED
    BY <1>0, <2>1, <2>2, <2>3, PlaceMoves DEF OwnCopies, OneInHand
<1>3. CASE Test(t)
  <2>1. k.at = "test" /\ k.cur = {} /\ rows' = rows /\ shop' = shop
    BY <1>0, <1>3 DEF Test, At, Fits, OneInHand
  <2>2. CASE imp' = [imp EXCEPT ![t].at = "sync", ![t].todo = DOMAIN imp[t].copy]
    <3> DEFINE n == [k EXCEPT !.at = "sync", !.todo = DOMAIN k.copy]
    <3>1. imp' = [imp EXCEPT ![t] = n]
      BY <1>0, <2>2
    <3>2. n \in Task /\ n.at = "sync" /\ n.site = k.site /\ n.copy = k.copy /\ n.todo = DOMAIN k.copy /\ n.cur = {}
      BY <1>0, <2>1 DEF Task, Places
    <3> HIDE DEF n
    <3>3. QED
      BY <1>0, <2>1, <3>1, <3>2, PlaceMoves DEF OwnCopies, OneInHand
  <2>3. CASE imp' = [imp EXCEPT ![t] = Over]
    BY <1>0, <2>1, <2>3, OverMoves
  <2>4. QED
    BY <1>3, <2>2, <2>3 DEF Test, End
<1>4. CASE LookUp(t)
  <2>1. k.at = "sync" /\ rows' = rows /\ shop' = shop
    BY <1>4 DEF LookUp, At
  <2>2. ASSUME NEW p \in k.todo, imp' = [imp EXCEPT ![t].at = "save", ![t].cur = {p}, ![t].copy[p].st = "failed"]
        PROVE  ImportInv'
    <3>1. k.copy[p] \in Row
      BY <1>0, TaskKnown
    <3>2. [k.copy[p] EXCEPT !.st = "failed"] = [k.copy[p] EXCEPT !.st = "failed", !.hist = k.copy[p].hist]
      BY <3>1 DEF Row
    <3>3. imp' = [imp EXCEPT ![t].at = "save", ![t].cur = {p},
                             ![t].copy[p] = [k.copy[p] EXCEPT !.st = "failed", !.hist = k.copy[p].hist]]
      BY <2>2, <3>2
    <3>4. QED
      BY <1>0, <2>1, <3>3, NotedAtOnce
  <2>3. ASSUME NEW p \in k.todo, NEW at \in {"put", "post"}, at = "put" => shop[k.site][p] > 0,
               imp' = [imp EXCEPT ![t].at = at, ![t].cur = {p}]
        PROVE  ImportInv'
    <3> DEFINE n == [k EXCEPT !.at = at, !.cur = {p}]
    <3>1. imp' = [imp EXCEPT ![t] = n]
      BY <1>0, <2>3
    <3>2. n \in Task /\ n.at = at /\ n.site = k.site /\ n.copy = k.copy /\ n.todo = k.todo /\ n.cur = {p}
      BY <1>0, <2>1 DEF Task, Places
    <3> HIDE DEF n
    <3>3. k.at \in OwnCopies \ {"release"} /\ n.at \in OneInHand
      BY <2>1, <3>2 DEF OwnCopies, OneInHand
    <3>4. n.todo \subseteq DOMAIN k.copy /\ (\E q \in n.todo : n.cur = {q}) /\ Grows(shop, shop')
      BY <1>0, <2>1, <3>2
    <3>5. n.at = "put" => \A q \in n.cur : shop[n.site][q] > 0
      BY <2>3, <3>2
    <3>6. QED
      BY <2>1, <3>1, <3>2, <3>3, <3>4, <3>5, PlaceMoves
  <2>4. ASSUME NEW p \in k.todo, NEW found \in BOOLEAN, Found(t, p, found),
               imp' = [imp EXCEPT ![t].at = IF found THEN "put" ELSE "post", ![t].cur = {p}]
        PROVE  ImportInv'
    BY <2>3, <2>4 DEF Found, Site
  <2>5. QED
    BY <1>4, <2>2, <2>4 DEF LookUp
<1>5. ASSUME k.at \in {"put", "post"}, imp' = [imp EXCEPT ![t].at = "recheck"], rows' = rows, Grows(shop, shop')
      PROVE  ImportInv'
  <2> DEFINE n == [k EXCEPT !.at = "recheck"]
  <2>1. imp' = [imp EXCEPT ![t] = n]
    BY <1>0, <1>5
  <2>2. \E p \in k.todo : k.cur = {p}
    BY <1>5, InHand DEF OneInHand
  <2>3. n \in Task /\ n.at = "recheck" /\ n.site = k.site /\ n.copy = k.copy /\ n.todo = k.todo /\ n.cur = k.cur
    BY <1>0 DEF Task, Places
  <2> HIDE DEF n
  <2>4. k.at \in OwnCopies \ {"release"} /\ n.at \in OneInHand /\ n.at # "put"
    BY <1>5, <2>3 DEF OwnCopies, OneInHand
  <2>5. n.todo \subseteq DOMAIN k.copy /\ \E p \in n.todo : n.cur = {p}
    BY <1>0, <2>2, <2>3
  <2>6. QED
    BY <1>5, <2>1, <2>3, <2>4, <2>5, PlaceMoves
<1>6. CASE Put(t)
  <2>1. k.at = "put" /\ rows' = rows /\ shop' = shop /\ shop[k.site][Cur(t)] > 0
    BY <1>0, <1>6, InHand DEF Put, At, Fits, OneInHand
  <2>2. CASE imp' = Outcome(t, "success")
    BY <1>0, <2>1, <2>2, Noted DEF OneInHand
  <2>3. CASE imp' = [imp EXCEPT ![t].at = "recheck"]
    BY <1>0, <1>5, <2>1, <2>3
  <2>4. CASE imp' = [imp EXCEPT ![t] = Over]
    BY <1>0, <2>1, <2>4, OverMoves
  <2>5. QED
    BY <1>6, <2>2, <2>3, <2>4 DEF Put, Raise
<1>7. CASE Post(t)
  <2>1. k.at = "post" /\ rows' = rows /\ k.site \in Sites /\ Cur(t) \in Products
    BY <1>0, <1>7, InHand DEF Post, At, Fits, OneInHand
  <2>2. CASE shop[k.site][Cur(t)] > 0 /\ shop' = shop /\ \E st \in {"success", "failed"} : imp' = Outcome(t, st)
    BY <1>0, <2>1, <2>2, Noted DEF OneInHand
  <2>3. ASSUME NEW created \in BOOLEAN, shop' = IF created THEN [shop EXCEPT ![k.site][Cur(t)] = 1] ELSE shop,
               shop[k.site][Cur(t)] = 0,
               \/ created /\ imp' = Outcome(t, "success")
               \/ imp' = [imp EXCEPT ![t].at = "recheck"]
               \/ imp' = [imp EXCEPT ![t] = Over]
        PROVE  ImportInv'
    <3>1. Grows(shop, shop') /\ (created => shop'[k.site][Cur(t)] > 0)
      BY <1>0, <2>1, <2>3 DEF Grows, Shops
    <3>2. CASE created /\ imp' = Outcome(t, "success")
      BY <1>0, <2>1, <3>1, <3>2, Noted DEF OneInHand
    <3>3. CASE imp' = [imp EXCEPT ![t].at = "recheck"]
      BY <1>5, <2>1, <3>1, <3>3
    <3>4. CASE imp' = [imp EXCEPT ![t] = Over]
      BY <2>1, <3>1, <3>4, OverMoves
    <3>5. QED
      BY <2>3, <3>2, <3>3, <3>4
  <2>4. QED
    BY <1>7, <2>2, <2>3 DEF Post, Raise, Site
<1>8. CASE Recheck(t)
  <2>1. k.at = "recheck" /\ rows' = rows /\ shop' = shop
    BY <1>8 DEF Recheck, At
  <2>2. PICK found \in BOOLEAN : Found(t, Cur(t), found) /\ imp' = Outcome(t, IF found THEN "success" ELSE "failed")
    BY <1>8 DEF Recheck
  <2>3. found => shop[k.site][Cur(t)] > 0
    BY <2>2 DEF Found, Site
  <2>4. QED
    BY <1>0, <2>1, <2>2, <2>3, Noted DEF OneInHand
<1>9. CASE Finish(t)
  BY <1>0, <1>9, OverMoves DEF Finish, End, Raise
<1>10. QED
  BY <1>2, <1>3, <1>4, <1>6, <1>7, <1>8, <1>9

\* Posting to a store, and saving a row whatever became of it.
LEMMA ImportSaves ==
    ASSUME ImportInv, NEW t \in Importers, Send(t) \/ Save(t)
    PROVE  ImportInv'
<1> DEFINE k == imp[t]
<1>0. /\ k \in Task /\ Fits(k, shop) /\ k.copy \in Copies /\ DOMAIN k.copy \subseteq Products
      /\ k.todo \subseteq DOMAIN k.copy /\ k.cur \subseteq k.todo /\ k.todo \subseteq Products
      /\ SoundRows(rows, shop) /\ shop \in Shops /\ imp \in [Importers -> Task] /\ Grows(shop, shop)
  BY TaskKnown DEF ImportInv, Grows
<1>1. CASE Send(t)
  <2>1. k.at = "sync" /\ rows' = rows /\ k.site \in Sites
    BY <1>0, <1>1 DEF Send, At, Fits
  <2>2. ASSUME NEW p \in k.todo, NEW st \in {"success", "failed"}, imp' = StoreOutcome(t, p, st),
               Grows(shop, shop'), st = "success" => shop'[k.site][p] > 0
        PROVE  ImportInv'
    <3>1. imp' = [imp EXCEPT ![t].at = "save", ![t].cur = {p}, ![t].copy[p] = [@ EXCEPT !.st = st, !.hist = {}]]
      BY <2>2 DEF StoreOutcome
    <3>2. QED
      BY <2>1, <2>2, <3>1, NotedAtOnce
  <2>3. ASSUME NEW p \in k.todo, NEW st \in {"success", "failed"}, imp' = StoreOutcome(t, p, st),
               shop' = [shop EXCEPT ![k.site][p] = @ + 1]
        PROVE  ImportInv'
    <3>1. Grows(shop, shop') /\ shop'[k.site][p] > 0
      BY <1>0, <2>1, <2>3 DEF Grows, Shops
    <3>2. QED
      BY <2>2, <2>3, <3>1
  <2>4. ASSUME NEW p \in k.todo, imp' = StoreOutcome(t, p, "failed"), shop' = shop
        PROVE  ImportInv'
    BY <1>0, <2>2, <2>4
  <2>5. QED
    BY <1>1, <2>3, <2>4 DEF Send, Site
<1>2. CASE Save(t)
  <2>1. k.at = "save" /\ shop' = shop /\ k.cur = {Cur(t)} /\ Cur(t) \in k.todo
    BY <1>2, InHand DEF Save, At, OneInHand
  <2>2. SoundRows(rows', shop)
    <3>1. k.copy[Cur(t)] \in Row /\ SoundRow(k.copy[Cur(t)], Cur(t), shop)
      BY <1>0, <2>1, TaskKnown
    <3>2. QED
      BY <1>0, <1>2, <3>1, SaveRowSound DEF Save
  <2>3. PICK rest : rest \subseteq k.todo /\ imp' = [imp EXCEPT ![t].at = "sync", ![t].todo = rest, ![t].cur = {}]
    BY <1>2 DEF Save
  <2> DEFINE n == [k EXCEPT !.at = "sync", !.todo = rest, !.cur = {}]
  <2>4. imp' = [imp EXCEPT ![t] = n]
    BY <1>0, <2>3
  <2>5. n \in Task /\ n.at = "sync" /\ n.site = k.site /\ n.copy = k.copy /\ n.todo = rest /\ n.cur = {}
    BY <1>0, <2>3 DEF Task, Places
  <2> HIDE DEF n
  <2>6. Fits(n, shop)
    BY <1>0, <2>1, <2>3, <2>5 DEF Fits, OneInHand, OwnCopies
  <2>7. QED
    BY <1>0, <2>1, <2>2, <2>4, <2>6, QuietMoves
<1>3. QED
  BY <1>1, <1>2

\* A site that is deleted lets its rows go; a row that is new says nothing.
LEMMA NewRowSound == ASSUME NEW p PROVE NewRow \in Row /\ SoundRow(NewRow, p, shop)
BY DEF NewRow, Row, SoundRow

\* Whoever else writes the table only adds, removes or resets rows.
LEMMA OthersWrite ==
    ASSUME ImportInv, DOMAIN rows' \subseteq Products, rows' = [p \in DOMAIN rows' |-> rows'[p]],
           \A p \in DOMAIN rows' : rows'[p] = NewRow \/ (p \in DOMAIN rows /\ rows'[p] = rows[p]),
           imp' = imp, shop' = shop
    PROVE  ImportInv'
<1>1. \A p \in DOMAIN rows : rows[p] \in Row /\ SoundRow(rows[p], p, shop)
  BY CopiesTyped DEF ImportInv, SoundRows
<1>2. \A p \in DOMAIN rows' : rows'[p] \in Row /\ SoundRow(rows'[p], p, shop)
  BY <1>1, NewRowSound
<1>3. rows' \in Copies
  BY <1>2, CopiesTyped
<1>4. SoundRows(rows', shop')
  BY <1>2, <1>3 DEF SoundRows
<1>5. QED
  BY <1>4 DEF ImportInv

LEMMA CollectKeepsRows ==
    ASSUME ImportInv, imp' = imp, shop' = shop, C!CollectNext \/ \E s \in Sites : Unbind(s)
    PROVE  ImportInv'
<1>1. DOMAIN rows \subseteq Products /\ rows = [p \in DOMAIN rows |-> rows[p]]
  BY CopiesTyped DEF ImportInv, SoundRows
<1>2. CASE rows' = rows
  BY <1>2 DEF ImportInv
<1>3. ASSUME NEW c \in Collectors, C!CreateProduct(c) PROVE ImportInv'
  <2> DEFINE K == DOMAIN rows \cup (col[c].cur \ DOMAIN rows)
  <2>1. rows' = [p \in K |-> IF p \in DOMAIN rows THEN rows[p] ELSE NewRow] /\ K \subseteq Products
    BY <1>1, <1>3 DEF C!CreateProduct, C!Added, NewRow
  <2>2. QED
    BY <2>1, OthersWrite
<1>4. ASSUME NEW p \in Products, C!RemoveProduct(p) PROVE ImportInv'
  BY <1>1, <1>4, OthersWrite DEF C!RemoveProduct
<1>5. ASSUME NEW s \in Sites, Unbind(s) PROVE ImportInv'
  BY <1>1, <1>5, OthersWrite DEF Unbind
<1>6. QED
  BY ZenonT(40), <1>2, <1>3, <1>4, <1>5
  DEF C!CollectNext, C!CollectStep, C!Begin, C!Fetch, C!CheckProduct, C!UpdateSource, C!Complete, C!CheckRow,
      C!CreateRow, C!FinishFile, C!FileUnreadable, C!Submit, C!CollectNow, C!ImportFile, C!RemoveSource, C!SetMax

------------------------------------------------------------------------------
(* What the table says of an import.                                        *)

LEMMA ImportInvInit == Init => ImportInv
<1> SUFFICES ASSUME Init PROVE ImportInv
  OBVIOUS
<1>1. shop \in Shops /\ imp = [t \in Importers |-> NoTask]
  BY DEF Init, ImportInit, Shops
<1>2. SoundRows(rows, shop)
  <2>1. CASE rows = <<>>
    <3>1. DOMAIN rows = {} /\ rows \in [{} -> Row]
      BY <2>1
    <3>2. QED
      BY <3>1, CopiesTyped DEF SoundRows
  <2>2. CASE rows = [p \in Products |-> NewRow]
    <3>1. DOMAIN rows = Products /\ \A p \in Products : rows[p] \in Row /\ SoundRow(rows[p], p, shop)
      BY <2>2, NewRowSound
    <3>2. rows \in [Products -> Row]
      BY <2>2, <3>1
    <3>3. QED
      BY <3>1, <3>2, CopiesTyped DEF SoundRows
  <2>3. QED
    BY <2>1, <2>2 DEF Init
<1>3. \A t \in Importers : imp[t] = NoTask /\ Fits(imp[t], shop)
  BY <1>1, OverFits
<1>4. imp \in [Importers -> Task]
  BY <1>1, <1>3 DEF Fits
<1>5. QED
  BY <1>1, <1>2, <1>3, <1>4 DEF ImportInv

LEMMA ImportInvStep == ImportInv /\ [Next]_vars => ImportInv'
<1> SUFFICES ASSUME ImportInv, [Next]_vars PROVE ImportInv'
  OBVIOUS
<1>1. CASE ImportNext
  BY <1>1, ImportRequests, ImportAssigns, ImportRuns, ImportSaves DEF ImportNext, ImportStep
<1>2. CASE (C!CollectNext \/ \E s \in Sites : Unbind(s)) /\ UNCHANGED importVars
  BY <1>2, CollectKeepsRows DEF importVars
<1>3. CASE UNCHANGED vars
  BY <1>3 DEF ImportInv, vars, importVars
<1>4. QED
  BY <1>1, <1>2, <1>3 DEF Next, Unbind

\* For any number of products, sites and tasks: whatever the tasks read, save
\* and save again, a row that says imported, or names a site in its history,
\* speaks of a product the site has (imported_status and imported_result,
\* saved whole by woo_import_service.py).
THEOREM ImportedIsThere == Spec => []SuccessIsOnShop
<1>1. ImportInv => SuccessIsOnShop
  BY DEF ImportInv, SoundRows, SoundRow, SuccessIsOnShop
<1>2. QED
  BY <1>1, ImportInvInit, ImportInvStep, PTL DEF Spec

------------------------------------------------------------------------------
(* What the collectors count.                                               *)

\* A collector that has moved to state n, and got only what was not in a table.
LEMMA CollectorMoves ==
    ASSUME CountInv, NEW c \in Collectors, NEW n, IsCollector(n), Counts(n), col' = [col EXCEPT ![c] = n],
           edits' = edits, DOMAIN sources \subseteq DOMAIN sources', DOMAIN sources' \subseteq Sources,
           DOMAIN rows \subseteq DOMAIN rows', n.got \ col[c].got \subseteq DOMAIN rows' \cup DOMAIN sources',
           (n.got \ col[c].got) \cap (DOMAIN rows \cup DOMAIN sources) = {}
    PROVE  CountInv'
<1>1. col' = [d \in Collectors |-> col'[d]] /\ \A d \in Collectors : col'[d] = IF d = c THEN n ELSE col[d]
  BY DEF CountInv
<1>2. \A d \in Collectors : IsCollector(col'[d]) /\ Counts(col'[d])
  BY <1>1 DEF CountInv
<1>3. ASSUME edits' = 0, NEW d \in Collectors PROVE col'[d].got \subseteq DOMAIN rows' \cup DOMAIN sources'
  BY <1>1, <1>3 DEF CountInv
<1>4. ASSUME edits' = 0, NEW d \in Collectors, NEW e \in Collectors \ {d} PROVE col'[d].got \cap col'[e].got = {}
  BY <1>1, <1>4 DEF CountInv
<1>5. QED
  BY <1>1, <1>2, <1>3, <1>4 DEF CountInv

\* The collectors' module counts as this one does.
LEMMA SameCount == ASSUME NEW S PROVE C!Cardinality(S) = Cardinality(S)
BY DEF C!Cardinality, Cardinality

\* What a collector wrote is what it counts more.
LEMMA CountedMore ==
    ASSUME NEW k, Counts(k), NEW new \in SUBSET k.cur
    PROVE  /\ IsFiniteSet(k.got \cup new) /\ k.count + Cardinality(new) = Cardinality(k.got \cup new)
           /\ (k.got \cup new) \cap k.page = {} /\ k.got \cap new = {}
<1>1. IsFiniteSet(new) /\ IsFiniteSet(k.got) /\ k.got \cap new = {}
  BY FS_Subset DEF Counts
<1>2. Cardinality(k.got \cap new) = 0
  BY <1>1, FS_EmptySet
<1>3. Cardinality(k.got) \in Nat /\ Cardinality(new) \in Nat
  BY <1>1, FS_CardinalityType
<1>4. QED
  BY <1>1, <1>2, <1>3, FS_Union DEF Counts

\* A collector that starts has counted nothing, and one that ends keeps its count.
LEMMA IdleCounts ==
    ASSUME NEW n, NEW s, NEW row, NEW S \in SUBSET Sources,
           \/ n = [C!Idle EXCEPT !.at = "start", !.src = s]
           \/ n = [C!Idle EXCEPT !.at = "fetch", !.src = s, !.copy = row]
           \/ n = [C!Idle EXCEPT !.at = "finish", !.page = S, !.seen = S]
    PROVE  IsCollector(n) /\ Counts(n) /\ n.got = {}
<1>1. IsFiniteSet({}) /\ Cardinality({}) = 0
  BY FS_EmptySet
<1>2. /\ n.got = {} /\ n.cur = {} /\ n.count = 0 /\ n.page \subseteq n.seen /\ n.seen \subseteq Sources
      /\ n.at # "done"
  BY ZenonT(40) DEF C!Idle
<1>3. IsCollector(n)
  BY DEF C!Idle, IsCollector
<1>4. QED
  BY <1>1, <1>2, <1>3 DEF Counts

LEMMA EndedCounts ==
    ASSUME NEW k, IsCollector(k), Counts(k)
    PROVE  LET n == [C!Idle EXCEPT !.at = "done", !.got = k.got, !.count = k.count] IN
           /\ IsCollector(n) /\ Counts(n) /\ n.got = k.got
BY FS_EmptySet DEF C!Idle, IsCollector, Counts

\* The steps that write no row of a table.
LEMMA CollectReads ==
    ASSUME CountInv, DOMAIN sources' = DOMAIN sources, rows' = rows, edits' = edits, NEW c \in Collectors,
           \/ C!Begin(c) \/ C!Fetch(c) \/ C!CheckProduct(c) \/ C!UpdateSource(c) \/ C!Complete(c)
           \/ C!CheckRow(c) \/ C!FinishFile(c) \/ C!FileUnreadable(c)
    PROVE  CountInv'
<1> DEFINE k == col[c]
<1>0. col = [d \in Collectors |-> col[d]] /\ IsCollector(k) /\ Counts(k) /\ DOMAIN sources \subseteq Sources
  BY DEF CountInv
<1>1. ASSUME NEW n, IsCollector(n), Counts(n), n.got = k.got, col' = [col EXCEPT ![c] = n] PROVE CountInv'
  BY <1>0, <1>1, CollectorMoves
<1>2. ASSUME col' = C!Ended(c) PROVE CountInv'
  <2> DEFINE n == [C!Idle EXCEPT !.at = "done", !.got = k.got, !.count = k.count]
  <2>1. IsCollector(n) /\ Counts(n) /\ n.got = k.got
    BY <1>0, EndedCounts
  <2>2. col' = [col EXCEPT ![c] = n]
    BY <1>2 DEF C!Ended
  <2> HIDE DEF n
  <2>3. QED
    BY <1>1, <2>1, <2>2
<1>3. CASE C!Begin(c)
  <2>1. CASE k.src \in DOMAIN sources
    <3> DEFINE n == [k EXCEPT !.at = "fetch", !.copy = sources[k.src]]
    <3>1. col' = [col EXCEPT ![c] = n]
      BY <1>0, <1>3, <2>1 DEF C!Begin
    <3>2. n.at = "fetch" /\ n.page = k.page /\ n.seen = k.seen /\ n.cur = k.cur /\ n.got = k.got /\ n.count = k.count
      BY <1>0 DEF IsCollector
    <3>3. IsCollector(n)
      BY <1>0 DEF IsCollector
    <3> HIDE DEF n
    <3>4. Counts(n)
      BY <1>0, <1>3, <3>2 DEF Counts, C!Begin, C!In
    <3>5. QED
      BY <1>1, <3>1, <3>2, <3>3, <3>4
  <2>2. CASE k.src \notin DOMAIN sources
    <3> DEFINE n == [k EXCEPT !.at = "complete", !.ok = FALSE]
    <3>1. col' = [col EXCEPT ![c] = n]
      BY <1>0, <1>3, <2>2 DEF C!Begin
    <3>2. n.at = "complete" /\ n.page = k.page /\ n.seen = k.seen /\ n.cur = k.cur /\ n.got = k.got /\ n.count = k.count
      BY <1>0 DEF IsCollector
    <3>3. IsCollector(n)
      BY <1>0 DEF IsCollector
    <3> HIDE DEF n
    <3>4. Counts(n)
      BY <1>0, <1>3, <3>2 DEF Counts, C!Begin, C!In
    <3>5. QED
      BY <1>1, <3>1, <3>2, <3>3, <3>4
  <2>3. QED
    BY <2>1, <2>2
<1>4. ASSUME k.at \in {"fetch", "update"}, NEW at \in {"update", "complete"}, NEW ok,
             col' = [col EXCEPT ![c].at = at, ![c].ok = ok]
      PROVE  CountInv'
  <2> DEFINE n == [k EXCEPT !.at = at, !.ok = ok]
  <2>1. col' = [col EXCEPT ![c] = n]
    BY <1>0, <1>4
  <2>2. n.at = at /\ n.page = k.page /\ n.seen = k.seen /\ n.cur = k.cur /\ n.got = k.got /\ n.count = k.count
    BY <1>0 DEF IsCollector
  <2>3. IsCollector(n)
    BY <1>0 DEF IsCollector
  <2> HIDE DEF n
  <2>4. Counts(n)
    BY <1>0, <1>4, <2>2 DEF Counts
  <2>5. QED
    BY <1>1, <2>1, <2>2, <2>3, <2>4
<1>5. CASE C!Fetch(c)
  <2>1. k.at = "fetch"
    BY <1>5 DEF C!Fetch, C!In
  <2>2. ASSUME NEW S \in SUBSET (Products \ k.seen), NEW last,
               col' = [col EXCEPT ![c].at = "write", ![c].page = S, ![c].seen = @ \cup S, ![c].last = last]
        PROVE  CountInv'
    <3> DEFINE n == [k EXCEPT !.at = "write", !.page = S, !.seen = @ \cup S, !.last = last]
    <3>1. col' = [col EXCEPT ![c] = n]
      BY <1>0, <2>2
    <3>2. n.at = "write" /\ n.page = S /\ n.seen = k.seen \cup S /\ n.cur = k.cur /\ n.got = k.got /\ n.count = k.count
      BY <1>0 DEF IsCollector
    <3>3. IsCollector(n)
      BY <1>0 DEF IsCollector
    <3> HIDE DEF n
    <3>4. Counts(n)
      BY <1>0, <2>1, <3>2 DEF Counts
    <3>5. QED
      BY <1>1, <3>1, <3>2, <3>3, <3>4
  <2>3. CASE col' = [col EXCEPT ![c].at = "update", ![c].ok = FALSE]
    BY <1>4, <2>1, <2>3
  <2>4. CASE col' = [col EXCEPT ![c].at = "update"]
    <3>1. col' = [col EXCEPT ![c].at = "update", ![c].ok = k.ok]
      BY <1>0, <2>4 DEF IsCollector
    <3>2. QED
      BY <1>4, <2>1, <3>1
  <2>5. QED
    BY <1>5, <2>2, <2>3, <2>4 DEF C!Fetch
<1>6. CASE C!UpdateSource(c)
  <2>1. k.at = "update" /\ col' = [col EXCEPT ![c].at = "complete"]
    BY <1>6 DEF C!UpdateSource, C!In
  <2>2. col' = [col EXCEPT ![c].at = "complete", ![c].ok = k.ok]
    BY <1>0, <2>1 DEF IsCollector
  <2>3. QED
    BY <1>4, <2>1, <2>2
<1>7. CASE C!CheckProduct(c)
  <2>1. k.at = "write"
    BY <1>7 DEF C!CheckProduct, C!In
  <2>2. ASSUME NEW last, col' = [col EXCEPT ![c].at = "fetch", ![c].page = {}, ![c].last = last]
        PROVE  CountInv'
    <3> DEFINE n == [k EXCEPT !.at = "fetch", !.page = {}, !.last = last]
    <3>1. col' = [col EXCEPT ![c] = n]
      BY <1>0, <2>2
    <3>2. n.at = "fetch" /\ n.page = {} /\ n.seen = k.seen /\ n.cur = k.cur /\ n.got = k.got /\ n.count = k.count
      BY <1>0 DEF IsCollector
    <3>3. IsCollector(n)
      BY <1>0 DEF IsCollector
    <3> HIDE DEF n
    <3>4. Counts(n)
      BY <1>0, <2>1, <3>2 DEF Counts
    <3>5. QED
      BY <1>1, <3>1, <3>2, <3>3, <3>4
  <2>3. ASSUME NEW p \in k.page, NEW cur \in {{}, {p}}, NEW at \in {"write", "create"},
               col' = [col EXCEPT ![c].page = @ \ {p}, ![c].cur = cur, ![c].at = at]
        PROVE  CountInv'
    <3> DEFINE n == [k EXCEPT !.page = @ \ {p}, !.cur = cur, !.at = at]
    <3>1. col' = [col EXCEPT ![c] = n]
      BY <1>0, <2>3
    <3>2. n.at = at /\ n.page = k.page \ {p} /\ n.seen = k.seen /\ n.cur = cur /\ n.got = k.got /\ n.count = k.count
      BY <1>0 DEF IsCollector
    <3>3. IsCollector(n)
      BY <1>0 DEF IsCollector
    <3>4. IsFiniteSet(cur)
      <4>1. IsFiniteSet({}) /\ IsFiniteSet({p})
        BY FS_EmptySet, FS_Singleton
      <4>2. QED
        BY <4>1, <2>3
    <3> HIDE DEF n
    <3>5. Counts(n)
      BY <1>0, <2>1, <3>2, <3>4 DEF Counts
    <3>6. QED
      BY <1>1, <3>1, <3>2, <3>3, <3>5
  <2>4. QED
    BY <1>7, <2>2, <2>3 DEF C!CheckProduct
<1>8. CASE C!CheckRow(c)
  <2>1. k.at = "finish"
    BY <1>8 DEF C!CheckRow, C!In
  <2>2. ASSUME NEW p \in k.page, NEW cur \in {{}, {p}}, NEW fails,
               col' = [col EXCEPT ![c].page = @ \ {p}, ![c].cur = cur, ![c].fails = fails]
        PROVE  CountInv'
    <3> DEFINE n == [k EXCEPT !.page = @ \ {p}, !.cur = cur, !.fails = fails]
    <3>1. col' = [col EXCEPT ![c] = n]
      BY <1>0, <2>2
    <3>2. n.at = k.at /\ n.page = k.page \ {p} /\ n.seen = k.seen /\ n.cur = cur /\ n.got = k.got /\ n.count = k.count
      BY <1>0 DEF IsCollector
    <3>3. IsCollector(n)
      BY <1>0 DEF IsCollector
    <3>4. IsFiniteSet(cur)
      <4>1. IsFiniteSet({}) /\ IsFiniteSet({p})
        BY FS_EmptySet, FS_Singleton
      <4>2. QED
        BY <4>1, <2>2
    <3> HIDE DEF n
    <3>5. Counts(n)
      BY <1>0, <2>1, <3>2, <3>4 DEF Counts
    <3>6. QED
      BY <1>1, <3>1, <3>2, <3>3, <3>5
  <2>3. QED
    BY <1>8, <2>2 DEF C!CheckRow
<1>9. QED
  BY <1>2, <1>3, <1>5, <1>6, <1>7, <1>8 DEF C!Complete, C!FinishFile, C!FileUnreadable

\* The steps that write one: only what is new to it is counted.
LEMMA CollectWrites ==
    ASSUME CountInv, DOMAIN rows \subseteq Products, NEW c \in Collectors, C!CreateProduct(c) \/ C!CreateRow(c)
    PROVE  CountInv'
<1> DEFINE k == col[c]
<1>0. /\ col = [d \in Collectors |-> col[d]] /\ IsCollector(k) /\ Counts(k)
      /\ DOMAIN sources \subseteq Sources /\ Products \cap Sources = {}
  BY TablesAssumption DEF CountInv
<1>1. CASE C!CreateProduct(c)
  <2> DEFINE new == k.cur \ DOMAIN rows
             n == [k EXCEPT !.at = "write", !.cur = {}, !.got = @ \cup new, !.count = @ + Cardinality(new)]
  <2>1. k.at = "create" /\ k.cur \subseteq Products /\ sources' = sources /\ edits' = edits
    BY <1>1 DEF C!CreateProduct, C!In
  <2>2. col' = [col EXCEPT ![c] = n]
    <3>1. col' = [col EXCEPT ![c].at = "write", ![c].cur = {}, ![c].got = k.got \cup new,
                             ![c].count = k.count + Cardinality(new)]
      BY <1>1, SameCount DEF C!CreateProduct
    <3> HIDE DEF new
    <3>2. QED
      BY <1>0, <3>1
  <2>3. /\ n.at = "write" /\ n.page = k.page /\ n.seen = k.seen /\ n.cur = {}
        /\ n.got = k.got \cup new /\ n.count = k.count + Cardinality(new)
    BY <1>0 DEF IsCollector
  <2>4. IsCollector(n)
    BY <1>0 DEF IsCollector
  <2> HIDE DEF n
  <2>5. Counts(n)
    <3>1. IsFiniteSet({}) /\ IsFiniteSet(n.got) /\ n.count = Cardinality(n.got) /\ n.got \cap k.page = {}
      BY <1>0, <2>3, CountedMore, FS_EmptySet
    <3>2. QED
      BY <1>0, <2>1, <2>3, <3>1 DEF Counts
  <2>6. DOMAIN rows' = DOMAIN rows \cup new
    BY <1>1 DEF C!CreateProduct, C!Added
  <2>7. n.got \ k.got \subseteq new /\ new \cap (DOMAIN rows \cup DOMAIN sources) = {}
    BY <1>0, <2>1, <2>3
  <2>8. QED
    BY <1>0, <2>1, <2>2, <2>4, <2>5, <2>6, <2>7, CollectorMoves
<1>2. CASE C!CreateRow(c)
  <2> DEFINE new == k.cur \ DOMAIN sources
             n == [k EXCEPT !.cur = {}, !.got = @ \cup new, !.count = @ + Cardinality(new),
                            !.fails = @ + 1 - Cardinality(new)]
  <2>1. k.at = "finish" /\ rows' = rows /\ edits' = edits /\ k.cur \subseteq Sources
    BY <1>0, <1>2 DEF C!CreateRow, C!In, Counts
  <2>2. col' = [col EXCEPT ![c] = n]
    <3>1. col' = [col EXCEPT ![c].cur = {}, ![c].got = k.got \cup new, ![c].count = k.count + Cardinality(new),
                             ![c].fails = k.fails + 1 - Cardinality(new)]
      BY <1>2, SameCount DEF C!CreateRow
    <3> HIDE DEF new
    <3>2. QED
      BY <1>0, <3>1
  <2>3. /\ n.at = k.at /\ n.page = k.page /\ n.seen = k.seen /\ n.cur = {}
        /\ n.got = k.got \cup new /\ n.count = k.count + Cardinality(new)
    BY <1>0 DEF IsCollector
  <2>4. IsCollector(n)
    BY <1>0 DEF IsCollector
  <2> HIDE DEF n
  <2>5. Counts(n)
    <3>1. IsFiniteSet({}) /\ IsFiniteSet(n.got) /\ n.count = Cardinality(n.got) /\ n.got \cap k.page = {}
      BY <1>0, <2>3, CountedMore, FS_EmptySet
    <3>2. QED
      BY <1>0, <2>1, <2>3, <3>1 DEF Counts
  <2>6. DOMAIN sources' = DOMAIN sources \cup new
    BY <1>2 DEF C!CreateRow, C!Added
  <2>7. n.got \ k.got \subseteq new /\ new \cap (DOMAIN rows \cup DOMAIN sources) = {} /\ new \subseteq Sources
    BY <1>0, <2>1, <2>3
  <2>8. QED
    BY <1>0, <2>1, <2>2, <2>4, <2>5, <2>6, <2>7, CollectorMoves
<1>3. QED
  BY <1>1, <1>2

\* A collector that starts has counted nothing.
LEMMA CollectStarts ==
    ASSUME CountInv, NEW c \in Collectors,
           (\E s \in Sources : C!Submit(c, s) \/ C!CollectNow(c, s)) \/ (\E S \in SUBSET Sources : C!ImportFile(c, S))
    PROVE  CountInv'
<1>1. ASSUME NEW n, IsCollector(n), Counts(n), n.got = {}, col' = [col EXCEPT ![c] = n],
             rows' = rows, sources' = sources, edits' = edits
      PROVE  CountInv'
  <2>1. DOMAIN sources \subseteq Sources
    BY DEF CountInv
  <2>2. QED
    BY <1>1, <2>1, CollectorMoves
<1>2. ASSUME NEW s \in Sources, C!Submit(c, s) PROVE CountInv'
  <2>1. PICK n : n = [C!Idle EXCEPT !.at = "start", !.src = s]
    OBVIOUS
  <2>2. IsCollector(n) /\ Counts(n) /\ n.got = {}
    BY <2>1, IdleCounts
  <2>3. QED
    BY <1>1, <1>2, <2>1, <2>2 DEF C!Submit
<1>3. ASSUME NEW S \in SUBSET Sources, C!ImportFile(c, S) PROVE CountInv'
  <2>1. PICK n : n = [C!Idle EXCEPT !.at = "finish", !.page = S, !.seen = S]
    OBVIOUS
  <2>2. IsCollector(n) /\ Counts(n) /\ n.got = {}
    BY <2>1, IdleCounts
  <2>3. QED
    BY <1>1, <1>3, <2>1, <2>2 DEF C!ImportFile
<1>4. ASSUME NEW s \in Sources, C!CollectNow(c, s) PROVE CountInv'
  <2>1. PICK n : n = [C!Idle EXCEPT !.at = "fetch", !.src = s, !.copy = sources[s]]
    OBVIOUS
  <2>2. IsCollector(n) /\ Counts(n) /\ n.got = {}
    BY <2>1, IdleCounts
  <2>3. QED
    BY <1>1, <1>4, <2>1, <2>2 DEF C!CollectNow
<1>5. QED
  BY <1>2, <1>3, <1>4

\* An edit, after which nothing is said of who has which row.
LEMMA EditsCount ==
    ASSUME CountInv, col' = col, edits' = edits + 1, DOMAIN sources' \subseteq Sources
    PROVE  CountInv'
BY DEF CountInv

\* A step that leaves the collectors and the keys of the tables alone.
LEMMA OthersCount ==
    ASSUME CountInv, UNCHANGED collecting, DOMAIN rows' = DOMAIN rows
    PROVE  CountInv'
BY DEF CountInv, collecting

\* The imports write rows that are there.
LEMMA ImportsAddNone == ASSUME NEW t \in Importers, Request(t) \/ ImportStep(t) PROVE DOMAIN rows' = DOMAIN rows
<1>1. ASSUME NEW p, NEW row, SaveRow(p, row) PROVE DOMAIN rows' = DOMAIN rows
  BY <1>1 DEF SaveRow
<1>2. CASE rows' = rows
  BY <1>2
<1>3. CASE Release(t) \/ Assign(t) \/ Mark(t) \/ MarkFails(t) \/ Save(t)
  BY <1>1, <1>2, <1>3 DEF Release, Assign, Mark, MarkFails, Save
<1>4. CASE Request(t)
  BY <1>2, <1>4 DEF Request, Select, RandomAssign, BatchAssign, ImportTo
<1>5. CASE Pick(t) \/ NextSite(t) \/ Reread(t) \/ Acquire(t) \/ Test(t) \/ LookUp(t) \/ Put(t) \/ Post(t) \/ Recheck(t) \/ Send(t) \/ Finish(t)
  BY <1>2, <1>5 DEF Pick, NextSite, Reread, Acquire, Test, LookUp, Put, Post, Recheck, Send, Finish
<1>6. QED
  BY <1>3, <1>4, <1>5 DEF ImportStep

LEMMA CountInvInit == Init => CountInv
<1> SUFFICES ASSUME Init PROVE CountInv
  OBVIOUS
<1>1. col = [c \in Collectors |-> C!Idle] /\ edits = 0 /\ DOMAIN sources \subseteq Sources
  BY DEF Init, C!CollectInit
<1>2. IsCollector(C!Idle) /\ Counts(C!Idle) /\ C!Idle.got = {}
  BY FS_EmptySet DEF C!Idle, IsCollector, Counts
<1>3. \A c \in Collectors : col[c] = C!Idle
  BY <1>1
<1>4. col = [c \in Collectors |-> col[c]]
  BY <1>1, <1>3
<1>5. QED
  BY <1>1, <1>2, <1>3, <1>4 DEF CountInv

LEMMA CountInvStep == ImportInv /\ CountInv /\ [Next]_vars => CountInv'
<1> SUFFICES ASSUME ImportInv, CountInv, [Next]_vars PROVE CountInv'
  OBVIOUS
<1>1. DOMAIN rows \subseteq Products /\ DOMAIN sources \subseteq Sources
  BY CopiesTyped DEF ImportInv, SoundRows, CountInv
<1>2. CASE ImportNext /\ UNCHANGED collecting
  BY <1>2, ImportsAddNone, OthersCount DEF ImportNext
<1>3. ASSUME NEW c \in Collectors, C!CollectStep(c) PROVE CountInv'
  <2>1. CASE C!CreateProduct(c) \/ C!CreateRow(c)
    BY <1>1, <2>1, CollectWrites
  <2>2. CASE C!UpdateSource(c)
    <3>1. DOMAIN sources' = DOMAIN sources /\ rows' = rows /\ edits' = edits
      BY <2>2 DEF C!UpdateSource
    <3>2. QED
      BY <2>2, <3>1, CollectReads
  <2>3. CASE C!Begin(c) \/ C!Fetch(c) \/ C!CheckProduct(c) \/ C!Complete(c) \/ C!CheckRow(c) \/ C!FinishFile(c) \/ C!FileUnreadable(c)
    <3>1. sources' = sources /\ rows' = rows /\ edits' = edits
      BY <2>3 DEF C!Begin, C!Fetch, C!CheckProduct, C!Complete, C!CheckRow, C!FinishFile, C!FileUnreadable
    <3>2. QED
      BY <2>3, <3>1, CollectReads
  <2>4. QED
    BY <1>3, <2>1, <2>2, <2>3 DEF C!CollectStep
<1>4. ASSUME NEW s \in Sources, C!RemoveSource(s) \/ \E m \in Limits : C!SetMax(s, m) PROVE CountInv'
  BY <1>1, <1>4, EditsCount DEF C!RemoveSource, C!SetMax, C!Edit
<1>5. ASSUME NEW p \in Products, C!RemoveProduct(p) PROVE CountInv'
  BY <1>1, <1>5, EditsCount DEF C!RemoveProduct, C!Edit
<1>6. ASSUME NEW s \in Sites, Unbind(s), C!Edit, UNCHANGED <<sources, col, colJob>> PROVE CountInv'
  BY <1>1, <1>6, EditsCount DEF C!Edit
<1>7. CASE UNCHANGED vars
  BY <1>7, OthersCount DEF vars
<1>8. QED
  BY <1>2, <1>3, <1>4, <1>5, <1>6, <1>7, CollectStarts DEF Next, C!CollectNext

\* For any number of collectors, of listings and of file imports, whatever the
\* order of their look-ups and inserts: each counts exactly the rows it wrote,
\* and until a user removes some no row is counted by two (_insert_product of
\* shopify_collect_service.py, the rows of import_service.py).
THEOREM CountsAreDisjoint == Spec => []CountedOnce
<1>1. CountInv => CountedOnce
  BY DEF CountInv, Counts, CountedOnce
<1>2. Spec => []ImportInv
  BY ImportInvInit, ImportInvStep, PTL DEF Spec
<1>3. QED
  BY <1>1, <1>2, CountInvInit, CountInvStep, PTL DEF Spec
=============================================================================
