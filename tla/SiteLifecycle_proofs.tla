------------------------ MODULE SiteLifecycle_proofs ------------------------
(***************************************************************************)
(* For any sites, jobs, addresses and bounds, a row that says resolved can *)
(* be relied on.                                                           *)
(*                                                                         *)
(* Rows are saved whole, from copies that were read before, so the promise *)
(* must hold of every copy a job still works on and not only of the table; *)
(* and what a thread has counted as set must stay set while the other jobs *)
(* write.  Both rest on one fact: what jobs do to zones, to the registrar  *)
(* and to the history only adds (Grows), as long as every job of a domain  *)
(* asks for the same address.                                              *)
(***************************************************************************)
EXTENDS SiteLifecycle, TLAPS

Cells   == Contents \cup {""}
Zone    == [st : {"absent", "pending", "invalid", "active"}, aaaa : BOOLEAN, rec : [Slots -> Seq(Cells)]]
Thread  == [at : {"idle", "zone", "create", "aaaa", "search", "write", "ns", "done", "raised"},
            zone : {"none", "pending", "invalid", "active"}, n : 1..6, put : {0, 1},
            oks : SUBSET AllKinds, ns : {"none", "ok", "failed"}]
Item    == [site : Domains, row : Rows, own : BOOLEAN]
Places  == {"idle", "thread", "call", "save", "rules", "look", "insert", "sync",
            "own", "default", "removeOwn", "removeDefault", "end"}
Coroutine == [kind : JobKinds \cup {"none"}, at : Places, todo : Seq(Item), bad : BOOLEAN]

Typed ==
    /\ zone \in [Domains -> Zone]
    /\ registrar \in [Domains -> {"parked", "zone", "default"}]
    /\ run \in [Runs -> Thread]
    /\ row \in [Domains -> Rows]
    /\ task \in [Runs -> Coroutine]
    /\ job \in [Runs -> {"absent", "running", "success", "failed"}]
    /\ asked \in [Domains -> SUBSET (Addresses \cup {""})]

\* The record of a kind is there, with the address if only one was asked for.
RecordSet(z, as, d, k) ==
    \A a \in as[d] : as[d] = {a} =>
        \E i \in DOMAIN z[d].rec[Slot(k)] : z[d].rec[Slot(k)][i] = Want(d, k, a)

Resolves(z, as, g, d) ==
    /\ as[d] # {} /\ z[d].st # "absent" /\ g[d] # "parked"
    /\ \A k \in AllKinds : RecordSet(z, as, d, k)

\* What a job still has to do: the copy of a row it will save, and for a DNS
\* job the address.
ItemOk(z, as, g, kind, it) ==
    /\ it.row.cf = "resolved" => Resolves(z, as, g, it.site)
    /\ kind = "dns" => it.row.ip \in as[it.site]

\* What a thread at work on a domain has counted as set.
RunOk(z, as, g, q, d) ==
    /\ q.at \in {"zone", "create", "aaaa", "search", "write"} => q.n \in 1..5
    /\ q.at \in {"zone", "create"} => q.zone = "none"
    /\ q.at \in {"aaaa", "search", "write", "ns"} \/ q.oks # {} => q.zone # "none"
    /\ q.zone # "none" => z[d].st # "absent"
    /\ q.zone = "active" => g[d] # "parked"
    /\ q.at = "write" /\ q.put = 1 => Slot(Kinds[q.n]) # "mx" /\ z[d].rec[Slot(Kinds[q.n])] # <<>>
    /\ \A k \in q.oks : RecordSet(z, as, d, k)
    /\ q.at = "done" /\ q.zone # "none" /\ q.ns # "failed" => g[d] # "parked"

JobOk(z, as, g, t, q) ==
    /\ \A i \in DOMAIN t.todo : ItemOk(z, as, g, t.kind, t.todo[i])
    /\ t.at \notin {"idle", "end"} => t.todo # <<>>
    /\ IF t.kind = "dns" /\ t.at = "thread" THEN RunOk(z, as, g, q, Head(t.todo).site) ELSE q = NoRun

RowsOk(rs, z, as, g) == \A d \in Domains : rs[d].cf = "resolved" => Resolves(z, as, g, d)
ZonesOk(z, g)        == \A d \in Domains : z[d].st = "active" => g[d] # "parked"

LifeInv ==
    /\ Typed
    /\ RowsOk(row, zone, asked, registrar) /\ ZonesOk(zone, registrar)
    /\ \A j \in Runs : JobOk(zone, asked, registrar, task[j], run[j])
    /\ \A j \in Runs : job[j] = "absent" => task[j].at = "idle"

\* What every step keeps of a domain's zone, history and registrar.
Grows(z, as, g, z2, as2, g2) ==
    \A d \in Domains :
        /\ as[d] \subseteq as2[d]
        /\ g[d] # "parked" => g2[d] # "parked"
        /\ z[d].st # "absent" =>
            /\ z2[d].st # "absent"
            /\ \A k \in AllKinds : as[d] # {} /\ RecordSet(z, as, d, k) => RecordSet(z2, as2, d, k)
            /\ \A s \in Slots : z[d].rec[s] # <<>> => z2[d].rec[s] # <<>>

-----------------------------------------------------------------------------
(* Operators and sequences.                                                *)

LEMMA KindFacts ==
    /\ \A n \in 1..5 : Kinds[n] \in AllKinds
    /\ \A k \in AllKinds : Slot(k) \in Slots
    /\ AllKinds = {"root", "www", "mx1", "mx2", "spf"}
<1>1. AllKinds = {"root", "www", "mx1", "mx2", "spf"} BY DEF AllKinds, Kinds
<1>2. \A n \in 1..5 : Kinds[n] \in AllKinds BY DEF AllKinds
<1>3. \A k \in AllKinds : Slot(k) \in Slots BY <1>1 DEF Slot, Slots
<1> QED BY <1>1, <1>2, <1>3

\* Only the mail servers share a slot.
LEMMA OneKindOfASlot ==
    ASSUME NEW k \in AllKinds, NEW l \in AllKinds, Slot(k) = Slot(l), Slot(k) # "mx"
    PROVE  k = l
BY KindFacts DEF Slot

LEMMA WantIsACell ==
    ASSUME NEW d, NEW k \in AllKinds, NEW a \in Addresses \cup {""}
    PROVE  Want(d, k, a) \in Cells
BY KindFacts DEF Want, Cells, Contents

LEMMA HeadOf ==
    ASSUME NEW S, NEW s \in Seq(S), s # <<>>
    PROVE  Head(s) = s[1] /\ Head(s) \in S /\ 1 \in DOMAIN s
OBVIOUS

LEMMA TailOf ==
    ASSUME NEW S, NEW s \in Seq(S), s # <<>>
    PROVE  /\ Tail(s) \in Seq(S)
           /\ \A i \in DOMAIN Tail(s) : i + 1 \in DOMAIN s /\ Tail(s)[i] = s[i + 1]
           /\ Len(s) # 1 => Tail(s) # <<>>
<1>1. Tail(s) \in Seq(S) /\ Len(Tail(s)) = Len(s) - 1 /\ Len(s) \in Nat \ {0} OBVIOUS
<1>2. ASSUME NEW i \in DOMAIN Tail(s) PROVE i + 1 \in DOMAIN s /\ Tail(s)[i] = s[i + 1] OBVIOUS
<1>3. ASSUME Len(s) # 1 PROVE Len(Tail(s)) # 0 BY <1>1, <1>3
<1>4. Len(<<>>) = 0 OBVIOUS
<1> QED BY <1>1, <1>2, <1>3, <1>4

LEMMA HeadReplaced ==
    ASSUME NEW S, NEW s \in Seq(S), s # <<>>, NEW x \in S
    PROVE  /\ <<x>> \o Tail(s) \in Seq(S)
           /\ <<x>> \o Tail(s) # <<>>
           /\ \A i \in DOMAIN (<<x>> \o Tail(s)) :
                (<<x>> \o Tail(s))[i] = x \/ (i \in DOMAIN s /\ (<<x>> \o Tail(s))[i] = s[i])
<1> DEFINE t == Tail(s)
<1>1. t \in Seq(S) /\ Len(t) = Len(s) - 1 /\ Len(s) \in Nat \ {0} OBVIOUS
<1>2. \A i \in 1..Len(t) : t[i] = s[i + 1] OBVIOUS
<1>3. <<x>> \in Seq(S) /\ Len(<<x>>) = 1 /\ <<x>>[1] = x OBVIOUS
<1> HIDE DEF t
<1>4. <<x>> \o t \in Seq(S) /\ Len(<<x>> \o t) = Len(s) BY <1>1, <1>3
<1>5. ASSUME NEW i \in 1..Len(s) PROVE (<<x>> \o t)[i] = IF i = 1 THEN x ELSE t[i - 1]
    BY <1>1, <1>3
<1>6. ASSUME NEW i \in 1..Len(s), i # 1 PROVE (<<x>> \o t)[i] = s[i]
    <2>1. i - 1 \in 1..Len(t) BY <1>1, <1>6
    <2> QED BY <2>1, <1>2, <1>5, <1>6
<1>7. DOMAIN (<<x>> \o t) = 1..Len(s) /\ DOMAIN s = 1..Len(s) BY <1>4
<1>8. <<x>> \o t # <<>> BY <1>1, <1>4
<1> QED BY <1>4, <1>5, <1>6, <1>7, <1>8 DEF t

-----------------------------------------------------------------------------
(* What grows keeps the invariant's parts.                                 *)

LEMMA StaysGrown ==
    ASSUME NEW z, NEW as, NEW g
    PROVE  Grows(z, as, g, z, as, g)
BY DEF Grows

LEMMA ResolvesGrows ==
    ASSUME NEW z, NEW as, NEW g, NEW z2, NEW as2, NEW g2, Grows(z, as, g, z2, as2, g2),
           NEW d \in Domains, Resolves(z, as, g, d)
    PROVE  Resolves(z2, as2, g2, d)
BY DEF Grows, Resolves

LEMMA ItemGrows ==
    ASSUME NEW z, NEW as, NEW g, NEW z2, NEW as2, NEW g2, Grows(z, as, g, z2, as2, g2),
           NEW kind, NEW it \in Item, ItemOk(z, as, g, kind, it)
    PROVE  ItemOk(z2, as2, g2, kind, it)
<1>1. it.site \in Domains BY DEF Item
<1>2. as[it.site] \subseteq as2[it.site] BY <1>1 DEF Grows
<1> QED BY <1>1, <1>2, ResolvesGrows DEF ItemOk

LEMMA RunGrows ==
    ASSUME NEW z, NEW as, NEW g, NEW z2, NEW as2, NEW g2, Grows(z, as, g, z2, as2, g2),
           NEW d \in Domains, NEW q \in Thread, as[d] # {}, RunOk(z, as, g, q, d)
    PROVE  RunOk(z2, as2, g2, q, d)
<1>1. g[d] # "parked" => g2[d] # "parked" BY DEF Grows
<1>2. z[d].st # "absent" => z2[d].st # "absent" BY DEF Grows
<1>3. ASSUME NEW k \in q.oks PROVE RecordSet(z2, as2, d, k)
    <2>1. k \in AllKinds BY <1>3 DEF Thread
    <2>2. q.zone # "none" /\ z[d].st # "absent" /\ RecordSet(z, as, d, k) BY <1>3 DEF RunOk
    <2> QED BY <2>1, <2>2 DEF Grows
<1>4. ASSUME q.at = "write", q.put = 1
      PROVE  Slot(Kinds[q.n]) # "mx" /\ z2[d].rec[Slot(Kinds[q.n])] # <<>>
    <2>1. /\ q.n \in 1..5 /\ q.zone # "none" /\ z[d].st # "absent"
          /\ Slot(Kinds[q.n]) # "mx" /\ z[d].rec[Slot(Kinds[q.n])] # <<>>
        BY <1>4 DEF RunOk
    <2>2. Slot(Kinds[q.n]) \in Slots BY <2>1, KindFacts
    <2> QED BY <2>1, <2>2 DEF Grows
<1> QED BY <1>1, <1>2, <1>3, <1>4 DEF RunOk

LEMMA JobGrows ==
    ASSUME NEW z, NEW as, NEW g, NEW z2, NEW as2, NEW g2, Grows(z, as, g, z2, as2, g2),
           NEW t \in Coroutine, NEW q \in Thread, JobOk(z, as, g, t, q)
    PROVE  JobOk(z2, as2, g2, t, q)
<1>1. t.todo \in Seq(Item) BY DEF Coroutine
<1>2. \A i \in DOMAIN t.todo : t.todo[i] \in Item BY <1>1
<1>3. ASSUME NEW i \in DOMAIN t.todo PROVE ItemOk(z2, as2, g2, t.kind, t.todo[i])
    <2>1. ItemOk(z, as, g, t.kind, t.todo[i]) BY DEF JobOk
    <2> DEFINE it == t.todo[i]  kind == t.kind
    <2>2. it \in Item /\ ItemOk(z, as, g, kind, it) BY <1>2, <2>1
    <2> HIDE DEF it, kind
    <2>3. ItemOk(z2, as2, g2, kind, it) BY <2>2, ItemGrows
    <2> QED BY <2>3 DEF it, kind
<1>4. ASSUME t.kind = "dns", t.at = "thread" PROVE RunOk(z2, as2, g2, q, Head(t.todo).site)
    <2>1. t.todo # <<>> /\ RunOk(z, as, g, q, Head(t.todo).site) BY <1>4 DEF JobOk
    <2>2. Head(t.todo) = t.todo[1] /\ Head(t.todo) \in Item /\ 1 \in DOMAIN t.todo BY <1>1, <2>1, HeadOf
    <2>3. Head(t.todo).site \in Domains BY <2>2 DEF Item
    <2>4. ItemOk(z, as, g, t.kind, Head(t.todo)) BY <2>2 DEF JobOk
    <2>5. as[Head(t.todo).site] # {} BY <1>4, <2>4 DEF ItemOk
    <2> DEFINE d == Head(t.todo).site
    <2>6. d \in Domains /\ as[d] # {} /\ RunOk(z, as, g, q, d) BY <2>1, <2>3, <2>5
    <2> HIDE DEF d
    <2>7. RunOk(z2, as2, g2, q, d) BY <2>6, RunGrows
    <2> QED BY <2>7 DEF d
<1> QED BY <1>3, <1>4 DEF JobOk

LEMMA RowsGrow ==
    ASSUME NEW rs, NEW z, NEW as, NEW g, NEW z2, NEW as2, NEW g2, Grows(z, as, g, z2, as2, g2),
           RowsOk(rs, z, as, g)
    PROVE  RowsOk(rs, z2, as2, g2)
BY ResolvesGrows DEF RowsOk

\* A step of one job keeps what the others rely on.
LEMMA OthersKept ==
    ASSUME Typed, NEW j \in Runs, Grows(zone, asked, registrar, zone', asked', registrar'),
           \A i \in Runs : JobOk(zone, asked, registrar, task[i], run[i]),
           \A i \in Runs \ {j} : task'[i] = task[i] /\ run'[i] = run[i],
           JobOk(zone', asked', registrar', task'[j], run'[j])
    PROVE  \A i \in Runs : JobOk(zone', asked', registrar', task'[i], run'[i])
<1> SUFFICES ASSUME NEW i \in Runs \ {j} PROVE JobOk(zone', asked', registrar', task'[i], run'[i])
    OBVIOUS
<1>1. task[i] \in Coroutine /\ run[i] \in Thread BY DEF Typed
<1>2. JobOk(zone', asked', registrar', task[i], run[i]) BY <1>1, JobGrows
<1> QED BY <1>2

-----------------------------------------------------------------------------
(* The steps of a thread.                                                  *)

\* What each of them leaves: d is the domain it works on.
Advanced(r, d) ==
    /\ zone' \in [Domains -> Zone] /\ registrar' \in [Domains -> {"parked", "zone", "default"}]
    /\ run' \in [Runs -> Thread] /\ \A i \in Runs \ {r} : run'[i] = run[i]
    /\ Grows(zone, asked, registrar, zone', asked, registrar')
    /\ ZonesOk(zone', registrar')
    /\ RunOk(zone', asked, registrar', run'[r], d)

LEMMA Turned ==
    ASSUME Typed, NEW r \in Runs, NEW q \in Thread, Turn(r, q)
    PROVE  run' \in [Runs -> Thread] /\ run'[r] = q /\ \A i \in Runs \ {r} : run'[i] = run[i]
BY DEF Typed, Turn

\* A step that changes the thread alone.
LEMMA ThreadAlone ==
    ASSUME Typed, ZonesOk(zone, registrar), NEW r \in Runs, NEW d \in Domains, NEW q \in Thread,
           Turn(r, q), RunOk(zone, asked, registrar, q, d), UNCHANGED <<zone, registrar>>
    PROVE  Advanced(r, d)
<1>1. run' \in [Runs -> Thread] /\ run'[r] = q /\ \A i \in Runs \ {r} : run'[i] = run[i] BY Turned
<1>2. Grows(zone, asked, registrar, zone, asked, registrar) BY StaysGrown
<1>3. zone' = zone /\ registrar' = registrar OBVIOUS
<1>4. zone \in [Domains -> Zone] /\ registrar \in [Domains -> {"parked", "zone", "default"}] BY DEF Typed
<1> QED BY <1>1, <1>2, <1>3, <1>4 DEF Advanced

\* A thread moves on to another place, with what it has.
LEMMA Moved ==
    ASSUME NEW q \in Thread,
           NEW at \in {"idle", "zone", "create", "aaaa", "search", "write", "ns", "done", "raised"}
    PROVE  /\ [q EXCEPT !.at = at] \in Thread
           /\ [q EXCEPT !.at = at].at = at /\ [q EXCEPT !.at = at].zone = q.zone
           /\ [q EXCEPT !.at = at].n = q.n /\ [q EXCEPT !.at = at].put = q.put
           /\ [q EXCEPT !.at = at].oks = q.oks /\ [q EXCEPT !.at = at].ns = q.ns
BY DEF Thread

LEMMA NoRunTyped == NoRun \in Thread /\ Start \in Thread
BY DEF NoRun, Start, Thread

LEMMA NoRunOk ==
    ASSUME NEW z, NEW as, NEW g, NEW d
    PROVE  RunOk(z, as, g, NoRun, d) /\ RunOk(z, as, g, Start, d)
BY DEF RunOk, NoRun, Start

\* Neither the zone nor the registrar is changed: the steps that only move on.
LEMMA MovesOn ==
    ASSUME Typed, ZonesOk(zone, registrar), NEW r \in Runs, NEW d \in Domains,
           RunOk(zone, asked, registrar, run[r], d),
           \/ GetZone(r, d) \/ GetNoZone(r, d) \/ CreateRefused(r, d) \/ NameServersKept(r) \/ Raises(r)
    PROVE  Advanced(r, d)
<1>1. run[r] \in Thread /\ zone[d].st \in {"absent", "pending", "invalid", "active"} BY DEF Typed, Zone
<1>2. ASSUME GetZone(r, d) PROVE Advanced(r, d)
    <2> DEFINE q == [run[r] EXCEPT !.at = "aaaa", !.zone = zone[d].st]
    <2>1. run[r].at = "zone" /\ zone[d].st # "absent" /\ Turn(r, q) /\ UNCHANGED <<zone, registrar>>
        BY <1>2 DEF GetZone, At
    <2>2. /\ q \in Thread /\ q.at = "aaaa" /\ q.zone = zone[d].st /\ q.n = run[r].n
          /\ q.put = run[r].put /\ q.oks = run[r].oks /\ q.ns = run[r].ns
        BY <1>1, <2>1 DEF Thread
    <2>3. q.zone = "active" => registrar[d] # "parked" BY <2>2 DEF ZonesOk
    <2>4. RunOk(zone, asked, registrar, q, d)
        <3> HIDE DEF q
        <3> QED BY <1>1, <2>1, <2>2, <2>3 DEF RunOk
    <2> HIDE DEF q
    <2> QED BY <2>1, <2>2, <2>4, ThreadAlone
<1>3. ASSUME NEW at \in {"create", "done", "raised"}, Goes(r, at), UNCHANGED <<zone, registrar>>,
             at = "create" => run[r].at = "zone",
             at = "done" => run[r].at = "create" \/ run[r].zone = "active"
      PROVE  Advanced(r, d)
    <2> DEFINE q == [run[r] EXCEPT !.at = at]
    <2>1. /\ q \in Thread /\ q.at = at /\ q.zone = run[r].zone /\ q.n = run[r].n
          /\ q.put = run[r].put /\ q.oks = run[r].oks /\ q.ns = run[r].ns
        BY <1>1, <1>3 DEF Thread
    <2>2. Turn(r, q) BY <1>3 DEF Goes
    <2> HIDE DEF q
    <2>3. RunOk(zone, asked, registrar, q, d) BY <1>3, <2>1 DEF RunOk
    <2> QED BY <1>3, <2>1, <2>2, <2>3, ThreadAlone
<1>4. ASSUME GetNoZone(r, d) PROVE Advanced(r, d) BY <1>3, <1>4 DEF GetNoZone, At
<1>5. ASSUME CreateRefused(r, d) PROVE Advanced(r, d) BY <1>3, <1>5 DEF CreateRefused, At
<1>6. ASSUME NameServersKept(r) PROVE Advanced(r, d) BY <1>3, <1>6 DEF NameServersKept, At
<1>7. ASSUME Raises(r) PROVE Advanced(r, d) BY <1>3, <1>7 DEF Raises
<1> QED BY <1>2, <1>4, <1>5, <1>6, <1>7

\* A change of one zone that keeps its slots.
LEMMA ZoneChanged ==
    ASSUME Typed, NEW d \in Domains, NEW y \in Zone, zone' = [zone EXCEPT ![d] = y], registrar' = registrar,
           zone[d].st # "absent" =>
              /\ y.st # "absent" /\ y.rec = zone[d].rec
    PROVE  Grows(zone, asked, registrar, zone', asked, registrar')
<1> SUFFICES ASSUME NEW e \in Domains, zone[e].st # "absent"
             PROVE  /\ zone'[e].st # "absent"
                    /\ \A k \in AllKinds : RecordSet(zone, asked, e, k) => RecordSet(zone', asked, e, k)
                    /\ \A s \in Slots : zone[e].rec[s] # <<>> => zone'[e].rec[s] # <<>>
    BY DEF Grows
<1>1. zone'[e].st # "absent" /\ zone'[e].rec = zone[e].rec BY DEF Typed
<1> QED BY <1>1 DEF RecordSet

LEMMA IPv6Goes ==
    ASSUME Typed, ZonesOk(zone, registrar), NEW r \in Runs, NEW d \in Domains,
           RunOk(zone, asked, registrar, run[r], d), DeleteIPv6(r, d)
    PROVE  Advanced(r, d)
<1> DEFINE q == [run[r] EXCEPT !.at = "search"]
           y == [zone[d] EXCEPT !.aaaa = FALSE]
<1>1. run[r] \in Thread /\ zone[d] \in Zone /\ zone \in [Domains -> Zone] BY DEF Typed
<1>2. run[r].at = "aaaa" /\ Turn(r, q) /\ registrar' = registrar /\ (zone' = zone \/ zone' = [zone EXCEPT ![d] = y])
    BY DEF DeleteIPv6, At, Goes
<1>3. /\ q \in Thread /\ q.at = "search" /\ q.zone = run[r].zone /\ q.n = run[r].n
      /\ q.put = run[r].put /\ q.oks = run[r].oks /\ q.ns = run[r].ns
    BY <1>1 DEF Thread
<1>4. y \in Zone /\ y.st = zone[d].st /\ y.rec = zone[d].rec BY <1>1 DEF Zone
<1> HIDE DEF q, y
<1>5. RunOk(zone, asked, registrar, q, d) BY <1>2, <1>3 DEF RunOk
<1>6. CASE zone' = zone BY <1>2, <1>3, <1>5, <1>6, ThreadAlone
<1>7. CASE zone' = [zone EXCEPT ![d] = y]
    <2>1. Grows(zone, asked, registrar, zone', asked, registrar') BY <1>2, <1>4, <1>7, ZoneChanged
    <2>2. run' \in [Runs -> Thread] /\ run'[r] = q /\ \A i \in Runs \ {r} : run'[i] = run[i]
        BY <1>2, <1>3, Turned
    <2>4. zone' \in [Domains -> Zone] /\ registrar' \in [Domains -> {"parked", "zone", "default"}]
        BY <1>1, <1>2, <1>4, <1>7 DEF Typed
    <2>5. \A e \in Domains : zone'[e].st = zone[e].st /\ zone'[e].rec = zone[e].rec BY <1>1, <1>4, <1>7
    <2>6. ZonesOk(zone', registrar') BY <1>2, <2>5 DEF ZonesOk
    <2>7. RunOk(zone', asked, registrar', q, d) BY <1>2, <1>5, <2>5 DEF RunOk, RecordSet
    <2> QED BY <2>1, <2>2, <2>4, <2>6, <2>7 DEF Advanced
<1> QED BY <1>2, <1>6, <1>7

LEMMA ZoneMade ==
    ASSUME Typed, ZonesOk(zone, registrar), NEW r \in Runs, NEW d \in Domains,
           RunOk(zone, asked, registrar, run[r], d), CreateZone(r, d)
    PROVE  Advanced(r, d)
<1>1. run[r] \in Thread /\ zone \in [Domains -> Zone] BY DEF Typed
<1>2. run[r].at = "create" /\ zone[d].st = "absent" /\ registrar' = registrar BY DEF CreateZone, At
<1>3. PICK b \in Addresses : zone' = [zone EXCEPT ![d] = Scanned(b)] BY DEF CreateZone
<1>4. Scanned(b) \in Zone /\ Scanned(b).st = "pending"
    <2>1. b \in Cells /\ "other" \in Cells BY DEF Cells, Contents
    <2>2. \A c \in Cells : <<c>> \in Seq(Cells) OBVIOUS
    <2>3. <<>> \in Seq(Cells) OBVIOUS
    <2> QED BY <2>1, <2>2, <2>3 DEF Scanned, Zone
<1>5. run[r].zone = "none" /\ run[r].oks = {} /\ run[r].n \in 1..5 BY <1>1, <1>2 DEF RunOk
<1>6. PICK q \in Thread : /\ Turn(r, q) /\ q.oks = {} /\ q.n \in 1..5
                          /\ \/ q.at = "aaaa" /\ q.zone = "pending"
                             \/ q.at = "done" /\ q.zone = "none"
    <2>1. [run[r] EXCEPT !.at = "aaaa", !.zone = "pending"] \in Thread
          /\ [run[r] EXCEPT !.at = "done"] \in Thread
        BY <1>1 DEF Thread
    <2>2. Turn(r, [run[r] EXCEPT !.at = "aaaa", !.zone = "pending"]) \/ Turn(r, [run[r] EXCEPT !.at = "done"])
        BY DEF CreateZone, Goes
    <2> QED BY <1>1, <1>5, <2>1, <2>2 DEF Thread
<1>7. run' \in [Runs -> Thread] /\ run'[r] = q /\ \A i \in Runs \ {r} : run'[i] = run[i] BY <1>6, Turned
<1>8. zone' \in [Domains -> Zone] /\ zone'[d].st = "pending" /\ \A e \in Domains \ {d} : zone'[e] = zone[e]
    BY <1>1, <1>3, <1>4
<1>9. Grows(zone, asked, registrar, zone', asked, registrar')
    <2>1. ASSUME NEW e \in Domains, zone[e].st # "absent" PROVE zone'[e] = zone[e] BY <1>2, <1>8, <2>1
    <2>2. ASSUME NEW e \in Domains, zone[e].st # "absent", NEW k \in AllKinds, RecordSet(zone, asked, e, k)
          PROVE  RecordSet(zone', asked, e, k)
        BY <2>1, <2>2 DEF RecordSet
    <2> QED BY <1>2, <2>1, <2>2 DEF Grows
<1>10. ZonesOk(zone', registrar') BY <1>2, <1>8 DEF ZonesOk
<1>11. RunOk(zone', asked, registrar', q, d) BY <1>6, <1>8 DEF RunOk
<1> QED BY <1>2, <1>7, <1>8, <1>9, <1>10, <1>11 DEF Advanced, Typed

\* The registrar leaves the parked name servers, or stays as it was.
LEMMA ServersSet ==
    ASSUME Typed, ZonesOk(zone, registrar), NEW d \in Domains, NEW whose \in {"zone", "default"},
           NEW ok \in BOOLEAN, SetNameServers(d, whose, ok), UNCHANGED <<zone, asked>>
    PROVE  /\ registrar' \in [Domains -> {"parked", "zone", "default"}]
           /\ ok => registrar'[d] # "parked"
           /\ Grows(zone, asked, registrar, zone', asked', registrar')
           /\ ZonesOk(zone', registrar')
<1>1. registrar \in [Domains -> {"parked", "zone", "default"}] BY DEF Typed
<1>2. registrar' = [registrar EXCEPT ![d] = whose] \/ (~ok /\ registrar' = registrar) BY DEF SetNameServers
<1>3. \A e \in Domains : registrar[e] # "parked" => registrar'[e] # "parked" BY <1>1, <1>2
<1>4. Grows(zone, asked, registrar, zone, asked, registrar') BY <1>3 DEF Grows
<1>5. ZonesOk(zone, registrar') BY <1>3 DEF ZonesOk
<1> QED BY <1>1, <1>2, <1>4, <1>5

LEMMA ServersNamed ==
    ASSUME Typed, ZonesOk(zone, registrar), NEW r \in Runs, NEW d \in Domains, UNCHANGED asked,
           RunOk(zone, asked, registrar, run[r], d), NameServers(r, d)
    PROVE  Advanced(r, d)
<1>1. run[r] \in Thread BY DEF Typed
<1>2. run[r].at = "ns" /\ run[r].zone \in {"pending", "invalid"} /\ zone' = zone BY DEF NameServers, At
<1>3. PICK ok \in BOOLEAN : /\ SetNameServers(d, "zone", ok)
                            /\ Turn(r, [run[r] EXCEPT !.at = "done", !.ns = IF ok THEN "ok" ELSE "failed"])
    BY DEF NameServers
<1> DEFINE q == [run[r] EXCEPT !.at = "done", !.ns = IF ok THEN "ok" ELSE "failed"]
<1>4. /\ q \in Thread /\ q.at = "done" /\ q.zone = run[r].zone /\ q.oks = run[r].oks
      /\ q.ns = (IF ok THEN "ok" ELSE "failed")
    BY <1>1 DEF Thread
<1>5. Turn(r, q) BY <1>3
<1> HIDE DEF q
<1>6. run' \in [Runs -> Thread] /\ run'[r] = q /\ \A i \in Runs \ {r} : run'[i] = run[i] BY <1>4, <1>5, Turned
<1>7. /\ registrar' \in [Domains -> {"parked", "zone", "default"}]
      /\ ok => registrar'[d] # "parked"
      /\ Grows(zone, asked, registrar, zone', asked', registrar')
      /\ ZonesOk(zone', registrar')
    BY <1>2, <1>3, ServersSet
<1>8. \A k \in q.oks : RecordSet(zone, asked, d, k) BY <1>4 DEF RunOk
<1>9. q.zone # "none" /\ zone[d].st # "absent" /\ q.zone # "active" BY <1>2, <1>4 DEF RunOk
<1>10. q.ns # "failed" => registrar'[d] # "parked" BY <1>4, <1>7
<1>11. RunOk(zone, asked, registrar', q, d) BY <1>4, <1>8, <1>9, <1>10 DEF RunOk
<1>12. zone' = zone /\ zone \in [Domains -> Zone] BY <1>2 DEF Typed
<1> QED BY <1>6, <1>7, <1>11, <1>12 DEF Advanced

-----------------------------------------------------------------------------
(* The records.                                                            *)

\* A thread that has settled one record, in zone z.
LEMMA RecordSettled ==
    ASSUME NEW z, NEW as, NEW g, Typed, NEW r \in Runs, NEW d \in Domains, NEW ok \in BOOLEAN,
           RunOk(z, as, g, run[r], d), run[r].at \in {"search", "write"},
           ok => RecordSet(z, as, d, Kind(r)), Settled(r, ok)
    PROVE  \E q \in Thread : Turn(r, q) /\ RunOk(z, as, g, q, d)
<1>1. run[r] \in Thread BY DEF Typed
<1>2. run[r].n \in 1..5 /\ run[r].zone # "none" BY DEF RunOk
<1>3. Kind(r) \in AllKinds BY <1>2, KindFacts DEF Kind
<1> DEFINE o == IF ok THEN run[r].oks \cup {Kind(r)} ELSE run[r].oks
           at == IF run[r].n = 5 THEN "ns" ELSE "search"
           m == run[r].n + 1
           q == [run[r] EXCEPT !.at = at, !.put = 0, !.n = m, !.oks = o]
<1>4. o \in SUBSET AllKinds /\ \A k \in o : RecordSet(z, as, d, k) BY <1>1, <1>3 DEF Thread, RunOk
<1>5. m \in 1..6 /\ (at = "search" => m \in 1..5) BY <1>2
<1>6. at \in {"ns", "search"} OBVIOUS
<1>7. Turn(r, q) BY DEF Settled
<1> HIDE DEF o, at, m
<1>8. /\ q \in Thread /\ q.at = at /\ q.put = 0 /\ q.n = m /\ q.oks = o
      /\ q.zone = run[r].zone /\ q.ns = run[r].ns
    BY <1>1, <1>4, <1>5, <1>6 DEF Thread
<1> HIDE DEF q
<1>9. RunOk(z, as, g, q, d) BY <1>2, <1>4, <1>5, <1>6, <1>8 DEF RunOk
<1> QED BY <1>7, <1>8, <1>9

LEMMA RecordSearched ==
    ASSUME Typed, ZonesOk(zone, registrar), NEW r \in Runs, NEW d \in Domains, NEW a \in asked[d],
           RunOk(zone, asked, registrar, run[r], d), SearchRecord(r, d, a)
    PROVE  Advanced(r, d)
<1> DEFINE k == Kind(r)
           found == Search(d, k)
<1>1. /\ run[r] \in Thread /\ run[r].at = "search" /\ UNCHANGED <<zone, registrar>>
      /\ run[r].n \in 1..5 /\ run[r].zone # "none"
    BY DEF Typed, SearchRecord, At, RunOk
<1>2. k \in AllKinds /\ Slot(k) \in Slots BY <1>1, KindFacts DEF Kind
<1>3. found = zone[d].rec[Slot(k)] \/ found = <<>> BY DEF Search
<1>4. \/ Settled(r, FALSE)
      \/ InPlace(k, Want(d, k, a), found) /\ Settled(r, TRUE)
      \/ Turn(r, [run[r] EXCEPT !.at = "write", !.put = Over(k, found)])
    BY DEF SearchRecord
<1>5. zone[d].rec[Slot(k)] \in Seq(Cells) /\ <<>> \in Seq(Cells)
    <2> HIDE DEF k
    <2>1. zone[d].rec \in [Slots -> Seq(Cells)] BY DEF Typed, Zone
    <2> QED BY <1>2, <2>1
<1>6. ASSUME InPlace(k, Want(d, k, a), found) PROVE RecordSet(zone, asked, d, k)
    <2>1. PICK i \in DOMAIN found : found[i] = Want(d, k, a)
        <3> HIDE DEF found, k
        <3>1. CASE k \in {"root", "www"}
            <4>1. found # <<>> /\ found[1] = Want(d, k, a) BY <1>6, <3>1 DEF InPlace
            <4>2. found \in Seq(Cells) BY <1>3, <1>5
            <4>3. 1 \in DOMAIN found BY <4>1, <4>2, HeadOf
            <4> QED BY <4>1, <4>3
        <3>2. CASE k \notin {"root", "www"} BY <1>6, <3>2 DEF InPlace
        <3> QED BY <3>1, <3>2
    <2>2. found = zone[d].rec[Slot(k)] BY <1>3, <2>1
    <2> HIDE DEF found, k
    <2> QED BY <2>1, <2>2 DEF RecordSet
<1>7. ASSUME NEW q \in Thread, Turn(r, q), RunOk(zone, asked, registrar, q, d) PROVE Advanced(r, d)
    BY <1>1, <1>7, ThreadAlone
<1>8. CASE Settled(r, FALSE) BY <1>1, <1>7, <1>8, RecordSettled
<1>9. CASE InPlace(k, Want(d, k, a), found) /\ Settled(r, TRUE) BY <1>1, <1>6, <1>7, <1>9, RecordSettled
<1>10. CASE Turn(r, [run[r] EXCEPT !.at = "write", !.put = Over(k, found)])
    <2> DEFINE p == Over(k, found)
               q == [run[r] EXCEPT !.at = "write", !.put = p]
    <2>1. p \in {0, 1} /\ (p = 1 => Slot(k) # "mx" /\ found # <<>>) BY DEF Over
    <2>2. p = 1 => Slot(Kinds[run[r].n]) # "mx" /\ zone[d].rec[Slot(Kinds[run[r].n])] # <<>>
        BY <1>3, <2>1 DEF Kind
    <2>3. Turn(r, q) BY <1>10
    <2> HIDE DEF p
    <2>4. /\ q \in Thread /\ q.at = "write" /\ q.put = p /\ q.n = run[r].n /\ q.oks = run[r].oks
          /\ q.zone = run[r].zone /\ q.ns = run[r].ns
        BY <1>1, <2>1 DEF Thread
    <2> HIDE DEF q
    <2>5. RunOk(zone, asked, registrar, q, d) BY <1>1, <2>2, <2>4 DEF RunOk
    <2> QED BY <1>7, <2>3, <2>4, <2>5
<1> QED BY <1>4, <1>8, <1>9, <1>10

\* A write over the first record of a slot, or behind the last one.
LEMMA CellWritten ==
    ASSUME NEW have \in Seq(Cells), NEW w \in Cells, NEW put \in {0, 1}, put = 1 => have # <<>>,
           NEW s, s = IF put = 0 THEN Append(have, w) ELSE [have EXCEPT ![put] = w]
    PROVE  /\ s \in Seq(Cells)
           /\ s # <<>> /\ DOMAIN have \subseteq DOMAIN s
           /\ \E i \in DOMAIN s : s[i] = w
           /\ \A i \in DOMAIN have : s[i] = have[i] \/ (put = 1 /\ s[i] = w)
<1>1. CASE put = 0
    <2>1. s = Append(have, w) BY <1>1
    <2>2. s \in Seq(Cells) /\ Len(s) = Len(have) + 1 /\ s[Len(have) + 1] = w /\ Len(have) \in Nat BY <2>1
    <2>3. \A i \in 1..Len(have) : s[i] = have[i] BY <2>1
    <2>4. DOMAIN s = 1..Len(s) /\ DOMAIN have = 1..Len(have) BY <2>2
    <2>5. s # <<>> /\ Len(have) + 1 \in DOMAIN s /\ DOMAIN have \subseteq DOMAIN s BY <2>2, <2>4
    <2> QED BY <2>2, <2>3, <2>4, <2>5
<1>2. CASE put = 1
    <2>1. s = [have EXCEPT ![1] = w] BY <1>2
    <2>2. s \in Seq(Cells) /\ Len(s) = Len(have) BY <2>1
    <2>3. 1 \in DOMAIN have BY <1>2, HeadOf
    <2>4. DOMAIN s = DOMAIN have /\ s[1] = w /\ \A i \in DOMAIN have : s[i] = have[i] \/ s[i] = w
        BY <2>1, <2>3
    <2>5. s # <<>> BY <2>2, <2>3, <2>4
    <2> QED BY <1>2, <2>2, <2>3, <2>4, <2>5
<1> QED BY <1>1, <1>2

\* A record that is written is there, and takes no other's place as long as
\* one address alone was asked for.
LEMMA RecordWritten ==
    ASSUME Typed, ZonesOk(zone, registrar), NEW r \in Runs, NEW d \in Domains, NEW a \in asked[d],
           RunOk(zone, asked, registrar, run[r], d), run[r].at = "write",
           Written(d, Kind(r), run[r].put, Want(d, Kind(r), a)), registrar' = registrar
    PROVE  /\ zone' \in [Domains -> Zone]
           /\ Grows(zone, asked, registrar, zone', asked, registrar')
           /\ ZonesOk(zone', registrar')
           /\ RecordSet(zone', asked, d, Kind(r))
<1> DEFINE k == Kind(r)
           w == Want(d, k, a)
           have == zone[d].rec[Slot(k)]
           put == run[r].put
           s == IF put = 0 THEN Append(have, w) ELSE [have EXCEPT ![put] = w]
           y == [zone[d] EXCEPT !.rec = [zone[d].rec EXCEPT ![Slot(k)] = s]]
<1>1. /\ run[r] \in Thread /\ run[r].n \in 1..5 /\ run[r].zone # "none" /\ zone[d].st # "absent"
      /\ zone \in [Domains -> Zone]
    BY DEF Typed, RunOk
<1>2. k \in AllKinds /\ Slot(k) \in Slots BY <1>1, KindFacts DEF Kind
<1>3. a \in Addresses \cup {""} BY DEF Typed
<1>4. w \in Cells
    <2> HIDE DEF k
    <2> QED BY <1>2, <1>3, WantIsACell
<1>5. have \in Seq(Cells)
    <2> HIDE DEF k
    <2>1. zone[d].rec \in [Slots -> Seq(Cells)] BY DEF Typed, Zone
    <2> QED BY <1>2, <2>1
<1>6. put \in {0, 1} BY <1>1 DEF Thread
<1>7. put = 1 => Slot(k) # "mx" /\ have # <<>> BY DEF RunOk, Kind
<1>8. zone' = [zone EXCEPT ![d].rec[Slot(k)] = s] BY DEF Written
<1> HIDE DEF k, w, have, put
<1>9. /\ s \in Seq(Cells)
      /\ s # <<>> /\ DOMAIN have \subseteq DOMAIN s
      /\ \E i \in DOMAIN s : s[i] = w
      /\ \A i \in DOMAIN have : s[i] = have[i] \/ (put = 1 /\ s[i] = w)
    <2> DEFINE x == s
    <2>1. x = IF put = 0 THEN Append(have, w) ELSE [have EXCEPT ![put] = w] OBVIOUS
    <2> HIDE DEF x
    <2>2. /\ x \in Seq(Cells)
          /\ x # <<>> /\ DOMAIN have \subseteq DOMAIN x
          /\ \E i \in DOMAIN x : x[i] = w
          /\ \A i \in DOMAIN have : x[i] = have[i] \/ (put = 1 /\ x[i] = w)
        BY <1>4, <1>5, <1>6, <1>7, <2>1, CellWritten
    <2> QED BY <2>2 DEF x
<1> HIDE DEF s
<1>10. y \in Zone /\ y.st = zone[d].st /\ y.rec = [zone[d].rec EXCEPT ![Slot(k)] = s]
    <2>1. zone[d] \in Zone BY <1>1
    <2> QED BY <1>9, <2>1 DEF Zone
<1>11. /\ zone' \in [Domains -> Zone] /\ \A e \in Domains : zone'[e].st = zone[e].st
       /\ \A e \in Domains \ {d} : zone'[e] = zone[e]
       /\ zone'[d].rec = [zone[d].rec EXCEPT ![Slot(k)] = s]
    <2>1. zone' = [zone EXCEPT ![d] = y] BY <1>8
    <2> HIDE DEF y
    <2> QED BY <1>1, <1>10, <2>1
<1>12. /\ zone'[d].rec[Slot(k)] = s
       /\ \A t \in Slots \ {Slot(k)} : zone'[d].rec[t] = zone[d].rec[t]
    <2>1. zone[d].rec \in [Slots -> Seq(Cells)] BY <1>1 DEF Zone
    <2> QED BY <1>2, <1>11, <2>1
<1>13. RecordSet(zone', asked, d, k)
    <2> SUFFICES ASSUME NEW b \in asked[d], asked[d] = {b}
                 PROVE  \E i \in DOMAIN zone'[d].rec[Slot(k)] : zone'[d].rec[Slot(k)][i] = Want(d, k, b)
        BY DEF RecordSet
    <2>1. a = b OBVIOUS
    <2> QED BY <1>9, <1>12, <2>1 DEF w
<1>14. ASSUME NEW l \in AllKinds, RecordSet(zone, asked, d, l) PROVE RecordSet(zone', asked, d, l)
    <2>1. Slot(l) \in Slots BY KindFacts
    <2>2. CASE Slot(l) # Slot(k) BY <1>12, <1>14, <2>1, <2>2 DEF RecordSet
    <2>3. CASE Slot(l) = Slot(k) /\ put = 1
        <3>1. l = k BY <1>2, <1>7, <2>3, OneKindOfASlot
        <3> QED BY <1>13, <3>1
    <2>4. CASE Slot(l) = Slot(k) /\ put = 0
        <3> SUFFICES ASSUME NEW b \in asked[d], asked[d] = {b}
                     PROVE  \E i \in DOMAIN zone'[d].rec[Slot(l)] : zone'[d].rec[Slot(l)][i] = Want(d, l, b)
            BY DEF RecordSet
        <3>1. PICK i \in DOMAIN have : have[i] = Want(d, l, b) BY <1>14, <2>4 DEF RecordSet, have
        <3>2. i \in DOMAIN s /\ s[i] = have[i] BY <1>9, <2>4
        <3> QED BY <1>12, <2>4, <3>1, <3>2
    <2> QED BY <1>6, <2>2, <2>3, <2>4
<1>15. Grows(zone, asked, registrar, zone', asked, registrar')
    <2> SUFFICES ASSUME NEW e \in Domains, zone[e].st # "absent"
                 PROVE  /\ zone'[e].st # "absent"
                        /\ \A l \in AllKinds : RecordSet(zone, asked, e, l) => RecordSet(zone', asked, e, l)
                        /\ \A t \in Slots : zone[e].rec[t] # <<>> => zone'[e].rec[t] # <<>>
        BY DEF Grows
    <2>1. CASE e = d BY <1>9, <1>11, <1>12, <1>14, <2>1
    <2>2. CASE e # d BY <1>11, <2>2 DEF RecordSet
    <2> QED BY <2>1, <2>2
<1>16. ZonesOk(zone', registrar') BY <1>11 DEF ZonesOk
<1> QED BY <1>11, <1>13, <1>15, <1>16 DEF k

LEMMA WriteTried ==
    ASSUME Typed, ZonesOk(zone, registrar), NEW r \in Runs, NEW d \in Domains, NEW a \in asked[d],
           RunOk(zone, asked, registrar, run[r], d), WriteRecord(r, d, a)
    PROVE  Advanced(r, d)
<1>1. run[r] \in Thread /\ run[r].at = "write" /\ registrar' = registrar BY DEF Typed, WriteRecord, At
<1>2. \/ Settled(r, FALSE) /\ zone' = zone
      \/ /\ Written(d, Kind(r), run[r].put, Want(d, Kind(r), a))
         /\ Settled(r, TRUE) \/ Settled(r, run[r].put # 0)
    BY DEF WriteRecord
<1>3. CASE Settled(r, FALSE) /\ zone' = zone
    <2>1. PICK q \in Thread : Turn(r, q) /\ RunOk(zone, asked, registrar, q, d) BY <1>1, <1>3, RecordSettled
    <2> QED BY <1>1, <1>3, <2>1, ThreadAlone
<1>4. CASE /\ Written(d, Kind(r), run[r].put, Want(d, Kind(r), a))
           /\ Settled(r, TRUE) \/ Settled(r, run[r].put # 0)
    <2>1. /\ zone' \in [Domains -> Zone]
          /\ Grows(zone, asked, registrar, zone', asked, registrar')
          /\ ZonesOk(zone', registrar')
          /\ RecordSet(zone', asked, d, Kind(r))
        BY <1>1, <1>4, RecordWritten
    <2>2. RunOk(zone', asked, registrar', run[r], d) BY <1>1, <2>1, RunGrows
    <2>3. PICK ok \in BOOLEAN : Settled(r, ok) BY <1>4
    <2>4. PICK q \in Thread : Turn(r, q) /\ RunOk(zone', asked, registrar', q, d)
        BY <1>1, <2>1, <2>2, <2>3, RecordSettled
    <2>5. run' \in [Runs -> Thread] /\ run'[r] = q /\ \A i \in Runs \ {r} : run'[i] = run[i]
        BY <2>4, Turned
    <2> QED BY <1>1, <2>1, <2>4, <2>5 DEF Advanced, Typed
<1> QED BY <1>2, <1>3, <1>4

LEMMA ThreadSteps ==
    ASSUME Typed, ZonesOk(zone, registrar), NEW r \in Runs, NEW d \in Domains, NEW a \in asked[d],
           UNCHANGED asked, RunOk(zone, asked, registrar, run[r], d), RunStep(r, d, a)
    PROVE  Advanced(r, d)
BY MovesOn, ZoneMade, IPv6Goes, RecordSearched, WriteTried, ServersNamed DEF RunStep

-----------------------------------------------------------------------------
(* The steps of a job.                                                     *)

\* What a job at work has at hand.
LEMMA AtWork ==
    ASSUME LifeInv, NEW j \in Runs, task[j].at \notin {"idle", "end"}
    PROVE  /\ task[j] \in Coroutine /\ run[j] \in Thread
           /\ task[j].todo \in Seq(Item) /\ task[j].todo # <<>>
           /\ Here(j) \in Item /\ Site(j) \in Domains /\ Copy(j) \in Rows
           /\ ItemOk(zone, asked, registrar, task[j].kind, Here(j))
           /\ job[j] # "absent"
<1>1. task[j] \in Coroutine /\ run[j] \in Thread BY DEF LifeInv, Typed
<1>2. task[j].todo \in Seq(Item) BY <1>1 DEF Coroutine
<1>3. JobOk(zone, asked, registrar, task[j], run[j]) BY DEF LifeInv
<1>4. task[j].todo # <<>> BY <1>3 DEF JobOk
<1>5. /\ Head(task[j].todo) = task[j].todo[1] /\ Head(task[j].todo) \in Item
      /\ 1 \in DOMAIN task[j].todo
    BY <1>2, <1>4, HeadOf
<1>6. ItemOk(zone, asked, registrar, task[j].kind, Here(j)) BY <1>3, <1>5 DEF JobOk, Here
<1>7. Here(j) \in Item BY <1>5 DEF Here
<1>8. Site(j) \in Domains /\ Copy(j) \in Rows BY <1>7 DEF Site, Copy, Item
<1>9. job[j] # "absent" BY DEF LifeInv
<1> QED BY <1>1, <1>2, <1>4, <1>6, <1>7, <1>8, <1>9

\* One job's step, in any zones, registrar and history that have grown.
LEMMA JobStepKeeps ==
    ASSUME LifeInv, NEW j \in Runs, NEW t \in Coroutine, task' = [task EXCEPT ![j] = t],
           zone' \in [Domains -> Zone], registrar' \in [Domains -> {"parked", "zone", "default"}],
           asked' \in [Domains -> SUBSET (Addresses \cup {""})],
           run' \in [Runs -> Thread], \A i \in Runs \ {j} : run'[i] = run[i],
           Grows(zone, asked, registrar, zone', asked', registrar'), ZonesOk(zone', registrar'),
           JobOk(zone', asked', registrar', t, run'[j]),
           row' \in [Domains -> Rows], RowsOk(row', zone', asked', registrar'),
           job' \in [Runs -> {"absent", "running", "success", "failed"}],
           \A i \in Runs \ {j} : job'[i] = job[i], job'[j] # "absent"
    PROVE  LifeInv'
<1>1. task \in [Runs -> Coroutine] BY DEF LifeInv, Typed
<1>2. task' \in [Runs -> Coroutine] /\ task'[j] = t /\ \A i \in Runs \ {j} : task'[i] = task[i] BY <1>1
<1>3. Typed' BY <1>2 DEF Typed
<1>4. \A i \in Runs : JobOk(zone', asked', registrar', task'[i], run'[i]) BY <1>2, OthersKept DEF LifeInv
<1>5. \A i \in Runs : job'[i] = "absent" => task'[i].at = "idle" BY <1>2 DEF LifeInv
<1>6. RowsOk(row, zone, asked, registrar)' /\ ZonesOk(zone, registrar)' BY DEF RowsOk, ZonesOk, Resolves, RecordSet
<1>7. \A i \in Runs : JobOk(zone, asked, registrar, task[i], run[i])'
    BY <1>4 DEF JobOk, ItemOk, RunOk, Resolves, RecordSet
<1> QED BY <1>3, <1>5, <1>6, <1>7 DEF LifeInv

\* One job's step that leaves zones, registrar and history alone.
LEMMA QuietStepKeeps ==
    ASSUME LifeInv, NEW j \in Runs, NEW t \in Coroutine, task' = [task EXCEPT ![j] = t],
           UNCHANGED <<zone, registrar, asked>>,
           run' \in [Runs -> Thread], \A i \in Runs \ {j} : run'[i] = run[i],
           JobOk(zone, asked, registrar, t, run'[j]),
           row' \in [Domains -> Rows], RowsOk(row', zone, asked, registrar),
           job' \in [Runs -> {"absent", "running", "success", "failed"}],
           \A i \in Runs \ {j} : job'[i] = job[i], job'[j] # "absent"
    PROVE  LifeInv'
<1>1. zone' = zone /\ registrar' = registrar /\ asked' = asked OBVIOUS
<1>2. Grows(zone, asked, registrar, zone', asked', registrar') BY <1>1, StaysGrown
<1>3. ZonesOk(zone', registrar') BY <1>1 DEF LifeInv
<1>4. JobOk(zone', asked', registrar', t, run'[j]) BY <1>1
<1>5. RowsOk(row', zone', asked', registrar') BY <1>1
<1>6. /\ zone' \in [Domains -> Zone] /\ registrar' \in [Domains -> {"parked", "zone", "default"}]
      /\ asked' \in [Domains -> SUBSET (Addresses \cup {""})]
    BY <1>1 DEF LifeInv, Typed
<1> QED BY <1>2, <1>3, <1>4, <1>5, <1>6, JobStepKeeps

\* One job's step that leaves the threads and the jobs' rows alone too.
LEMMA CoroutineStepKeeps ==
    ASSUME LifeInv, NEW j \in Runs, NEW t \in Coroutine, task' = [task EXCEPT ![j] = t],
           UNCHANGED <<zone, registrar, asked, run, job>>, job[j] # "absent",
           JobOk(zone, asked, registrar, t, run[j]),
           row' \in [Domains -> Rows], RowsOk(row', zone, asked, registrar)
    PROVE  LifeInv'
<1>1. run \in [Runs -> Thread] /\ job \in [Runs -> {"absent", "running", "success", "failed"}]
    BY DEF LifeInv, Typed
<1>2. run' \in [Runs -> Thread] /\ (\A i \in Runs \ {j} : run'[i] = run[i]) /\ run'[j] = run[j] BY <1>1
<1>3. job' \in [Runs -> {"absent", "running", "success", "failed"}] /\ job'[j] # "absent"
      /\ \A i \in Runs \ {j} : job'[i] = job[i]
    BY <1>1
<1>4. JobOk(zone, asked, registrar, t, run'[j]) BY <1>2
<1>5. UNCHANGED <<zone, registrar, asked>> OBVIOUS
<1> QED BY <1>2, <1>3, <1>4, <1>5, QuietStepKeeps

LEMMA RowsStay ==
    ASSUME LifeInv, row' = row
    PROVE  row' \in [Domains -> Rows] /\ RowsOk(row', zone, asked, registrar)
BY DEF LifeInv, Typed

LEMMA RowSaved ==
    ASSUME LifeInv, NEW d \in Domains, NEW r \in Rows, row' = [row EXCEPT ![d] = r],
           r.cf = "resolved" => Resolves(zone, asked, registrar, d)
    PROVE  row' \in [Domains -> Rows] /\ RowsOk(row', zone, asked, registrar)
<1>1. row \in [Domains -> Rows] /\ RowsOk(row, zone, asked, registrar) BY DEF LifeInv, Typed
<1>2. \A e \in Domains : row'[e] = IF e = d THEN r ELSE row[e] BY <1>1
<1> QED BY <1>1, <1>2 DEF RowsOk

\* The next site's turn: the rest of the items are as they were.
LEMMA NextSite ==
    ASSUME LifeInv, NEW j \in Runs, task[j].at \notin {"idle", "end"},
           NEW first \in Places, NEW ok \in BOOLEAN, Next1(j, first, ok)
    PROVE  \E t \in Coroutine : /\ task' = [task EXCEPT ![j] = t]
                                /\ JobOk(zone, asked, registrar, t, NoRun)
<1>1. task[j] \in Coroutine /\ task[j].todo \in Seq(Item) /\ task[j].todo # <<>> BY AtWork
<1> DEFINE s == task[j].todo
           at == IF Len(s) = 1 THEN "end" ELSE first
           b == task[j].bad \/ ~ok
           t == [task[j] EXCEPT !.at = at, !.todo = Tail(s), !.bad = b]
<1>2. task' = [task EXCEPT ![j] = t] BY DEF Next1
<1>3. /\ Tail(s) \in Seq(Item)
      /\ \A i \in DOMAIN Tail(s) : i + 1 \in DOMAIN s /\ Tail(s)[i] = s[i + 1]
      /\ Len(s) # 1 => Tail(s) # <<>>
    BY <1>1, TailOf
<1>4. at \in Places /\ b \in BOOLEAN BY DEF Places
<1>5. at # "end" => Tail(s) # <<>> BY <1>3
<1>6. JobOk(zone, asked, registrar, task[j], run[j]) BY DEF LifeInv
<1> HIDE DEF at, b
<1>7. t \in Coroutine /\ t.kind = task[j].kind /\ t.at = at /\ t.todo = Tail(s)
    <2> DEFINE u == Tail(s)
    <2>1. u \in Seq(Item) BY <1>3
    <2> HIDE DEF u
    <2>2. [task[j] EXCEPT !.at = at, !.todo = u, !.bad = b] \in Coroutine
        BY <1>1, <1>4, <2>1 DEF Coroutine
    <2>3. /\ [task[j] EXCEPT !.at = at, !.todo = u, !.bad = b].kind = task[j].kind
          /\ [task[j] EXCEPT !.at = at, !.todo = u, !.bad = b].at = at
          /\ [task[j] EXCEPT !.at = at, !.todo = u, !.bad = b].todo = u
        BY <1>1 DEF Coroutine
    <2> QED BY <2>2, <2>3 DEF u
<1> HIDE DEF t
<1>8. \A i \in DOMAIN t.todo : ItemOk(zone, asked, registrar, t.kind, t.todo[i])
    BY <1>3, <1>6, <1>7 DEF JobOk
<1>9. JobOk(zone, asked, registrar, t, NoRun) BY <1>5, <1>7, <1>8, NoRunOk DEF JobOk
<1> QED BY <1>2, <1>7, <1>9

\* A job that is no DNS job changes the copy of the row at hand.
LEMMA CopyChanged ==
    ASSUME LifeInv, NEW j \in Runs, task[j].at \notin {"idle", "end"}, task[j].kind # "dns",
           NEW r \in Rows, NEW at \in Places, Copied(j, r, at),
           r.cf = "resolved" => Resolves(zone, asked, registrar, Site(j))
    PROVE  \E t \in Coroutine : /\ task' = [task EXCEPT ![j] = t]
                                /\ JobOk(zone, asked, registrar, t, NoRun)
<1>1. /\ task[j] \in Coroutine /\ task[j].todo \in Seq(Item) /\ task[j].todo # <<>>
      /\ Here(j) \in Item
    BY AtWork
<1> DEFINE x == [Here(j) EXCEPT !.row = r]
           s == <<x>> \o Tail(task[j].todo)
           t == [task[j] EXCEPT !.at = at, !.todo = s]
<1>2. task' = [task EXCEPT ![j] = t] BY DEF Copied
<1>3. x \in Item /\ x.row = r /\ x.site = Site(j) BY <1>1 DEF Item, Site
<1> HIDE DEF x
<1>4. /\ s \in Seq(Item) /\ s # <<>>
      /\ \A i \in DOMAIN s : s[i] = x \/ (i \in DOMAIN task[j].todo /\ s[i] = task[j].todo[i])
    BY <1>1, <1>3, HeadReplaced
<1> HIDE DEF s
<1>5. t \in Coroutine /\ t.kind = task[j].kind /\ t.at = at /\ t.todo = s BY <1>1, <1>4 DEF Coroutine
<1> HIDE DEF t
<1>6. JobOk(zone, asked, registrar, task[j], run[j]) BY DEF LifeInv
<1>7. ItemOk(zone, asked, registrar, task[j].kind, x) BY <1>3 DEF ItemOk
<1>8. \A i \in DOMAIN t.todo : ItemOk(zone, asked, registrar, t.kind, t.todo[i])
    BY <1>4, <1>5, <1>6, <1>7 DEF JobOk
<1>9. JobOk(zone, asked, registrar, t, NoRun) BY <1>4, <1>5, <1>8 DEF JobOk
<1> QED BY <1>2, <1>5, <1>9

\* A job that is no DNS job goes on to another place.
LEMMA GoneTo ==
    ASSUME LifeInv, NEW j \in Runs, task[j].at \notin {"idle", "end"}, task[j].kind # "dns",
           NEW at \in Places, Goto(j, at)
    PROVE  \E t \in Coroutine : /\ task' = [task EXCEPT ![j] = t]
                                /\ JobOk(zone, asked, registrar, t, NoRun)
<1>1. task[j] \in Coroutine /\ task[j].todo # <<>> BY AtWork
<1> DEFINE t == [task[j] EXCEPT !.at = at]
<1>2. task' = [task EXCEPT ![j] = t] BY DEF Goto
<1>3. t \in Coroutine /\ t.kind = task[j].kind /\ t.at = at /\ t.todo = task[j].todo BY <1>1 DEF Coroutine
<1> HIDE DEF t
<1>4. JobOk(zone, asked, registrar, task[j], run[j]) BY DEF LifeInv
<1>5. JobOk(zone, asked, registrar, t, NoRun) BY <1>1, <1>3, <1>4 DEF JobOk
<1> QED BY <1>2, <1>3, <1>5

LEMMA IdleOk ==
    ASSUME NEW z, NEW as, NEW g
    PROVE  Idle \in Coroutine /\ JobOk(z, as, g, Idle, NoRun)
BY DEF Idle, Coroutine, Places, JobOk

-----------------------------------------------------------------------------
(* The actions.                                                            *)

LEMMA InitLife == Init => LifeInv
<1> SUFFICES ASSUME Init PROVE LifeInv OBVIOUS
<1>1. NoZone \in Zone
    <2>1. <<>> \in Seq(Cells) OBVIOUS
    <2> QED BY <2>1 DEF NoZone, Zone
<1>2. \A d \in Domains : row[d] \in Rows /\ row[d].cf = ""
    <2>1. NoRow \in Rows /\ NoRow.cf = "" BY DEF NoRow, Rows
    <2>2. \A a \in Addresses : /\ [NoRow EXCEPT !.here = TRUE, !.ip = a] \in Rows
                               /\ [NoRow EXCEPT !.here = TRUE, !.ip = a].cf = ""
        BY DEF NoRow, Rows
    <2>3. row \in [Domains -> {NoRow} \cup {[NoRow EXCEPT !.here = TRUE, !.ip = a] : a \in Addresses}]
        BY DEF Init
    <2> SUFFICES ASSUME NEW d \in Domains PROVE row[d] \in Rows /\ row[d].cf = "" OBVIOUS
    <2>4. row[d] = NoRow \/ \E a \in Addresses : row[d] = [NoRow EXCEPT !.here = TRUE, !.ip = a] BY <2>3
    <2> QED BY <2>1, <2>2, <2>4
<1>3. Typed BY <1>1, <1>2, NoRunTyped, IdleOk DEF Init, DnsInit, Typed
<1>4. RowsOk(row, zone, asked, registrar) BY <1>2 DEF RowsOk
<1>5. ZonesOk(zone, registrar) BY DEF ZonesOk, Init, DnsInit, NoZone
<1>6. \A j \in Runs : JobOk(zone, asked, registrar, task[j], run[j])
    <2> SUFFICES ASSUME NEW j \in Runs PROVE JobOk(zone, asked, registrar, task[j], run[j]) OBVIOUS
    <2>1. task[j] = Idle /\ run[j] = NoRun BY DEF Init, DnsInit
    <2> QED BY <2>1, IdleOk
<1>7. \A j \in Runs : task[j].at = "idle" BY DEF Init, Idle
<1> QED BY <1>3, <1>4, <1>5, <1>6, <1>7 DEF LifeInv

\* The history with the sites of a DNS job, or as it was.
LEMMA JobAsked ==
    ASSUME LifeInv, NEW j \in Runs, NEW n \in Nat, NEW ss \in [1..n -> Domains], n > 0,
           NEW kind, NEW at \in Places \ {"idle", "end"}, Ask(j, kind, at, ss),
           UNCHANGED <<zone, registrar, run>>,
           kind = "dns" => asked' = [d \in Domains |-> asked[d] \cup {row[d].ip : i \in {k \in DOMAIN ss : ss[k] = d}}],
           kind # "dns" => asked' = asked,
           row' \in [Domains -> Rows], \A d \in Domains : row'[d].cf = row[d].cf
    PROVE  LifeInv'
<1>1. /\ row \in [Domains -> Rows] /\ run \in [Runs -> Thread] /\ task \in [Runs -> Coroutine]
      /\ zone \in [Domains -> Zone] /\ registrar \in [Domains -> {"parked", "zone", "default"}]
      /\ asked \in [Domains -> SUBSET (Addresses \cup {""})]
      /\ job \in [Runs -> {"absent", "running", "success", "failed"}]
    BY DEF LifeInv, Typed
<1>2. job[j] = "absent" /\ kind \in JobKinds /\ job' = [job EXCEPT ![j] = "running"] BY DEF Ask
<1>3. run[j] = NoRun
    <2>1. task[j].at = "idle" /\ JobOk(zone, asked, registrar, task[j], run[j]) BY <1>2 DEF LifeInv
    <2> QED BY <2>1 DEF JobOk
<1> DEFINE items2 == Items(ss)
           t == [kind |-> kind, at |-> at, todo |-> items2, bad |-> FALSE]
<1>4. task' = [task EXCEPT ![j] = t] BY DEF Ask
<1>5. /\ items2 \in Seq(Item) /\ items2 # <<>>
      /\ \A i \in DOMAIN items2 : ss[i] \in Domains /\ items2[i].site = ss[i] /\ items2[i].row = row[ss[i]] /\ i \in DOMAIN ss
    <2>1. items2 = [i \in 1..n |-> [site |-> ss[i], row |-> row[ss[i]], own |-> ss[i] \in preferred]]
        BY DEF Items
    <2>2. \A i \in 1..n : [site |-> ss[i], row |-> row[ss[i]], own |-> ss[i] \in preferred] \in Item
        <3> SUFFICES ASSUME NEW i \in 1..n
                     PROVE  [site |-> ss[i], row |-> row[ss[i]], own |-> ss[i] \in preferred] \in Item
            OBVIOUS
        <3> DEFINE own == ss[i] \in preferred
        <3>1. ss[i] \in Domains /\ row[ss[i]] \in Rows BY <1>1
        <3>2. own \in BOOLEAN OBVIOUS
        <3> HIDE DEF own
        <3>3. [site |-> ss[i], row |-> row[ss[i]], own |-> own] \in Item BY <3>1, <3>2 DEF Item
        <3> QED BY <3>3 DEF own
    <2>3. items2 \in Seq(Item) /\ Len(items2) = n BY <2>1, <2>2
    <2>4. items2 # <<>> BY <2>3
    <2> QED BY <2>1, <2>3, <2>4
<1> HIDE DEF items2
<1>6. t \in Coroutine /\ t.kind = kind /\ t.at = at /\ t.todo = items2 BY <1>2, <1>5 DEF Coroutine
<1> HIDE DEF t
<1>7. asked' \in [Domains -> SUBSET (Addresses \cup {""})] /\ \A d \in Domains : asked[d] \subseteq asked'[d]
    <2>1. CASE kind # "dns" BY <1>1, <2>1
    <2>2. CASE kind = "dns"
        <3>1. \A d \in Domains : row[d].ip \in Addresses \cup {""} BY <1>1 DEF Rows
        <3> DEFINE New(d) == asked[d] \cup {row[d].ip : i \in {k \in DOMAIN ss : ss[k] = d}}
        <3>2. \A d \in Domains : New(d) \in SUBSET (Addresses \cup {""}) /\ asked[d] \subseteq New(d)
            BY <1>1, <3>1
        <3>3. asked' = [d \in Domains |-> New(d)] BY <2>2
        <3> HIDE DEF New
        <3> QED BY <3>2, <3>3
    <2> QED BY <2>1, <2>2
<1>8. Grows(zone, asked, registrar, zone', asked', registrar')
    <2>1. ASSUME NEW d \in Domains, NEW k \in AllKinds, asked[d] # {}, RecordSet(zone, asked, d, k)
          PROVE  RecordSet(zone', asked', d, k)
        <3> SUFFICES ASSUME NEW a \in asked'[d], asked'[d] = {a}
                     PROVE  \E i \in DOMAIN zone[d].rec[Slot(k)] : zone[d].rec[Slot(k)][i] = Want(d, k, a)
            BY DEF RecordSet
        <3>1. asked[d] = {a} /\ a \in asked[d] BY <1>7, <2>1
        <3> QED BY <2>1, <3>1 DEF RecordSet
    <2> QED BY <1>7, <2>1 DEF Grows
<1>9. ZonesOk(zone', registrar') BY DEF LifeInv
<1>10. RowsOk(row', zone', asked', registrar')
    <2>1. RowsOk(row, zone', asked', registrar') BY <1>8, RowsGrow DEF LifeInv
    <2> QED BY <2>1 DEF RowsOk
<1>11. ASSUME NEW i \in DOMAIN t.todo PROVE ItemOk(zone', asked', registrar', t.kind, t.todo[i])
    <2>1. /\ ss[i] \in Domains /\ t.todo[i].site = ss[i] /\ t.todo[i].row = row[ss[i]] /\ i \in DOMAIN ss
        BY <1>5, <1>6
    <2>2. RowsOk(row, zone', asked', registrar') BY <1>8, RowsGrow DEF LifeInv
    <2>3. kind = "dns" => row[ss[i]].ip \in asked'[ss[i]] BY <2>1
    <2> QED BY <1>6, <2>1, <2>2, <2>3 DEF ItemOk, RowsOk
<1>12. JobOk(zone', asked', registrar', t, run'[j])
    <2>1. run'[j] = NoRun BY <1>3
    <2> QED BY <1>5, <1>6, <1>11, <2>1, NoRunOk DEF JobOk
<1>13. /\ zone' \in [Domains -> Zone] /\ registrar' \in [Domains -> {"parked", "zone", "default"}]
       /\ run' \in [Runs -> Thread] /\ \A i \in Runs \ {j} : run'[i] = run[i]
    BY <1>1
<1>14. /\ job' \in [Runs -> {"absent", "running", "success", "failed"}]
       /\ job'[j] # "absent" /\ \A i \in Runs \ {j} : job'[i] = job[i]
    BY <1>1, <1>2
<1> QED BY <1>4, <1>6, <1>7, <1>8, <1>9, <1>10, <1>12, <1>13, <1>14, JobStepKeeps

LEMMA AskedKeeps ==
    ASSUME LifeInv, NEW j \in Runs, Asked(j)
    PROVE  LifeInv'
<1>1. row \in [Domains -> Rows] BY DEF LifeInv, Typed
<1>2. \A ss \in Batches : \E n \in Nat \ {0} : ss \in [1..n -> Domains]
    BY LifecycleAssumption DEF Batches
<1>3. \A d \in Domains : <<d>> \in [1..1 -> Domains] OBVIOUS
<1>4. ASSUME NEW n \in Nat \ {0}, NEW ss \in [1..n -> Domains], StartDns(j, ss) PROVE LifeInv'
    <2>1. Ask(j, "dns", "thread", ss) /\ UNCHANGED <<zone, registrar, run>> /\ row' = row
          /\ asked' = [d \in Domains |-> asked[d] \cup {row[d].ip : i \in {k \in DOMAIN ss : ss[k] = d}}]
        BY <1>4 DEF StartDns, dnsVars
    <2> QED BY <1>1, <2>1, JobAsked DEF Places
<1>5. ASSUME NEW n \in Nat \ {0}, NEW ss \in [1..n -> Domains], StartCreate(j, ss) PROVE LifeInv'
    <2>1. Ask(j, "create", "look", ss) /\ UNCHANGED <<zone, registrar, run>> /\ row' = row /\ asked' = asked
        BY <1>5 DEF StartCreate, dnsVars
    <2> QED BY <1>1, <2>1, JobAsked DEF Places
<1>6. ASSUME NEW n \in Nat \ {0}, NEW ss \in [1..n -> Domains], StartDelete(j, ss) PROVE LifeInv'
    <2>1. Ask(j, "delete", "own", ss) /\ UNCHANGED <<zone, registrar, run>> /\ asked' = asked
        BY <1>6 DEF StartDelete, dnsVars
    <2>2. \A d \in Domains : [row[d] EXCEPT !.deleted = TRUE] \in Rows /\ [row[d] EXCEPT !.deleted = TRUE].cf = row[d].cf
        <3> SUFFICES ASSUME NEW d \in Domains
                     PROVE  /\ [row[d] EXCEPT !.deleted = TRUE] \in Rows
                            /\ [row[d] EXCEPT !.deleted = TRUE].cf = row[d].cf
            OBVIOUS
        <3>1. row[d] \in Rows BY <1>1
        <3> QED BY <3>1 DEF Rows
    <2>3. row' \in [Domains -> Rows] /\ \A d \in Domains : row'[d].cf = row[d].cf
        BY <1>1, <1>6, <2>2 DEF StartDelete
    <2> QED BY <2>1, <2>3, JobAsked DEF Places
<1>7. ASSUME NEW d \in Domains, StartNs(j, d) PROVE LifeInv'
    <2> DEFINE ss == <<d>>  n == 1
    <2>1. Ask(j, "ns", "call", ss) /\ UNCHANGED <<zone, registrar, run>> /\ row' = row /\ asked' = asked
        BY <1>7 DEF StartNs, dnsVars
    <2>2. n \in Nat /\ n > 0 /\ ss \in [1..n -> Domains] BY <1>3
    <2> HIDE DEF ss, n
    <2> QED BY <1>1, <2>1, <2>2, JobAsked DEF Places
<1>8. ASSUME NEW d \in Domains, StartRedirect(j, d) PROVE LifeInv'
    <2> DEFINE ss == <<d>>  n == 1
    <2>1. Ask(j, "redirect", "rules", ss) /\ UNCHANGED <<zone, registrar, run>> /\ row' = row /\ asked' = asked
        BY <1>8 DEF StartRedirect, dnsVars
    <2>2. n \in Nat /\ n > 0 /\ ss \in [1..n -> Domains] BY <1>3
    <2> HIDE DEF ss, n
    <2> QED BY <1>1, <2>1, <2>2, JobAsked DEF Places
<1> QED BY <1>2, <1>4, <1>5, <1>6, <1>7, <1>8 DEF Asked

\* A job whose thread is at rest goes on, ends or saves its copy.
LEMMA AtRest ==
    ASSUME LifeInv, NEW j \in Runs, task[j].kind # "dns" \/ task[j].at # "thread"
    PROVE  run[j] = NoRun
BY DEF LifeInv, JobOk

LEMMA ThreadKeeps ==
    ASSUME LifeInv, NEW j \in Runs, DnsThread(j)
    PROVE  LifeInv'
<1>1. task[j].kind = "dns" /\ task[j].at = "thread" /\ RunStep(j, Site(j), Copy(j).ip)
      /\ UNCHANGED <<row, job, task, asked>>
    BY DEF DnsThread, Has
<1>2. /\ task[j] \in Coroutine /\ task[j].todo # <<>> /\ Site(j) \in Domains
      /\ ItemOk(zone, asked, registrar, task[j].kind, Here(j)) /\ job[j] # "absent"
    BY <1>1, AtWork
<1>3. Copy(j).ip \in asked[Site(j)] BY <1>1, <1>2 DEF ItemOk, Copy, Site
<1>4. JobOk(zone, asked, registrar, task[j], run[j]) BY DEF LifeInv
<1>5. RunOk(zone, asked, registrar, run[j], Site(j)) BY <1>1, <1>4 DEF JobOk, Site, Here
<1>6. Typed /\ ZonesOk(zone, registrar) /\ RowsOk(row, zone, asked, registrar) BY DEF LifeInv
<1>7. Advanced(j, Site(j))
    <2> DEFINE d == Site(j)  a == Copy(j).ip
    <2>1. d \in Domains /\ a \in asked[d] /\ RunOk(zone, asked, registrar, run[j], d) /\ RunStep(j, d, a)
        BY <1>1, <1>2, <1>3, <1>5
    <2> HIDE DEF d, a
    <2>2. Advanced(j, d) BY <1>1, <1>6, <2>1, ThreadSteps
    <2> QED BY <2>2 DEF d
<1>8. /\ zone' \in [Domains -> Zone] /\ registrar' \in [Domains -> {"parked", "zone", "default"}]
      /\ run' \in [Runs -> Thread] /\ \A i \in Runs \ {j} : run'[i] = run[i]
      /\ Grows(zone, asked, registrar, zone', asked', registrar') /\ ZonesOk(zone', registrar')
      /\ RunOk(zone', asked', registrar', run'[j], Site(j))
    BY <1>1, <1>7 DEF Advanced
<1>9. ASSUME NEW i \in DOMAIN task[j].todo PROVE ItemOk(zone', asked', registrar', task[j].kind, task[j].todo[i])
    <2> DEFINE it == task[j].todo[i]  kind == task[j].kind
    <2>1. it \in Item /\ ItemOk(zone, asked, registrar, kind, it) BY <1>2, <1>4 DEF Coroutine, JobOk
    <2> HIDE DEF it, kind
    <2>2. ItemOk(zone', asked', registrar', kind, it) BY <1>8, <2>1, ItemGrows
    <2> QED BY <2>2 DEF it, kind
<1>10. JobOk(zone', asked', registrar', task[j], run'[j]) BY <1>1, <1>2, <1>8, <1>9 DEF JobOk, Site, Here
<1>11. /\ asked' \in [Domains -> SUBSET (Addresses \cup {""})] /\ row' \in [Domains -> Rows]
       /\ job' \in [Runs -> {"absent", "running", "success", "failed"}]
       /\ (\A i \in Runs \ {j} : job'[i] = job[i]) /\ job'[j] # "absent"
       /\ task' = [task EXCEPT ![j] = task[j]]
    BY <1>1, <1>2, <1>6 DEF Typed
<1>12. RowsOk(row', zone', asked', registrar') BY <1>1, <1>6, <1>8, RowsGrow
<1> QED BY <1>2, <1>8, <1>10, <1>11, <1>12, JobStepKeeps

LEMMA EnterKeeps ==
    ASSUME LifeInv, NEW j \in Runs, EnterPool(j)
    PROVE  LifeInv'
<1>1. task[j].kind = "dns" /\ task[j].at = "thread" /\ Turn(j, Start)
      /\ UNCHANGED <<zone, registrar, row, job, task, asked>>
    BY DEF EnterPool, Has
<1>2. task[j] \in Coroutine /\ job[j] # "absent" BY <1>1, AtWork
<1>3. Typed /\ JobOk(zone, asked, registrar, task[j], run[j]) BY DEF LifeInv
<1>4. run' \in [Runs -> Thread] /\ run'[j] = Start /\ \A i \in Runs \ {j} : run'[i] = run[i]
    BY <1>1, <1>3, NoRunTyped, Turned
<1>5. JobOk(zone, asked, registrar, task[j], Start) BY <1>1, <1>3, NoRunOk DEF JobOk
<1>6. task' = [task EXCEPT ![j] = task[j]] BY <1>1, <1>3 DEF Typed
<1>7. row' \in [Domains -> Rows] /\ RowsOk(row', zone, asked, registrar) BY <1>1, RowsStay
<1>8. job' \in [Runs -> {"absent", "running", "success", "failed"}] /\ job'[j] # "absent"
      /\ \A i \in Runs \ {j} : job'[i] = job[i]
    BY <1>1, <1>2, <1>3 DEF Typed
<1> QED BY <1>1, <1>2, <1>4, <1>5, <1>6, <1>7, <1>8, QuietStepKeeps

\* The result a thread hands over, written into the copy of the row.
LEMMA ResultApplied ==
    ASSUME NEW d \in Domains, NEW q \in Thread, NEW r \in Rows, Typed, q.at = "done",
           RunOk(zone, asked, registrar, q, d), asked[d] # {},
           r.cf = "resolved" => Resolves(zone, asked, registrar, d)
    PROVE  /\ Applied(r, q) \in Rows
           /\ Applied(r, q).cf = "resolved" => Resolves(zone, asked, registrar, d)
<1>1. CASE q.zone = "none" BY <1>1 DEF Applied
<1>2. CASE q.zone # "none"
    <2> DEFINE ns == CASE q.ns = "ok" -> "updated" [] q.ns = "failed" -> "failed" [] OTHER -> "zone"
               cf == IF q.oks = AllKinds THEN IF q.ns # "failed" THEN "resolved" ELSE "nsFailed"
                     ELSE IF q.oks # {} THEN "partial" ELSE "failed"
    <2>1. Applied(r, q) = [r EXCEPT !.ns = ns, !.cf = cf] BY <1>2 DEF Applied
    <2>2. ns \in {"updated", "failed", "zone"} OBVIOUS
    <2>3. cf \in {"resolved", "nsFailed", "partial", "failed"}
          /\ (cf = "resolved" => q.oks = AllKinds /\ q.ns # "failed")
        OBVIOUS
    <2> HIDE DEF ns, cf
    <2>4. [r EXCEPT !.ns = ns, !.cf = cf] \in Rows /\ [r EXCEPT !.ns = ns, !.cf = cf].cf = cf
        BY <2>2, <2>3 DEF Rows
    <2>5. ASSUME cf = "resolved" PROVE Resolves(zone, asked, registrar, d)
        <3>1. q.oks = AllKinds /\ q.ns # "failed" BY <2>3, <2>5
        <3>2. zone[d].st # "absent" /\ registrar[d] # "parked" BY <1>2, <3>1 DEF RunOk
        <3>3. \A k \in AllKinds : RecordSet(zone, asked, d, k) BY <3>1 DEF RunOk
        <3> QED BY <3>2, <3>3 DEF Resolves
    <2> QED BY <2>1, <2>4, <2>5
<1> QED BY <1>1, <1>2

\* The thread is done with, and the next site's turn comes.
LEMMA ThreadLeft ==
    ASSUME LifeInv, NEW j \in Runs, task[j].at \notin {"idle", "end"}, NEW ok \in BOOLEAN,
           Turn(j, NoRun), Next1(j, "thread", ok), UNCHANGED <<zone, registrar, asked, job>>,
           row' \in [Domains -> Rows], RowsOk(row', zone, asked, registrar)
    PROVE  LifeInv'
<1>1. Typed /\ job[j] # "absent" BY AtWork DEF LifeInv
<1>2. run' \in [Runs -> Thread] /\ run'[j] = NoRun /\ \A i \in Runs \ {j} : run'[i] = run[i]
    BY <1>1, NoRunTyped, Turned
<1>3. "thread" \in Places BY DEF Places
<1>4. PICK t \in Coroutine : task' = [task EXCEPT ![j] = t] /\ JobOk(zone, asked, registrar, t, NoRun)
    BY <1>3, NextSite
<1>5. job' \in [Runs -> {"absent", "running", "success", "failed"}] /\ job'[j] # "absent"
      /\ \A i \in Runs \ {j} : job'[i] = job[i]
    BY <1>1 DEF Typed
<1>6. JobOk(zone, asked, registrar, t, run'[j]) BY <1>2, <1>4
<1> QED BY <1>2, <1>4, <1>5, <1>6, QuietStepKeeps

LEMMA DnsEndKeeps ==
    ASSUME LifeInv, NEW j \in Runs, DnsSaved(j) \/ DnsRaised(j)
    PROVE  LifeInv'
<1>1. task[j].kind = "dns" /\ task[j].at = "thread" BY DEF DnsSaved, DnsRaised, Has
<1>2. /\ task[j] \in Coroutine /\ Site(j) \in Domains /\ Copy(j) \in Rows /\ run[j] \in Thread
      /\ ItemOk(zone, asked, registrar, task[j].kind, Here(j))
    BY <1>1, AtWork
<1>3. ASSUME DnsSaved(j) PROVE LifeInv'
    <2>1. /\ run[j].at = "done" /\ row' = [row EXCEPT ![Site(j)] = Applied(Copy(j), run[j])]
          /\ Turn(j, NoRun) /\ Next1(j, "thread", run[j].zone # "none") /\ UNCHANGED <<zone, registrar, asked, job>>
        BY <1>3 DEF DnsSaved, At, Save
    <2>2. RunOk(zone, asked, registrar, run[j], Site(j)) BY <1>1 DEF LifeInv, JobOk, Site, Here
    <2>3. asked[Site(j)] # {} /\ (Copy(j).cf = "resolved" => Resolves(zone, asked, registrar, Site(j)))
        BY <1>1, <1>2 DEF ItemOk, Site, Copy
    <2> DEFINE d == Site(j)  c == Copy(j)  r == Applied(Copy(j), run[j])
    <2>4. r \in Rows /\ (r.cf = "resolved" => Resolves(zone, asked, registrar, d))
        <3>1. d \in Domains /\ c \in Rows /\ Typed BY <1>2 DEF LifeInv
        <3>2. RunOk(zone, asked, registrar, run[j], d) /\ asked[d] # {}
              /\ (c.cf = "resolved" => Resolves(zone, asked, registrar, d))
            BY <2>2, <2>3
        <3> HIDE DEF c, d
        <3>3. Applied(c, run[j]) \in Rows /\ (Applied(c, run[j]).cf = "resolved" => Resolves(zone, asked, registrar, d))
            BY <1>2, <2>1, <3>1, <3>2, ResultApplied
        <3> QED BY <3>3 DEF c
    <2>5. row' \in [Domains -> Rows] /\ RowsOk(row', zone, asked, registrar)
        <3>1. d \in Domains /\ row' = [row EXCEPT ![d] = r] BY <1>2, <2>1
        <3> HIDE DEF d, r
        <3> QED BY <2>4, <3>1, RowSaved
    <2>6. PICK ok \in BOOLEAN : ok = (run[j].zone # "none") OBVIOUS
    <2>7. Next1(j, "thread", ok) BY <2>1, <2>6
    <2> QED BY <1>1, <2>1, <2>5, <2>7, ThreadLeft
<1>4. ASSUME DnsRaised(j) PROVE LifeInv'
    <2>1. Turn(j, NoRun) /\ Next1(j, "thread", FALSE) /\ UNCHANGED <<zone, registrar, asked, job>> /\ row' = row
        BY <1>4 DEF DnsRaised
    <2>2. row' \in [Domains -> Rows] /\ RowsOk(row', zone, asked, registrar) BY <2>1, RowsStay
    <2> QED BY <1>1, <2>1, <2>2, ThreadLeft
<1> QED BY <1>3, <1>4

\* What a job that is at rest saves, or leaves, while its coroutine goes on.
LEMMA RestingKeeps ==
    ASSUME LifeInv, NEW j \in Runs, task[j].at # "idle", task[j].kind # "dns" \/ task[j].at # "thread",
           NEW t \in Coroutine, task' = [task EXCEPT ![j] = t], JobOk(zone, asked, registrar, t, NoRun),
           UNCHANGED <<zone, registrar, asked, run>>,
           job' \in [Runs -> {"absent", "running", "success", "failed"}],
           \A i \in Runs \ {j} : job'[i] = job[i], job'[j] # "absent",
           row' \in [Domains -> Rows], RowsOk(row', zone, asked, registrar)
    PROVE  LifeInv'
<1>1. run \in [Runs -> Thread] BY DEF LifeInv, Typed
<1>2. run' \in [Runs -> Thread] /\ (\A i \in Runs \ {j} : run'[i] = run[i]) /\ run'[j] = NoRun BY <1>1, AtRest
<1>3. JobOk(zone, asked, registrar, t, run'[j]) BY <1>2
<1>4. UNCHANGED <<zone, registrar, asked>> OBVIOUS
<1> QED BY <1>2, <1>3, <1>4, QuietStepKeeps

\* The same, with the jobs' rows left alone.
LEMMA RestingOn ==
    ASSUME LifeInv, NEW j \in Runs, task[j].at \notin {"idle", "end"}, task[j].kind # "dns",
           \E t \in Coroutine : task' = [task EXCEPT ![j] = t] /\ JobOk(zone, asked, registrar, t, NoRun),
           UNCHANGED <<zone, registrar, asked, run, job>>,
           row' \in [Domains -> Rows], RowsOk(row', zone, asked, registrar)
    PROVE  LifeInv'
<1>1. job \in [Runs -> {"absent", "running", "success", "failed"}] BY DEF LifeInv, Typed
<1>2. /\ job' \in [Runs -> {"absent", "running", "success", "failed"}]
      /\ (\A i \in Runs \ {j} : job'[i] = job[i]) /\ job'[j] # "absent"
    BY <1>1, AtWork
<1>3. PICK t \in Coroutine : task' = [task EXCEPT ![j] = t] /\ JobOk(zone, asked, registrar, t, NoRun) OBVIOUS
<1>4. UNCHANGED <<zone, registrar, asked, run>> OBVIOUS
<1> QED BY <1>2, <1>3, <1>4, RestingKeeps

LEMMA EndKeeps ==
    ASSUME LifeInv, NEW j \in Runs, End(j)
    PROVE  LifeInv'
<1>1. /\ task[j].at = "end" /\ task' = [task EXCEPT ![j] = Idle] /\ row' = row
      /\ UNCHANGED <<zone, registrar, asked, run>>
      /\ job' = [job EXCEPT ![j] = IF task[j].bad THEN "failed" ELSE "success"]
    BY DEF End, dnsVars
<1>2. job \in [Runs -> {"absent", "running", "success", "failed"}] BY DEF LifeInv, Typed
<1>3. /\ job' \in [Runs -> {"absent", "running", "success", "failed"}]
      /\ (\A i \in Runs \ {j} : job'[i] = job[i]) /\ job'[j] # "absent"
    BY <1>1, <1>2
<1>4. Idle \in Coroutine /\ JobOk(zone, asked, registrar, Idle, NoRun) BY IdleOk
<1>5. row' \in [Domains -> Rows] /\ RowsOk(row', zone, asked, registrar) BY <1>1, RowsStay
<1> QED BY <1>1, <1>3, <1>4, <1>5, RestingKeeps

LEMMA SavesKeep ==
    ASSUME LifeInv, NEW j \in Runs, SaveNs(j) \/ SaveRedirect(j)
    PROVE  LifeInv'
<1>1. /\ task[j].kind \in {"ns", "redirect"} /\ task[j].at = "save" /\ row' = [row EXCEPT ![Site(j)] = Copy(j)]
      /\ UNCHANGED <<zone, registrar, asked, run, job>>
      /\ task' = [task EXCEPT ![j] = Idle] \/ Next1(j, "rules", TRUE)
    BY DEF SaveNs, SaveRedirect, Has, Save, dnsVars
<1>2. Site(j) \in Domains /\ Copy(j) \in Rows /\ ItemOk(zone, asked, registrar, task[j].kind, Here(j))
    BY <1>1, AtWork
<1>3. row' \in [Domains -> Rows] /\ RowsOk(row', zone, asked, registrar)
    <2> DEFINE d == Site(j)  c == Copy(j)
    <2>1. d \in Domains /\ c \in Rows /\ (c.cf = "resolved" => Resolves(zone, asked, registrar, d))
          /\ row' = [row EXCEPT ![d] = c]
        BY <1>1, <1>2 DEF ItemOk, Site, Copy
    <2> HIDE DEF d, c
    <2> QED BY <2>1, RowSaved
<1>4. \E t \in Coroutine : task' = [task EXCEPT ![j] = t] /\ JobOk(zone, asked, registrar, t, NoRun)
    <2>1. "rules" \in Places BY DEF Places
    <2> QED BY <1>1, <2>1, NextSite, IdleOk
<1> QED BY <1>1, <1>3, <1>4, RestingOn

LEMMA RedirectKeeps ==
    ASSUME LifeInv, NEW j \in Runs, SetRules(j) \/ RedirectRaised(j)
    PROVE  LifeInv'
<1>1. /\ task[j].kind = "redirect" /\ task[j].at = "rules" /\ row' = row
      /\ UNCHANGED <<zone, registrar, asked, run, job>>
    BY DEF SetRules, RedirectRaised, Has, external
<1>2. Site(j) \in Domains /\ Copy(j) \in Rows /\ ItemOk(zone, asked, registrar, task[j].kind, Here(j))
    BY <1>1, AtWork
<1>3. row' \in [Domains -> Rows] /\ RowsOk(row', zone, asked, registrar) BY <1>1, RowsStay
<1>4. ASSUME NEW rd \in {"success", "partial", "failed"}, Copied(j, [Copy(j) EXCEPT !.rd = rd], "save")
      PROVE  \E t \in Coroutine : task' = [task EXCEPT ![j] = t] /\ JobOk(zone, asked, registrar, t, NoRun)
    <2> DEFINE r == [Copy(j) EXCEPT !.rd = rd]
    <2>1. r \in Rows /\ r.cf = Copy(j).cf BY <1>2 DEF Rows
    <2>2. Copied(j, r, "save") /\ "save" \in Places BY <1>4 DEF Places
    <2> HIDE DEF r
    <2>3. r.cf = "resolved" => Resolves(zone, asked, registrar, Site(j)) BY <1>2, <2>1 DEF ItemOk, Site, Copy
    <2> QED BY <1>1, <2>1, <2>2, <2>3, CopyChanged
<1>5. ASSUME SetRules(j) PROVE \E rd \in {"success", "partial", "failed"} : Copied(j, [Copy(j) EXCEPT !.rd = rd], "save")
    <2>1. PICK ok \in SUBSET Pair :
            Copied(j, [Copy(j) EXCEPT !.rd = IF ok = Pair THEN "success" ELSE IF ok # {} THEN "partial" ELSE "failed"], "save")
        BY <1>5 DEF SetRules
    <2> QED BY <2>1
<1>6. ASSUME RedirectRaised(j) PROVE Next1(j, "rules", FALSE) /\ "rules" \in Places BY <1>6 DEF RedirectRaised, Places
<1>7. \E t \in Coroutine : task' = [task EXCEPT ![j] = t] /\ JobOk(zone, asked, registrar, t, NoRun)
    BY <1>1, <1>4, <1>5, <1>6, NextSite
<1> QED BY <1>1, <1>3, <1>7, RestingOn

LEMMA CreateKeeps ==
    ASSUME LifeInv, NEW j \in Runs, LookCreate(j) \/ Insert(j) \/ SyncPanel(j)
    PROVE  LifeInv'
<1>1. /\ task[j].kind = "create" /\ task[j].at \in {"look", "insert", "sync"}
      /\ UNCHANGED <<zone, registrar, asked, run, job>>
    BY DEF LookCreate, Insert, SyncPanel, Has, dnsVars
<1>2. Site(j) \in Domains /\ Copy(j) \in Rows /\ ItemOk(zone, asked, registrar, task[j].kind, Here(j))
    BY <1>1, AtWork
<1>3. {"look", "insert", "sync"} \subseteq Places BY DEF Places
<1>4. row \in [Domains -> Rows] /\ RowsOk(row, zone, asked, registrar) BY DEF LifeInv, Typed
<1>5. ASSUME LookCreate(j) PROVE LifeInv'
    <2>1. row' \in [Domains -> Rows] /\ RowsOk(row', zone, asked, registrar) BY <1>4, <1>5 DEF LookCreate
    <2>2. Goto(j, "insert") \/ Next1(j, "look", FALSE) \/ Copied(j, row[Site(j)], "sync") BY <1>5 DEF LookCreate
    <2>3. ASSUME Copied(j, row[Site(j)], "sync")
          PROVE  \E t \in Coroutine : task' = [task EXCEPT ![j] = t] /\ JobOk(zone, asked, registrar, t, NoRun)
        <3> DEFINE r == row[Site(j)]
        <3>1. r \in Rows /\ (r.cf = "resolved" => Resolves(zone, asked, registrar, Site(j))) BY <1>2, <1>4 DEF RowsOk
        <3>2. Copied(j, r, "sync") BY <2>3
        <3> HIDE DEF r
        <3> QED BY <1>1, <1>3, <3>1, <3>2, CopyChanged
    <2>4. \E t \in Coroutine : task' = [task EXCEPT ![j] = t] /\ JobOk(zone, asked, registrar, t, NoRun)
        BY <1>1, <1>3, <2>2, <2>3, NextSite, GoneTo
    <2> QED BY <1>1, <2>1, <2>4, RestingOn
<1>6. ASSUME Insert(j) PROVE LifeInv'
    <2>1. Next1(j, "look", FALSE) \/ Next1(j, "look", TRUE) BY <1>6 DEF Insert
    <2>2. \E t \in Coroutine : task' = [task EXCEPT ![j] = t] /\ JobOk(zone, asked, registrar, t, NoRun)
        BY <1>1, <1>3, <2>1, NextSite
    <2>3. row' = row \/ \E a \in Addresses \cup {""} : row' = [row EXCEPT ![Site(j)] = [NoRow EXCEPT !.here = TRUE, !.ip = a]]
        BY <1>6 DEF Insert, Save
    <2>4. ASSUME NEW a \in Addresses \cup {""}, row' = [row EXCEPT ![Site(j)] = [NoRow EXCEPT !.here = TRUE, !.ip = a]]
          PROVE  row' \in [Domains -> Rows] /\ RowsOk(row', zone, asked, registrar)
        <3> DEFINE r == [NoRow EXCEPT !.here = TRUE, !.ip = a]  d == Site(j)
        <3>1. r \in Rows /\ r.cf = "" /\ d \in Domains /\ row' = [row EXCEPT ![d] = r] BY <1>2, <2>4 DEF NoRow, Rows
        <3> HIDE DEF r, d
        <3> QED BY <3>1, RowSaved
    <2>5. row' \in [Domains -> Rows] /\ RowsOk(row', zone, asked, registrar) BY <1>4, <2>3, <2>4
    <2> QED BY <1>1, <2>2, <2>5, RestingOn
<1>7. ASSUME SyncPanel(j) PROVE LifeInv'
    <2>1. Next1(j, "look", FALSE) BY <1>7 DEF SyncPanel
    <2>2. \E t \in Coroutine : task' = [task EXCEPT ![j] = t] /\ JobOk(zone, asked, registrar, t, NoRun)
        BY <1>1, <1>3, <2>1, NextSite
    <2>3. row' = row \/ row' = [row EXCEPT ![Site(j)] = [Copy(j) EXCEPT !.op = "exists"]]
        BY <1>7 DEF SyncPanel, Save
    <2>4. ASSUME row' = [row EXCEPT ![Site(j)] = [Copy(j) EXCEPT !.op = "exists"]]
          PROVE  row' \in [Domains -> Rows] /\ RowsOk(row', zone, asked, registrar)
        <3> DEFINE r == [Copy(j) EXCEPT !.op = "exists"]  d == Site(j)
        <3>1. r \in Rows /\ r.cf = Copy(j).cf BY <1>2 DEF Rows
        <3>2. d \in Domains /\ row' = [row EXCEPT ![d] = r] BY <1>2, <2>4
        <3>3. r.cf = "resolved" => Resolves(zone, asked, registrar, d) BY <1>2, <3>1 DEF ItemOk, Site, Copy
        <3> HIDE DEF r, d
        <3> QED BY <3>1, <3>2, <3>3, RowSaved
    <2>5. row' \in [Domains -> Rows] /\ RowsOk(row', zone, asked, registrar) BY <1>4, <2>3, <2>4
    <2> QED BY <1>1, <2>2, <2>5, RestingOn
<1> QED BY <1>5, <1>6, <1>7

LEMMA DeleteKeeps ==
    ASSUME LifeInv, NEW j \in Runs, NEW p \in {"own", "default"}, SearchPanel(j, p) \/ RemovePanel(j, p)
    PROVE  LifeInv'
<1>1. /\ task[j].kind = "delete" /\ task[j].at \in {"own", "default", "removeOwn", "removeDefault"}
      /\ row' = row /\ UNCHANGED <<zone, registrar, asked, run, job>>
    BY DEF SearchPanel, RemovePanel, Has, Removing
<1>2. {"own", "default", Removing(p)} \subseteq Places BY DEF Places, Removing
<1>3. row' \in [Domains -> Rows] /\ RowsOk(row', zone, asked, registrar) BY <1>1, RowsStay
<1>4. Goto(j, Removing(p)) \/ Goto(j, "default") \/ Next1(j, "own", TRUE) \/ Next1(j, "own", FALSE)
    BY DEF SearchPanel, RemovePanel
<1>5. \E t \in Coroutine : task' = [task EXCEPT ![j] = t] /\ JobOk(zone, asked, registrar, t, NoRun)
    BY <1>1, <1>2, <1>4, NextSite, GoneTo
<1> QED BY <1>1, <1>3, <1>5, RestingOn

LEMMA CallNsKeeps ==
    ASSUME LifeInv, NEW j \in Runs, CallNs(j)
    PROVE  LifeInv'
<1>1. task[j].kind = "ns" /\ task[j].at = "call" /\ UNCHANGED <<zone, asked, run, row>> BY DEF CallNs, Has
<1>2. PICK ok \in BOOLEAN, whose \in {"zone", "default"} :
        /\ SetNameServers(Site(j), whose, ok)
        /\ job' = [job EXCEPT ![j] = IF ok THEN "success" ELSE "failed"]
        /\ Copied(j, [Copy(j) EXCEPT !.ns = IF ok THEN "updated" ELSE "failed"], "save")
    BY DEF CallNs
<1>3. Site(j) \in Domains /\ Copy(j) \in Rows /\ ItemOk(zone, asked, registrar, task[j].kind, Here(j))
    BY <1>1, AtWork
<1>4. Typed /\ ZonesOk(zone, registrar) /\ RowsOk(row, zone, asked, registrar) BY DEF LifeInv
<1>5. /\ registrar' \in [Domains -> {"parked", "zone", "default"}]
      /\ Grows(zone, asked, registrar, zone', asked', registrar')
      /\ ZonesOk(zone', registrar')
    <2> DEFINE d == Site(j)
    <2>1. d \in Domains /\ SetNameServers(d, whose, ok) BY <1>2, <1>3
    <2> HIDE DEF d
    <2> QED BY <1>1, <1>4, <2>1, ServersSet
<1>6. PICK t \in Coroutine : task' = [task EXCEPT ![j] = t] /\ JobOk(zone, asked, registrar, t, NoRun)
    <2> DEFINE r == [Copy(j) EXCEPT !.ns = IF ok THEN "updated" ELSE "failed"]
    <2>1. r \in Rows /\ r.cf = Copy(j).cf BY <1>3 DEF Rows
    <2>2. Copied(j, r, "save") /\ "save" \in Places BY <1>2 DEF Places
    <2> HIDE DEF r
    <2>3. r.cf = "resolved" => Resolves(zone, asked, registrar, Site(j)) BY <1>3, <2>1 DEF ItemOk, Site, Copy
    <2> QED BY <1>1, <2>1, <2>2, <2>3, CopyChanged
<1>7. JobOk(zone', asked', registrar', t, NoRun) BY <1>5, <1>6, NoRunTyped, JobGrows
<1>8. /\ run' \in [Runs -> Thread] /\ (\A i \in Runs \ {j} : run'[i] = run[i]) /\ run'[j] = NoRun
    BY <1>1, <1>4, AtRest DEF Typed
<1>9. /\ job' \in [Runs -> {"absent", "running", "success", "failed"}]
      /\ (\A i \in Runs \ {j} : job'[i] = job[i]) /\ job'[j] # "absent"
    BY <1>2, <1>4 DEF Typed
<1>10. /\ zone' \in [Domains -> Zone] /\ asked' \in [Domains -> SUBSET (Addresses \cup {""})]
       /\ row' \in [Domains -> Rows]
    BY <1>1, <1>4 DEF Typed
<1>11. RowsOk(row', zone', asked', registrar') BY <1>1, <1>4, <1>5, RowsGrow
<1>12. JobOk(zone', asked', registrar', t, run'[j]) BY <1>7, <1>8
<1> QED BY <1>5, <1>6, <1>8, <1>9, <1>10, <1>11, <1>12, JobStepKeeps

\* A step that no job takes.
LEMMA OutsideKeeps ==
    ASSUME LifeInv, UNCHANGED <<task, run, job, asked, registrar>>, zone' \in [Domains -> Zone],
           Grows(zone, asked, registrar, zone', asked, registrar), ZonesOk(zone', registrar),
           row' \in [Domains -> Rows], RowsOk(row', zone', asked, registrar)
    PROVE  LifeInv'
<1>1. task' = task /\ run' = run /\ job' = job /\ asked' = asked /\ registrar' = registrar OBVIOUS
<1>2. Typed' BY <1>1 DEF LifeInv, Typed
<1>3. ASSUME NEW j \in Runs PROVE JobOk(zone', asked, registrar, task[j], run[j])
    <2> DEFINE t == task[j]  q == run[j]
    <2>1. t \in Coroutine /\ q \in Thread /\ JobOk(zone, asked, registrar, t, q) BY DEF LifeInv, Typed
    <2> HIDE DEF t, q
    <2>2. JobOk(zone', asked, registrar, t, q) BY <2>1, JobGrows
    <2> QED BY <2>2 DEF t, q
<1>4. \A j \in Runs : JobOk(zone, asked, registrar, task[j], run[j])'
    <2>1. \A j \in Runs : JobOk(zone', asked', registrar', task'[j], run'[j]) BY <1>1, <1>3
    <2> QED BY <2>1 DEF JobOk, ItemOk, RunOk, Resolves, RecordSet
<1>5. RowsOk(row, zone, asked, registrar)' /\ ZonesOk(zone, registrar)'
    BY <1>1 DEF RowsOk, ZonesOk, Resolves, RecordSet
<1>6. \A j \in Runs : job'[j] = "absent" => task'[j].at = "idle" BY <1>1 DEF LifeInv
<1> QED BY <1>2, <1>4, <1>5, <1>6 DEF LifeInv

LEMMA UserKeeps ==
    ASSUME LifeInv, NEW d \in Domains, UserStep(d)
    PROVE  LifeInv'
<1>1. row \in [Domains -> Rows] /\ RowsOk(row, zone, asked, registrar) /\ zone \in [Domains -> Zone]
      /\ ZonesOk(zone, registrar)
    BY DEF LifeInv, Typed
<1>2. \/ \E a \in Addresses : Edit(d, [row[d] EXCEPT !.ip = a])
      \/ Edit(d, [row[d] EXCEPT !.deleted = FALSE])
    BY DEF UserStep, UpdateSite, RestoreSite
<1>3. PICK r \in Rows : Edit(d, r) /\ r.cf = row[d].cf
    <2>1. row[d] \in Rows BY <1>1
    <2>2. \A a \in Addresses : [row[d] EXCEPT !.ip = a] \in Rows /\ [row[d] EXCEPT !.ip = a].cf = row[d].cf
        BY <2>1 DEF Rows
    <2>3. [row[d] EXCEPT !.deleted = FALSE] \in Rows /\ [row[d] EXCEPT !.deleted = FALSE].cf = row[d].cf
        BY <2>1 DEF Rows
    <2> QED BY <1>2, <2>2, <2>3
<1>4. row' = [row EXCEPT ![d] = r] /\ UNCHANGED <<task, run, job, asked, registrar, zone>>
    BY <1>3 DEF Edit, dnsVars
<1>5. r.cf = "resolved" => Resolves(zone, asked, registrar, d) BY <1>1, <1>3 DEF RowsOk
<1>6. row' \in [Domains -> Rows] /\ RowsOk(row', zone, asked, registrar) BY <1>4, <1>5, RowSaved
<1>7. zone' = zone /\ Grows(zone, asked, registrar, zone, asked, registrar) BY <1>4, StaysGrown
<1>8. UNCHANGED <<task, run, job, asked, registrar>> BY <1>4
<1>9. /\ zone' \in [Domains -> Zone] /\ Grows(zone, asked, registrar, zone', asked, registrar)
      /\ ZonesOk(zone', registrar) /\ RowsOk(row', zone', asked, registrar)
    BY <1>1, <1>6, <1>7
<1> QED BY <1>6, <1>8, <1>9, OutsideKeeps

LEMMA CheckKeeps ==
    ASSUME LifeInv, NEW d \in Domains, CheckZone(d)
    PROVE  LifeInv'
<1>1. Typed /\ ZonesOk(zone, registrar) /\ RowsOk(row, zone, asked, registrar) BY DEF LifeInv
<1>2. zone \in [Domains -> Zone] /\ zone[d] \in Zone BY <1>1 DEF Typed
<1>3. UNCHANGED <<task, run, job, asked, registrar, row>> BY DEF CheckZone, Checks
<1> DEFINE st == IF registrar[d] = "zone" THEN "active"
                 ELSE IF zone[d].st = "active" THEN "invalid" ELSE zone[d].st
           y == [zone[d] EXCEPT !.st = st]
<1>4. zone[d].st # "absent" /\ zone' = [zone EXCEPT ![d] = y] BY DEF CheckZone, Checks
<1>5. st \in {"pending", "invalid", "active"} /\ (st = "active" => registrar[d] # "parked")
    BY <1>2, <1>4 DEF Zone
<1> HIDE DEF st
<1>6. y \in Zone /\ y.st = st /\ y.rec = zone[d].rec BY <1>2, <1>5 DEF Zone
<1> HIDE DEF y
<1>7. Grows(zone, asked, registrar, zone', asked, registrar')
    <2>1. registrar' = registrar /\ y.st # "absent" BY <1>3, <1>5, <1>6
    <2>2. Grows(zone, asked, registrar, zone', asked, registrar') BY <1>1, <1>4, <1>6, <2>1, ZoneChanged
    <2> QED BY <2>1, <2>2
<1>8. registrar' = registrar /\ row' = row BY <1>3
<1>9. Grows(zone, asked, registrar, zone', asked, registrar) BY <1>7, <1>8
<1>10. zone' \in [Domains -> Zone] /\ \A e \in Domains : zone'[e] = IF e = d THEN y ELSE zone[e] BY <1>2, <1>4, <1>6
<1>11. ZonesOk(zone', registrar) BY <1>1, <1>5, <1>6, <1>10 DEF ZonesOk
<1>12. row' \in [Domains -> Rows] /\ RowsOk(row', zone', asked, registrar)
    BY <1>1, <1>8, <1>9, RowsGrow DEF Typed
<1>13. UNCHANGED <<task, run, job, asked, registrar>> BY <1>3
<1> QED BY <1>9, <1>10, <1>11, <1>12, <1>13, OutsideKeeps

LEMMA NextKeeps ==
    ASSUME LifeInv, [Next]_vars
    PROVE  LifeInv'
<1>1. ASSUME NEW j \in Runs, Asked(j) PROVE LifeInv' BY <1>1, AskedKeeps
<1>2. ASSUME NEW j \in Runs, JobStep(j) PROVE LifeInv'
    <2>1. CASE EnterPool(j) BY <2>1, EnterKeeps
    <2>2. CASE DnsThread(j) BY <2>2, ThreadKeeps
    <2>3. CASE DnsSaved(j) \/ DnsRaised(j) BY <2>3, DnsEndKeeps
    <2>4. CASE CallNs(j) BY <2>4, CallNsKeeps
    <2>5. CASE SaveNs(j) \/ SaveRedirect(j) BY <2>5, SavesKeep
    <2>6. CASE SetRules(j) \/ RedirectRaised(j) BY <2>6, RedirectKeeps
    <2>7. CASE LookCreate(j) \/ Insert(j) \/ SyncPanel(j) BY <2>7, CreateKeeps
    <2>8. CASE \E p \in {"own", "default"} : SearchPanel(j, p) \/ RemovePanel(j, p) BY <2>8, DeleteKeeps
    <2>9. CASE End(j) BY <2>9, EndKeeps
    <2> QED BY <1>2, <2>1, <2>2, <2>3, <2>4, <2>5, <2>6, <2>7, <2>8, <2>9 DEF JobStep
<1>3. ASSUME NEW d \in Domains, UserStep(d) PROVE LifeInv' BY <1>3, UserKeeps
<1>4. ASSUME NEW d \in Domains, CheckZone(d) PROVE LifeInv' BY <1>4, CheckKeeps
<1>5. ASSUME UNCHANGED vars PROVE LifeInv'
    <2>1. UNCHANGED <<task, run, job, asked, registrar, zone, row>> BY <1>5 DEF vars, dnsVars
    <2>2. /\ zone' = zone /\ zone' \in [Domains -> Zone] /\ ZonesOk(zone', registrar)
          /\ row' \in [Domains -> Rows] /\ RowsOk(row', zone', asked, registrar)
        BY <2>1 DEF LifeInv, Typed
    <2>3. Grows(zone, asked, registrar, zone', asked, registrar) BY <2>2, StaysGrown
    <2>4. UNCHANGED <<task, run, job, asked, registrar>> BY <2>1
    <2> QED BY <2>2, <2>3, <2>4, OutsideKeeps
<1> QED BY <1>1, <1>2, <1>3, <1>4, <1>5 DEF Next

\* A row that resolves keeps the promise, whatever its history.
LEMMA ResolvesIsReady ==
    ASSUME LifeInv
    PROVE  ResolvedIsReady
<1> SUFFICES ASSUME NEW d \in Domains, row[d].cf = "resolved", asked[d] = {row[d].ip}
             PROVE  /\ \A k \in AllKinds : \E i \in DOMAIN zone[d].rec[Slot(k)] :
                            zone[d].rec[Slot(k)][i] = Want(d, k, row[d].ip)
                    /\ registrar[d] # "parked"
                    /\ zone[d].st = "active" /\ d \notin Shopify => ReadyForSsl(d, row[d].ip)
    BY DEF ResolvedIsReady
<1>1. Resolves(zone, asked, registrar, d) BY DEF LifeInv, RowsOk
<1>2. \A k \in AllKinds : \E i \in DOMAIN zone[d].rec[Slot(k)] :
            zone[d].rec[Slot(k)][i] = Want(d, k, row[d].ip)
    BY <1>1 DEF Resolves, RecordSet
<1>3. registrar[d] # "parked" BY <1>1 DEF Resolves
<1>4. ASSUME zone[d].st = "active", d \notin Shopify PROVE ReadyForSsl(d, row[d].ip)
    <2>1. "root" \in AllKinds /\ Slot("root") = "root" /\ Want(d, "root", row[d].ip) = row[d].ip
        BY <1>4, KindFacts DEF Slot, Want
    <2>2. \E i \in DOMAIN zone[d].rec["root"] : zone[d].rec["root"][i] = row[d].ip BY <1>2, <2>1
    <2> QED BY <1>4, <2>2 DEF ReadyForSsl
<1> QED BY <1>2, <1>3, <1>4

\* For any sites, jobs, addresses and bounds, and whatever the interleaving of
\* DNS threads, saves of old copies, edits and deletions: a row that says
\* resolved has its five records and has left the parked name servers, and
\* passes the provisioning's DNS check once its zone is active.
THEOREM ResolvedCanBeReliedOn == Spec => []ResolvedIsReady
<1>1. Init => LifeInv BY InitLife
<1>2. LifeInv /\ [Next]_vars => LifeInv' BY NextKeeps
<1>3. LifeInv => ResolvedIsReady BY ResolvesIsReady
<1> QED BY <1>1, <1>2, <1>3, PTL DEF Spec
=============================================================================
