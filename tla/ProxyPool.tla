----------------------------- MODULE ProxyPool ------------------------------
(***************************************************************************)
(* controllers/hubstudio_proxy.py: the proxies that sites' browser         *)
(* environments use.  A site's row names its proxy, and a proxy is free    *)
(* when no site's row names it.  Updates of a site's row, which may name a *)
(* proxy too, are here as well.                                            *)
(***************************************************************************)
EXTENDS ResourceRequests, SequencesExt

CONSTANTS
    Proxies,            \* ids of rows, in the order in which they are used
    Addresses,
    CheckGroup          \* how many proxies are checked at a time (5 in the code)

ASSUME ProxyAssumption == Proxies \subseteq Nat \ {NoProxy} /\ IsFiniteSet(Proxies) /\ CheckGroup \in Nat \ {0}

VARIABLE proxy          \* the table of proxies

NewProxy(a) == [here |-> TRUE, addr |-> a, status |-> "active", deleted |-> FALSE]
NoRow       == [here |-> FALSE, addr |-> Nothing, status |-> "active", deleted |-> FALSE]
ProxyRows   == [here : BOOLEAN, addr : Addresses \cup {Nothing},
                status : {"active", "disabled", "testing"}, deleted : BOOLEAN]

\* Some rows exist, with addresses of their own.
ProxyInit ==
    \E n \in 0..Cardinality(Proxies), a \in [Proxies -> Addresses] :
        /\ \A p, q \in Proxies : p # q => a[p] # a[q]
        /\ proxy = [p \in Proxies |-> IF p <= n THEN NewProxy(a[p]) ELSE NoRow]

Known    == {p \in Proxies : proxy[p].here}
Listed(S) == {p \in S \cap Known : ~proxy[p].deleted}
Taken(a) == \E p \in Known : proxy[p].addr = a
\* S by the rows' ids: the one sequence of its members that goes up.
ById(S)  == {ps \in [1..Cardinality(S) -> S] : \A i, j \in DOMAIN ps : i < j => ps[i] < ps[j]}

\* create_proxy and batch_import: an address is looked up, and the row written
\* by a later statement.  No index of the table refuses a second one.
ImportProxies(r) ==
    \E as \in Batches(Addresses) : Begin(r, "import_proxies", "lookup", as, Nothing, Nothing) /\ UNCHANGED <<site, proxy>>

LookUpAddress(r) ==
    /\ Has(r, "import_proxies", "lookup")
    /\ IF Taken(Here(r)) THEN NextItem(r, "lookup") ELSE Goto(r, "create")
    /\ UNCHANGED <<site, proxy>>

\* A failing insert is one of the import's errors.
CreateProxy(r) ==
    /\ Has(r, "import_proxies", "create") /\ NextItem(r, "lookup") /\ UNCHANGED site
    /\ \/ UNCHANGED proxy
       \/ \E p \in Proxies \ Known :
            /\ \A q \in Proxies \ Known : p <= q
            /\ proxy' = [proxy EXCEPT ![p] = NewProxy(Here(r))]

\* batch_assign_sites: the sites are read, then the proxies of all other sites,
\* then the active rest, in the order of their ids; too few is an error.
AssignProxies(r) ==
    \E ss \in Batches(Sites) :
        /\ IsInjective(ss)
        /\ Begin(r, "assign_proxies", "occupied", ss, Nothing, Nothing) /\ UNCHANGED <<site, proxy>>

\* Mutant: the proxies of sites in the recycle bin count as free.
OccupiedByLive(r) ==
    /\ Has(r, "assign_proxies", "occupied")
    /\ Becomes(r, [req[r] EXCEPT !.at = "available",
                    !.arg = {site[s].proxy : s \in {t \in Sites \ Range(req[r].todo) : ~site[t].deleted}} \ {NoProxy}])
    /\ UNCHANGED <<site, proxy>>

OccupiedProxies(r) ==
    /\ Has(r, "assign_proxies", "occupied")
    /\ Becomes(r, [req[r] EXCEPT !.at = "available",
                    !.arg = {site[s].proxy : s \in Sites \ Range(req[r].todo)} \ {NoProxy}])
    /\ UNCHANGED <<site, proxy>>

AvailableProxies(r) ==
    /\ Has(r, "assign_proxies", "available") /\ UNCHANGED <<site, proxy>>
    /\ LET free == {p \in Known : proxy[p].status = "active"} \ req[r].arg
       IN IF Cardinality(free) < Len(req[r].todo) THEN Done(r)
          ELSE \E ps \in ById(free) : Becomes(r, [req[r] EXCEPT !.at = "give", !.arg = ps])

\* One save for each site, of the one column.
GiveProxy(r) ==
    /\ Has(r, "assign_proxies", "give")
    /\ site' = [site EXCEPT ![Here(r)] = [@ EXCEPT !.proxy = Head(req[r].arg), !.byHand = FALSE]]
    /\ IF Len(req[r].todo) = 1 THEN Done(r)
       ELSE Becomes(r, [req[r] EXCEPT !.todo = Tail(@), !.arg = Tail(@)])
    /\ UNCHANGED proxy

\* update_proxy: a new address is looked up; the row is saved whole, as it was read.
EditProxy(r) ==
    \E p \in Known, a \in Addresses, st \in {"active", "disabled"} :
        /\ Begin(r, "edit_proxy", IF a = proxy[p].addr THEN "save" ELSE "lookup", <<p>>, Nothing,
                 [proxy[p] EXCEPT !.addr = a, !.status = st])
        /\ UNCHANGED <<site, proxy>>

LookUpNewAddress(r) ==
    /\ Has(r, "edit_proxy", "lookup") /\ UNCHANGED <<site, proxy>>
    /\ IF Taken(req[r].row.addr) THEN Done(r) ELSE Goto(r, "save")

SaveProxy(r) ==
    /\ Has(r, "edit_proxy", "save") /\ Done(r) /\ UNCHANGED site
    /\ proxy' = [proxy EXCEPT ![Here(r)] = req[r].row]

\* delete_proxy, batch_delete: no site's row is looked at.
DeleteProxies(r) ==
    \E S \in SUBSET Known :
        /\ Listed(S) # {}
        /\ Begin(r, "delete_proxies", "delete", <<>>, Listed(S), Nothing) /\ UNCHANGED <<site, proxy>>

DeleteListed(r) ==
    /\ Has(r, "delete_proxies", "delete") /\ Done(r) /\ UNCHANGED site
    /\ proxy' = [p \in Proxies |-> [proxy[p] EXCEPT !.deleted = @ \/ p \in req[r].arg]]

\* check_single_proxy, batch_check: all rows are marked, then checked a group at
\* a time; each answer is saved in its one column when it comes.
CheckProxies(r) ==
    \E S \in SUBSET Known :
        /\ Listed(S) # {}
        /\ \E ps \in ById(Listed(S)) : Begin(r, "check_proxies", "mark", ps, {}, Nothing)
        /\ UNCHANGED <<site, proxy>>

MarkTesting(r) ==
    /\ Has(r, "check_proxies", "mark") /\ Goto(r, "group") /\ UNCHANGED site
    /\ proxy' = [p \in Proxies |-> IF p \in Range(req[r].todo) THEN [proxy[p] EXCEPT !.status = "testing"] ELSE proxy[p]]

CheckNextGroup(r) ==
    /\ Has(r, "check_proxies", "group") /\ req[r].arg = {} /\ UNCHANGED <<site, proxy>>
    /\ LET todo == req[r].todo
           n == IF Len(todo) < CheckGroup THEN Len(todo) ELSE CheckGroup
       IN IF n = 0 THEN Done(r)
          ELSE Becomes(r, [req[r] EXCEPT !.arg = Range(SubSeq(todo, 1, n)), !.todo = SubSeq(todo, n + 1, Len(todo))])

ProxyAnswers(r) ==
    /\ Has(r, "check_proxies", "group") /\ UNCHANGED site
    /\ \E p \in req[r].arg, st \in {"active", "disabled"} :
        /\ proxy' = [proxy EXCEPT ![p].status = st]
        /\ Becomes(r, [req[r] EXCEPT !.arg = @ \ {p}])

\* batch_unassign writes NULL into a column that does not take it: a strict
\* server refuses the statement, which is noted, another stores 0.
UnassignProxies(r) ==
    \E S \in SUBSET Known :
        /\ Listed(S) # {}
        /\ \E ps \in ById(Listed(S)) : Begin(r, "unassign_proxies", "clear", ps, Nothing, Nothing)
        /\ UNCHANGED <<site, proxy>>

\* Mutant: NULL is stored in a column that is read as a number.
ClearToNull(r) ==
    /\ Has(r, "unassign_proxies", "clear") /\ NextItem(r, "clear") /\ UNCHANGED proxy
    /\ site' = [s \in Sites |-> IF site[s].proxy = Here(r) THEN [site[s] EXCEPT !.proxy = Nothing] ELSE site[s]]

ClearProxy(r) ==
    /\ Has(r, "unassign_proxies", "clear") /\ NextItem(r, "clear") /\ UNCHANGED proxy
    /\ \/ UNCHANGED site
       \/ site' = [s \in Sites |-> IF site[s].proxy = Here(r) THEN [site[s] EXCEPT !.proxy = NoProxy] ELSE site[s]]

\* /site/update: the row is read, and saved whole with the columns that the
\* request names.  Whose the proxy is that it names, nobody asks.
EditSite(r) ==
    \E s \in Sites, p \in Proxies \cup {NoProxy} :
        /\ Begin(r, "edit_site", "save", <<s>>, Nothing,
                 IF p = site[s].proxy THEN site[s] ELSE [site[s] EXCEPT !.proxy = p, !.byHand = TRUE])
        /\ UNCHANGED <<site, proxy>>

SaveEditedSite(r) ==
    /\ Has(r, "edit_site", "save") /\ Done(r) /\ UNCHANGED proxy
    /\ site' = [site EXCEPT ![Here(r)] = req[r].row]

ProxyNext(r) ==
    \/ ImportProxies(r) \/ LookUpAddress(r) \/ CreateProxy(r)
    \/ AssignProxies(r) \/ OccupiedProxies(r) \/ AvailableProxies(r) \/ GiveProxy(r)
    \/ EditProxy(r) \/ LookUpNewAddress(r) \/ SaveProxy(r)
    \/ DeleteProxies(r) \/ DeleteListed(r)
    \/ CheckProxies(r) \/ MarkTesting(r) \/ CheckNextGroup(r) \/ ProxyAnswers(r)
    \/ UnassignProxies(r) \/ ClearProxy(r)
    \/ EditSite(r) \/ SaveEditedSite(r)
=============================================================================
