------------------------------ MODULE Catalogue ------------------------------
(***************************************************************************)
(* The product catalogue: collectors fill the table of products that the   *)
(* import tasks hand to the sites.  The table is all they share, and both  *)
(* write rows whole.                                                       *)
(***************************************************************************)
EXTENDS ProductImport

CONSTANTS
    Sources, Collectors, PageLimit, Limits, MaxEdits,
    MaxRuns        \* bound: tasks and collectors ever started

ASSUME CatalogueAssumption == MaxRuns \in Nat /\ Importers \subseteq Nat /\ Collectors \subseteq Nat
\* Rows of two tables are named apart, whatever their URLs are.
ASSUME TablesAssumption   == Products \cap Sources = {}
ASSUME CollectAssumption   == PageLimit \in Nat \ {0} /\ Limits \subseteq Nat /\ MaxEdits \in Nat

VARIABLES sources, col, colJob, edits

C == INSTANCE ShopifyCollect WITH NoSource <- NoSite

collecting == <<sources, col, colJob, edits>>
vars == <<rows, importVars, collecting>>

TypeOK == ImportTypeOK /\ C!CollectTypeOK

\* The table is empty, or an earlier collection has filled it.
Init == rows \in {<<>>, [p \in Products |-> NewRow]} /\ ImportInit /\ C!CollectInit

Started == {<<"import", t>> : t \in {x \in Importers : imp[x].at # "idle"}}
           \cup {<<"collect", c>> : c \in {x \in Collectors : col[x].at # "idle"}}

\* What users change while nothing runs is another initial state.
Busy == edits' = edits \/ \E t \in Importers : imp[t].at \notin {"idle", "done"} \/ \E c \in Collectors : col[c].at \notin {"idle", "done"}

\* The MaxRuns bound; the tasks are numbered in the order in which they start.
InOrder ==
    /\ Cardinality(Started') <= MaxRuns /\ Busy
    /\ \A t, u \in Importers : t < u /\ imp'[u].at # "idle" => imp'[t].at # "idle"
    /\ \A c, d \in Collectors : c < d /\ col'[d].at # "idle" => col'[c].at # "idle"

Next ==
    \/ ImportNext /\ UNCHANGED collecting /\ InOrder
    \/ C!CollectNext /\ UNCHANGED importVars /\ InOrder
    \/ \E s \in Sites : Unbind(s) /\ C!Edit /\ Busy /\ UNCHANGED <<sources, col, colJob>>

Spec == Init /\ [][Next]_vars

\* Every import and every collection is one task of the event loop, whose
\* calls return or time out.
FairSpec ==
    /\ Spec
    /\ \A t \in Importers : WF_vars(ImportStep(t) /\ UNCHANGED collecting)
    /\ \A c \in Collectors : WF_vars(C!CollectStep(c) /\ UNCHANGED importVars)

-----------------------------------------------------------------------------
\* What the table says of an import is so: a row marked as imported speaks of a
\* product its site has, and the sites in a row's history have it, although
\* tasks save copies they read before others wrote, and take a second look for
\* a product whose creation seemed to fail.
SuccessIsOnShop ==
    \A p \in DOMAIN rows :
        /\ rows[p].st = "success" => rows[p].site \in Sites /\ shop[rows[p].site][p] > 0
        /\ \A s \in rows[p].hist : shop[s][p] > 0

\* No row of the table is counted by two collectors as theirs, and each counts
\* exactly what it wrote, however their look-ups and inserts interleave.
CountedOnce ==
    \A c \in Collectors :
        /\ col[c].count = Cardinality(col[c].got)
        /\ edits = 0 => \A d \in Collectors \ {c} : col[c].got \cap col[d].got = {}

\* Every task that was started ends with a verdict: no exception, refusal or
\* full semaphore leaves a job running.  Excepted are the jobs of
\* batch_random_assign, which are created as running once their work is done and
\* are left so.  (Only MaxRuns tasks are ever started.)
JobsSettle ==
    <>[](/\ \A t \in Importers : job[t] # "running" \/ imp[t].kind = "batch"
         /\ \A c \in Collectors : colJob[c].status # "running")

\* A product is put on a site once (select_products_for_site, woo_import_service.py:707).
OncePerSite == \A s \in Sites, p \in Products : shop[s][p] <= 1
=============================================================================
