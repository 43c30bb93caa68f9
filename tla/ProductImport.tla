---------------------------- MODULE ProductImport ----------------------------
(***************************************************************************)
(* The product import: app/services/woo_import_service.py, the importers   *)
(* under app/services/importers and their callers in controllers/          *)
(* shopify_collect.py and controllers/site_pipeline.py.                    *)
(*                                                                         *)
(* A task assigns collected products to a site and imports them, one by    *)
(* one.  It works on copies of the rows and saves them whole.  A Woo-      *)
(* Commerce site is asked for the SKU before and, after some failures,     *)
(* again; a Shopify store is only posted to.  All Shopify imports share    *)
(* the client of one importer object.                                      *)
(*                                                                         *)
(* External: WooCommerce refuses a second product with the same SKU, a     *)
(* Shopify store takes it.  Any call may fail, also after its effect: at   *)
(* most MaxFaults times.                                                   *)
(***************************************************************************)
EXTENDS Naturals, FiniteSets, TLC

CONSTANTS
    Products,      \* product URLs; each gives one SKU
    WooSites, ShopifySites,
    Unparsable,    \* products whose JSON does not parse
    Importers,     \* the tasks
    ImportCount,   \* woo.import_product_count
    MaxConcurrent, \* places of the import semaphore
    MaxFaults,     \* bound: failed calls
    MaxCopies,     \* bound: copies of a product on a store
    NoSite

ASSUME ImportAssumption ==
    /\ ImportCount \in Nat \ {0} /\ MaxConcurrent \in Nat \ {0}
    /\ MaxFaults \in Nat /\ MaxCopies \in Nat \ {0}
    /\ Unparsable \subseteq Products /\ WooSites \cap ShopifySites = {}

VARIABLES
    rows,          \* the product rows, a function on the collected products
    imp,           \* the tasks
    job,           \* their OperationJob rows
    shop,          \* how many copies of a product a site has
    client,        \* the store whose token the shared Shopify client carries
    importFaults

importVars == <<imp, job, shop, client, importFaults>>

Sites   == WooSites \cup ShopifySites
Row     == [site : Sites \cup {NoSite}, st : {"", "assigned", "success", "failed"}, hist : SUBSET Sites]
NewRow  == [site |-> NoSite, st |-> "", hist |-> {}]
Places  == {"idle", "release", "pick", "next", "mark", "reread", "assign", "queued", "test", "sync",
            "put", "post", "recheck", "save", "done"}
Kinds   == {"none", "pipeline", "manual", "random", "batch"}
Copies  == UNION {[S -> Row] : S \in SUBSET Products}

ImportTypeOK ==
    /\ rows \in Copies
    /\ \A t \in Importers :
        /\ imp[t].at \in Places /\ imp[t].kind \in Kinds /\ imp[t].site \in Sites \cup {NoSite}
        /\ imp[t].copy \in Copies
        /\ imp[t].todo \subseteq DOMAIN imp[t].copy
        /\ imp[t].cur \subseteq imp[t].todo /\ Cardinality(imp[t].cur) <= 1
        /\ imp[t].left \subseteq Sites
    /\ job \in [Importers -> {"none", "running", "success", "failed"}]
    /\ shop \in [Sites -> [Products -> 0..MaxCopies]]
    /\ client \in ShopifySites \cup {NoSite}

NoTask == [at |-> "idle", kind |-> "none", site |-> NoSite, copy |-> <<>>, todo |-> {}, cur |-> {},
           left |-> {}]
Over   == [NoTask EXCEPT !.at = "done"]

ImportInit ==
    /\ imp = [t \in Importers |-> NoTask]
    /\ job = [t \in Importers |-> "none"]
    /\ shop = [s \in Sites |-> [p \in Products |-> 0]]
    /\ client = NoSite
    /\ importFaults = 0

-----------------------------------------------------------------------------
At(t, place) == imp[t].at = place
Cur(t)       == CHOOSE p \in imp[t].cur : TRUE
Site(t)      == imp[t].site

Fault == importFaults < MaxFaults /\ importFaults' = importFaults + 1
NoFault == UNCHANGED importFaults

\* row.save() writes every column of the copy; the row of a deleted product is
\* not written.
SaveRow(p, row) == rows' = IF p \in DOMAIN rows THEN [rows EXCEPT ![p] = row] ELSE rows

\* Any count of them, as the shuffle falls (fewer when there are fewer).
Sample(S) == {T \in SUBSET S : Cardinality(T) = IF Cardinality(S) < ImportCount THEN Cardinality(S) ELSE ImportCount}

CopyOf(S) == [p \in S |-> rows[p]]

Marked(row, s) == [row EXCEPT !.site = s, !.st = "assigned"]
\* The controllers overwrite imported_result, and the history with it.
Wiped(row, s)  == [Marked(row, s) EXCEPT !.hist = {}]

-----------------------------------------------------------------------------
(* Choosing the products of a site.                                        *)

OwnRows(s) == {p \in DOMAIN rows : rows[p].site = s /\ rows[p].st \in {"assigned", "failed"}}

\* select_products_for_site reads the site's own rows.
Select(t, s) ==
    /\ At(t, "idle")
    /\ LET own == OwnRows(s) IN
       imp' = [imp EXCEPT ![t] = [NoTask EXCEPT !.at = "release", !.kind = "pipeline", !.site = s,
                  !.copy = CopyOf(own), !.todo = {p \in own : rows[p].st = "failed"}]]
    /\ UNCHANGED <<rows, job, shop, client, importFaults>>

\* The failed ones go back to the pool, one save each.
Release(t) ==
    /\ At(t, "release")
    /\ \E p \in imp[t].todo :
        /\ SaveRow(p, [imp[t].copy[p] EXCEPT !.site = NoSite, !.st = ""])
        /\ imp' = [imp EXCEPT ![t].todo = @ \ {p},
                              ![t].copy = [q \in DOMAIN @ \ {p} |-> @[q]]]
    /\ UNCHANGED <<job, shop, client, importFaults>>

\* Rows that are assigned already are used; otherwise ready ones that are
\* nobody's and whose history does not name the site.
Available(s) == {p \in DOMAIN rows : rows[p].st # "assigned" /\ s \notin rows[p].hist}

Pick(t) ==
    /\ At(t, "release") /\ imp[t].todo = {}
    /\ LET own == DOMAIN imp[t].copy IN
       \/ /\ own # {}
          /\ \E S \in Sample(own) :
               imp' = [imp EXCEPT ![t].copy = [p \in S |-> @[p]], ![t].at = "queued"]
          /\ job' = [job EXCEPT ![t] = "running"]
       \/ /\ own = {} /\ Available(Site(t)) # {}
          /\ \E S \in Sample(Available(Site(t))) :
               imp' = [imp EXCEPT ![t].copy = CopyOf(S), ![t].todo = S, ![t].at = "assign"]
          /\ UNCHANGED job
       \/ /\ own = {} /\ Available(Site(t)) = {}
          /\ imp' = [imp EXCEPT ![t] = Over]
          /\ UNCHANGED job
    /\ UNCHANGED <<rows, shop, client, importFaults>>

\* One save per row; the last one lets the job be created.
Assign(t) ==
    /\ At(t, "assign")
    /\ \/ \E p \in imp[t].todo :
            /\ SaveRow(p, Marked(imp[t].copy[p], Site(t)))
            /\ imp' = [imp EXCEPT ![t].todo = @ \ {p}, ![t].copy[p] = Marked(@, Site(t))]
            /\ UNCHANGED job
       \/ /\ imp[t].todo = {}
          /\ imp' = [imp EXCEPT ![t].at = IF imp[t].kind = "pipeline" THEN "queued" ELSE "test"]
          /\ job' = [job EXCEPT ![t] = "running"]
          /\ UNCHANGED rows
    /\ UNCHANGED <<shop, client, importFaults>>

-----------------------------------------------------------------------------
(* Assigning by hand.                                                      *)

\* import_product_to_site, batch_import_products: the rows are read and marked
\* whoever has them.
ImportTo(t, s, S) ==
    /\ At(t, "idle") /\ S # {} /\ S \subseteq DOMAIN rows
    /\ imp' = [imp EXCEPT ![t] = [NoTask EXCEPT !.at = "mark", !.kind = "manual", !.site = s,
                  !.copy = CopyOf(S), !.todo = S]]
    /\ UNCHANGED <<rows, job, shop, client, importFaults>>

\* random_assign_products: any rows but the site's own, also another's.
RandomAssign(t, s) ==
    /\ At(t, "idle")
    /\ \E S \in Sample({p \in DOMAIN rows : rows[p].site # s}) :
        IF S = {}
        THEN /\ imp' = [imp EXCEPT ![t] = Over]
             /\ job' = [job EXCEPT ![t] = "failed"]
        ELSE /\ imp' = [imp EXCEPT ![t] = [NoTask EXCEPT !.at = "mark", !.kind = "random", !.site = s,
                           !.copy = CopyOf(S), !.todo = S]]
             /\ job' = [job EXCEPT ![t] = "running"]
    /\ UNCHANGED <<rows, shop, client, importFaults>>

\* batch_random_assign reads the rows once and serves the sites one by one from
\* that copy.
BatchAssign(t, S) ==
    /\ At(t, "idle") /\ S # {} /\ DOMAIN rows # {}
    /\ imp' = [imp EXCEPT ![t] = [NoTask EXCEPT !.at = "next", !.kind = "batch", !.copy = CopyOf(DOMAIN rows),
                  !.left = S]]
    /\ UNCHANGED <<rows, job, shop, client, importFaults>>

BatchOver == [Over EXCEPT !.kind = "batch"]

NextSite(t) ==
    /\ At(t, "next")
    /\ \/ imp[t].left = {} /\ imp' = [imp EXCEPT ![t] = BatchOver]
       \/ \E s \in imp[t].left : \E S \in Sample({p \in DOMAIN imp[t].copy : imp[t].copy[p].site # s}) :
            imp' = [imp EXCEPT ![t].at = IF S = {} THEN "next" ELSE "mark", ![t].site = s, ![t].todo = S,
                               ![t].left = @ \ {s}]
    /\ UNCHANGED <<rows, job, shop, client, importFaults>>

Mark(t) ==
    /\ At(t, "mark")
    /\ \/ \E p \in imp[t].todo :
            /\ SaveRow(p, Wiped(imp[t].copy[p], Site(t)))
            /\ imp' = [imp EXCEPT ![t].todo = @ \ {p}, ![t].copy[p] = Wiped(@, Site(t))]
            /\ UNCHANGED job
       \/ /\ imp[t].todo = {} /\ imp[t].kind = "random"
          /\ imp' = [imp EXCEPT ![t] = Over]
          /\ job' = [job EXCEPT ![t] = "success"]
          /\ UNCHANGED rows
       \* The job of a site of a batch is created as running, when the work is done.
       \/ /\ imp[t].todo = {} /\ imp[t].kind = "batch"
          /\ imp' = [imp EXCEPT ![t].at = "next"]
          /\ job' = [job EXCEPT ![t] = "running"]
          /\ UNCHANGED rows
       \/ /\ imp[t].todo = {} /\ imp[t].kind = "manual"
          /\ imp' = [imp EXCEPT ![t].at = "reread"]
          /\ job' = [job EXCEPT ![t] = "running"]
          /\ UNCHANGED rows
    /\ UNCHANGED <<shop, client, importFaults>>

\* A save that raises ends the request; only random_assign_products has a job.
MarkFails(t) ==
    /\ At(t, "mark") /\ Fault
    /\ imp' = [imp EXCEPT ![t] = IF imp[t].kind = "batch" THEN BatchOver ELSE Over]
    /\ job' = [job EXCEPT ![t] = IF imp[t].kind = "random" THEN "failed" ELSE @]
    /\ UNCHANGED <<rows, shop, client>>

\* import_for_site reads the rows once more, and marks those that have changed
\* hands.  A site without WooCommerce keys is refused with an exception.
Reread(t) ==
    /\ At(t, "reread")
    /\ LET S == DOMAIN imp[t].copy \cap DOMAIN rows IN
       IF Site(t) \in ShopifySites
       THEN /\ imp' = [imp EXCEPT ![t] = Over]
            /\ job' = [job EXCEPT ![t] = "failed"]
       ELSE /\ imp' = [imp EXCEPT ![t] = IF S = {} THEN Over ELSE
                         [@ EXCEPT !.at = "assign", !.copy = CopyOf(S),
                                   !.todo = {p \in S : rows[p].site # Site(t) \/ rows[p].st # "assigned"}]]
            /\ job' = [job EXCEPT ![t] = IF S = {} THEN "success" ELSE @]
    /\ UNCHANGED <<rows, shop, client, importFaults>>

-----------------------------------------------------------------------------
(* The import.                                                             *)

\* An import by hand is reported as a success unless it raised.
End(t, ok) ==
    /\ imp' = [imp EXCEPT ![t] = Over]
    /\ job' = [job EXCEPT ![t] = IF ok \/ imp[t].kind = "manual" THEN "success" ELSE "failed"]

\* Mutant: the exception ends the task.
RaiseUncaught(t) ==
    imp' = [imp EXCEPT ![t] = Over] /\ UNCHANGED job

\* An exception leaves the loop: the rows not yet handled stay assigned.
Raise(t) ==
    /\ imp' = [imp EXCEPT ![t] = Over]
    /\ job' = [job EXCEPT ![t] = "failed"]

Importing == {t \in Importers : imp[t].kind = "pipeline" /\ imp[t].at \in {"test", "sync", "put", "post", "recheck", "save"}}

Acquire(t) ==
    /\ At(t, "queued") /\ Cardinality(Importing) < MaxConcurrent
    /\ imp' = [imp EXCEPT ![t].at = "test"]
    /\ UNCHANGED <<rows, job, shop, client, importFaults>>

\* The connectivity test; the Shopify importer makes its client before it and
\* keeps it open when the test fails.
Test(t) ==
    /\ At(t, "test")
    /\ client' = IF Site(t) \in ShopifySites THEN Site(t) ELSE client
    /\ \/ /\ imp' = [imp EXCEPT ![t].at = "sync", ![t].todo = DOMAIN imp[t].copy]
          /\ UNCHANGED job /\ NoFault
       \/ Fault /\ End(t, FALSE)
    /\ UNCHANGED <<rows, shop>>

\* Mutant: the history is written before the outcome is looked at.
OutcomeHistoryAlways(t, st) ==
    [imp EXCEPT ![t].at = "save", ![t].copy[Cur(t)] = [@ EXCEPT !.st = st, !.hist = @ \cup {Site(t)}]]

\* What becomes of the product's copy, saved by the next step.
Outcome(t, st) ==
    LET row == imp[t].copy[Cur(t)] IN
    [imp EXCEPT ![t].at = "save",
                ![t].copy[Cur(t)] = [row EXCEPT !.st = st,
                                                !.hist = IF st = "success" THEN row.hist \cup {Site(t)} ELSE row.hist]]

\* get_product_id_by_sku: any error reads as "not there".
Found(t, p, found) ==
    IF found THEN shop[Site(t)][p] > 0 /\ NoFault
             ELSE IF shop[Site(t)][p] > 0 THEN Fault ELSE NoFault

\* map_shopify_to_wc: no payload without JSON, a title and variants; the SKU is
\* made of the handle and the first variant's id, the same at each import.
Maps(p) == p \notin Unparsable

\* The next product, in the order of the list, is mapped and looked up.
LookUp(t) ==
    /\ At(t, "sync") /\ Site(t) \in WooSites
    /\ \E p \in imp[t].todo :
        \/ /\ ~Maps(p)
           /\ imp' = [imp EXCEPT ![t].at = "save", ![t].cur = {p}, ![t].copy[p].st = "failed"]
           /\ NoFault
        \/ /\ Maps(p)
           /\ \E found \in BOOLEAN :
                /\ Found(t, p, found)
                /\ imp' = [imp EXCEPT ![t].at = IF found THEN "put" ELSE "post", ![t].cur = {p}]
    /\ UNCHANGED <<rows, job, shop, client>>

Put(t) ==
    /\ At(t, "put")
    /\ \/ imp' = Outcome(t, "success") /\ NoFault /\ UNCHANGED job
       \/ imp' = [imp EXCEPT ![t].at = "recheck"] /\ Fault /\ UNCHANGED job
       \/ Raise(t) /\ Fault
    /\ UNCHANGED <<rows, shop, client>>

\* A POST is sent once.  An error status is followed by another look for the
\* SKU; a refused or timed-out connection surfaces as ExternalAPIError, which
\* upsert_product does not catch, also when the product has been created.
Post(t) ==
    LET s == Site(t)  p == Cur(t) IN
    /\ At(t, "post")
    /\ \/ /\ shop[s][p] > 0        \* product_invalid_sku: taken as a success
          /\ imp' = Outcome(t, "success") /\ NoFault /\ UNCHANGED <<shop, job>>
       \/ /\ shop[s][p] > 0        \* without the other product's id, not found either
          /\ imp' = Outcome(t, "failed") /\ Fault /\ UNCHANGED <<shop, job>>
       \/ \E created \in BOOLEAN :
            /\ shop[s][p] = 0
            /\ shop' = IF created THEN [shop EXCEPT ![s][p] = 1] ELSE shop
            /\ \/ created /\ imp' = Outcome(t, "success") /\ NoFault /\ UNCHANGED job
               \/ imp' = [imp EXCEPT ![t].at = "recheck"] /\ Fault /\ UNCHANGED job
               \/ Raise(t) /\ Fault
    /\ UNCHANGED <<rows, client>>

\* The SKU again, after an HTTPError.
Recheck(t) ==
    /\ At(t, "recheck")
    /\ \E found \in BOOLEAN : Found(t, Cur(t), found) /\ imp' = Outcome(t, IF found THEN "success" ELSE "failed")
    /\ UNCHANGED <<rows, job, shop, client>>

-----------------------------------------------------------------------------
(* A Shopify store.                                                        *)

\* imported_result is written without the history.
StoreOutcome(t, p, st) ==
    [imp EXCEPT ![t].at = "save", ![t].cur = {p}, ![t].copy[p] = [@ EXCEPT !.st = st, !.hist = {}]]

\* The post goes out with the token of whoever made the shared client last.
Send(t) ==
    LET s == Site(t) IN
    /\ At(t, "sync") /\ s \in ShopifySites
    /\ \E p \in imp[t].todo :
        \/ /\ p \in Unparsable
           /\ imp' = StoreOutcome(t, p, "failed")
           /\ NoFault /\ UNCHANGED shop
        \/ /\ p \notin Unparsable
           /\ client = s
           /\ shop[s][p] < MaxCopies
           /\ shop' = [shop EXCEPT ![s][p] = @ + 1]
           /\ \/ imp' = StoreOutcome(t, p, "success") /\ NoFault
              \/ imp' = StoreOutcome(t, p, "failed") /\ Fault
        \/ /\ p \notin Unparsable
           /\ IF client = s THEN Fault ELSE NoFault
           /\ imp' = StoreOutcome(t, p, "failed")
           /\ UNCHANGED shop
    /\ UNCHANGED <<rows, job, client>>

-----------------------------------------------------------------------------
\* The row is saved whole; after a 401 (any failure may be one) the import ends.
Save(t) ==
    /\ At(t, "save")
    /\ SaveRow(Cur(t), imp[t].copy[Cur(t)])
    /\ \E rest \in {imp[t].todo \ imp[t].cur} \cup
                   (IF imp[t].copy[Cur(t)].st = "failed" THEN {{}} ELSE {}) :
         imp' = [imp EXCEPT ![t].at = "sync", ![t].todo = rest, ![t].cur = {}]
    /\ UNCHANGED <<job, shop, client, importFaults>>

\* The Shopify importer closes the client, whosever it is by now.  When the job
\* cannot be completed, or the products of the site not be counted afterwards,
\* the handler of the exception fails the job.
Finish(t) ==
    /\ At(t, "sync") /\ imp[t].todo = {}
    /\ \/ End(t, TRUE) /\ NoFault
       \/ Raise(t) /\ Fault
    /\ client' = IF Site(t) \in ShopifySites THEN NoSite ELSE client
    /\ UNCHANGED <<rows, shop>>

-----------------------------------------------------------------------------
ImportStep(t) ==
    \/ Release(t) \/ Pick(t) \/ Assign(t) \/ NextSite(t) \/ Mark(t) \/ MarkFails(t) \/ Reread(t) \/ Acquire(t) \/ Test(t)
    \/ LookUp(t) \/ Put(t) \/ Post(t) \/ Recheck(t) \/ Send(t) \/ Save(t) \/ Finish(t)

\* unbind_by_site, when a site is deleted: one UPDATE of the columns.
Unbind(s) ==
    /\ rows' = [p \in DOMAIN rows |-> IF rows[p].site = s THEN NewRow ELSE rows[p]]
    /\ rows' # rows
    /\ UNCHANGED importVars

Request(t) ==
    \/ \E s \in Sites : Select(t, s) \/ RandomAssign(t, s)
    \/ \E S \in SUBSET Sites : BatchAssign(t, S)
    \/ \E s \in Sites, S \in SUBSET DOMAIN rows : ImportTo(t, s, S)

ImportNext == \E t \in Importers : Request(t) \/ ImportStep(t)
=============================================================================
