---------------------------- MODULE ShopifyCollect ----------------------------
(***************************************************************************)
(* Collecting products: app/services/shopify_collect_service.py and its    *)
(* callers in controllers/shopify_collect.py; and the CSV/XLSX import of   *)
(* app/services/import_service.py, here of sources.                        *)
(*                                                                         *)
(* A collector reads a source's row, fetches the shop's listing page by    *)
(* page, writes the products that are not in the table yet, and saves its  *)
(* old copy of the source's row.  The tables' unique columns are the only  *)
(* thing two collectors have in common.  What a page lists, and whether it *)
(* can be fetched after the retries on 429, is up to the shop.             *)
(***************************************************************************)
EXTENDS Naturals, FiniteSets, TLC

CONSTANTS
    Products,      \* product URLs
    Sources,       \* source URLs
    Collectors,    \* runs of a collection or of a file import
    PageLimit,     \* shopify.page_limit
    Limits,        \* values of max_products (0: no limit)
    MaxEdits,      \* bound: edits and removals of sources, products and sites
    NoSource

VARIABLES
    rows,          \* the product rows
    sources,       \* the source rows, a function on the known sources
    col,           \* the collectors
    colJob,        \* their OperationJob or ImportJob
    edits

SourceRow == [status : {"pending", "collected", "failed"}, max : Limits, count : 0..Cardinality(Products)]
Stages    == {"idle", "start", "fetch", "write", "create", "update", "complete", "finish", "done"}

Idle == [at |-> "idle", src |-> NoSource, copy |-> <<>>, seen |-> {}, page |-> {}, cur |-> {},
         got |-> {}, count |-> 0, fails |-> 0, ok |-> TRUE, last |-> FALSE]

CollectTypeOK ==
    /\ DOMAIN sources \subseteq Sources /\ \A s \in DOMAIN sources : sources[s] \in SourceRow
    /\ \A c \in Collectors :
        /\ col[c].at \in Stages
        /\ col[c].page \cup col[c].cur \subseteq col[c].seen
        /\ colJob[c].status \in {"none", "running", "success", "partial", "failed"}

CollectInit ==
    /\ sources \in {[s \in S |-> [status |-> "pending", max |-> m, count |-> 0]] : S \in SUBSET Sources, m \in Limits}
    /\ col = [c \in Collectors |-> Idle]
    /\ colJob = [c \in Collectors |-> [status |-> "none", success |-> 0, fail |-> 0]]
    /\ edits = 0

\* The run is over; what it wrote is history.
Ended(c) == [col EXCEPT ![c] = [Idle EXCEPT !.at = "done", !.got = col[c].got, !.count = col[c].count]]

In(c, stage) == col[c].at = stage

\* The table with a row under each of the keys that it does not have yet.
Added(table, keys, row) == [k \in DOMAIN table \cup keys |-> IF k \in DOMAIN table THEN table[k] ELSE row]

Running == [status |-> "running", success |-> 0, fail |-> 0]

-----------------------------------------------------------------------------
(* A collection.                                                           *)

\* batch_collect_sources reads the source, creates the job and starts a task.
Submit(c, s) ==
    /\ In(c, "idle") /\ s \in DOMAIN sources
    /\ col' = [col EXCEPT ![c] = [Idle EXCEPT !.at = "start", !.src = s]]
    /\ colJob' = [colJob EXCEPT ![c] = Running]
    /\ UNCHANGED <<rows, sources, edits>>

\* collect_source does without the task: it works with the row it reads.
CollectNow(c, s) ==
    /\ In(c, "idle") /\ s \in DOMAIN sources
    /\ col' = [col EXCEPT ![c] = [Idle EXCEPT !.at = "fetch", !.src = s, !.copy = sources[s]]]
    /\ colJob' = [colJob EXCEPT ![c] = Running]
    /\ UNCHANGED <<rows, sources, edits>>

\* _run_collect_bg reads it again; a source that is gone fails the job.
Begin(c) ==
    /\ In(c, "start")
    /\ IF col[c].src \in DOMAIN sources
       THEN col' = [col EXCEPT ![c].at = "fetch", ![c].copy = sources[col[c].src]]
       ELSE col' = [col EXCEPT ![c].at = "complete", ![c].ok = FALSE]
    /\ UNCHANGED <<rows, sources, colJob, edits>>

Full(c, n) == col[c].copy.max > 0 /\ n >= col[c].copy.max

\* A page: products not listed before, at most PageLimit; a short page is the
\* last one.  An error ends the run with what it has.
Fetch(c) ==
    /\ In(c, "fetch")
    /\ \/ /\ ~col[c].last
          /\ \E S \in SUBSET (Products \ col[c].seen) :
               /\ Cardinality(S) <= PageLimit
               /\ col' = [col EXCEPT ![c].at = "write", ![c].page = S, ![c].seen = @ \cup S,
                                     ![c].last = Cardinality(S) < PageLimit]
       \/ ~col[c].last /\ col' = [col EXCEPT ![c].at = "update", ![c].ok = FALSE]
       \/ col[c].last /\ col' = [col EXCEPT ![c].at = "update"]
    /\ UNCHANGED <<rows, sources, colJob, edits>>

\* _insert_product looks for the row first ...
CheckProduct(c) ==
    /\ In(c, "write")
    /\ IF col[c].page = {} \/ Full(c, col[c].count)
       THEN col' = [col EXCEPT ![c].at = "fetch", ![c].page = {}, ![c].last = @ \/ Full(c, col[c].count)]
       ELSE \E p \in col[c].page :
              col' = [col EXCEPT ![c].page = @ \ {p},
                                 ![c].cur = IF p \in DOMAIN rows THEN {} ELSE {p},
                                 ![c].at = IF p \in DOMAIN rows THEN "write" ELSE "create"]
    /\ UNCHANGED <<rows, sources, colJob, edits>>

\* Mutant: a refused insert is counted.
CreateUnchecked(c) ==
    /\ In(c, "create") /\ col[c].cur \subseteq Products
    /\ rows' = Added(rows, col[c].cur, [site |-> NoSource, st |-> "", hist |-> {}])
    /\ col' = [col EXCEPT ![c].at = "write", ![c].cur = {}, ![c].got = @ \cup col[c].cur, ![c].count = @ + 1]
    /\ UNCHANGED <<sources, colJob, edits>>

\* ... and creates it, which the unique column may still refuse.
CreateProduct(c) ==
    /\ In(c, "create") /\ col[c].cur \subseteq Products
    /\ LET new == col[c].cur \ DOMAIN rows IN
       /\ rows' = Added(rows, new, [site |-> NoSource, st |-> "", hist |-> {}])
       /\ col' = [col EXCEPT ![c].at = "write", ![c].cur = {}, ![c].got = @ \cup new,
                             ![c].count = @ + Cardinality(new)]
    /\ UNCHANGED <<sources, colJob, edits>>

\* _update_source_status saves the whole copy.
UpdateSource(c) ==
    /\ In(c, "update")
    /\ sources' = IF col[c].src \in DOMAIN sources
                  THEN [sources EXCEPT ![col[c].src] = [col[c].copy EXCEPT
                           !.status = IF col[c].ok THEN "collected" ELSE "failed", !.count = col[c].count]]
                  ELSE sources
    /\ col' = [col EXCEPT ![c].at = "complete"]
    /\ UNCHANGED <<rows, colJob, edits>>

Complete(c) ==
    /\ In(c, "complete")
    /\ col' = Ended(c)
    /\ colJob' = [colJob EXCEPT ![c] = [status |-> IF col[c].ok THEN "success" ELSE "failed",
                                        success |-> col[c].count, fail |-> 0]]
    /\ UNCHANGED <<rows, sources, edits>>

-----------------------------------------------------------------------------
(* A file of sources.                                                      *)

ImportFile(c, S) ==
    /\ In(c, "idle")
    /\ col' = [col EXCEPT ![c] = [Idle EXCEPT !.at = "finish", !.page = S, !.seen = S]]
    /\ colJob' = [colJob EXCEPT ![c] = Running]
    /\ UNCHANGED <<rows, sources, edits>>

\* A row whose key is there is reported as failed ...
CheckRow(c) ==
    /\ In(c, "finish") /\ col[c].cur = {}
    /\ \E s \in col[c].page :
         col' = [col EXCEPT ![c].page = @ \ {s},
                            ![c].cur = IF s \in DOMAIN sources THEN {} ELSE {s},
                            ![c].fails = IF s \in DOMAIN sources THEN @ + 1 ELSE @]
    /\ UNCHANGED <<rows, sources, colJob, edits>>

\* ... and so is one the table refuses.
CreateRow(c) ==
    /\ In(c, "finish") /\ col[c].cur # {}
    /\ LET new == col[c].cur \ DOMAIN sources IN
       /\ \E m \in Limits : sources' = Added(sources, new, [status |-> "pending", max |-> m, count |-> 0])
       /\ col' = [col EXCEPT ![c].cur = {}, ![c].got = @ \cup new, ![c].count = @ + Cardinality(new),
                             ![c].fails = @ + 1 - Cardinality(new)]
    /\ UNCHANGED <<rows, colJob, edits>>

\* ImportJob.finish derives the status from the counts alone.
Verdict(success, fail) ==
    [status |-> IF fail = 0 THEN "success" ELSE IF success > 0 THEN "partial" ELSE "failed",
     success |-> success, fail |-> fail]

FinishFile(c) ==
    /\ In(c, "finish") /\ col[c].page \cup col[c].cur = {}
    /\ col' = Ended(c)
    /\ colJob' = [colJob EXCEPT ![c] = Verdict(col[c].count, col[c].fails)]
    /\ UNCHANGED <<rows, sources, edits>>

\* A file that does not parse: no row, no count, and a verdict all the same.
FileUnreadable(c) ==
    /\ In(c, "finish") /\ col[c].page = col[c].seen /\ col[c].cur = {}
    /\ col' = Ended(c)
    /\ colJob' = [colJob EXCEPT ![c] = Verdict(0, 0)]
    /\ UNCHANGED <<rows, sources, edits>>

-----------------------------------------------------------------------------
(* The users.                                                              *)

Edit == edits < MaxEdits /\ edits' = edits + 1

\* batch_set_max_products updates the column.
SetMax(s, m) ==
    /\ s \in DOMAIN sources /\ Edit
    /\ sources' = [sources EXCEPT ![s].max = m]
    /\ UNCHANGED <<rows, col, colJob>>

RemoveSource(s) ==
    /\ s \in DOMAIN sources /\ Edit
    /\ sources' = [x \in DOMAIN sources \ {s} |-> sources[x]]
    /\ UNCHANGED <<rows, col, colJob>>

RemoveProduct(p) ==
    /\ p \in DOMAIN rows /\ Edit
    /\ rows' = [x \in DOMAIN rows \ {p} |-> rows[x]]
    /\ UNCHANGED <<sources, col, colJob>>

CollectStep(c) ==
    \/ Begin(c) \/ Fetch(c) \/ CheckProduct(c) \/ CreateProduct(c) \/ UpdateSource(c) \/ Complete(c)
    \/ CheckRow(c) \/ CreateRow(c) \/ FinishFile(c) \/ FileUnreadable(c)

CollectNext ==
    \/ \E c \in Collectors : CollectStep(c) \/ (\E s \in Sources : Submit(c, s) \/ CollectNow(c, s)) \/ (\E S \in SUBSET Sources : ImportFile(c, S))
    \/ \E s \in Sources : RemoveSource(s) \/ (\E m \in Limits : SetMax(s, m))
    \/ \E p \in Products : RemoveProduct(p)
=============================================================================
