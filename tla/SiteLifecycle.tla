---------------------------- MODULE SiteLifecycle ----------------------------
(***************************************************************************)
(* The jobs of controllers/site_pipeline.py that work on rows of sites     *)
(* besides the provisioning: DNS and name servers, redirects, creation in  *)
(* a batch and deletion in a batch.                                        *)
(*                                                                         *)
(* Jobs are coroutines of one event loop; what they do between two awaits  *)
(* is one action, the redirect's and the registrar's HTTP included, which  *)
(* block the loop.  A job works on the copy of the row its request read,   *)
(* and saves that copy WHOLE.                                              *)
(***************************************************************************)
EXTENDS DomainDns, FiniteSets

CONSTANTS
    JobKinds,           \* the kinds of jobs that are asked for
    MaxItems,           \* bound: the sites of all requests together
    MaxEdits            \* bound: what users do to rows without a job

ASSUME LifecycleAssumption == Runs \subseteq Nat /\ MaxEdits \in Nat /\ MaxItems \in Nat

VARIABLES
    row,                \* the table of sites
    job,                \* the jobs' rows
    task,               \* the coroutines
    rules,              \* Cloudflare's redirect rules of each domain
    panel,              \* the panels' sites: <<panel, domain>>
    preferred,          \* the sites that have a panel of their own
    told,               \* what a deletion's result says of each site
    asked,              \* history: the addresses DNS jobs were started for
    items, edits        \* the bounds' counters

external == <<rules, panel, preferred>>
vars == <<dnsVars, row, job, task, external, told, asked, items, edits>>

Pair    == {"root", "www"}
NoRow   == [here |-> FALSE, deleted |-> FALSE, ip |-> "", cf |-> "", ns |-> "",
            rd |-> "", op |-> ""]
Rows    == [here : BOOLEAN, deleted : BOOLEAN, ip : Addresses \cup {""},
            cf : {"", "resolved", "nsFailed", "partial", "failed"}, ns : {"", "updated", "failed", "zone"},
            rd : {"", "success", "partial", "failed"}, op : {"", "exists"}]
Idle    == [kind |-> "none", at |-> "idle", todo |-> <<>>, bad |-> FALSE]

TypeOK ==
    /\ DnsTypeOK
    /\ row \in [Domains -> Rows]
    /\ job \in [Runs -> {"absent", "running", "success", "failed"}]
    /\ \A j \in Runs :
        /\ task[j].kind \in JobKinds \cup {"none"} /\ task[j].bad \in BOOLEAN
        /\ \A i \in DOMAIN task[j].todo : task[j].todo[i].site \in Domains /\ task[j].todo[i].row \in Rows
    /\ rules \in [Domains -> SUBSET Pair] /\ panel \subseteq {"own", "default"} \X Domains
    /\ preferred \subseteq Domains
    /\ told \in [Domains -> {"nothing", "deleted", "error", "notFound"}]
    /\ asked \in [Domains -> SUBSET (Addresses \cup {""})] /\ items \in 0..MaxItems /\ edits \in 0..MaxEdits

Init ==
    /\ DnsInit
    /\ row \in [Domains -> {NoRow} \cup {[NoRow EXCEPT !.here = TRUE, !.ip = a] : a \in Addresses}]
    /\ job = [j \in Runs |-> "absent"] /\ task = [j \in Runs |-> Idle]
    /\ rules = [d \in Domains |-> {}]
    /\ preferred \in SUBSET Domains /\ panel \in SUBSET ({"own", "default"} \X Domains)
    /\ \A d \in Domains : <<"own", d>> \in panel => d \in preferred
    /\ told = [d \in Domains |-> "nothing"] /\ asked = [d \in Domains |-> {}] /\ items = 0 /\ edits = 0

-----------------------------------------------------------------------------
(* Requests and coroutines.                                                *)

Here(j)  == Head(task[j].todo)
Site(j)  == Here(j).site
Copy(j)  == Here(j).row
Has(j, kind, at) == task[j].kind = kind /\ task[j].at = at

Items(ss) == [i \in DOMAIN ss |-> [site |-> ss[i], row |-> row[ss[i]], own |-> ss[i] \in preferred]]

Goto(j, at)     == task' = [task EXCEPT ![j].at = at]
Copied(j, r, at) == task' = [task EXCEPT ![j].at = at, ![j].todo = <<[Here(j) EXCEPT !.row = r]>> \o Tail(@)]
Save(j, r)      == row' = [row EXCEPT ![Site(j)] = r]

\* Jobs get their ids in the order in which they are asked for.
Ask(j, kind, at, ss) ==
    /\ job[j] = "absent" /\ kind \in JobKinds /\ \A i \in Runs : i < j => job[i] # "absent"
    /\ items + Len(ss) <= MaxItems /\ items' = items + Len(ss)
    /\ job' = [job EXCEPT ![j] = "running"]
    /\ task' = [task EXCEPT ![j] = [kind |-> kind, at |-> at, todo |-> Items(ss), bad |-> FALSE]]

\* One site of a batch is done with; a job of one site is a batch of one.
Next1(j, first, ok) ==
    task' = [task EXCEPT ![j].at = IF Len(task[j].todo) = 1 THEN "end" ELSE first,
                         ![j].todo = Tail(@), ![j].bad = @ \/ ~ok]

\* A coroutine has no more sites: its job's row says whether one failed.
End(j) ==
    /\ task[j].at = "end"
    /\ job' = [job EXCEPT ![j] = IF task[j].bad THEN "failed" ELSE "success"]
    /\ task' = [task EXCEPT ![j] = Idle]
    /\ UNCHANGED <<dnsVars, row, external, told, asked, items, edits>>

-----------------------------------------------------------------------------
(* DNS.                                                                    *)

\* Deleted sites are not kept out; those without an address are.
StartDns(j, ss) ==
    /\ \A i \in DOMAIN ss : row[ss[i]].here /\ (row[ss[i]].ip # "" \/ ss[i] \in Shopify)
    /\ Ask(j, "dns", "thread", ss)
    /\ asked' = [d \in Domains |-> asked[d] \cup {row[d].ip : i \in {k \in DOMAIN ss : ss[k] = d}}]
    /\ UNCHANGED <<dnsVars, row, external, told, edits>>

EnterPool(j) ==
    /\ Has(j, "dns", "thread") /\ At(j, "idle") /\ Turn(j, Start)
    /\ UNCHANGED <<zone, registrar, faults, row, job, task, external, told, asked, items, edits>>

DnsThread(j) ==
    /\ Has(j, "dns", "thread") /\ RunStep(j, Site(j), Copy(j).ip)
    /\ UNCHANGED <<row, job, task, external, told, asked, items, edits>>

\* Mutants: a result without the text record, and the raw result of the call.
AppliedWithoutText(r, result) ==
    IF result.zone # "none" /\ AllKinds \ {"spf"} \subseteq result.oks /\ result.ns # "failed"
    THEN [r EXCEPT !.cf = "resolved", !.ns = "zone"] ELSE r

\* _apply_dns_result_to_site: without a zone the row stays as it was read.
Applied(r, result) ==
    LET all == result.oks = AllKinds IN
    IF result.zone = "none" THEN r
    ELSE [r EXCEPT
            !.ns = CASE result.ns = "ok" -> "updated" [] result.ns = "failed" -> "failed" [] OTHER -> "zone",
            !.cf = IF all THEN IF result.ns # "failed" THEN "resolved" ELSE "nsFailed"
                   ELSE IF result.oks # {} THEN "partial" ELSE "failed"]

DnsSaved(j) ==
    /\ Has(j, "dns", "thread") /\ At(j, "done")
    /\ Save(j, Applied(Copy(j), run[j])) /\ Turn(j, NoRun)
    /\ Next1(j, "thread", run[j].zone # "none")
    /\ UNCHANGED <<zone, registrar, faults, job, external, told, asked, items, edits>>

\* Mutant: only the save is guarded.
DnsUnsaved(j) ==
    /\ Has(j, "dns", "thread") /\ At(j, "done") /\ Fault
    /\ Turn(j, NoRun) /\ Next1(j, "thread", FALSE)
    /\ UNCHANGED <<zone, registrar, row, job, external, told, asked, items, edits>>

\* The thread raised, or the row cannot be saved.
DnsRaised(j) ==
    /\ Has(j, "dns", "thread") /\ run[j].at \in {"done", "raised"}
    /\ Unless(At(j, "raised"))
    /\ Turn(j, NoRun) /\ Next1(j, "thread", FALSE)
    /\ UNCHANGED <<zone, registrar, row, job, external, told, asked, items, edits>>

\* set_dynadot_ns: without a list, two fixed names, which are not the zone's.
StartNs(j, d) ==
    /\ row[d].here /\ Ask(j, "ns", "call", <<d>>)
    /\ UNCHANGED <<dnsVars, row, external, told, asked, edits>>

CallNs(j) ==
    /\ Has(j, "ns", "call")
    /\ \E ok \in BOOLEAN, whose \in {"zone", "default"} :
        /\ SetNameServers(Site(j), whose, ok)
        /\ job' = [job EXCEPT ![j] = IF ok THEN "success" ELSE "failed"]
        /\ Copied(j, [Copy(j) EXCEPT !.ns = IF ok THEN "updated" ELSE "failed"], "save")
    /\ UNCHANGED <<zone, run, row, external, told, asked, items, edits>>

SaveNs(j) ==
    /\ Has(j, "ns", "save") /\ Save(j, Copy(j))
    /\ task' = [task EXCEPT ![j] = Idle]
    /\ UNCHANGED <<dnsVars, job, external, told, asked, items, edits>>

-----------------------------------------------------------------------------
(* Redirects.                                                              *)

StartRedirect(j, d) ==
    /\ row[d].here /\ Ask(j, "redirect", "rules", <<d>>)
    /\ UNCHANGED <<dnsVars, row, external, told, asked, edits>>

\* upsert_redirect_rule, for the domain and for its www.
SetRules(j) ==
    /\ Has(j, "redirect", "rules") /\ zone[Site(j)].st # "absent"
    /\ \E ok, made \in SUBSET Pair :
        /\ ok \subseteq made /\ Unless(ok = Pair)
        /\ rules' = [rules EXCEPT ![Site(j)] = @ \cup made]
        /\ Copied(j, [Copy(j) EXCEPT !.rd = IF ok = Pair THEN "success" ELSE IF ok # {} THEN "partial" ELSE "failed"],
                  "save")
    /\ UNCHANGED <<zone, registrar, run, row, job, panel, preferred, told, asked, items, edits>>

RedirectRaised(j) ==
    /\ Has(j, "redirect", "rules") /\ Unless(zone[Site(j)].st = "absent")
    /\ Next1(j, "rules", FALSE)
    /\ UNCHANGED <<zone, registrar, run, row, job, external, told, asked, items, edits>>

\* The job succeeds, whatever the rules.
SaveRedirect(j) ==
    /\ Has(j, "redirect", "save") /\ Save(j, Copy(j)) /\ Next1(j, "rules", TRUE)
    /\ UNCHANGED <<dnsVars, job, external, told, asked, items, edits>>

-----------------------------------------------------------------------------
(* Creation and deletion in batches.                                       *)

StartCreate(j, ss) ==
    /\ Ask(j, "create", "look", ss)
    /\ UNCHANGED <<dnsVars, row, external, told, asked, edits>>

\* A domain that is there, even one in the recycle bin, is not created.
LookCreate(j) ==
    /\ Has(j, "create", "look")
    /\ LET r == row[Site(j)] IN
        \/ ~r.here /\ Goto(j, "insert")
        \/ r.here /\ r.deleted /\ Next1(j, "look", FALSE)
        \/ r.here /\ ~r.deleted /\ Copied(j, r, "sync")
    /\ UNCHANGED <<dnsVars, row, job, external, told, asked, items, edits>>

\* The domain is unique in the table.
Insert(j) ==
    /\ Has(j, "create", "insert")
    /\ \/ row[Site(j)].here /\ Next1(j, "look", FALSE) /\ UNCHANGED row
       \/ /\ ~row[Site(j)].here /\ Next1(j, "look", TRUE)
          /\ \E a \in Addresses \cup {""} : Save(j, [NoRow EXCEPT !.here = TRUE, !.ip = a])
    /\ UNCHANGED <<dnsVars, job, external, told, asked, items, edits>>

\* _sync_onepanel_status: the panel is asked for the domain; what is found is
\* noted in the copy that was read before.
SyncPanel(j) ==
    /\ Has(j, "create", "sync") /\ Next1(j, "look", FALSE)
    /\ \/ /\ <<"default", Site(j)>> \in panel /\ UNCHANGED faults
          /\ Save(j, [Copy(j) EXCEPT !.op = "exists"])
       \/ Unless(<<"default", Site(j)>> \notin panel) /\ UNCHANGED row
    /\ UNCHANGED <<zone, registrar, run, job, external, told, asked, items, edits>>

\* batch_delete_sites moves the rows one by one and asks for the panels then;
\* info keeps which panel was the site's.
StartDelete(j, ss) ==
    /\ \A i \in DOMAIN ss : row[ss[i]].here
    /\ Ask(j, "delete", "own", ss)
    /\ row' = [d \in Domains |-> IF \E i \in DOMAIN ss : ss[i] = d THEN [row[d] EXCEPT !.deleted = TRUE] ELSE row[d]]
    /\ preferred' = preferred \ {ss[i] : i \in DOMAIN ss}
    /\ told' = [d \in Domains |-> IF \E i \in DOMAIN ss : ss[i] = d THEN "nothing" ELSE told[d]]
    /\ UNCHANGED <<dnsVars, rules, panel, asked, edits>>

Found(j, p)  == <<p, Site(j)>> \in panel /\ (p = "own" => Here(j).own)
Removing(p)  == IF p = "own" THEN "removeOwn" ELSE "removeDefault"

\* The site's own panel first, then the default one: what is not found, or
\* cannot be asked for, is looked for on the next.
SearchPanel(j, p) ==
    /\ Has(j, "delete", p)
    /\ \/ Found(j, p) /\ Goto(j, Removing(p)) /\ UNCHANGED <<faults, told>>
       \/ /\ Unless(~Found(j, p))
          /\ \/ p = "own" /\ Goto(j, "default") /\ UNCHANGED told
             \/ p = "default" /\ Next1(j, "own", TRUE) /\ told' = [told EXCEPT ![Site(j)] = "notFound"]
    /\ UNCHANGED <<zone, registrar, run, row, job, external, asked, items, edits>>

RemovePanel(j, p) ==
    /\ Has(j, "delete", Removing(p))
    /\ \/ /\ <<p, Site(j)>> \in panel /\ panel' = panel \ {<<p, Site(j)>>} /\ UNCHANGED faults
          /\ Next1(j, "own", TRUE) /\ told' = [told EXCEPT ![Site(j)] = "deleted"]
       \/ /\ Unless(<<p, Site(j)>> \notin panel) /\ panel' \in {panel, panel \ {<<p, Site(j)>>}}
          /\ Next1(j, "own", FALSE) /\ told' = [told EXCEPT ![Site(j)] = "error"]
    /\ UNCHANGED <<zone, registrar, run, row, job, rules, preferred, asked, items, edits>>

-----------------------------------------------------------------------------
(* What users do to rows.                                                  *)

Edit(d, r) ==
    /\ row[d].here /\ edits < MaxEdits /\ edits' = edits + 1
    /\ row' = [row EXCEPT ![d] = r]
    /\ UNCHANGED <<dnsVars, job, task, external, told, asked, items>>

UpdateSite(d)  == \E a \in Addresses \ {row[d].ip} : Edit(d, [row[d] EXCEPT !.ip = a])
RestoreSite(d) == row[d].deleted /\ Edit(d, [row[d] EXCEPT !.deleted = FALSE])

-----------------------------------------------------------------------------
Batches == {ss \in UNION {[1..n -> Domains] : n \in 1..MaxItems} : \A a, b \in DOMAIN ss : ss[a] = ss[b] => a = b}

Asked(j) ==
    \/ \E ss \in Batches : StartDns(j, ss) \/ StartCreate(j, ss) \/ StartDelete(j, ss)
    \/ \E d \in Domains : StartNs(j, d) \/ StartRedirect(j, d)

JobStep(j) ==
    \/ EnterPool(j) \/ DnsThread(j) \/ DnsSaved(j) \/ DnsRaised(j) \/ CallNs(j) \/ SaveNs(j)
    \/ SetRules(j) \/ RedirectRaised(j) \/ SaveRedirect(j) \/ LookCreate(j) \/ Insert(j) \/ SyncPanel(j)
    \/ SearchPanel(j, "own") \/ SearchPanel(j, "default") \/ RemovePanel(j, "own") \/ RemovePanel(j, "default")
    \/ End(j)

UserStep(d) == UpdateSite(d) \/ RestoreSite(d)

CheckZone(d) == Checks(d) /\ UNCHANGED <<row, job, task, external, told, asked, items, edits>>

Next ==
    \/ \E j \in Runs : Asked(j) \/ JobStep(j)
    \/ \E d \in Domains : UserStep(d) \/ CheckZone(d)

Spec == Init /\ [][Next]_vars

\* The event loop goes on with every coroutine, and every call returns.
FairSpec == Spec /\ \A j \in Runs : WF_vars(JobStep(j))
-----------------------------------------------------------------------------
(* What the rows and the jobs promise.                                     *)

\* A row that says resolved can be relied on: whichever jobs overlap, read old
\* copies or lose answers, all five records of its domain are there, with its
\* address if every DNS job was for that, the registrar was told to leave the
\* parked name servers, and a provisioning passes its DNS check once the zone
\* is active.
ResolvedIsReady ==
    \A d \in Domains :
        row[d].cf = "resolved" /\ asked[d] = {row[d].ip} =>
            /\ \A k \in AllKinds : \E i \in DOMAIN zone[d].rec[Slot(k)] :
                    zone[d].rec[Slot(k)][i] = Want(d, k, row[d].ip)
            /\ registrar[d] # "parked"
            /\ zone[d].st = "active" /\ d \notin Shopify => ReadyForSsl(d, row[d].ip)

\* Every job is settled: no thread that raises, row that cannot be saved, panel
\* or registrar that fails leaves it running.
JobsSettle == <>[](\A j \in Runs : job[j] # "running")

\* "add_or_update_* is idempotent" (site_pipeline.py:281): a DNS job that meets
\* no fault, where no other job was, finds or sets every record.
FaultlessRunResolves ==
    faults = 0 /\ Cardinality({j \in Runs : task[j].kind = "dns"}) = 1 =>
        \A j \in Runs : run[j].at = "done" => run[j].oks = AllKinds

\* "found on none of the providers" (site_pipeline.py:729) is so, unless a
\* provisioning has created it again.
NotFoundIsAbsent ==
    \A d \in Domains : told[d] = "notFound" => \A p \in {"own", "default"} : <<p, d>> \notin panel
=============================================================================
