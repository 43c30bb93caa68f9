------------------------------ MODULE Provision ------------------------------
(***************************************************************************)
(* The WordPress provisionings: provision_site of the site controller      *)
(* (app/controllers/site_pipeline.py), _run_impl of the provisioning task  *)
(* (app/services/tasks/provision.py), create_wordpress_website of          *)
(* app/services/onepanel/site_manager.py, and the deletion of a site.      *)
(*                                                                         *)
(* A request reads the Site row, refuses a site that already has a running *)
(* provisioning, creates an OperationJob row and starts a task with the    *)
(* row it read.  The task holds that copy to its end and saves the whole   *)
(* of it after each stage.  The domain's site is created on the panel in a *)
(* pool thread under a time-out which the thread outlives: it looks for    *)
(* the domain, deletes the site it finds (or, by setting, gives up),       *)
(* creates a new one and waits for it.                                     *)
(*                                                                         *)
(* Of the Site row the model keeps status, onepanel_site_id and            *)
(* is_deleted.  The stages between the creation and the end change nothing *)
(* here but that each may fail; other writers of the row (DNS, imports,    *)
(* HubStudio) are left out, and so is the permanent deletion of a row.     *)
(***************************************************************************)
EXTENDS Naturals, FiniteSets

CONSTANTS
    Tasks,         \* submissions of a provisioning
    Sites,         \* site rows; a row's domain is the row's
    Limit,         \* max_concurrent of the onepanel provider, 3 by default
    CleanModes,    \* values auto_clean_conflict_site is set to, TRUE by default
    MaxOld,        \* bound: rows that stay running for over 30 minutes
    Events,        \* bound: which of "cancel", "delete" and "fault" happen
    MaxEvents,     \* bound: how many cancels, deletions and faults in all
    NoTask, NoSite

ASSUME LimitAssumption  == Limit \in Nat \ {0}
ASSUME ModesAssumption  == CleanModes \subseteq BOOLEAN /\ CleanModes # {}
ASSUME BoundsAssumption == MaxOld \in Nat /\ MaxEvents \in Nat
ASSUME NobodyAssumption == NoTask \notin Tasks /\ NoSite \notin Sites

\* An id on the panel: the n-th site created there for a domain.
NoId     == 0
Statuses == {"absent", "running", "success", "failed", "cancelled"}
\* Site.status; "exists" is a site the panel had before.
States   == {"new", "created", "failed", "exists"}
Rows     == [state : States, pid : Nat, deleted : BOOLEAN]
NewRow   == [state |-> "new", pid |-> NoId, deleted |-> FALSE]

Requesting == {"check", "reclaim", "open"}
Executing  == {"dns", "create", "build", "finish", "close", "fail", "record"}
Permitted  == {"dup", "cancel"} \cup Executing
Live       == {"queue"} \cup Permitted
Pcs        == {"idle", "rejected", "done", "dead"} \cup Requesting \cup Live

\* Where the pool thread of a creation stands.
Working == {"search", "clean", "post", "boot"}
Stages  == {"none", "ok", "raised", "exists"} \cup Working

VARIABLES
    pc, site,      \* a submission's place and its site_id
    status,        \* OperationJob.status of its row
    old,           \* rows whose started_at is over 30 minutes ago
    seen,          \* the row last read by a submission's check
    copy,          \* the Site row a request and its task hold
    result,        \* the outcome a task is to record
    thread, found, \* the pool thread of a task, and the panel id it has
    row,           \* Site rows
    panel, made,   \* the panel: a domain's site, and how many it ever had
    deleter, target, \* _delete_from_1panel_by_info of a site, and the id it found
    disturbed,     \* history: sites CreatedIsOnPanel says nothing of
    used           \* history: how many events happened

taskVars   == <<copy, result>>
threadVars == <<thread, found>>
panelVars  == <<panel, made>>
deleteVars == <<deleter, target>>
vars == <<pc, site, status, old, seen, row, disturbed, used,
          taskVars, threadVars, panelVars, deleteVars>>

TypeOK ==
    /\ pc \in [Tasks -> Pcs]
    /\ site \in [Tasks -> Sites \cup {NoSite}]
    /\ status \in [Tasks -> Statuses]
    /\ old \subseteq Tasks
    /\ seen \in [Tasks -> Tasks \cup {NoTask}]
    /\ copy \in [Tasks -> Rows]
    /\ result \in [Tasks -> {"none", "success", "failed"}]
    /\ thread \in [Tasks -> Stages]
    /\ found \in [Tasks -> Nat]
    /\ row \in [Sites -> Rows]
    /\ panel \in [Sites -> Nat]
    /\ made \in [Sites -> Nat]
    /\ deleter \in [Sites -> {"none", "search", "remove"}]
    /\ target \in [Sites -> Nat]
    /\ disturbed \subseteq Sites
    /\ used \in 0..MaxEvents

\* A site is new, its domain in use on the panel or not, or created before.
Init ==
    /\ pc = [t \in Tasks |-> "idle"]
    /\ site = [t \in Tasks |-> NoSite]
    /\ status = [t \in Tasks |-> "absent"]
    /\ old = {}
    /\ seen = [t \in Tasks |-> NoTask]
    /\ copy = [t \in Tasks |-> NewRow]
    /\ result = [t \in Tasks |-> "none"]
    /\ thread = [t \in Tasks |-> "none"]
    /\ found = [t \in Tasks |-> NoId]
    /\ panel \in [Sites -> {NoId, 1}]
    /\ made = panel
    /\ row \in [Sites -> {NewRow, [NewRow EXCEPT !.state = "created", !.pid = 1]}]
    /\ \A s \in Sites : row[s].pid # NoId => panel[s] = row[s].pid
    /\ deleter = [s \in Sites |-> "none"]
    /\ target = [s \in Sites |-> NoId]
    /\ disturbed = {}
    /\ used = 0

-----------------------------------------------------------------------------
Goto(t, from, to) == pc[t] = from /\ pc' = [pc EXCEPT ![t] = to]

\* The running rows of a site, and the sites of some rows that are running.
Running(s)  == {t \in Tasks : site[t] = s /\ status[t] = "running"}
SitesOf(ts) == {site[t] : t \in {u \in ts : status[u] = "running"}}

\* job.save(), with a status.
SetStatus(t, st) == status' = [status EXCEPT ![t] = st]

\* site.save(): the task's copy, changed to c, overwrites the whole row.
Save(t, c) ==
    /\ copy' = [copy EXCEPT ![t] = c]
    /\ row' = [row EXCEPT ![site[t]] = c]

Event(e) == e \in Events /\ used < MaxEvents /\ used' = used + 1

-----------------------------------------------------------------------------
\* The request: provision_site (batch_provision is the same for each site).

\* The row is read before the check, and this copy is what the task works with.
Submit(t, s) ==
    /\ Goto(t, "idle", "check")
    /\ site' = [site EXCEPT ![t] = s]
    /\ copy' = [copy EXCEPT ![t] = row[s]]
    /\ UNCHANGED <<status, old, seen, result, row, disturbed, used,
                   threadVars, panelVars, deleteVars>>

CheckNone(t) ==
    /\ Running(site[t]) = {}
    /\ Goto(t, "check", "open")
    /\ UNCHANGED <<site, status, old, seen, row, disturbed, used,
                   taskVars, threadVars, panelVars, deleteVars>>

CheckBlocked(t) ==
    /\ Running(site[t]) \ old # {}
    /\ Goto(t, "check", "rejected")
    /\ UNCHANGED <<site, status, old, seen, row, disturbed, used,
                   taskVars, threadVars, panelVars, deleteVars>>

CheckOld(t) ==
    /\ Goto(t, "check", "reclaim")
    /\ \E u \in Running(site[t]) \cap old : seen' = [seen EXCEPT ![t] = u]
    /\ UNCHANGED <<site, status, old, row, disturbed, used,
                   taskVars, threadVars, panelVars, deleteVars>>

Reclaim(t) ==
    /\ Goto(t, "reclaim", "open")
    /\ SetStatus(seen[t], "failed")
    /\ disturbed' = disturbed \cup {site[t]}
    /\ UNCHANGED <<site, old, seen, row, used, taskVars, threadVars, panelVars, deleteVars>>

Create(t) ==
    /\ Goto(t, "open", "queue")
    /\ SetStatus(t, "running")
    /\ UNCHANGED <<site, old, seen, row, disturbed, used,
                   taskVars, threadVars, panelVars, deleteVars>>

-----------------------------------------------------------------------------
\* The task: _run_provision_bg and _run_impl.

Holders == {t \in Tasks : pc[t] \in Permitted}

Acquire(t) ==
    /\ Cardinality(Holders) < Limit
    /\ Goto(t, "queue", "dup")
    /\ UNCHANGED <<site, status, old, seen, row, disturbed, used,
                   taskVars, threadVars, panelVars, deleteVars>>

\* Mutant: no second check.
DupUnchecked(t) ==
    /\ Goto(t, "dup", "dns")
    /\ UNCHANGED <<site, status, old, seen, row, disturbed, used,
                   taskVars, threadVars, panelVars, deleteVars>>

DupNone(t) ==
    /\ Running(site[t]) \ {t} = {}
    /\ Goto(t, "dup", "dns")
    /\ UNCHANGED <<site, status, old, seen, row, disturbed, used,
                   taskVars, threadVars, panelVars, deleteVars>>

DupFound(t) ==
    /\ Running(site[t]) \ {t} # {}
    /\ Goto(t, "dup", "cancel")
    /\ UNCHANGED <<site, status, old, seen, row, disturbed, used,
                   taskVars, threadVars, panelVars, deleteVars>>

\* Mutant: the duplicate returns and says nothing.
DupReturn(t) ==
    /\ Goto(t, "cancel", "done")
    /\ UNCHANGED <<site, status, old, seen, row, disturbed, used,
                   taskVars, threadVars, panelVars, deleteVars>>

DupCancel(t) ==
    /\ Goto(t, "cancel", "done")
    /\ SetStatus(t, "cancelled")
    /\ UNCHANGED <<site, old, seen, row, disturbed, used,
                   taskVars, threadVars, panelVars, deleteVars>>

\* The zone is active and the A record right, or the site has no server_ip.
DnsReady(t) ==
    /\ Goto(t, "dns", "create")
    /\ thread' = [thread EXCEPT ![t] = "search"]
    /\ UNCHANGED <<site, status, old, seen, row, disturbed, used,
                   taskVars, found, panelVars, deleteVars>>

DnsMissing(t) ==
    /\ Goto(t, "dns", "close")
    /\ Save(t, [copy[t] EXCEPT !.state = "failed"])
    /\ result' = [result EXCEPT ![t] = "failed"]
    /\ UNCHANGED <<site, status, old, seen, disturbed, used,
                   threadVars, panelVars, deleteVars>>

CreateDone(t) ==
    /\ thread[t] = "ok"
    /\ Goto(t, "create", "build")
    /\ Save(t, [copy[t] EXCEPT !.pid = found[t]])
    /\ UNCHANGED <<site, status, old, seen, result, disturbed, used,
                   threadVars, panelVars, deleteVars>>

\* Mutant: the step waits for its thread however long it takes.
TimeoutAfterThread(t) ==
    /\ thread[t] \notin Working
    /\ Goto(t, "create", "fail")
    /\ UNCHANGED <<site, status, old, seen, row, disturbed, used,
                   taskVars, threadVars, panelVars, deleteVars>>

\* The thread is not stopped.
CreateTimeout(t) ==
    /\ thread[t] \in Working
    /\ Goto(t, "create", "fail")
    /\ UNCHANGED <<site, status, old, seen, row, disturbed, used,
                   taskVars, threadVars, panelVars, deleteVars>>

CreateRaised(t) ==
    /\ thread[t] = "raised"
    /\ Goto(t, "create", "fail")
    /\ UNCHANGED <<site, status, old, seen, row, disturbed, used,
                   taskVars, threadVars, panelVars, deleteVars>>

\* except DomainAlreadyExistsError: of a site built before only the id is
\* written, by an update; another one gets the whole row.
CreateExists(t) ==
    LET s == site[t] IN
    /\ thread[t] = "exists"
    /\ Goto(t, "create", "record")
    /\ IF copy[t].state = "created"
       THEN row' = [row EXCEPT ![s].pid = found[t]] /\ UNCHANGED copy
       ELSE Save(t, [copy[t] EXCEPT !.pid = found[t], !.state = "exists"])
    /\ result' = [result EXCEPT ![t] = "failed"]
    /\ UNCHANGED <<site, status, old, seen, disturbed, used,
                   threadVars, panelVars, deleteVars>>

\* The stages from the certificate to the feed link; a stage that raises or
\* times out ends the run.
Build(t) ==
    /\ Goto(t, "build", "finish")
    /\ UNCHANGED <<site, status, old, seen, row, disturbed, used,
                   taskVars, threadVars, panelVars, deleteVars>>

\* A rebuild that renames the service saves the row among them.
Renamed(t) ==
    /\ pc[t] = "build"
    /\ Save(t, copy[t])
    /\ UNCHANGED <<pc, site, status, old, seen, result, disturbed, used,
                   threadVars, panelVars, deleteVars>>

BuildFails(t) ==
    /\ Goto(t, "build", "fail")
    /\ UNCHANGED <<site, status, old, seen, row, disturbed, used,
                   taskVars, threadVars, panelVars, deleteVars>>

\* Mutant: the row is not saved before the job is completed.
FinishUnsaved(t) ==
    /\ Goto(t, "finish", "close")
    /\ copy' = [copy EXCEPT ![t].state = "created"]
    /\ result' = [result EXCEPT ![t] = "success"]
    /\ UNCHANGED <<site, status, old, seen, row, disturbed, used,
                   threadVars, panelVars, deleteVars>>

Finish(t) ==
    /\ Goto(t, "finish", "close")
    /\ Save(t, [copy[t] EXCEPT !.state = "created"])
    /\ result' = [result EXCEPT ![t] = "success"]
    /\ UNCHANGED <<site, status, old, seen, disturbed, used,
                   threadVars, panelVars, deleteVars>>

\* Mutant: a failed run leaves the status of the row.
FailKeepsState(t) ==
    /\ Goto(t, "fail", "record")
    /\ Save(t, copy[t])
    /\ result' = [result EXCEPT ![t] = "failed"]
    /\ UNCHANGED <<site, status, old, seen, disturbed, used,
                   threadVars, panelVars, deleteVars>>

\* except Exception
Fail(t) ==
    /\ Goto(t, "fail", "record")
    /\ Save(t, [copy[t] EXCEPT !.state = "failed"])
    /\ result' = [result EXCEPT ![t] = "failed"]
    /\ UNCHANGED <<site, status, old, seen, disturbed, used,
                   threadVars, panelVars, deleteVars>>

\* Mutant: a word that is no status.
CompleteRaw(t) ==
    /\ \E from \in {"close", "record"} : Goto(t, from, "done")
    /\ SetStatus(t, row[site[t]].state)
    /\ UNCHANGED <<site, old, seen, row, disturbed, used,
                   taskVars, threadVars, panelVars, deleteVars>>

\* _complete_job, inside the try and inside its handlers: unconditional.
Complete(t) ==
    /\ \E from \in {"close", "record"} : Goto(t, from, "done")
    /\ SetStatus(t, result[t])
    /\ UNCHANGED <<site, old, seen, row, disturbed, used,
                   taskVars, threadVars, panelVars, deleteVars>>

-----------------------------------------------------------------------------
\* The pool thread: create_wordpress_website.

\* A search that fails finds nothing.
ThreadSearch(t) ==
    LET id == panel[site[t]] IN
    /\ thread[t] = "search"
    /\ found' = [found EXCEPT ![t] = id]
    /\ \/ id = NoId /\ thread' = [thread EXCEPT ![t] = "post"]
       \/ /\ id # NoId
          /\ \E clean \in CleanModes :
                thread' = [thread EXCEPT ![t] = IF clean THEN "clean" ELSE "exists"]
    /\ UNCHANGED <<pc, site, status, old, seen, row, disturbed, used,
                   taskVars, panelVars, deleteVars>>

\* A thread whose task has timed out deletes what a later task may have made.
ThreadClean(t) ==
    LET s == site[t] IN
    /\ thread[t] = "clean"
    /\ thread' = [thread EXCEPT ![t] = "post"]
    /\ panel' = IF panel[s] = found[t] THEN [panel EXCEPT ![s] = NoId] ELSE panel
    /\ disturbed' = disturbed \cup (IF pc[t] = "create" THEN {} ELSE {s})
    /\ UNCHANGED <<pc, site, status, old, seen, row, used, taskVars, found, made, deleteVars>>

\* The panel has at most one site of a domain and refuses another.
ThreadPost(t) ==
    LET s == site[t] IN
    /\ thread[t] = "post"
    /\ \/ /\ panel[s] = NoId
          /\ made' = [made EXCEPT ![s] = @ + 1]
          /\ panel' = [panel EXCEPT ![s] = made[s] + 1]
          /\ thread' = [thread EXCEPT ![t] = "boot"]
       \/ /\ panel[s] # NoId
          /\ thread' = [thread EXCEPT ![t] = "raised"]
          /\ UNCHANGED panelVars
    /\ UNCHANGED <<pc, site, status, old, seen, row, disturbed, used,
                   taskVars, found, deleteVars>>

\* wait_app_ready, then wait_site_id: the panel's id of the domain, none when
\* the list does not show it within a minute.
ThreadReady(t) ==
    /\ thread[t] = "boot"
    /\ thread' = [thread EXCEPT ![t] = "ok"]
    /\ \E id \in {panel[site[t]], NoId} : found' = [found EXCEPT ![t] = id]
    /\ UNCHANGED <<pc, site, status, old, seen, row, disturbed, used,
                   taskVars, panelVars, deleteVars>>

ThreadFails(t) ==
    /\ thread[t] \in Working
    /\ thread' = [thread EXCEPT ![t] = "raised"]
    /\ UNCHANGED <<pc, site, status, old, seen, row, disturbed, used,
                   taskVars, found, panelVars, deleteVars>>

\* The answer of the POST is lost and the client's resend refused.
PostLost(t) ==
    LET s == site[t] IN
    /\ Event("fault")
    /\ thread[t] = "post" /\ panel[s] = NoId
    /\ thread' = [thread EXCEPT ![t] = "raised"]
    /\ made' = [made EXCEPT ![s] = @ + 1]
    /\ panel' = [panel EXCEPT ![s] = made[s] + 1]
    /\ UNCHANGED <<pc, site, status, old, seen, row, disturbed, taskVars, found, deleteVars>>

-----------------------------------------------------------------------------
\* The deletion of a site: the row now, the panel's site in the background.

Delete(s) ==
    /\ Event("delete")
    /\ deleter[s] = "none"
    /\ row' = [row EXCEPT ![s].deleted = TRUE]
    /\ deleter' = [deleter EXCEPT ![s] = "search"]
    /\ disturbed' = disturbed \cup {s}
    /\ UNCHANGED <<pc, site, status, old, seen, taskVars, threadVars, panelVars, target>>

\* Not found, or a search that failed, ends it.
DeleteSearch(s) ==
    /\ deleter[s] = "search"
    /\ \/ deleter' = [deleter EXCEPT ![s] = "none"] /\ UNCHANGED target
       \/ /\ panel[s] # NoId
          /\ deleter' = [deleter EXCEPT ![s] = "remove"]
          /\ target' = [target EXCEPT ![s] = panel[s]]
    /\ UNCHANGED <<pc, site, status, old, seen, row, disturbed, used,
                   taskVars, threadVars, panelVars>>

DeleteRemove(s) ==
    /\ deleter[s] = "remove"
    /\ deleter' = [deleter EXCEPT ![s] = "none"]
    /\ panel' = IF panel[s] = target[s] THEN [panel EXCEPT ![s] = NoId] ELSE panel
    /\ UNCHANGED <<pc, site, status, old, seen, row, disturbed, used,
                   taskVars, threadVars, made, target>>

\* The recycle bin's restore.
Restore(s) ==
    /\ row[s].deleted
    /\ row' = [row EXCEPT ![s].deleted = FALSE]
    /\ UNCHANGED <<pc, site, status, old, seen, disturbed, used,
                   taskVars, threadVars, panelVars, deleteVars>>

-----------------------------------------------------------------------------
\* What goes wrong, and what others do to a row of the jobs.

\* A failed statement inside the try.
Raise(t) ==
    /\ Event("fault")
    /\ pc[t] \in {"dns", "build", "finish", "close"} \/ (pc[t] = "create" /\ thread[t] = "ok")
    /\ pc' = [pc EXCEPT ![t] = "fail"]
    /\ UNCHANGED <<site, status, old, seen, row, disturbed,
                   taskVars, threadVars, panelVars, deleteVars>>

\* A failed statement before the try or in one of its handlers: the task is
\* gone and its row stays.  In the request it is an error answer.
Die(t) ==
    /\ Event("fault")
    /\ \/ \E from \in {"dup", "cancel", "fail", "record"} : Goto(t, from, "dead")
       \/ thread[t] = "exists" /\ Goto(t, "create", "dead")
       \/ \E from \in Requesting : Goto(t, from, "rejected")
    /\ disturbed' = disturbed \cup (IF pc[t] = "fail" THEN {site[t]} ELSE {})
    /\ UNCHANGED <<site, status, old, seen, row, taskVars, threadVars, panelVars, deleteVars>>

\* recover_stale_jobs fails running rows whose heartbeat is two minutes old;
\* a stage may take five.  It runs when this worker process comes back after
\* a crash, which took its tasks and threads ...
Crash(S) ==
    /\ Event("fault")
    /\ pc' = [t \in Tasks |-> IF pc[t] \in Requesting \cup Live THEN "dead" ELSE pc[t]]
    /\ status' = [t \in Tasks |-> IF t \in S /\ status[t] = "running" THEN "failed" ELSE status[t]]
    /\ thread' = [t \in Tasks |-> IF thread[t] \in Working THEN "none" ELSE thread[t]]
    /\ deleter' = [s \in Sites |-> "none"]
    /\ disturbed' = disturbed \cup SitesOf(S)
                       \cup {site[t] : t \in {u \in Tasks : pc[u] \in {"create", "fail"}}}
    /\ UNCHANGED <<site, old, seen, row, taskVars, found, panelVars, target>>

\* ... and when another worker process starts, while the tasks here go on.
PeerStarts(S) ==
    /\ Event("fault")
    /\ status' = [t \in Tasks |-> IF t \in S /\ status[t] = "running" THEN "failed" ELSE status[t]]
    /\ disturbed' = disturbed \cup SitesOf(S)
    /\ UNCHANGED <<pc, site, old, seen, row, taskVars, threadVars, panelVars, deleteVars>>

\* The task centre's cancel: unconditional, and it does not reach the task.
CancelTask(t) ==
    /\ Event("cancel")
    /\ status[t] # "absent"
    /\ disturbed' = disturbed \cup SitesOf({t})
    /\ SetStatus(t, "cancelled")
    /\ UNCHANGED <<pc, site, old, seen, row, taskVars, threadVars, panelVars, deleteVars>>

\* started_at is set when the row is created, not when the task gets its permit.
GrowOld(t) ==
    /\ status[t] = "running" /\ t \notin old
    /\ Cardinality(old) < MaxOld
    /\ old' = old \cup {t}
    /\ UNCHANGED <<pc, site, status, seen, row, disturbed, used,
                   taskVars, threadVars, panelVars, deleteVars>>

-----------------------------------------------------------------------------
RequestStep(t) ==
    CheckNone(t) \/ CheckBlocked(t) \/ CheckOld(t) \/ Reclaim(t) \/ Create(t)

CreateStep(t) ==
    CreateDone(t) \/ CreateTimeout(t) \/ CreateRaised(t) \/ CreateExists(t)

TaskStep(t) ==
    \/ Acquire(t) \/ DupNone(t) \/ DupFound(t) \/ DupCancel(t)
    \/ DnsReady(t) \/ DnsMissing(t) \/ CreateStep(t)
    \/ Build(t) \/ BuildFails(t) \/ Finish(t) \/ Fail(t) \/ Complete(t)

ThreadStep(t) ==
    \/ ThreadSearch(t) \/ ThreadClean(t) \/ ThreadPost(t)
    \/ ThreadReady(t) \/ ThreadFails(t) \/ PostLost(t)

SiteStep(s) == Delete(s) \/ DeleteSearch(s) \/ DeleteRemove(s) \/ Restore(s)

Fault ==
    \/ \E t \in Tasks : Raise(t) \/ Die(t)
    \/ \E S \in SUBSET Tasks : Crash(S) \/ PeerStarts(S)

Next ==
    \/ \E t \in Tasks, s \in Sites : Submit(t, s)
    \/ \E t \in Tasks : RequestStep(t) \/ TaskStep(t) \/ Renamed(t) \/ ThreadStep(t)
    \/ \E t \in Tasks : CancelTask(t) \/ GrowOld(t)
    \/ \E s \in Sites : SiteStep(s)
    \/ Fault

Spec == Init /\ [][Next]_vars

\* The event loop goes on with every request, and then its task, whose answer has come,
\* and wait_for ends each stage.  Nothing obliges a pool thread to end,
\* anybody to submit, delete or restore, or a fault to happen.
Fairness == \A t \in Tasks : WF_vars(RequestStep(t) \/ TaskStep(t))

FairSpec == Spec /\ Fairness

-----------------------------------------------------------------------------
(* What the provisionings promise.                                         *)

\* However requests, reclaims, cancels, crashes and worker starts
\* interleave, no two tasks that provision one site both have a running row:
\* the check of _run_impl comes after the row's creation, so of two tasks
\* one sees the other.
ExclusiveProvision ==
    \A t, u \in Tasks :
        /\ pc[t] \in Executing /\ pc[u] \in Executing
        /\ site[t] = site[u]
        /\ status[t] = "running" /\ status[u] = "running"
        => t = u

\* A running row has a task behind it, alive or lost to a crash or to an
\* exception outside _run_impl's try: the duplicates, the stages that fail
\* or time out and the existing domains are all settled.
RunningHasTask ==
    \A t \in Tasks : status[t] = "running" => pc[t] \in Live \cup {"dead"}

\* A site whose row says it is created and names an id is on the panel under
\* that id, or a task that is replacing it has yet to write how that ended:
\* a run that has deleted the panel's site to make a new one never leaves
\* the row as it was.  Excepted are sites deleted, sites on which a job was
\* settled by somebody else while it was running or a worker died before
\* its handler's save, and sites a timed-out thread went on to clean.
CreatedIsOnPanel ==
    \A s \in Sites \ disturbed :
        row[s].state = "created" /\ row[s].pid # NoId =>
            \/ panel[s] = row[s].pid
            \/ \E t \in Tasks : site[t] = s /\ pc[t] \in {"create", "fail"}

\* When a job turns to success its site's row already says created, through
\* whatever other tasks of the site saved meanwhile (same exceptions).
SuccessMeansCreated ==
    [][\A t \in Tasks :
          status[t] # "success" /\ status'[t] = "success" /\ site[t] \notin disturbed
          => row'[site[t]].state = "created"]_vars

\* A provisioning that was accepted gets an outcome unless its task is lost:
\* permits come back, a creation that hangs is timed out, a failure recorded.
AcceptedSettles ==
    \A t \in Tasks : status[t] = "running" ~> status[t] # "running" \/ pc[t] = "dead"

\* A site moved to the recycle bin (the answer of the deletion) stays there
\* until it is restored.
DeletedStays ==
    [][\A s \in Sites : row[s].deleted /\ ~ row'[s].deleted => Restore(s)]_vars

\* Of a site that is completely provisioned, the handler of an existing
\* domain touches no field but the panel id (its comment).
CreatedNotDowngraded ==
    [][\A s \in Sites : row[s].state = "created" => row'[s].state # "exists"]_vars
=============================================================================
