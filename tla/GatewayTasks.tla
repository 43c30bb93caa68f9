----------------------------- MODULE GatewayTasks -----------------------------
(***************************************************************************)
(* The gateway defence deployments: app/services/tasks/gateway_defense.py  *)
(* on top of the task life cycle of app/services/tasks/runner.py.          *)
(*                                                                         *)
(* A request (execute) refuses a site that already has a deployment        *)
(* running, creates an OperationJob row and starts a background task       *)
(* (_run).  The task waits for a permit of a semaphore that the first      *)
(* tasks create, looks again for another deployment of its site, creates   *)
(* the site on the gateway when it has none, and installs the defence in   *)
(* a pool thread under a time-out.  Each await is a point where the other  *)
(* requests and tasks of the event loop run.                               *)
(*                                                                         *)
(* A member of Tasks is one request with the row and the background task   *)
(* it creates.  A copy of the Site row is held from Load to the last save, *)
(* and a save writes all of it; of the row the model keeps gateway_site_id.*)
(* Payloads, steps, logs, heartbeats and ids given by the caller are left  *)
(* out, and pending or queued rows too: no code path creates one here.     *)
(***************************************************************************)
EXTENDS Naturals, FiniteSets

CONSTANTS
    Tasks,         \* submissions of a deployment
    Sites,
    Limit,         \* max_concurrent of the onepanel provider, 3 by default
    MaxOld,        \* bound: rows that stay running for over 15 minutes
    MaxCancels,    \* bound: calls of the task centre's cancel
    MaxFaults,     \* bound: crashes, worker starts, failed statements
    NoTask, NoSite

ASSUME LimitAssumption  == Limit \in Nat \ {0}
ASSUME BoundsAssumption == MaxOld \in Nat /\ MaxCancels \in Nat /\ MaxFaults \in Nat
ASSUME NobodyAssumption == NoTask \notin Tasks /\ NoSite \notin Sites

\* A gateway_site_id: the n-th site created on the gateway for a local site.
NoId    == 0
Statuses == {"absent", "running", "success", "failed", "cancelled"}
Results  == {"none", "success", "failed", "aborted"}

\* Where a submission stands: the next database statement or outside call.
Requesting == {"check", "reclaim", "create"}
Waiting    == {"start", "config", "queue"}
Executing  == {"load", "provision", "savegid", "deploy", "install", "complete", "sitesave"}
Failing    == {"fail", "fail_complete", "fail_blind", "fail_save", "force"}
Permitted  == {"open", "dup", "cancel"} \cup Executing \cup Failing
Live       == Waiting \cup Permitted
Pcs        == {"idle", "rejected", "done", "dead"} \cup Requesting \cup Live

VARIABLES
    pc, site,      \* a submission's place and its site_id
    status,        \* OperationJob.status of its row
    old,           \* rows whose started_at is over STALE_TIMEOUT_MINUTES ago
    seen,          \* the other task's row last read by a submission
    copy,          \* gateway_site_id in the Site row a task holds
    result,        \* the outcome a task is to record
    sem,           \* _semaphore: the task that created it
    permit,        \* the semaphore a task has got from _get_semaphore
    installs,      \* tasks with a pool thread inside _install_sync
    gid,           \* Site.gateway_site_id
    remote,        \* number of sites the gateway holds for a site
    disturbed,     \* history: sites OneGatewaySite says nothing of
    used           \* history: how often each bounded input happened

reqVars  == <<seen>>
taskVars == <<copy, result, permit, installs>>
siteVars == <<gid, remote, disturbed>>
vars == <<pc, site, status, old, sem, used, reqVars, taskVars, siteVars>>

MaybeTask == Tasks \cup {NoTask}

TypeOK ==
    /\ pc \in [Tasks -> Pcs]
    /\ site \in [Tasks -> Sites \cup {NoSite}]
    /\ status \in [Tasks -> Statuses]
    /\ old \subseteq Tasks
    /\ seen \in [Tasks -> MaybeTask]
    /\ copy \in [Tasks -> Nat]
    /\ result \in [Tasks -> Results]
    /\ sem \in MaybeTask
    /\ permit \in [Tasks -> MaybeTask]
    /\ installs \subseteq Tasks
    /\ gid \in [Sites -> Nat]
    /\ remote \in [Sites -> Nat]
    /\ disturbed \subseteq Sites
    /\ used \in [cancels : 0..MaxCancels, faults : 0..MaxFaults]

Init ==
    /\ pc = [t \in Tasks |-> "idle"]
    /\ site = [t \in Tasks |-> NoSite]
    /\ status = [t \in Tasks |-> "absent"]
    /\ old = {}
    /\ seen = [t \in Tasks |-> NoTask]
    /\ copy = [t \in Tasks |-> NoId]
    /\ result = [t \in Tasks |-> "none"]
    /\ sem = NoTask
    /\ permit = [t \in Tasks |-> NoTask]
    /\ installs = {}
    /\ gid = [s \in Sites |-> NoId]
    /\ remote = [s \in Sites |-> 0]
    /\ disturbed = {}
    /\ used = [cancels |-> 0, faults |-> 0]

-----------------------------------------------------------------------------
Goto(t, from, to) == pc[t] = from /\ pc' = [pc EXCEPT ![t] = to]

\* The running rows of a site, and the sites of some rows that are running.
Running(s)  == {t \in Tasks : site[t] = s /\ status[t] = "running"}
SitesOf(ts) == {site[t] : t \in {u \in ts : status[u] = "running"}}

\* job.save(), with a status.
SetStatus(t, st) == status' = [status EXCEPT ![t] = st]

\* site.save(): the whole row, as it was read.
SaveSite(t) == gid' = [gid EXCEPT ![site[t]] = copy[t]]

-----------------------------------------------------------------------------
\* The request: execute and _check_blocked.

Submit(t, s) ==
    /\ Goto(t, "idle", "check")
    /\ site' = [site EXCEPT ![t] = s]
    /\ UNCHANGED <<status, old, sem, used, reqVars, taskVars, siteVars>>

\* The query's .first(): any running row, without an order.  One that is
\* fresh blocks the request; one that is old is reclaimed, and the loop then
\* goes on to the other statuses, past any further running row.
CheckNone(t) ==
    /\ Running(site[t]) = {}
    /\ Goto(t, "check", "create")
    /\ UNCHANGED <<site, status, old, sem, used, reqVars, taskVars, siteVars>>

CheckBlocked(t) ==
    /\ Running(site[t]) \ old # {}
    /\ Goto(t, "check", "rejected")
    /\ UNCHANGED <<site, status, old, sem, used, reqVars, taskVars, siteVars>>

CheckOld(t) ==
    /\ Goto(t, "check", "reclaim")
    /\ \E u \in Running(site[t]) \cap old : seen' = [seen EXCEPT ![t] = u]
    /\ UNCHANGED <<site, status, old, sem, used, taskVars, siteVars>>

Reclaim(t) ==
    /\ Goto(t, "reclaim", "create")
    /\ SetStatus(seen[t], "failed")
    /\ disturbed' = disturbed \cup {site[t]}
    /\ UNCHANGED <<site, old, sem, used, reqVars, taskVars, gid, remote>>

Create(t) ==
    /\ Goto(t, "create", "start")
    /\ SetStatus(t, "running")
    /\ UNCHANGED <<site, old, sem, used, reqVars, taskVars, siteVars>>

-----------------------------------------------------------------------------
\* The permit: _get_semaphore awaits the limit between its test and its
\* assignment, so every task that finds no semaphore creates one.

SemGet(t) ==
    /\ sem # NoTask
    /\ Goto(t, "start", "queue")
    /\ permit' = [permit EXCEPT ![t] = sem]
    /\ UNCHANGED <<site, status, old, sem, used, reqVars, copy, result, installs, siteVars>>

SemMiss(t) ==
    /\ sem = NoTask
    /\ Goto(t, "start", "config")
    /\ UNCHANGED <<site, status, old, sem, used, reqVars, taskVars, siteVars>>

SemSet(t) ==
    /\ Goto(t, "config", "queue")
    /\ sem' = t
    /\ permit' = [permit EXCEPT ![t] = t]
    /\ UNCHANGED <<site, status, old, used, reqVars, copy, result, installs, siteVars>>

Holders(p) == {t \in Tasks : pc[t] \in Permitted /\ permit[t] = p}

Acquire(t) ==
    /\ Cardinality(Holders(permit[t])) < Limit
    /\ Goto(t, "queue", "open")
    /\ UNCHANGED <<site, status, old, sem, used, reqVars, taskVars, siteVars>>

-----------------------------------------------------------------------------
\* The task: _run and _run_impl.  Whatever the row's status has become in
\* the meantime, the task goes on.

Open(t) ==
    /\ Goto(t, "open", "dup")
    /\ UNCHANGED <<site, status, old, sem, used, reqVars, taskVars, siteVars>>

DupUnchecked(t) ==
    /\ Goto(t, "dup", "load")
    /\ UNCHANGED <<site, status, old, sem, used, reqVars, taskVars, siteVars>>

\* The second check for another deployment of the site.
DupNone(t) ==
    /\ Running(site[t]) \ {t} = {}
    /\ Goto(t, "dup", "load")
    /\ UNCHANGED <<site, status, old, sem, used, reqVars, taskVars, siteVars>>

DupFound(t) ==
    /\ Goto(t, "dup", "cancel")
    /\ \E u \in Running(site[t]) \ {t} : seen' = [seen EXCEPT ![t] = u]
    /\ UNCHANGED <<site, status, old, sem, used, taskVars, siteVars>>

DupReturn(t) ==
    /\ Goto(t, "cancel", "done")
    /\ UNCHANGED <<site, status, old, sem, used, reqVars, taskVars, siteVars>>

DupCancel(t) ==
    /\ Goto(t, "cancel", "done")
    /\ SetStatus(t, "cancelled")
    /\ UNCHANGED <<site, old, sem, used, reqVars, taskVars, siteVars>>

\* With auto_provision the task goes by the gateway, without it straight on.
Load(t) ==
    /\ \E next \in {"provision", "deploy"} : Goto(t, "load", next)
    /\ copy' = [copy EXCEPT ![t] = gid[site[t]]]
    /\ UNCHANGED <<site, status, old, sem, used, reqVars, result, permit, installs, siteVars>>

ProvisionAlways(t) ==
    /\ Goto(t, "provision", "savegid")
    /\ remote' = [remote EXCEPT ![site[t]] = @ + 1]
    /\ copy' = [copy EXCEPT ![t] = remote[site[t]] + 1]
    /\ UNCHANGED <<site, status, old, sem, used, reqVars, result, permit, installs, gid, disturbed>>

\* _auto_provision: create_site unless the row read has an id.
Provision(t) ==
    LET s == site[t] IN
    /\ pc[t] = "provision"
    /\ \/ /\ copy[t] # NoId
          /\ pc' = [pc EXCEPT ![t] = "deploy"]
          /\ UNCHANGED <<copy, remote>>
       \/ /\ copy[t] = NoId
          /\ pc' = [pc EXCEPT ![t] = "savegid"]
          /\ remote' = [remote EXCEPT ![s] = @ + 1]
          /\ copy' = [copy EXCEPT ![t] = remote[s] + 1]
    /\ UNCHANGED <<site, status, old, sem, used, reqVars, result, permit, installs, gid, disturbed>>

SaveId(t) ==
    /\ Goto(t, "savegid", "deploy")
    /\ SaveSite(t)
    /\ UNCHANGED <<site, status, old, sem, used, reqVars, taskVars, remote, disturbed>>

InstallStart(t) ==
    /\ copy[t] # NoId
    /\ Goto(t, "deploy", "install")
    /\ installs' = installs \cup {t}
    /\ UNCHANGED <<site, status, old, sem, used, reqVars, copy, result, permit, siteVars>>

\* The pool thread is on its own: the time-out does not stop it.
InstallEnd(t) ==
    /\ t \in installs
    /\ installs' = installs \ {t}
    /\ UNCHANGED <<pc, site, status, old, sem, used, reqVars, copy, result, permit, siteVars>>

\* deploy saves the row and returns.
DeployReturn(t, res) ==
    /\ t \notin installs
    /\ Goto(t, "install", "complete")
    /\ result' = [result EXCEPT ![t] = res]
    /\ SaveSite(t)
    /\ UNCHANGED <<site, status, old, sem, used, reqVars, copy, permit, installs, remote, disturbed>>

\* deploy's early returns, and the exceptions it turns into a failure.
DeployRefused(t) ==
    /\ t \notin installs
    /\ \/ Goto(t, "deploy", "complete")
       \/ Goto(t, "install", "complete")
    /\ result' = [result EXCEPT ![t] = "failed"]
    /\ UNCHANGED <<site, status, old, sem, used, reqVars, copy, permit, installs, siteVars>>

DeployTimeoutAfterThread(t) ==
    /\ t \notin installs
    /\ Goto(t, "install", "complete")
    /\ result' = [result EXCEPT ![t] = "aborted"]
    /\ UNCHANGED <<site, status, old, sem, used, reqVars, copy, permit, installs, siteVars>>

\* asyncio.wait_for gives up after DEPLOY_TIMEOUT_SECONDS.
DeployTimeout(t) ==
    /\ Goto(t, "install", "complete")
    /\ result' = [result EXCEPT ![t] = "aborted"]
    /\ UNCHANGED <<site, status, old, sem, used, reqVars, copy, permit, installs, siteVars>>

CompleteRaw(t) ==
    /\ Goto(t, "complete", "sitesave")
    /\ SetStatus(t, result[t])
    /\ UNCHANGED <<site, old, sem, used, reqVars, taskVars, siteVars>>

\* _complete_job: unconditional.
Complete(t) ==
    /\ Goto(t, "complete", "sitesave")
    /\ SetStatus(t, IF result[t] = "success" THEN "success" ELSE "failed")
    /\ UNCHANGED <<site, old, sem, used, reqVars, taskVars, siteVars>>

\* A copy older than the row puts the older id back.
SiteSave(t) ==
    /\ \/ Goto(t, "sitesave", "done")
       \/ Goto(t, "fail_save", "done")
    /\ SaveSite(t)
    /\ disturbed' = disturbed \cup (IF copy[t] = gid[site[t]] THEN {} ELSE {site[t]})
    /\ UNCHANGED <<site, status, old, sem, used, reqVars, taskVars, remote>>

-----------------------------------------------------------------------------
\* _safe_fail, after an exception inside _run_impl.

FailRead(t) ==
    /\ Goto(t, "fail", "fail_complete")
    /\ copy' = [copy EXCEPT ![t] = gid[site[t]]]
    /\ UNCHANGED <<site, status, old, sem, used, reqVars, result, permit, installs, siteVars>>

\* Without the site (the read failed) there is nothing to save after it.
FailComplete(t) ==
    /\ \/ Goto(t, "fail_complete", "fail_save")
       \/ Goto(t, "fail_blind", "done")
    /\ SetStatus(t, "failed")
    /\ UNCHANGED <<site, old, sem, used, reqVars, taskVars, siteVars>>

ForceFail(t) ==
    /\ Goto(t, "force", "done")
    /\ SetStatus(t, "failed")
    /\ UNCHANGED <<site, old, sem, used, reqVars, taskVars, siteVars>>

-----------------------------------------------------------------------------
\* What goes wrong, and what others do to a row.

Count(c) == used' = [used EXCEPT ![c] = @ + 1]

\* A failed statement or call inside _run_impl's try: on to _safe_fail.  The
\* failed create_site may have reached the gateway; after a failed SaveId
\* the new id is known to nobody.
Raise(t) ==
    /\ used.faults < MaxFaults /\ Count("faults")
    /\ pc[t] \in {"dup", "cancel"} \cup (Executing \ {"install"})
    /\ pc' = [pc EXCEPT ![t] = "fail"]
    /\ disturbed' = disturbed \cup (IF pc[t] = "savegid" THEN {site[t]} ELSE {})
    /\ UNCHANGED <<site, status, old, sem, reqVars, taskVars, gid, remote>>

RaiseAfterCreate(t) ==
    /\ used.faults < MaxFaults /\ Count("faults")
    /\ Goto(t, "provision", "fail")
    /\ copy[t] = NoId
    /\ remote' = [remote EXCEPT ![site[t]] = @ + 1]
    /\ disturbed' = disturbed \cup {site[t]}
    /\ UNCHANGED <<site, status, old, sem, reqVars, taskVars, gid>>

\* A failed statement inside _safe_fail.
RaiseFailing(t) ==
    /\ used.faults < MaxFaults /\ Count("faults")
    /\ \/ Goto(t, "fail", "fail_blind")
       \/ \E from \in {"fail_complete", "fail_blind", "fail_save"} : Goto(t, from, "force")
    /\ UNCHANGED <<site, status, old, sem, reqVars, taskVars, siteVars>>

\* A failed statement with no handler above it: the task is gone, its row
\* stays.  In the request it is an error answer.
Die(t) ==
    /\ used.faults < MaxFaults /\ Count("faults")
    /\ \/ \E from \in {"config", "open", "force"} : Goto(t, from, "dead")
       \/ \E from \in Requesting : Goto(t, from, "rejected")
    /\ UNCHANGED <<site, status, old, sem, reqVars, taskVars, siteVars>>

\* recover_stale_jobs fails running rows whose heartbeat is two minutes old;
\* a deployment under way has no newer one.  It runs when this worker process
\* comes back after a crash, which took its tasks, threads and semaphore ...
Crash(S) ==
    /\ used.faults < MaxFaults /\ Count("faults")
    /\ pc' = [t \in Tasks |-> IF pc[t] \in Requesting \cup Live THEN "dead" ELSE pc[t]]
    /\ status' = [t \in Tasks |-> IF t \in S /\ status[t] = "running" THEN "failed" ELSE status[t]]
    /\ sem' = NoTask
    /\ installs' = {}
    /\ disturbed' = disturbed \cup SitesOf(S) \cup {site[t] : t \in {u \in Tasks : pc[u] = "savegid"}}
    /\ UNCHANGED <<site, old, reqVars, copy, result, permit, gid, remote>>

\* ... and when another worker process starts, while the tasks here go on.
PeerStarts(S) ==
    /\ used.faults < MaxFaults /\ Count("faults")
    /\ status' = [t \in Tasks |-> IF t \in S /\ status[t] = "running" THEN "failed" ELSE status[t]]
    /\ disturbed' = disturbed \cup SitesOf(S)
    /\ UNCHANGED <<pc, site, old, sem, reqVars, taskVars, gid, remote>>

\* The task centre's cancel: unconditional, and it does not reach the task.
CancelTask(t) ==
    /\ used.cancels < MaxCancels /\ Count("cancels")
    /\ status[t] # "absent"
    /\ disturbed' = disturbed \cup SitesOf({t})
    /\ SetStatus(t, "cancelled")
    /\ UNCHANGED <<pc, site, old, sem, reqVars, taskVars, gid, remote>>

\* started_at is set when the row is created, not when the task gets its permit.
GrowOld(t) ==
    /\ status[t] = "running" /\ t \notin old
    /\ Cardinality(old) < MaxOld
    /\ old' = old \cup {t}
    /\ UNCHANGED <<pc, site, status, sem, used, reqVars, taskVars, siteVars>>

-----------------------------------------------------------------------------
RequestStep(t) ==
    CheckNone(t) \/ CheckBlocked(t) \/ CheckOld(t) \/ Reclaim(t) \/ Create(t)

DeployStep(t) ==
    \/ Load(t) \/ Provision(t) \/ SaveId(t) \/ InstallStart(t)
    \/ \E res \in {"success", "failed"} : DeployReturn(t, res)
    \/ DeployRefused(t) \/ DeployTimeout(t) \/ Complete(t) \/ SiteSave(t)

TaskStep(t) ==
    \/ SemGet(t) \/ SemMiss(t) \/ SemSet(t) \/ Acquire(t) \/ Open(t)
    \/ DupNone(t) \/ DupFound(t) \/ DupCancel(t)
    \/ DeployStep(t) \/ FailRead(t) \/ FailComplete(t) \/ ForceFail(t)

Fault ==
    \/ \E t \in Tasks : Raise(t) \/ RaiseAfterCreate(t) \/ RaiseFailing(t) \/ Die(t)
    \/ \E S \in SUBSET Tasks : Crash(S) \/ PeerStarts(S)

Next ==
    \/ \E t \in Tasks, s \in Sites : Submit(t, s)
    \/ \E t \in Tasks :
         RequestStep(t) \/ TaskStep(t) \/ InstallEnd(t) \/ CancelTask(t) \/ GrowOld(t)
    \/ Fault

Spec == Init /\ [][Next]_vars

\* The event loop goes on with every request and task whose answer has come,
\* and wait_for ends a deployment that does not answer.  Nothing obliges the
\* pool thread to end, anybody to submit, or a fault to happen.
Fairness == \A t \in Tasks : WF_vars(RequestStep(t)) /\ WF_vars(TaskStep(t))

FairSpec == Spec /\ Fairness

-----------------------------------------------------------------------------
(* What the deployments promise.                                           *)

\* However submissions, reclaims, cancels, crashes and worker starts
\* interleave, no two tasks that deploy to one site both have a running row:
\* the check of _run_impl comes after the row's creation, so of two tasks
\* one sees the other.
ExclusiveDeploy ==
    \A t, u \in Tasks :
        /\ pc[t] \in Executing /\ pc[u] \in Executing
        /\ site[t] = site[u]
        /\ status[t] = "running" /\ status[u] = "running"
        => t = u

\* _auto_provision is idempotent: a site never gets a second site on the
\* gateway, and the id of the one it has is in its row or about to be saved.
\* Excepted are sites on which a row was settled by somebody else while it
\* was running, the answer to create_site was lost, or a row read before
\* another task's SaveId was saved after it.
GatewaySiteRecorded ==
    \A s \in Sites \ disturbed :
        /\ remote[s] <= 1
        /\ gid[s] # remote[s] =>
              \E t \in Tasks : site[t] = s /\ pc[t] = "savegid" /\ copy[t] = remote[s]

\* A running row has a task behind it, alive or lost to a crash or to an
\* exception outside _run_impl's try: none is forgotten on any other path,
\* the failures inside _safe_fail included.
RunningHasTask ==
    \A t \in Tasks : status[t] = "running" => pc[t] \in Live \cup {"dead"}

\* A submission that was accepted gets an outcome unless its task is lost:
\* permits come back, a deployment that hangs is timed out, a failure recorded.
AcceptedSettles ==
    \A t \in Tasks : status[t] = "running" ~> status[t] # "running" \/ pc[t] = "dead"

\* The semaphore bounds the deployments under way (the module's docstring).
PermitsLimited == Cardinality({t \in Tasks : pc[t] \in Permitted}) <= Limit
=============================================================================
