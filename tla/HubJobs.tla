------------------------------- MODULE HubJobs -------------------------------
(***************************************************************************)
(* The HubStudio orchestration service and the agents that work for it.    *)
(*                                                                         *)
(* The server (app/services/hubstudio_service.py) is one asyncio event     *)
(* loop over a MySQL table: every await inside a handler lets other        *)
(* handlers run, so a handler is a process (Handlers) whose program        *)
(* counter stands at the next database statement.  An agent                *)
(* (app/agent/hubstudio_agent.py) is a process on another machine that     *)
(* polls for a job, executes it in a browser environment and reports the   *)
(* result; it resends a report whose answer does not come, while the       *)
(* handler of the first one may still be at work.  Rows are shared with    *)
(* the task centre (one OperationJob per dispatched job) and with the Site *)
(* table, both of which a report must bring up to date.  The ids a job     *)
(* gives a site are also written by hand: by the update of a site and by   *)
(* the assignment of registered environments.                              *)
(*                                                                         *)
(* Payloads, log lines, heartbeats and the provider filter of a claim are  *)
(* left out.                                                               *)
(***************************************************************************)
EXTENDS Naturals, FiniteSets, FiniteSetsExt

CONSTANTS
    Agents,        \* agent processes (worker_name)
    Handlers,      \* requests the server can have in flight at once
    Sites,         \* site rows
    JobTypes,      \* the job types dispatched
    ExecuteNow,    \* whether operators use execute_now (server fallback)
    MaxJobs,       \* bound: jobs ever dispatched
    MaxSends,      \* _api_request's max_retries
    MaxRetries,    \* bound: calls of retry_job
    MaxCancels,    \* bound: calls of cancel_job
    MaxEdits,      \* bound: updates of sites, assignments of environments
    MaxFaults,     \* bound: crashes, restarts, time-outs, failed statements
    NoAgent, NoHandler, NoSite   \* "nobody", "no request", "no site yet"

HubJobTypes == {"create_env", "create_gmail_env", "create_account",
                "update_env", "wp_login", "gmc_check", "open_env"}

ASSUME JobTypesAssumption == JobTypes \subseteq HubJobTypes
ASSUME NobodyAssumption ==
    NoAgent \notin Agents /\ NoHandler \notin Handlers /\ NoSite \notin Sites
ASSUME BoundsAssumption ==
    /\ ExecuteNow \in BOOLEAN
    /\ MaxJobs \in Nat /\ MaxSends \in Nat \ {0}
    /\ MaxRetries \in Nat /\ MaxCancels \in Nat /\ MaxEdits \in Nat /\ MaxFaults \in Nat

JobIds   == 1..MaxJobs
NoJob    == 0
Outcomes == {"success", "failed"}
Open     == {"pending", "running"}
Statuses == {"absent", "cancelled"} \cup Open \cup Outcomes

\* What a job and its OperationJob have in common: resource_id, action_type.
Kinds  == [site : Sites, type : JobTypes]
NoKind == [site |-> NoSite, type |-> "none"]

VARIABLES
    status,        \* HubStudioJob.status
    kind,          \* HubStudioJob.site_id and job_type
    nextJob,       \* the next HubStudioJob id
    ops,           \* OperationJob rows [kind, status]
    nextOp,        \* the next OperationJob id
    site,          \* Site rows: hub_env_id, hub_account_id, hub_status
    hpc, local,    \* where each handler stands, and its local variables
    apc, work,     \* where each agent stands, and its local variables
    calls,         \* operator calls and faults so far, for the bounds
    queued,        \* history: times each job became pending
    outcomes,      \* history: outcomes each job was given
    wins,          \* history: how many of them were successes
    orphaned       \* history: jobs whose executor was lost, to a fault or because
                   \* the server cannot import it, since they were last queued

jobVars   == <<status, kind, nextJob>>
opVars    == <<ops, nextOp>>
serverVars == <<hpc, local>>
agentVars == <<apc, work>>
histVars  == <<queued, outcomes, wins>>
vars == <<jobVars, opVars, site, serverVars, agentVars, calls, histVars, orphaned>>

MaybeJob == JobIds \cup {NoJob}
\* hub_env_id and hub_account_id hold the job that supplied them, 0 for "", or the
\* site itself for an id that was entered or assigned by hand.
SiteIds  == MaybeJob \cup Sites
ASSUME SitesAssumption == Sites \cap MaybeJob = {}
SiteRows == [env : SiteIds, account : SiteIds,
             hub : (JobTypes \X Outcomes) \cup {<<>>}]
OpRows   == [kind : Kinds \cup {NoKind}, status : Statuses]

HandlerPcs ==
    {"idle", "claim_read", "claim_cas", "claim_reply",
     "report_read", "report_cas", "report_site_read", "report_site_save",
     "report_op_read", "report_op_save", "report_reply",
     "cancel_save", "retry_save", "retry_op_read", "retry_op_save",
     "dispatch_clear", "dispatch_job", "dispatch_op", "exec_save", "exec_run",
     "update_save", "assign_save"}
AgentPcs == {"poll", "await_claim", "exec", "send", "await_report"}

\* A handler's locals: the job and OperationJob it read, the agent whose
\* request it serves, the outcome reported, what a dispatch was asked for, the
\* site it edits, the Site row it holds, and (history) the queueing of the job it
\* claimed.
Locals == [job : MaybeJob, op : MaybeJob, agent : Agents \cup {NoAgent},
           res : Outcomes \cup {"none"}, kind : Kinds \cup {NoKind},
           now : BOOLEAN, site : Sites \cup {NoSite}, row : SiteRows, turn : Nat]
\* An agent's: the job in hand, its result, the request it waits for, how often
\* it sent the report, and (history) the queueing of the job it works on.
Works  == [job : MaybeJob, res : Outcomes \cup {"none"},
           call : Handlers \cup {NoHandler}, sends : 0..MaxSends, turn : Nat]

TypeOK ==
    /\ status \in [JobIds -> Statuses]
    /\ kind \in [JobIds -> Kinds \cup {NoKind}]
    /\ nextJob \in 1..(MaxJobs + 1)
    /\ ops \in [JobIds -> OpRows]
    /\ nextOp \in 1..(MaxJobs + 1)
    /\ site \in [Sites -> SiteRows]
    /\ hpc \in [Handlers -> HandlerPcs]
    /\ local \in [Handlers -> Locals]
    /\ apc \in [Agents -> AgentPcs]
    /\ work \in [Agents -> Works]
    /\ calls \in [{"retry", "cancel", "edit", "fault"} -> Nat]
    /\ queued \in [JobIds -> Nat]
    /\ outcomes \in [JobIds -> Nat]
    /\ wins \in [JobIds -> Nat]
    /\ orphaned \in SUBSET JobIds

EmptySite  == [env |-> NoJob, account |-> NoJob, hub |-> <<>>]
NoLocals   == [job |-> NoJob, op |-> NoJob, agent |-> NoAgent, res |-> "none",
               kind |-> NoKind, now |-> FALSE, site |-> NoSite, row |-> EmptySite,
               turn |-> 0]
NoWork     == [job |-> NoJob, res |-> "none", call |-> NoHandler,
               sends |-> 0, turn |-> 0]

Init ==
    /\ status = [j \in JobIds |-> "absent"]
    /\ kind = [j \in JobIds |-> NoKind]
    /\ nextJob = 1
    /\ ops = [o \in JobIds |-> [kind |-> NoKind, status |-> "absent"]]
    /\ nextOp = 1
    /\ site = [s \in Sites |-> EmptySite]
    /\ hpc = [h \in Handlers |-> "idle"]
    /\ local = [h \in Handlers |-> NoLocals]
    /\ apc = [a \in Agents |-> "poll"]
    /\ work = [a \in Agents |-> NoWork]
    /\ calls = [c \in {"retry", "cancel", "edit", "fault"} |-> 0]
    /\ queued = [j \in JobIds |-> 0]
    /\ outcomes = [j \in JobIds |-> 0]
    /\ wins = [j \in JobIds |-> 0]
    /\ orphaned = {}

-----------------------------------------------------------------------------
(* Helpers                                                                 *)

\* Handler h moves on with its locals as they are; or ends.
Goto(h, from, to) ==
    /\ hpc[h] = from
    /\ hpc' = [hpc EXCEPT ![h] = to]
End(h) ==
    /\ hpc' = [hpc EXCEPT ![h] = "idle"]
    /\ local' = [local EXCEPT ![h] = NoLocals]

Count(c) == calls' = [calls EXCEPT ![c] = @ + 1]

\* filter(resource, action_type, status in S).order_by("-id").first()
OpsOf(k, S) == {o \in JobIds : ops[o].kind = k /\ ops[o].status \in S}
LatestOp(k, S) == IF OpsOf(k, S) = {} THEN NoJob ELSE Max(OpsOf(k, S))

Orphan(j) == orphaned' = IF j = NoJob THEN orphaned ELSE orphaned \cup {j}

\* The job that nobody else will report if handler h vanishes now.
OwnedBy(h) ==
    IF \/ hpc[h] \in {"claim_reply", "exec_run"}
       \/ hpc[h] \in {"report_read", "report_cas"} /\ local[h].agent = NoAgent
    THEN local[h].job ELSE NoJob

\* Agent a still waits for the answer of handler h.
Waits(a, h) == apc[a] \in {"await_claim", "await_report"} /\ work[a].call = h

-----------------------------------------------------------------------------
(* POST /hub-job/claim: claim_job, claim_next_pending_job                  *)

ClaimRequest(a, h) ==
    /\ apc[a] = "poll" /\ hpc[h] = "idle"
    /\ apc' = [apc EXCEPT ![a] = "await_claim"]
    /\ work' = [work EXCEPT ![a] = [NoWork EXCEPT !.call = h]]
    /\ hpc' = [hpc EXCEPT ![h] = "claim_read"]
    /\ local' = [local EXCEPT ![h] = [NoLocals EXCEPT !.agent = a]]
    /\ UNCHANGED <<jobVars, opVars, site, calls, histVars, orphaned>>

\* The first pending row by id.
Pending == {j \in JobIds : status[j] = "pending"}
\* Mutant: the poll looks at jobs that were never retried only.
ClaimReadFirstAttempts(h) ==
    LET fresh == {j \in Pending : queued[j] = 1} IN
    /\ IF fresh = {}
       THEN Goto(h, "claim_read", "claim_reply") /\ UNCHANGED local
       ELSE /\ Goto(h, "claim_read", "claim_cas")
            /\ local' = [local EXCEPT ![h].job = Min(fresh)]
    /\ UNCHANGED <<jobVars, opVars, site, agentVars, calls, histVars, orphaned>>
ClaimRead(h) ==
    /\ IF Pending = {}
       THEN Goto(h, "claim_read", "claim_reply") /\ UNCHANGED local
       ELSE /\ Goto(h, "claim_read", "claim_cas")
            /\ local' = [local EXCEPT ![h].job = Min(Pending)]
    /\ UNCHANGED <<jobVars, opVars, site, agentVars, calls, histVars, orphaned>>

\* Mutant: read, then save, as the deprecated claim of the controller does.
ClaimWithoutCas(h) ==
    /\ Goto(h, "claim_cas", "claim_reply")
    /\ status' = [status EXCEPT ![local[h].job] = "running"]
    /\ local' = [local EXCEPT ![h].turn = queued[local[h].job]]
    /\ UNCHANGED <<kind, nextJob, opVars, site, agentVars, calls, histVars, orphaned>>

\* update ... where id = job.id and status = "pending"
ClaimCas(h) ==
    LET j == local[h].job IN
    /\ Goto(h, "claim_cas", "claim_reply")
    /\ IF status[j] = "pending"
       THEN /\ status' = [status EXCEPT ![j] = "running"]
            /\ local' = [local EXCEPT ![h].turn = queued[j]]
       ELSE /\ local' = [local EXCEPT ![h].job = NoJob]
            /\ UNCHANGED status
    /\ UNCHANGED <<kind, nextJob, opVars, site, agentVars, calls, histVars, orphaned>>

\* The answer reaches the agent if it still waits; otherwise it is lost.
ClaimReply(h) ==
    LET a == local[h].agent IN
    /\ hpc[h] = "claim_reply"
    /\ End(h)
    /\ IF Waits(a, h)
       THEN /\ apc' = [apc EXCEPT ![a] = IF local[h].job = NoJob THEN "poll" ELSE "exec"]
            /\ work' = [work EXCEPT ![a] = [NoWork EXCEPT !.job = local[h].job,
                                                          !.turn = local[h].turn]]
            /\ UNCHANGED orphaned
       ELSE Orphan(local[h].job) /\ UNCHANGED agentVars
    /\ UNCHANGED <<jobVars, opVars, site, calls, histVars>>

-----------------------------------------------------------------------------
(* The agent executes, and POSTs /hub-job/{id}/report                      *)

\* Mutant: the executor's own status word is reported as it is.
ExecuteRawStatus(a) ==
    /\ apc[a] = "exec"
    /\ apc' = [apc EXCEPT ![a] = "send"]
    /\ \E r \in Outcomes \cup {"partial"} : work' = [work EXCEPT ![a].res = r]
    /\ UNCHANGED <<jobVars, opVars, site, serverVars, calls, histVars, orphaned>>

Execute(a) ==
    /\ apc[a] = "exec"
    /\ apc' = [apc EXCEPT ![a] = "send"]
    /\ \E r \in Outcomes : work' = [work EXCEPT ![a].res = r]
    /\ UNCHANGED <<jobVars, opVars, site, serverVars, calls, histVars, orphaned>>

ReportRequest(a, h) ==
    /\ apc[a] = "send" /\ hpc[h] = "idle"
    /\ work[a].sends < MaxSends
    /\ apc' = [apc EXCEPT ![a] = "await_report"]
    /\ work' = [work EXCEPT ![a].call = h, ![a].sends = @ + 1]
    /\ hpc' = [hpc EXCEPT ![h] = "report_read"]
    /\ local' = [local EXCEPT ![h] = [NoLocals EXCEPT !.agent = a,
                                        !.job = work[a].job, !.res = work[a].res]]
    /\ UNCHANGED <<jobVars, opVars, site, calls, histVars, orphaned>>

\* No row (404), or already success / failed: the report is ignored.
ReportRead(h) ==
    /\ Goto(h, "report_read",
            IF status[local[h].job] \in Outcomes \cup {"absent"}
            THEN "report_reply" ELSE "report_cas")
    /\ UNCHANGED <<jobVars, opVars, site, local, agentVars, calls, histVars, orphaned>>

ReportUpdate(h, accepted) ==
    LET j == local[h].job IN
    /\ hpc[h] = "report_cas"
    /\ IF status[j] \in accepted
       THEN /\ Goto(h, "report_cas", "report_site_read")
            /\ status' = [status EXCEPT ![j] = local[h].res]
            /\ outcomes' = [outcomes EXCEPT ![j] = @ + 1]
            /\ wins' = IF local[h].res = "success"
                       THEN [wins EXCEPT ![j] = @ + 1] ELSE wins
       ELSE /\ Goto(h, "report_cas", "report_reply")
            /\ UNCHANGED <<status, outcomes, wins>>
    /\ UNCHANGED <<kind, nextJob, opVars, site, local, agentVars, calls, queued, orphaned>>

\* Mutants: no condition on the status; any unsettled status, cancelled too; the
\* condition of the claim.
ReportWithoutCas(h)  == ReportUpdate(h, Statuses)
ReportOverCancel(h)  == ReportUpdate(h, Open \cup {"cancelled"})
ReportPendingOnly(h) == ReportUpdate(h, {"pending"})

\* update ... where id = job_id and status in ("running", "pending")
ReportCas(h) == ReportUpdate(h, Open)

\* _sync_site_from_job: read the row, change it, save the whole row.
ReportSiteRead(h) ==
    /\ Goto(h, "report_site_read", "report_site_save")
    /\ local' = [local EXCEPT ![h].row = site[kind[local[h].job].site]]
    /\ UNCHANGED <<jobVars, opVars, site, agentVars, calls, histVars, orphaned>>

\* Mutant: the ids are taken from the result whatever its status.
SyncedAnyResult(row, t, res, j) ==
    [row EXCEPT !.hub = <<t, res>>,
                !.env = IF t = "create_env" THEN j ELSE @,
                !.account = IF t = "create_account" THEN j ELSE @]
Synced(row, t, res, j) ==
    [row EXCEPT !.hub = <<t, res>>,
                !.env = IF t = "create_env" /\ res = "success" THEN j ELSE @,
                !.account = IF t = "create_account" /\ res = "success" THEN j ELSE @]

ReportSiteSave(h) ==
    LET j == local[h].job IN
    /\ Goto(h, "report_site_save", "report_op_read")
    /\ site' = [site EXCEPT ![kind[j].site] =
                    Synced(local[h].row, kind[j].type, local[h].res, j)]
    /\ UNCHANGED <<jobVars, opVars, local, agentVars, calls, histVars, orphaned>>

\* _sync_operation_job: the latest running row of the site and action.
ReportOpRead(h) ==
    LET o == LatestOp(kind[local[h].job], {"running"}) IN
    /\ Goto(h, "report_op_read", IF o = NoJob THEN "report_reply" ELSE "report_op_save")
    /\ local' = [local EXCEPT ![h].op = o]
    /\ UNCHANGED <<jobVars, opVars, site, agentVars, calls, histVars, orphaned>>

\* Mutant: every running row of the site and action is closed.
ReportAllOps(h) ==
    /\ Goto(h, "report_op_save", "report_reply")
    /\ ops' = [o \in JobIds |->
                  IF o \in OpsOf(kind[local[h].job], {"running"}) \cup {local[h].op}
                  THEN [ops[o] EXCEPT !.status = local[h].res] ELSE ops[o]]
    /\ UNCHANGED <<jobVars, nextOp, site, local, agentVars, calls, histVars, orphaned>>

ReportOpSave(h) ==
    /\ Goto(h, "report_op_save", "report_reply")
    /\ ops' = [ops EXCEPT ![local[h].op].status = local[h].res]
    /\ UNCHANGED <<jobVars, nextOp, site, local, agentVars, calls, histVars, orphaned>>

\* Any well-formed answer ends the round, the 404 one included.
ReportReply(h) ==
    LET a == local[h].agent IN
    /\ hpc[h] = "report_reply"
    /\ End(h)
    /\ IF a # NoAgent /\ Waits(a, h)
       THEN /\ apc' = [apc EXCEPT ![a] = "poll"]
            /\ work' = [work EXCEPT ![a] = NoWork]
       ELSE UNCHANGED agentVars
    /\ UNCHANGED <<jobVars, opVars, site, calls, histVars, orphaned>>

-----------------------------------------------------------------------------
(* The operator: cancel_job (and batch_cancel_jobs, a loop over it)        *)

CancelRead(h, j) ==
    /\ calls["cancel"] < MaxCancels
    /\ status[j] \in Open
    /\ Goto(h, "idle", "cancel_save")
    /\ local' = [local EXCEPT ![h] = [NoLocals EXCEPT !.job = j]]
    /\ Count("cancel")
    /\ UNCHANGED <<jobVars, opVars, site, agentVars, histVars, orphaned>>

\* job.save() writes the row as it was read; a deleted row stays deleted.
CancelSave(h) ==
    LET j == local[h].job IN
    /\ hpc[h] = "cancel_save"
    /\ End(h)
    /\ status' = IF status[j] = "absent" THEN status
                 ELSE [status EXCEPT ![j] = "cancelled"]
    /\ UNCHANGED <<kind, nextJob, opVars, site, agentVars, calls, histVars, orphaned>>

(* retry_job: whatever the job's status is                                 *)

RetryRead(h, j) ==
    /\ calls["retry"] < MaxRetries
    /\ status[j] # "absent"
    /\ Goto(h, "idle", "retry_save")
    /\ local' = [local EXCEPT ![h] = [NoLocals EXCEPT !.job = j]]
    /\ Count("retry")
    /\ UNCHANGED <<jobVars, opVars, site, agentVars, histVars, orphaned>>

RetrySave(h) ==
    LET j == local[h].job IN
    /\ Goto(h, "retry_save", "retry_op_read")
    /\ IF status[j] = "absent"
       THEN UNCHANGED <<status, queued>>
       ELSE /\ status' = [status EXCEPT ![j] = "pending"]
            /\ queued' = [queued EXCEPT ![j] = @ + 1]
    /\ orphaned' = orphaned \ {j}
    /\ UNCHANGED <<kind, nextJob, opVars, site, local, agentVars, calls,
                   outcomes, wins>>

RetryOpRead(h) ==
    LET o == LatestOp(kind[local[h].job], {"running", "failed"}) IN
    /\ hpc[h] = "retry_op_read"
    /\ IF o = NoJob
       THEN End(h)
       ELSE /\ Goto(h, "retry_op_read", "retry_op_save")
            /\ local' = [local EXCEPT ![h].op = o]
    /\ UNCHANGED <<jobVars, opVars, site, agentVars, calls, histVars, orphaned>>

RetryOpSave(h) ==
    /\ hpc[h] = "retry_op_save"
    /\ End(h)
    /\ ops' = [ops EXCEPT ![local[h].op].status = "pending"]
    /\ UNCHANGED <<jobVars, nextOp, site, agentVars, calls, histVars, orphaned>>

-----------------------------------------------------------------------------
(* dispatch_for_site and create_job                                        *)

NeedsEnv(t) == t \in {"update_env", "create_account", "wp_login", "gmc_check", "open_env"}

\* Dispatches that still have their job row to insert, for the bound MaxJobs.
Dispatching == {h \in Handlers : hpc[h] \in {"dispatch_clear", "dispatch_job"}}

DispatchRead(h, k, now) ==
    /\ nextJob + Cardinality(Dispatching) <= MaxJobs
    /\ now => ExecuteNow
    /\ NeedsEnv(k.type) => site[k.site].env # NoJob
    /\ Goto(h, "idle",
            IF k.type = "create_account" /\ site[k.site].account # NoJob
            THEN "dispatch_clear" ELSE "dispatch_job")
    /\ local' = [local EXCEPT ![h] = [NoLocals EXCEPT !.kind = k, !.now = now,
                                                      !.row = site[k.site]]]
    /\ UNCHANGED <<jobVars, opVars, site, agentVars, calls, histVars, orphaned>>

\* create_account first forgets the old account: site.save() of the row read.
DispatchClear(h) ==
    /\ Goto(h, "dispatch_clear", "dispatch_job")
    /\ site' = [site EXCEPT ![local[h].kind.site] =
                    [local[h].row EXCEPT !.account = NoJob]]
    /\ UNCHANGED <<jobVars, opVars, local, agentVars, calls, histVars, orphaned>>

DispatchJob(h) ==
    /\ nextJob \in JobIds
    /\ Goto(h, "dispatch_job", "dispatch_op")
    /\ status' = [status EXCEPT ![nextJob] = "pending"]
    /\ kind' = [kind EXCEPT ![nextJob] = local[h].kind]
    /\ queued' = [queued EXCEPT ![nextJob] = 1]
    /\ local' = [local EXCEPT ![h].job = nextJob]
    /\ nextJob' = nextJob + 1
    /\ UNCHANGED <<opVars, site, agentVars, calls, outcomes, wins, orphaned>>

DispatchOp(h) ==
    /\ nextOp \in JobIds
    /\ hpc[h] = "dispatch_op"
    /\ ops' = [ops EXCEPT ![nextOp] = [kind |-> local[h].kind, status |-> "running"]]
    /\ nextOp' = nextOp + 1
    /\ IF local[h].now
       THEN Goto(h, "dispatch_op", "exec_save") /\ UNCHANGED local
       ELSE End(h)
    /\ UNCHANGED <<jobVars, site, agentVars, calls, histVars, orphaned>>

(* _execute_job_sync: the server does the work itself.  The executor is    *)
(* synchronous, so nothing else runs on the event loop meanwhile.          *)

ExecSave(h) ==
    LET j == local[h].job IN
    /\ Goto(h, "exec_save", "exec_run")
    /\ status' = IF status[j] = "absent" THEN status
                 ELSE [status EXCEPT ![j] = "running"]
    /\ UNCHANGED <<kind, nextJob, opVars, site, local, agentVars, calls, histVars, orphaned>>

ExecRun(h) ==
    /\ Goto(h, "exec_run", "report_read")
    /\ \E r \in Outcomes : local' = [local EXCEPT ![h].res = r]
    /\ UNCHANGED <<jobVars, opVars, site, agentVars, calls, histVars, orphaned>>

\* The executor cannot be imported: the caller is told, the job is not.
ExecUnavailable(h) ==
    /\ hpc[h] = "exec_run"
    /\ End(h)
    /\ Orphan(local[h].job)
    /\ UNCHANGED <<jobVars, opVars, site, agentVars, calls, histVars>>

-----------------------------------------------------------------------------
(* Ids of a site written by hand                                           *)

EditRead(h, s, to) ==
    /\ calls["edit"] < MaxEdits
    /\ Goto(h, "idle", to)
    /\ local' = [local EXCEPT ![h] = [NoLocals EXCEPT !.site = s, !.row = site[s]]]
    /\ Count("edit")
    /\ UNCHANGED <<jobVars, opVars, site, agentVars, histVars, orphaned>>

\* Handler h saves the row it read, with some columns changed.
EditSave(h, from, row) ==
    /\ hpc[h] = from
    /\ End(h)
    /\ site' = [site EXCEPT ![local[h].site] = row]
    /\ UNCHANGED <<jobVars, opVars, agentVars, calls, histVars, orphaned>>

\* POST /site/update: CRUDBase.update sets the columns it is given (hub_status,
\* to what is no job's result) and saves the row it read, as does any other
\* component with a Site row in its hands, which changes none of these columns.
Updates(s, row) ==
    [env : {row.env, NoJob, s}, account : {row.account, NoJob, s}, hub : {row.hub, <<>>}]
UpdateRead(h, s) == EditRead(h, s, "update_save")
UpdateSave(h) ==
    \E row \in Updates(local[h].site, local[h].row) : EditSave(h, "update_save", row)

\* batch_assign_env_to_sites, for one registration: a site that shows no
\* environment gets the one of its registration.
AssignRead(h, s) == site[s].env = NoJob /\ EditRead(h, s, "assign_save")
AssignSave(h) ==
    EditSave(h, "assign_save", [local[h].row EXCEPT !.env = local[h].site])

-----------------------------------------------------------------------------
(* Faults                                                                  *)

\* The agent stops waiting: 30 s time-out, or the connection broke because the
\* server restarted.  A claim is simply tried again; a report is sent again up
\* to MaxSends times, then the result is dropped.
GivesUpReport(a) == apc[a] = "await_report" /\ work[a].sends >= MaxSends

Abandon(a) ==
    /\ apc' = [apc EXCEPT ![a] =
                  IF apc[a] = "await_report" /\ ~GivesUpReport(a) THEN "send" ELSE "poll"]
    /\ work' = [work EXCEPT ![a] =
                   IF apc[a] = "await_report" /\ ~GivesUpReport(a)
                   THEN [@ EXCEPT !.call = NoHandler] ELSE NoWork]
    /\ Orphan(IF GivesUpReport(a) THEN work[a].job ELSE NoJob)

Served(a) == local[work[a].call].agent = a

Timeout(a) ==
    /\ apc[a] \in {"await_claim", "await_report"}
    /\ Served(a) /\ calls["fault"] < MaxFaults
    /\ Abandon(a)
    /\ Count("fault")
    /\ UNCHANGED <<jobVars, opVars, site, serverVars, histVars>>

ConnectionLost(a) ==
    /\ apc[a] \in {"await_claim", "await_report"}
    /\ ~Served(a)
    /\ Abandon(a)
    /\ UNCHANGED <<jobVars, opVars, site, serverVars, calls, histVars>>

\* The agent process dies and is started again, or the executor raises a
\* network error, which run_once takes for an unreachable server.
AgentCrash(a) ==
    /\ apc[a] # "poll" /\ calls["fault"] < MaxFaults
    /\ apc' = [apc EXCEPT ![a] = "poll"]
    /\ work' = [work EXCEPT ![a] = NoWork]
    /\ Orphan(work[a].job)
    /\ Count("fault")
    /\ UNCHANGED <<jobVars, opVars, site, serverVars, histVars>>

\* A statement of the handler raises: the waiting agent gets an HTTP error and
\* drops what it was doing.
HandlerError(h) ==
    LET a == local[h].agent IN
    /\ hpc[h] # "idle" /\ calls["fault"] < MaxFaults
    /\ End(h)
    /\ IF a # NoAgent /\ Waits(a, h)
       THEN /\ apc' = [apc EXCEPT ![a] = "poll"]
            /\ work' = [work EXCEPT ![a] = NoWork]
       ELSE UNCHANGED agentVars
    /\ Orphan(IF a # NoAgent /\ Waits(a, h) /\ work[a].job # NoJob
              THEN work[a].job ELSE OwnedBy(h))
    /\ Count("fault")
    /\ UNCHANGED <<jobVars, opVars, site, histVars>>

\* The server restarts: handlers are gone, and recover_stale_jobs fails every
\* running or pending OperationJob whose last_heartbeat is NULL, as it is on
\* all rows of create_job.
ServerRestart ==
    /\ calls["fault"] < MaxFaults
    /\ \E h \in Handlers : hpc[h] # "idle"
    /\ hpc' = [h \in Handlers |-> "idle"]
    /\ local' = [h \in Handlers |-> NoLocals]
    /\ ops' = [o \in JobIds |-> IF ops[o].status \in Open
                                THEN [ops[o] EXCEPT !.status = "failed"] ELSE ops[o]]
    /\ orphaned' = orphaned \cup ({OwnedBy(h) : h \in Handlers} \ {NoJob})
    /\ Count("fault")
    /\ UNCHANGED <<jobVars, nextOp, site, agentVars, histVars>>

\* _cleanup_site_relations deletes the site's HubStudioJob rows.
DeleteSiteJobs(s) ==
    /\ \E j \in JobIds : status[j] # "absent" /\ kind[j].site = s
    /\ status' = [j \in JobIds |-> IF kind[j].site = s THEN "absent" ELSE status[j]]
    /\ UNCHANGED <<kind, nextJob, opVars, site, serverVars, agentVars, calls,
                   histVars, orphaned>>

-----------------------------------------------------------------------------
HandlerStep(h) ==
    \/ ClaimRead(h) \/ ClaimCas(h) \/ ClaimReply(h)
    \/ ReportRead(h) \/ ReportCas(h) \/ ReportSiteRead(h) \/ ReportSiteSave(h)
    \/ ReportOpRead(h) \/ ReportOpSave(h) \/ ReportReply(h)
    \/ CancelSave(h) \/ RetrySave(h) \/ RetryOpRead(h) \/ RetryOpSave(h)
    \/ DispatchClear(h) \/ DispatchJob(h) \/ DispatchOp(h)
    \/ ExecSave(h) \/ ExecRun(h) \/ ExecUnavailable(h)
    \/ UpdateSave(h) \/ AssignSave(h)

AgentStep(a) ==
    \/ \E h \in Handlers : ClaimRequest(a, h) \/ ReportRequest(a, h)
    \/ Execute(a) \/ ConnectionLost(a)

OperatorStep(h) ==
    \/ \E j \in JobIds : CancelRead(h, j) \/ RetryRead(h, j)
    \/ \E k \in Kinds, now \in BOOLEAN : DispatchRead(h, k, now)
    \/ \E s \in Sites : UpdateRead(h, s) \/ AssignRead(h, s)

Fault ==
    \/ \E a \in Agents : Timeout(a) \/ AgentCrash(a)
    \/ \E h \in Handlers : HandlerError(h)
    \/ ServerRestart

Next ==
    \/ \E h \in Handlers : HandlerStep(h) \/ OperatorStep(h)
    \/ \E a \in Agents : AgentStep(a)
    \/ \E s \in Sites : DeleteSiteJobs(s)
    \/ Fault

Spec == Init /\ [][Next]_vars

\* The event loop runs every handler that can run; an agent's loop goes on.
Fairness ==
    /\ \A h \in Handlers : WF_vars(HandlerStep(h))
    /\ \A a \in Agents : WF_vars(AgentStep(a))

FairSpec == Spec /\ Fairness

-----------------------------------------------------------------------------
(* Properties                                                              *)

\* Claims are exclusive: two agents never work on the same queueing of a job,
\* however many polls race for it and whatever is cancelled, retried or lost
\* meanwhile ("prevents concurrent duplicate claims", claim_next_pending_job).
ClaimExclusive ==
    \A a, b \in Agents :
        /\ work[a].job # NoJob
        /\ work[a].job = work[b].job
        /\ work[a].turn = work[b].turn
        => a = b

\* A report is idempotent: however often and however late results of a job
\* arrive, it is given at most one outcome per queueing, and an open job has
\* one still to come (report_job_result).
OutcomeOncePerQueueing ==
    \A j \in JobIds :
        /\ outcomes[j] <= queued[j]
        /\ status[j] \in Open => outcomes[j] < queued[j]

\* No job is forgotten: one that is running has somebody who will report it,
\* unless that somebody was lost to a fault, or could not be imported, since the
\* job was last queued (nothing on the server takes a running job back).
RunningHasOwner ==
    \A j \in JobIds : status[j] = "running" /\ j \notin orphaned =>
        \/ \E a \in Agents : work[a].job = j
        \/ \E h \in Handlers : OwnedBy(h) = j

\* The task centre does not report more than happened: the OperationJobs of a
\* site and action shown as success are no more than the successes reported
\* for it (_sync_operation_job finds its row by site and action only).  Won has
\* a pair for each success of a job of the site and action.
Won(k) == UNION {{j} \X (1..wins[j]) : j \in {i \in JobIds : kind[i] = k}}
OpSuccessBacked ==
    \A k \in Kinds : Cardinality(OpsOf(k, {"success"})) <= Cardinality(Won(k))

\* A site's environment and account ids are its own and real: whatever whole-row
\* saves overwrite each other, an id shown is that of a job of this site and type
\* that succeeded (_sync_site_from_job, dispatch_for_site), or one that was
\* entered or assigned for this site by hand (/site/update,
\* batch_assign_env_to_sites).
Backs(id, s, type) ==
    id \in JobIds => wins[id] > 0 /\ kind[id] = [site |-> s, type |-> type]
SiteIdsBacked ==
    \A s \in Sites :
        /\ site[s].env \in Sites => site[s].env = s
        /\ site[s].account \in Sites => site[s].account = s
        /\ Backs(site[s].env, s, "create_env")
        /\ Backs(site[s].account, s, "create_account")

\* A settled job stays settled: success, failed and cancelled are left only by
\* a retry that queues the job again, by an operator's cancel, or with the row.
SettledUntilRetried ==
    [][\A j \in JobIds :
          status[j] \in Outcomes \cup {"cancelled"} /\ status'[j] # status[j] =>
              queued'[j] > queued[j] \/ status'[j] \in {"cancelled", "absent"}]_vars

\* The service implements the ledger of jobs.
Ledger == INSTANCE JobLedger WITH
    phase <- [j \in JobIds |-> IF status[j] \in Outcomes THEN "closed" ELSE status[j]]
ImplementsLedger == Ledger!LedgerSpec

\* While nothing fails, every queued job is taken (or withdrawn), and every
\* job that was taken is settled, unless the server took it itself and could not
\* import its executor.
PendingIsTaken == \A j \in JobIds : status[j] = "pending" ~> status[j] # "pending"
RunningIsSettled ==
    \A j \in JobIds : status[j] = "running" ~> status[j] # "running" \/ j \in orphaned

\* What cancel_job's docstring says: only a pending or running job can be
\* cancelled.
CancelOnlyOpen ==
    [][\A j \in JobIds : status'[j] = "cancelled" /\ status[j] # "cancelled" =>
                              status[j] \in Open]_vars

\* What retry_job's docstring says of the associated OperationJob: it is put
\* back with the job, so it does not stay pending once the job is settled.
Quiet == /\ \A h \in Handlers : hpc[h] = "idle"
         /\ \A j \in JobIds : status[j] \in Outcomes \/ queued[j] = 0
RetriedOpSettles ==
    Quiet => \A o \in JobIds : ops[o].status # "pending"
=============================================================================
