----------------------------- MODULE WorkerRoutes -----------------------------
(***************************************************************************)
(* The Cloudflare Worker defence of a domain:                              *)
(* app/services/gateway_defense/cloudflare_worker.py, and the script       *)
(* cloudflare_worker_deployer.py that an operator runs by hand.            *)
(*                                                                         *)
(* A run uploads its Worker, lists the zone's routes, deletes the domain's *)
(* route when it leads to another Worker, adds its own and, in the         *)
(* service, looks once more.  The service names the Worker after the site, *)
(* the script has a name of its own.  Any call may fail, also after it had *)
(* its effect.  Cloudflare keeps one route per pattern and refuses a       *)
(* second one, and it refuses to delete a route that is gone (assumptions).*)
(***************************************************************************)
EXTENDS Naturals, FiniteSets

CONSTANTS
    Workers,       \* the runs: deployments, removals, runs of the script
    MaxRoutes      \* bound: routes ever added

VARIABLES
    task, at,      \* what a run is, and its next call
    listed,        \* the route it has seen for the domain
    good,          \* runs whose verification has passed
    timedOut,      \* deployments whose task has timed out
    scripts,       \* the uploaded Workers
    route, made,   \* the domain's route, and the number of routes ever added
    configured,    \* the row has zone_id and route_pattern
    row,           \* Site.gateway_defense_status
    cut            \* history: the route was removed by anything but a deployment

workerVars == <<task, at, listed, good, timedOut>>
cloudVars  == <<scripts, route, made, cut>>
vars == <<workerVars, cloudVars, configured, row>>

Tasks   == {"none", "deploy", "undeploy", "script"}
Names   == {"site", "script"}
NoRoute == [script |-> "none", id |-> 0]
Places  == {"idle", "find", "upload", "list", "delete", "add", "verify", "save", "done"}
Routes  == {NoRoute} \cup [script : Names, id : 1..MaxRoutes]

WorkerTypeOK ==
    /\ task \in [Workers -> Tasks]
    /\ at \in [Workers -> Places]
    /\ listed \in [Workers -> Routes]
    /\ good \subseteq Workers /\ timedOut \subseteq Workers
    /\ scripts \subseteq Names
    /\ route \in Routes /\ made \in 0..MaxRoutes
    /\ configured \in BOOLEAN
    /\ row \in {"none", "deployed", "failed", "undeployed"}
    /\ cut \in BOOLEAN

WorkerInit ==
    /\ task = [w \in Workers |-> "none"]
    /\ at = [w \in Workers |-> "idle"]
    /\ listed = [w \in Workers |-> NoRoute]
    /\ good = {} /\ timedOut = {}
    /\ scripts = {}
    /\ route = NoRoute /\ made = 0
    /\ configured = FALSE
    /\ row = "none"
    /\ cut = FALSE

-----------------------------------------------------------------------------
Move(w, from, to) == at[w] = from /\ at' = [at EXCEPT ![w] = to]

Mine(w) == IF task[w] = "script" THEN "script" ELSE "site"

\* A deployment records what became of it; an undeploy that fails and the
\* script record nothing.
Over(w) == IF task[w] = "deploy" THEN "save" ELSE "done"
Leave(w) == at' = [at EXCEPT ![w] = Over(w)]

\* An undeploy needs the zone and the pattern a deployment has saved.
Begin(w, k) ==
    /\ k = "undeploy" => configured
    /\ task' = [task EXCEPT ![w] = k]
    /\ Move(w, "idle", CASE k = "deploy"   -> "find"
                         [] k = "script"   -> "upload"
                         [] k = "undeploy" -> "list")
    /\ UNCHANGED <<listed, good, timedOut, cloudVars, configured, row>>

\* Any call may fail before it does anything; the source checks, the keys and
\* the zone stop a run in the same way.
Fails(w) ==
    /\ at[w] \in Places \ {"idle", "save", "done"}
    /\ Leave(w)
    /\ UNCHANGED <<task, listed, good, timedOut, cloudVars, configured, row>>

\* The service looks for the zone before the upload, the script after it, and
\* the script leaves the route alone when it does not find one.
FindZone(w) ==
    /\ task[w] = "deploy" /\ Move(w, "find", "upload")
    /\ UNCHANGED <<task, listed, good, timedOut, cloudVars, configured, row>>

ScriptFindZone(w) ==
    /\ task[w] = "script" /\ at[w] = "find"
    /\ Move(w, "find", "list") \/ Leave(w)
    /\ UNCHANGED <<task, listed, good, timedOut, cloudVars, configured, row>>

Upload(w, next) ==
    /\ at[w] = "upload"
    /\ scripts' = scripts \cup {Mine(w)}
    /\ Move(w, "upload", next) \/ Leave(w)
    /\ UNCHANGED <<task, listed, good, timedOut, route, made, cut, configured, row>>

UploadWorker(w)       == task[w] = "deploy" /\ Upload(w, "list")
ScriptUploadWorker(w) == task[w] = "script" /\ Upload(w, "find")

List(w, next) ==
    /\ Move(w, "list", next)
    /\ listed' = [listed EXCEPT ![w] = route]
    /\ UNCHANGED <<task, good, timedOut, cloudVars, configured, row>>

\* A route that leads to the run's own Worker is left as it is.
AfterList(w, skip) ==
    CASE route = NoRoute        -> "add"
      [] route.script = Mine(w) -> skip
      [] OTHER                  -> "delete"

ListRoutes(w)       == task[w] = "deploy" /\ List(w, AfterList(w, "verify"))
ScriptListRoutes(w) == task[w] = "script" /\ List(w, AfterList(w, "done"))

\* An undeploy deletes whatever route the domain has.
UndeployListRoutes(w) ==
    task[w] = "undeploy" /\ List(w, IF route = NoRoute THEN "save" ELSE "delete")

\* The route is deleted by its id.
DeleteRoute(w) ==
    /\ at[w] = "delete"
    /\ route.id = listed[w].id
    /\ route' = NoRoute
    /\ cut' = (cut \/ task[w] # "deploy")
    /\ \/ Move(w, "delete", IF task[w] = "undeploy" THEN "save" ELSE "add")
       \/ Leave(w)
    /\ UNCHANGED <<task, listed, good, timedOut, scripts, made, configured, row>>

AddRoute(w) ==
    /\ at[w] = "add"
    /\ route = NoRoute /\ made < MaxRoutes
    /\ route' = [script |-> Mine(w), id |-> made + 1]
    /\ made' = made + 1
    /\ cut' = (cut /\ task[w] # "deploy")
    /\ \/ Move(w, "add", IF task[w] = "deploy" THEN "verify" ELSE "done")
       \/ Leave(w)
    /\ UNCHANGED <<task, listed, good, timedOut, scripts, configured, row>>

VerifyDeployment(w) ==
    /\ at[w] = "verify" /\ Leave(w)
    /\ good' = IF Mine(w) \in scripts /\ route.script = Mine(w) THEN good \cup {w} ELSE good
    /\ UNCHANGED <<task, listed, timedOut, cloudVars, configured, row>>

\* An undeploy saves what it did, whether or not it found a route.
SaveSite(w) ==
    /\ Move(w, "save", "done")
    /\ row' = IF w \in timedOut THEN row
              ELSE IF task[w] = "undeploy" THEN "undeployed"
              ELSE IF w \in good THEN "deployed" ELSE "failed"
    /\ configured' = (configured \/ w \in good \ timedOut)
    /\ UNCHANGED <<task, listed, good, timedOut, cloudVars>>

\* The task's time-out leaves the pool thread at work.
TimeOut(w) ==
    /\ task[w] = "deploy" /\ at[w] \notin {"idle", "done"} /\ w \notin timedOut
    /\ timedOut' = timedOut \cup {w}
    /\ row' = "failed"
    /\ UNCHANGED <<task, at, listed, good, cloudVars, configured>>

WorkerStep(w) ==
    \/ \E k \in Tasks \ {"none"} : Begin(w, k)
    \/ Fails(w)
    \/ FindZone(w) \/ UploadWorker(w) \/ ListRoutes(w)
    \/ ScriptFindZone(w) \/ ScriptUploadWorker(w) \/ ScriptListRoutes(w)
    \/ UndeployListRoutes(w)
    \/ DeleteRoute(w) \/ AddRoute(w) \/ VerifyDeployment(w) \/ SaveSite(w) \/ TimeOut(w)

WorkerNext == \E w \in Workers : WorkerStep(w)
=============================================================================
