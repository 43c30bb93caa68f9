------------------------------- MODULE Defences -------------------------------
(***************************************************************************)
(* The defence of one site.  The deployment task picks the service by the  *)
(* site's platform: Cloudflare Workers for a shopify site, Nginx and Lua   *)
(* for any other.  Both keep their outcome in Site.gateway_defense_status. *)
(***************************************************************************)
EXTENDS FangyuInstall

CONSTANTS Workers, MaxRoutes

ASSUME RoutesAssumption == MaxRoutes \in Nat

VARIABLES
    platform,      \* Site.platform
    task, at, listed, good, timedOut, scripts, route, made, configured, cut

W == INSTANCE WorkerRoutes

workers == <<task, at, listed, good, timedOut, scripts, route, made, configured, cut>>
allVars == <<installVars, platform, workers>>

Platforms == {"shopify", "woocommerce"}

DefencesTypeOK == platform \in Platforms /\ InstallTypeOK /\ W!WorkerTypeOK

DefencesInit == platform \in Platforms /\ InstallInit /\ W!WorkerInit

DefencesNext ==
    \/ /\ platform = "shopify" /\ W!WorkerNext
       /\ UNCHANGED <<platform, runVars, webVars, main, places, files, original, unready>>
    \/ /\ platform # "shopify" /\ InstallNext
       /\ UNCHANGED <<platform, workers>>

DefencesSpec == DefencesInit /\ [][DefencesNext]_allVars

-----------------------------------------------------------------------------
\* The site's configuration holds the whole defence in its place or nothing of
\* it, whatever runs of the two installers overlap, fail half-way or are
\* abandoned: each rewrites what it read with its own copy of the editing code
\* and puts it back whole.
FangyuWhole == Clean(disk) \/ Whole(disk)

\* The files the configuration names have been uploaded: Nginx would not load a
\* configuration whose include or access file is missing.
ReferencedFilesExist == Has(disk, {"access"}) => FilesIn(points) \subseteq files

\* Until a removal has found an earlier defence, the site owner's own real-ip
\* lines, body filter and resolver are as they were: the first deployment must
\* not take them for Fangyu's (nginx_lua.py:261).
OwnLinesKept == ~cleaned => Own(disk) = Own(original)

\* A row that says deployed speaks of a site that is defended.  On Nginx the
\* configuration is whole and nginx.conf has what was needed and it has the places
\* for (no more: the service reports success without an http block or an include
\* of mime.types, too), unless an undeploy wrote since, or an upload of nginx.conf
\* failed or overlapped another one, which the code passes over.  On Cloudflare the domain's route leads to the
\* site's Worker, unless an undeploy or the script has removed it since.
DeployedIsDefended ==
    row = "deployed" =>
        IF platform = "shopify"
        THEN cut \/ (route.script = "site" /\ "site" \in scripts)
        ELSE withdrawn \/ (Whole(disk) /\ (unready \/ places \subseteq main))

\* The script and the template mode make the same of a configuration without a
\* defence, although one looks for an old defence first and the other does not.
CopiesAgree == Clean(disk) => ScriptDeployed(disk) = Migrated(disk)

\* A redeployment leaves a configuration the server accepts (nginx_lua.py:259
\* calls the removal the preparation of an idempotent deployment).
RedeployAccepted ==
    Accepts(original, FALSE) /\ Occurrences(original, OwnLines \ {"own"}) = 0 => Syntax
=============================================================================
