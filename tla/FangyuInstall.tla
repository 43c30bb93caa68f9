---------------------------- MODULE FangyuInstall ----------------------------
(***************************************************************************)
(* Putting the Fangyu defence on a site's Nginx and taking it off again:   *)
(* FangyuInstaller and NginxLuaDefenseService of                           *)
(* app/services/gateway_defense/nginx_lua.py, and the installer of         *)
(* nginx_template_migrator.py that an operator runs by hand.               *)
(*                                                                         *)
(* A member of Runs is one deployment ("deploy", with its pool thread),    *)
(* one removal ("undeploy") or one run of the script ("script").  Each     *)
(* HTTP call to the panel is a step.  All runs share the site's            *)
(* configuration, nginx.conf and the files in the container; each reads a  *)
(* configuration, rewrites it and puts the whole of it back.               *)
(*                                                                         *)
(* Any call may fail, and a call that changes something may fail after it  *)
(* did.  The panel keeps a configuration as it gets it (an assumption: the *)
(* code runs nginx -t only after the update).                              *)
(***************************************************************************)
EXTENDS FangyuConf

CONSTANTS
    Runs,
    ServerNameIsDomain   \* the first server_name of the site is its domain

ASSUME ServerNameAssumption == ServerNameIsDomain \in BOOLEAN

VARIABLES
    kind, call,      \* of a run
    held,            \* the configuration a run has read
    heldMain,        \* what it has read in nginx.conf
    passed,          \* runs whose checks have passed
    abandoned,       \* deployments whose task has timed out
    disk, main,      \* the site's configuration and nginx.conf
    places,          \* the lines nginx.conf has the place for
    points,          \* the directory the configuration refers to
    files,           \* the files in the container, with their directories
    row,             \* Site.gateway_defense_status
    original,        \* history: the configuration at the start
    cleaned,         \* history: a removal has found something to remove
    withdrawn,       \* history: the last write was an undeploy's
    unready          \* history: an nginx.conf was not completed, or an older one was put back

runVars == <<kind, call, held, heldMain, passed, abandoned>>
webVars == <<disk, points, cleaned, withdrawn>>
installVars == <<runVars, webVars, main, places, files, row, original, unready>>

Kinds  == {"none", "deploy", "undeploy", "script"}
Parts  == {"realip", "defense"}
Needed == {"lua", "resolver"}
\* The Lua paths go to the start of the http block, a resolver after its include of
\* mime.types: an nginx.conf has neither, the first only, or both.
Layouts == {{}, {"lua"}, Needed}
Dirs   == {"service", "domain", "alias"}
RowStates == {"none", "deployed", "failed", "undeployed"}
Calls == {"idle", "resolve", "find", "main", "mainput", "lua", "luaput", "resolver", "resolverput",
          "realip", "defense", "read", "write", "test", "reload", "verify", "save", "done"}

FilesIn(d) == {<<d, f>> : f \in Parts}

InstallTypeOK ==
    /\ kind \in [Runs -> Kinds]
    /\ call \in [Runs -> Calls]
    /\ held \in [Runs -> Seq(Lines)]
    /\ heldMain \in [Runs -> SUBSET Needed]
    /\ passed \subseteq Runs /\ abandoned \subseteq Runs
    /\ disk \in Seq(Lines) /\ original \in SampleConfs
    /\ main \subseteq Needed /\ places \in Layouts
    /\ points \in Dirs
    /\ files \subseteq UNION {FilesIn(d) : d \in Dirs}
    /\ row \in RowStates
    /\ cleaned \in BOOLEAN /\ withdrawn \in BOOLEAN /\ unready \in BOOLEAN

InstallInit ==
    /\ kind = [t \in Runs |-> "none"]
    /\ call = [t \in Runs |-> "idle"]
    /\ held = [t \in Runs |-> <<>>]
    /\ heldMain = [t \in Runs |-> {}]
    /\ passed = {} /\ abandoned = {}
    /\ disk \in SampleConfs /\ original = disk
    /\ main = {} /\ places \in Layouts
    /\ points = "domain"
    /\ files = {}
    /\ row = "none"
    /\ cleaned = FALSE /\ withdrawn = FALSE /\ unready = FALSE

-----------------------------------------------------------------------------
Advance(t, from, to) == call[t] = from /\ call' = [call EXCEPT ![t] = to]

Start(t, k) ==
    /\ kind' = [kind EXCEPT ![t] = k]
    /\ Advance(t, "idle", IF k = "script" THEN "find" ELSE "resolve")
    /\ UNCHANGED <<held, heldMain, passed, abandoned, webVars, main, files, row, original, unready>>

\* A run that cannot go on: a deployment records it, the others just end.
Ended(t) == IF kind[t] = "deploy" THEN "save" ELSE "done"

Stop(t) == call' = [call EXCEPT ![t] = Ended(t)]

\* The steps whose errors the code passes over instead of stopping.
Lenient == {"mainput", "luaput", "resolver", "resolverput"}

\* The panel does not answer, refuses, or does not find what is asked for.
CallFails(t) ==
    /\ call[t] \notin Lenient \cup {"idle", "save", "done"}
    /\ Stop(t)
    /\ UNCHANGED <<kind, held, heldMain, passed, abandoned, webVars, main, files, row, original, unready>>

\* A step that only asks the panel and goes on.
Asks(t, from, to) ==
    /\ Advance(t, from, to)
    /\ UNCHANGED <<kind, held, heldMain, passed, abandoned, webVars, main, files, row, original, unready>>

\* The service finds the panel's provider and, for a deployment, the name of the
\* site's app, which is its directory.
Resolve(t) == Asks(t, "resolve", "find")

FindContainer(t) ==
    \/ kind[t] = "deploy"   /\ Asks(t, "find", "main")
    \/ kind[t] = "undeploy" /\ Asks(t, "find", "read")

ScriptFindContainer(t) == kind[t] = "script" /\ Asks(t, "find", "lua")

-----------------------------------------------------------------------------
\* nginx.conf, shared by all sites: read, completed and uploaded whole.  The
\* service adds the Lua paths and a resolver together, the script one by one.

Adds  == [main |-> Needed, lua |-> {"lua"}, resolver |-> {"resolver"}]
PutOf == [main |-> "mainput", lua |-> "luaput", resolver |-> "resolverput"]
After == [main |-> "realip", lua |-> "resolver", resolver |-> "realip"]

\* Mutant: the resolver is not looked for.
ReadMainLuaOnly(t, p) ==
    /\ Advance(t, p, IF (Adds[p] \cap {"lua"}) \subseteq main THEN After[p] ELSE PutOf[p])
    /\ heldMain' = [heldMain EXCEPT ![t] = main]
    /\ UNCHANGED <<kind, held, passed, abandoned, webVars, main, files, row, original, unready>>

ReadMain(t, p) ==
    /\ Advance(t, p, IF Adds[p] \subseteq main THEN After[p] ELSE PutOf[p])
    /\ heldMain' = [heldMain EXCEPT ![t] = main]
    /\ UNCHANGED <<kind, held, passed, abandoned, webVars, main, files, row, original, unready>>

\* The service adds the lines there is a place for, and is content with that; the
\* script does not upload without the line it is to add (MainFails).
PutMain(t, p) ==
    /\ p # "main" => Adds[p] \subseteq places
    /\ Advance(t, PutOf[p], After[p])
    /\ main' = heldMain[t] \cup (Adds[p] \cap places)
    /\ unready' = (unready \/ main # heldMain[t])
    /\ UNCHANGED <<kind, held, heldMain, passed, abandoned, webVars, files, row, original>>

\* Neither installer stops when nginx.conf cannot be read, completed or written.
MainFails(t, p) ==
    /\ call[t] \in {p, PutOf[p]}
    /\ call' = [call EXCEPT ![t] = After[p]]
    /\ unready' = TRUE
    /\ UNCHANGED <<kind, held, heldMain, passed, abandoned, webVars, main, files, row, original>>

EnsureLuaConfig(t) == ReadMain(t, "main") \/ PutMain(t, "main") \/ MainFails(t, "main")
AddLuaConfig(t)    == ReadMain(t, "lua") \/ PutMain(t, "lua") \/ MainFails(t, "lua")
EnsureResolver(t)  ==
    ReadMain(t, "resolver") \/ PutMain(t, "resolver") \/ MainFails(t, "resolver")

-----------------------------------------------------------------------------
\* The two files; both have to be there before the configuration names them.

\* Mutant: the answer of the upload is not looked at.
UploadUnchecked(t, f, dir) ==
    /\ Advance(t, f, IF f = "realip" THEN "defense" ELSE "read")
    /\ files' \in {files, files \cup {<<dir, f>>}}
    /\ UNCHANGED <<kind, held, heldMain, passed, abandoned, webVars, main, row, original, unready>>

Upload(t, f, dir) ==
    /\ call[t] = f
    /\ files' = files \cup {<<dir, f>>}
    /\ \/ Advance(t, f, IF f = "realip" THEN "defense" ELSE "read")
       \/ Stop(t)                                          \* the answer is lost
    /\ UNCHANGED <<kind, held, heldMain, passed, abandoned, webVars, main, row, original, unready>>

ServiceUpload(t) ==
    kind[t] = "deploy" /\ \E f \in Parts : Upload(t, f, "service")

ScriptUpload(t) ==
    kind[t] = "script" /\ \E f \in Parts : Upload(t, f, "domain")

\* The script does not upload a defense.lua that is too short, lacks its marks
\* or calls what it must not.
SourceRefused(t) ==
    /\ kind[t] = "script" /\ call[t] = "defense"
    /\ Stop(t)
    /\ UNCHANGED <<kind, held, heldMain, passed, abandoned, webVars, main, files, row, original, unready>>

-----------------------------------------------------------------------------
\* The site's configuration: read, rewritten, checked by its text, put back.

FindAndRead(t) ==
    /\ Advance(t, "read", "write")
    /\ held' = [held EXCEPT ![t] = disk]
    /\ UNCHANGED <<kind, heldMain, passed, abandoned, webVars, main, files, row, original, unready>>

\* Puts the configuration c back; a lost answer is taken for a failure.
Put(t, c, cleans, next) ==
    /\ disk' = c
    /\ cleaned' = (cleaned \/ cleans)
    /\ Advance(t, "write", next) \/ (call[t] = "write" /\ Stop(t))
    /\ UNCHANGED <<kind, held, heldMain, abandoned, main, files, row, original, unready>>

UpdateWebsite(t) ==
    /\ kind[t] = "deploy"
    /\ ValidLogic(Deployed(held[t]))
    /\ Put(t, Deployed(held[t]), HasFangyu(held[t]), "test")
    /\ points' = "service" /\ withdrawn' = FALSE
    /\ UNCHANGED passed

\* The script names the directory after the configuration's server_name, and
\* has uploaded the files to one named after the domain it was given.
ScriptRefersTo == IF ServerNameIsDomain THEN "domain" ELSE "alias"

ScriptUpdateWebsite(t) ==
    /\ kind[t] = "script"
    /\ ScriptValidLogic(ScriptDeployed(held[t]))
    /\ Put(t, ScriptDeployed(held[t]), ScriptHasFangyu(held[t]), "test")
    /\ points' = ScriptRefersTo /\ withdrawn' = FALSE
    /\ UNCHANGED passed

\* A certificate the configuration names is missing.
CertificatesRefused(t) ==
    /\ kind[t] = "script" /\ call[t] = "write"
    /\ Stop(t)
    /\ UNCHANGED <<kind, held, heldMain, passed, abandoned, webVars, main, files, row, original, unready>>

\* An undeploy neither tests nor reloads.
RemoveFromWebsite(t) ==
    /\ kind[t] = "undeploy"
    /\ Put(t, RemoveOld(held[t]), HasFangyu(held[t]), "save")
    /\ withdrawn' = TRUE
    /\ passed' = IF call'[t] = "save" THEN passed \cup {t} ELSE passed
    /\ UNCHANGED points

-----------------------------------------------------------------------------
Syntax == Accepts(disk, <<points, "realip">> \in files)

\* nginx -t: an exec interface that does not answer counts as passed.  A
\* configuration it refuses stays where it is.
TestSyntax(t, answers) ==
    kind[t] = "deploy" /\ (answers => Syntax) /\ Asks(t, "test", "reload")

ScriptTestSyntax(t, answers) ==
    kind[t] = "script" /\ (answers => Syntax) /\ Asks(t, "test", "verify")

Reload(t) == Asks(t, "reload", "verify")

Verified(t, ok) ==
    /\ call[t] = "verify" /\ Stop(t)
    /\ passed' = IF ok THEN passed \cup {t} ELSE passed
    /\ UNCHANGED <<kind, held, heldMain, abandoned, webVars, main, files, row, original, unready>>

\* verify_installation: the files, the configuration's text, nginx -t again.
VerifyInstallation(t, answers) ==
    /\ kind[t] = "deploy"
    /\ Verified(t, /\ FilesIn("service") \subseteq files
                   /\ points = "service" /\ ValidLogic(disk)
                   /\ answers => Syntax)

\* run_tests: three of its nine tests may come out as not done, which the verdict
\* passes over; that of the configuration is one the deployment depends on.
TestFiles == FilesIn("domain") \subseteq files
TestConf  == points = "domain" /\ ScriptValidLogic(disk) /\ Has(disk, {"include"})

RunTests(t, answers, couldRead) ==
    /\ kind[t] = "script"
    /\ Verified(t, TestFiles /\ (couldRead => TestConf) /\ (answers => Syntax))

-----------------------------------------------------------------------------
\* The service's last step is its site.save(); a task that timed out has
\* marked the row failed and saves no more, while its thread goes on.

Outcome == [deploy |-> "deployed", undeploy |-> "undeployed"]

Save(t) ==
    /\ Advance(t, "save", "done")
    /\ row' = IF t \in abandoned THEN row
              ELSE IF t \in passed THEN Outcome[kind[t]] ELSE "failed"
    /\ UNCHANGED <<kind, held, heldMain, passed, abandoned, webVars, main, files, original, unready>>

Abandon(t) ==
    /\ kind[t] = "deploy" /\ call[t] \notin {"idle", "done"} /\ t \notin abandoned
    /\ abandoned' = abandoned \cup {t}
    /\ row' = "failed"
    /\ UNCHANGED <<kind, call, held, heldMain, passed, webVars, main, files, original, unready>>

ServiceStep(t) ==
    \/ Start(t, "deploy") \/ Start(t, "undeploy")
    \/ Resolve(t) \/ FindContainer(t) \/ EnsureLuaConfig(t) \/ ServiceUpload(t)
    \/ UpdateWebsite(t) \/ RemoveFromWebsite(t)
    \/ \E answers \in BOOLEAN : TestSyntax(t, answers) \/ VerifyInstallation(t, answers)
    \/ Reload(t) \/ Save(t) \/ Abandon(t)

ScriptStep(t) ==
    \/ Start(t, "script")
    \/ ScriptFindContainer(t) \/ AddLuaConfig(t) \/ EnsureResolver(t)
    \/ ScriptUpload(t) \/ SourceRefused(t)
    \/ ScriptUpdateWebsite(t) \/ CertificatesRefused(t)
    \/ \E answers \in BOOLEAN : ScriptTestSyntax(t, answers)
    \/ \E answers, couldRead \in BOOLEAN : RunTests(t, answers, couldRead)

InstallNext ==
    /\ \E t \in Runs : ServiceStep(t) \/ ScriptStep(t) \/ FindAndRead(t) \/ CallFails(t)
    /\ UNCHANGED places
=============================================================================
