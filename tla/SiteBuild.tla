------------------------------ MODULE SiteBuild ------------------------------
(***************************************************************************)
(* What a provisioning does between the creation of the domain's site and  *)
(* its verdict: tasks/provision.py from create_site on, and the managers   *)
(* of app/services/onepanel it calls (the stage Build of Provision).       *)
(*                                                                         *)
(* The task awaits its steps one by one; each is a thread of the pool, and *)
(* a time-out ends the await and not the thread.  Four of them run at the  *)
(* same time: the restore of the database, the restore of the files, which *)
(* takes several calls and whatever order, and the injection of two        *)
(* scripts into the directory the files go to.  Directory, panel and PHP   *)
(* scripts are reached by HTTP: a call may fail, before or after its       *)
(* effect; the clients repeat a call whose answer was lost.                *)
(*                                                                         *)
(* External: the panel, the container (a rebuild may lose files, as the    *)
(* comments of the code say) and WordPress.                                *)
(***************************************************************************)
EXTENDS Naturals, FiniteSets

CONSTANTS
    Modes,         \* restore_mode: "safe" and "full_data"
    RootItems,     \* scripts that a template may have in its root
    OlderApps,     \* whether an older app of the domain is still listed
    MaxFaults      \* bound: failures, lost answers, time-outs, lost files

ASSUME BuildAssumption ==
    /\ Modes \subseteq {"safe", "full_data"} /\ RootItems \subseteq {"woo", "ctx"}
    /\ OlderApps \subseteq BOOLEAN /\ MaxFaults \in Nat

VARIABLES
    stage,         \* where the task is
    busy,          \* the pool threads at work
    restorer,      \* restore_files: where it is, what it keeps, what is left
    dir,           \* the directory service_name stands for
    disk,          \* the directories: wp-config, folders, scripts
    db,            \* the site's database
    proto, https,  \* the protocol the task was told, and what the panel serves
    cert,          \* whether the certificate was late
    mode, root, older,  \* the settings, the template and the panel, fixed
    faults         \* the faults so far

settings == <<mode, root, older>>
ssl      == <<proto, https, cert>>
buildVars == <<stage, busy, restorer, dir, disk, db, proto, https, cert, mode, root, older, faults>>

Gathered == {"db", "files", "woo", "ctx"}
Steps    == {"ssl", "rebuild", "mu", "inject", "replace", "patch", "verify", "rebuild2", "mu2",
             "keys", "health", "feed"}
Removals == {"unreplace", "unwoo"}
Jobs     == Gathered \cup Steps \cup Removals
Ends     == {"done", "failed"}
Scripts  == {"woo", "ctx", "replace"}
Dirs     == {"own", "older"}
Disk     == [home : {"none", "http", "https"}, content : {"none", "stock", "template"},
             core : {"none", "stock", "template"}, mu : BOOLEAN,
             script : [Scripts -> {"none", "own", "other"}]]

\* A container just installed, and one of an earlier provisioning.
Fresh    == [home |-> "none", content |-> "stock", core |-> "stock", mu |-> FALSE,
             script |-> [s \in Scripts |-> "none"]]
Previous == [home |-> "https", content |-> "template", core |-> "stock", mu |-> TRUE,
             script |-> [[s \in Scripts |-> "none"] EXCEPT !["ctx"] = "other"]]

TypeOK ==
    /\ stage \in {"create", "gather"} \cup Steps \cup Ends
    /\ busy \subseteq Jobs
    /\ restorer.at \in {"none", "unpack", "clear", "move", "others", "config"}
    /\ restorer.config \in {"none", "http", "https"} /\ restorer.left \subseteq {"content", "core"}
    /\ dir \in Dirs /\ disk \in [Dirs -> Disk]
    /\ db.text \in {"stock", "old", "new"} /\ db.keys \in Nat /\ db.key \in 0..db.keys
    /\ proto \in {"http", "https"} /\ https \in BOOLEAN /\ cert \in {"inTime", "late"}
    /\ Cardinality(faults) <= MaxFaults

NotRestoring == [at |-> "none", config |-> "none", left |-> {}]

BuildInit ==
    /\ stage = "create" /\ busy = {} /\ restorer = NotRestoring
    /\ dir = "own" /\ disk = [own |-> Fresh, older |-> Previous]
    /\ db = [text |-> "stock", keys |-> 0, key |-> 0]
    /\ proto = "http" /\ https = FALSE /\ cert = "inTime"
    /\ mode \in Modes /\ root \in SUBSET RootItems /\ older \in OlderApps
    /\ faults = {}

-----------------------------------------------------------------------------
(* Threads, awaits and faults.                                             *)

Fault(kind, where) ==
    /\ <<kind, where>> \notin faults /\ Cardinality(faults) < MaxFaults
    /\ faults' = faults \cup {<<kind, where>>}

JobsOf(s)  == IF s = "gather" THEN Gathered ELSE {s} \ Ends
Awaited(j) == stage = j \/ (stage = "gather" /\ j \in Gathered)
LastOf(j)  == stage = j \/ (stage = "gather" /\ busy \cap Gathered = {j})

\* A thread returns; when the task waits for no other, the next step begins.
Returns(j, next, cleanup) ==
    /\ j \in busy
    /\ stage' = IF LastOf(j) THEN next ELSE stage
    /\ busy' = (busy \ {j}) \cup (IF LastOf(j) THEN JobsOf(next) \cup cleanup ELSE {})

\* The finally clause: a replacement script that was put there is removed.
Finally == IF stage = "replace" THEN {"unreplace"} ELSE {}

Raises(j) ==
    /\ j \in busy
    /\ stage' = IF Awaited(j) THEN "failed" ELSE stage
    /\ busy' = (busy \ {j}) \cup (IF Awaited(j) THEN Finally ELSE {})

\* The thread's last call had its effect; its answer arrives, or the repeated
\* call is refused.
Ended(j, next) ==
    \/ Returns(j, next, {}) /\ UNCHANGED faults
    \/ Raises(j) /\ Fault("lost", j)

\* A step gives up before its next effect; removals and the feed swallow it.
CallFails(j) ==
    /\ j \notin Removals \cup {"feed"}
    /\ Raises(j) /\ Fault("failed", j)
    /\ restorer' = IF j \in {"files", "verify"} THEN NotRestoring ELSE restorer
    /\ UNCHANGED <<dir, disk, db, ssl, settings>>

\* wait_for ends the await: the thread goes on.
TimesOut ==
    /\ stage \notin Ends \cup {"create"} /\ Fault("timeout", stage)
    /\ stage' = "failed" /\ busy' = busy \cup Finally
    /\ UNCHANGED <<restorer, dir, disk, db, ssl, settings>>

\* The first listed app whose name has the domain in it and that runs.
Matching == IF older THEN Dirs ELSE {"own"}

Create ==
    /\ stage = "create" /\ stage' = "ssl" /\ busy' = {"ssl"}
    /\ dir' \in Matching
    /\ UNCHANGED <<restorer, disk, db, ssl, settings, faults>>

-----------------------------------------------------------------------------
(* The certificate: whatever is missing or refused, the site stays http.   *)

Certify ==
    /\ "ssl" \in busy /\ stage = "ssl"
    /\ \/ proto' = "http" /\ UNCHANGED <<https, faults>>
       \/ proto' = "https" /\ https' = TRUE /\ UNCHANGED faults
       \/ proto' = "http" /\ https' = TRUE /\ Fault("lost", "ssl")
    /\ Returns("ssl", "gather", {})
    /\ UNCHANGED <<restorer, dir, disk, db, cert, settings>>

\* The thread waits 180 s for a certificate, the task 120 s for the thread.
CertificateLate ==
    /\ stage = "ssl" /\ stage' = "failed" /\ cert' = "late"
    /\ UNCHANGED <<busy, restorer, dir, disk, db, proto, https, settings, faults>>

\* The thread the task has left.
CertifyUnseen ==
    /\ "ssl" \in busy /\ stage # "ssl" /\ busy' = busy \ {"ssl"} /\ https' \in {https, TRUE}
    /\ UNCHANGED <<stage, restorer, dir, disk, db, proto, cert, settings, faults>>

-----------------------------------------------------------------------------
(* The four threads that run together.                                     *)

RestoreDb ==
    /\ "db" \in busy /\ db' = [db EXCEPT !.text = "old"] /\ Ended("db", "rebuild")
    /\ UNCHANGED <<restorer, dir, disk, ssl, settings>>

\* The task's status is guessed from words in its log, so that a failed one can
\* read as finished.
RestoreDbMisread ==
    /\ Returns("db", "rebuild", {}) /\ Fault("misread", "db")
    /\ UNCHANGED <<restorer, dir, disk, db, ssl, settings>>

Put(s, by) == disk' = [disk EXCEPT ![dir].script[s] = by]

\* A new token every time; the file is written and looked for.
Inject(s) ==
    /\ s \in busy /\ Put(s, "own") /\ Ended(s, "rebuild")
    /\ UNCHANGED <<restorer, dir, db, ssl, settings>>

RestoreJob == IF "files" \in busy THEN "files" ELSE "verify"
AtRestore(place) == RestoreJob \in busy /\ restorer.at = place

\* Waits for wp-config.php and keeps what it says.
RestoreBegins ==
    /\ restorer' = [at |-> "unpack", config |-> disk[dir].home, left |-> {}]
    /\ UNCHANGED <<stage, busy, dir, disk, db, ssl, settings>>

RestoreStarts == "files" \in busy /\ restorer.at = "none" /\ RestoreBegins /\ UNCHANGED faults

Unpack ==
    /\ AtRestore("unpack")
    /\ restorer' = [restorer EXCEPT !.at = "clear",
                        !.left = IF mode = "safe" THEN {"content"} ELSE {"content", "core"}]
    /\ UNCHANGED <<stage, busy, dir, disk, db, ssl, settings, faults>>

Folder == IF "content" \in restorer.left THEN "content" ELSE "core"

\* The plugins are in the content folder.
Emptied(d) ==
    IF Folder = "content" THEN [d EXCEPT !.content = "none", !.mu = FALSE] ELSE [d EXCEPT !.core = "none"]

Clear ==
    /\ AtRestore("clear") /\ restorer' = [restorer EXCEPT !.at = "move"]
    /\ \/ disk' = [disk EXCEPT ![dir] = Emptied(@)] /\ UNCHANGED faults
       \/ UNCHANGED disk /\ Fault("kept", Folder)
    /\ UNCHANGED <<stage, busy, dir, db, ssl, settings>>

Filled(d) ==
    IF Folder = "content" THEN [d EXCEPT !.content = "template"] ELSE [d EXCEPT !.core = "template"]

MoveTo == LET rest == restorer.left \ {Folder} IN
    restorer' = [restorer EXCEPT !.left = rest,
        !.at = IF rest # {} THEN "clear" ELSE IF mode = "safe" THEN "config" ELSE "others"]

\* In full_data mode a folder that the template seems not to have is skipped,
\* also when it could not be read.
Move ==
    /\ AtRestore("move")
    /\ \/ MoveTo /\ disk' = [disk EXCEPT ![dir] = Filled(@)] /\ UNCHANGED <<stage, busy, faults>>
       \/ MoveTo /\ mode = "full_data" /\ Fault("unseen", Folder) /\ UNCHANGED <<stage, busy, disk>>
       \/ /\ disk' = [disk EXCEPT ![dir] = Filled(@)]
          /\ Raises(RestoreJob) /\ Fault("lost", "move") /\ restorer' = NotRestoring
    /\ UNCHANGED <<dir, db, ssl, settings>>

\* Everything else in the template's root but wp-config.php.
MoveOthers ==
    /\ AtRestore("others") /\ restorer' = [restorer EXCEPT !.at = "config"]
    /\ disk' = [disk EXCEPT ![dir].script = [s \in Scripts |-> IF s \in root THEN "other" ELSE @[s]]]
    /\ UNCHANGED <<stage, busy, dir, db, ssl, settings, faults>>

\* wp-config.php as it was; the removal of the temporary files and the chmods
\* fail silently.
PutConfigBack ==
    /\ AtRestore("config") /\ restorer' = NotRestoring
    /\ disk' = [disk EXCEPT ![dir].home = restorer.config]
    /\ Ended(RestoreJob, IF RestoreJob = "files" THEN "rebuild" ELSE "rebuild2")
    /\ UNCHANGED <<dir, db, ssl, settings>>

-----------------------------------------------------------------------------
(* The steps that follow, one at a time.                                   *)

\* Mutant: after the second rebuild nothing is put back.
RebuildOnly(j) ==
    /\ j \in busy /\ dir' \in (IF stage = j THEN Matching \cup {dir} ELSE {dir})
    /\ Returns(j, IF j = "rebuild" THEN "mu" ELSE "keys", {})
    /\ UNCHANGED <<restorer, disk, db, ssl, settings, faults>>

\* The app is looked for by name again, and service_name follows.
Rebuild(j) ==
    /\ j \in busy /\ dir' \in (IF stage = j THEN Matching \cup {dir} ELSE {dir})
    /\ \/ UNCHANGED <<disk, faults>>
       \/ /\ \E d \in Matching : disk' = [disk EXCEPT ![d].content = "stock", ![d].mu = FALSE]
          /\ Fault("loss", j)
    /\ Returns(j, IF j = "rebuild" THEN "mu" ELSE "mu2", {})
    /\ UNCHANGED <<restorer, db, ssl, settings>>

InjectMu(j) ==
    /\ j \in busy /\ disk' = [disk EXCEPT ![dir].mu = TRUE]
    /\ Ended(j, IF j = "mu" THEN "inject" ELSE "keys")
    /\ UNCHANGED <<restorer, dir, db, ssl, settings>>

\* get_wp_root: the directory of the panel's site, where its files can be seen
\* from here, and else that of service_name.
InjectReplace ==
    /\ "inject" \in busy /\ Ended("inject", "replace")
    /\ \E d \in {"own", dir} : disk' = [disk EXCEPT ![d].script["replace"] = "own"]
    /\ UNCHANGED <<restorer, dir, db, ssl, settings>>

\* The domain answers with the script of its own directory, to its token.
Answers(s) == disk["own"].core # "none" /\ disk["own"].script[s] = "own"

\* A text is old as long as some of it names the old domain; a second run finds
\* none that does.
Rewritten(text) == IF text = "old" THEN "new" ELSE text

\* A script that does not answer is an error.  A run that changed nothing is not,
\* nor one that left out fields, rows or tables because they could not be read or
\* written, or because they name another domain than the one configured.
ReplaceDomain ==
    /\ "replace" \in busy /\ UNCHANGED <<restorer, dir, disk, ssl, settings>>
    /\ \/ /\ Answers("replace") /\ db' = [db EXCEPT !.text = Rewritten(@)]
          /\ \/ Returns("replace", "patch", {"unreplace"}) /\ UNCHANGED faults
             \/ Raises("replace") /\ Fault("lost", "replace")
       \/ /\ Answers("replace") /\ UNCHANGED db
          /\ Returns("replace", "patch", {"unreplace"}) /\ Fault("unwritten", "replace")
       \/ ~Answers("replace") /\ Raises("replace") /\ UNCHANGED <<db, faults>>

PatchConfig ==
    /\ "patch" \in busy /\ disk' = [disk EXCEPT ![dir].home = proto] /\ Ended("patch", "verify")
    /\ UNCHANGED <<restorer, dir, db, ssl, settings>>

\* A listing that fails reads as a missing file.
Verify ==
    /\ "verify" \in busy /\ restorer.at = "none"
    /\ \/ /\ disk[dir].content = "template" /\ Returns("verify", "keys", {})
          /\ UNCHANGED <<restorer, dir, disk, db, ssl, settings, faults>>
       \/ disk[dir].content # "template" /\ RestoreBegins /\ UNCHANGED faults
       \/ disk[dir].content = "template" /\ RestoreBegins /\ Fault("unseen", "woocommerce")

\* The script activates WooCommerce when its files are there, and inserts a key.
KeyScriptWorks == Answers("woo") /\ disk["own"].content = "template"

\* Every call that reaches the script makes a key, also one whose answer is lost
\* and that is sent again.
FetchKeys ==
    /\ "keys" \in busy /\ UNCHANGED <<restorer, dir, disk, ssl, settings>>
    /\ \/ /\ KeyScriptWorks /\ db' = [db EXCEPT !.keys = @ + 1, !.key = db.keys + 1]
          /\ Returns("keys", "health", {"unwoo"}) /\ UNCHANGED faults
       \/ /\ KeyScriptWorks /\ db' = [db EXCEPT !.keys = @ + 1]
          /\ Fault("lost", "keys") /\ UNCHANGED <<stage, busy>>
       \/ ~KeyScriptWorks /\ Raises("keys") /\ UNCHANGED <<db, faults>>

HealthCheck ==
    /\ "health" \in busy
    /\ IF disk["own"].core # "none" THEN Returns("health", "feed", {}) ELSE Raises("health")
    /\ UNCHANGED <<restorer, dir, disk, db, ssl, settings, faults>>

\* Without an answer the link stays empty; the row is saved all the same.
FetchFeed ==
    /\ Returns("feed", "done", {})
    /\ UNCHANGED <<restorer, dir, disk, db, ssl, settings, faults>>

\* Mutant: both removals name the key script.
RemoveWoo(j) ==
    /\ j \in busy /\ busy' = busy \ {j} /\ Put("woo", "none")
    /\ UNCHANGED <<stage, restorer, dir, db, ssl, settings, faults>>

\* The removals run behind the task and swallow what goes wrong.
Remove(j) ==
    /\ j \in busy /\ busy' = busy \ {j}
    /\ \/ Put(IF j = "unwoo" THEN "woo" ELSE "replace", "none") /\ UNCHANGED faults
       \/ Fault("kept", j) /\ UNCHANGED disk
    /\ UNCHANGED <<stage, restorer, dir, db, ssl, settings>>

RestoreStep == RestoreStarts \/ Unpack \/ Clear \/ Move \/ MoveOthers \/ PutConfigBack

BuildStep ==
    \/ Create \/ Certify \/ CertifyUnseen
    \/ RestoreDb \/ RestoreStep \/ \E s \in {"woo", "ctx"} : Inject(s)
    \/ \E j \in {"rebuild", "rebuild2"} : Rebuild(j)
    \/ \E j \in {"mu", "mu2"} : InjectMu(j)
    \/ InjectReplace \/ ReplaceDomain \/ PatchConfig \/ Verify \/ FetchKeys \/ HealthCheck \/ FetchFeed
    \/ \E j \in Removals : Remove(j)

BuildNext == BuildStep \/ CertificateLate \/ RestoreDbMisread \/ TimesOut \/ \E j \in Jobs : CallFails(j)

Spec == BuildInit /\ [][BuildNext]_buildVars

\* The threads' calls return or time out, and the task goes on.
FairSpec == Spec /\ WF_buildVars(BuildStep)

-----------------------------------------------------------------------------
\* A build that succeeds has left a site that works, in whatever order its
\* threads ran and whatever failed, was lost, repeated or restored twice: the
\* template's files, its own wp-config with the protocol the task recorded, the
\* image plugin, the new domain in all of the database, a key that WooCommerce
\* knows, and, unless the template brought its own, the script the saved link
\* names.  The exceptions: a database restore misread as done; texts that the
\* rewriting left out, which the task only logs; and wp-config and the plugin
\* when an older app of the domain is still listed (see MuPluginInstalled).
BuiltSiteWorks ==
    stage = "done" =>
        /\ disk["own"].content = "template" /\ disk["own"].core # "none"
        /\ <<"lost", "ssl">> \notin faults => (https <=> proto = "https")
        /\ {<<"misread", "db">>, <<"unwritten", "replace">>} \cap faults = {} => db.text = "new"
        /\ db.key > 0
        /\ mode = "safe" => disk["own"].script["ctx"] = "own"
        /\ ~older => disk["own"].mu /\ disk["own"].home = proto

\* The build comes to its verdict and stays there, and no script with which a
\* key could be made or the database rewritten is left on a site that was built,
\* unless its removal failed or an older app's directory was cleaned instead.
BuildSettles ==
    <>[](/\ stage \in Ends
         /\ (stage = "done" /\ ~older /\ \A j \in Removals : <<"kept", j>> \notin faults)
            => disk["own"].script["woo"] = "none" /\ disk["own"].script["replace"] = "none")

\* A certificate that is not issued in time does not stop the build: the site is
\* served over http (ssl_manager.py:80).
LateCertificateFallsBack == cert = "late" => stage # "failed"

\* A site that was built has the image plugin (provision.py:336).
MuPluginInstalled == stage = "done" => disk["own"].mu
=============================================================================
