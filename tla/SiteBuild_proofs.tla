-------------------------- MODULE SiteBuild_proofs --------------------------
(***************************************************************************)
(* For any restore modes, templates, older apps and number of faults, a    *)
(* build that succeeds has left a site that works, as far as               *)
(* BuiltSiteWorks says.                                                    *)
(*                                                                         *)
(* The verdict is reached far from where its parts are made, and what was  *)
(* made may have gone to another directory.  The invariant says of each    *)
(* stage what is settled by then; that the directory was the right one is  *)
(* known only from the script that answered from it.                       *)
(***************************************************************************)
EXTENDS SiteBuild, TLAPS

Own     == disk["own"]
Live    == {"create", "gather"} \cup Steps \cup {"done"}
Behind  == {"rebuild", "mu", "inject", "replace", "patch", "verify", "rebuild2", "mu2", "keys",
            "health", "feed", "done"}
Patched == {"verify", "rebuild2", "mu2", "keys", "health", "feed", "done"}
Keyed   == {"health", "feed", "done"}

Typed ==
    /\ stage \in Live /\ busy \subseteq Jobs
    /\ restorer \in [at : {"none", "unpack", "clear", "move", "others", "config"},
                     config : {"none", "http", "https"}, left : SUBSET {"content", "core"}]
    /\ dir \in Dirs /\ disk \in [Dirs -> Disk]
    /\ db \in [text : {"stock", "old", "new"}, keys : Nat, key : Nat]
    /\ proto \in {"http", "https"} /\ https \in BOOLEAN
    /\ mode \in Modes /\ root \in SUBSET RootItems

\* Only the awaited step's threads are at work, and the removals; a restore is
\* under way only while one of its two steps is.
ThreadsInv ==
    /\ busy \subseteq JobsOf(stage) \cup Removals
    /\ restorer.at # "none" => (stage = "gather" /\ "files" \in busy) \/ stage = "verify"
    /\ restorer.at = "others" => mode # "safe"

\* The protocol the task was told is the one that is served.
ProtoInv ==
    /\ stage \in {"create", "ssl"} => proto = "http" /\ ~https
    /\ <<"lost", "ssl">> \notin faults => (https <=> proto = "https")

\* Whose directory it was: the site's own scripts are where they were put.
ScriptsInv ==
    /\ stage \in {"create", "ssl"} => Own.script["woo"] # "own"
    /\ Own.script["woo"] = "own" =>
         /\ stage = "gather" => dir = "own"
         /\ stage \in Behind /\ mode = "safe" => Own.script["ctx"] = "own"
    /\ stage = "gather" /\ "ctx" \notin busy /\ mode = "safe" => disk[dir].script["ctx"] = "own"

\* How far the database is.
TextInv ==
    <<"misread", "db">> \notin faults =>
        /\ stage = "gather" /\ "db" \notin busy => db.text = "old"
        /\ stage \in {"rebuild", "mu", "inject"} => db.text = "old"
        /\ stage = "replace" => db.text # "stock"
        /\ stage \in {"patch"} \cup Patched /\ <<"unwritten", "replace">> \notin faults => db.text = "new"

\* Without an older app the protocol is written into the site's own wp-config, and
\* put back by a second restore.
ConfigInv ==
    ~older =>
        /\ stage \in Patched => Own.home = proto
        /\ stage = "verify" /\ restorer.at # "none" => restorer.config = proto

\* Without an older app there is one directory, and the plugin is in it.
PluginInv ==
    ~older =>
        /\ dir = "own"
        /\ stage \in {"inject", "replace", "patch", "keys", "health", "feed", "done"} => Own.mu
        /\ stage = "verify" /\ restorer.at = "none" => Own.mu

\* What the key's script has shown.
KeyedInv ==
    stage \in Keyed =>
        /\ Own.content = "template" /\ Own.core # "none" /\ db.key > 0
        /\ mode = "safe" => Own.script["ctx"] = "own"

LiveInv  == Typed /\ ThreadsInv /\ ProtoInv /\ ScriptsInv /\ TextInv /\ ConfigInv /\ PluginInv /\ KeyedInv
BuildInv == stage # "failed" => LiveInv

-----------------------------------------------------------------------------
(* Stages and threads.                                                     *)

LEMMA StageJobs ==
    /\ JobsOf("gather") = Gathered /\ JobsOf("done") = {} /\ JobsOf("create") = {"create"}
    /\ \A s \in Steps : JobsOf(s) = {s} /\ JobsOf(s) \subseteq Jobs
    /\ Gathered \subseteq Jobs
BY DEF JobsOf, Gathered, Steps, Ends, Jobs

\* A thread at work that is no removal is one the task waits for.
LEMMA WorksForTheStage ==
    ASSUME Typed, ThreadsInv, NEW j \in Jobs \ Removals, j \in busy
    PROVE  (stage = "gather" /\ j \in Gathered) \/ (stage \in Steps /\ j = stage)
<1>1. j \in JobsOf(stage) BY DEF ThreadsInv
<1>2. stage \in Live /\ j # "create" BY DEF Typed, Jobs, Gathered, Steps, Removals
<1> QED BY <1>1, <1>2, StageJobs DEF Live

\* What a return leaves: the next stage with its threads, or the gathering with
\* one thread less.
LEMMA Returned ==
    ASSUME Typed, ThreadsInv, NEW j \in Jobs \ Removals, NEW next \in Live \ {"create"},
           NEW cleanup \in SUBSET Removals, Returns(j, next, cleanup)
    PROVE  /\ j \in busy /\ stage' \in Live /\ busy' \subseteq Jobs /\ busy' \subseteq JobsOf(stage') \cup Removals
           /\ \/ /\ stage = j /\ stage' = next /\ JobsOf(next) \subseteq busy'
              \/ /\ stage = "gather" /\ j \in Gathered /\ stage' = next /\ busy \cap Gathered = {j}
              \/ /\ stage = "gather" /\ j \in Gathered /\ stage' = stage /\ busy' = busy \ {j}
<1>1. j \in busy BY DEF Returns
<1>2. (stage = "gather" /\ j \in Gathered) \/ (stage \in Steps /\ j = stage) BY <1>1, WorksForTheStage
<1>3. stage \in Live /\ busy \subseteq Jobs /\ busy \subseteq JobsOf(stage) \cup Removals BY DEF Typed, ThreadsInv
<1>4. JobsOf(next) \subseteq Jobs BY StageJobs DEF Live
<1>5. Removals \subseteq Jobs BY DEF Jobs
<1>6. CASE LastOf(j)
    <2>1. stage' = next /\ busy' = (busy \ {j}) \cup JobsOf(next) \cup cleanup BY <1>6 DEF Returns
    <2>2. CASE stage \in Steps /\ j = stage
        <3>1. JobsOf(stage) = {j} BY <2>2, StageJobs
        <3> QED BY <1>1, <1>3, <1>4, <1>5, <2>1, <2>2, <3>1
    <2>3. CASE stage = "gather" /\ j \in Gathered
        <3>1. busy \cap Gathered = {j} BY <1>6, <2>3 DEF LastOf, Gathered
        <3>2. JobsOf(stage) = Gathered BY <2>3, StageJobs
        <3> QED BY <1>1, <1>3, <1>4, <1>5, <2>1, <2>3, <3>1, <3>2
    <2> QED BY <1>2, <2>2, <2>3
<1>7. CASE ~LastOf(j)
    <2>1. stage' = stage /\ busy' = busy \ {j} BY <1>7 DEF Returns
    <2>2. stage = "gather" /\ j \in Gathered BY <1>2, <1>7 DEF LastOf
    <2> QED BY <1>1, <1>3, <2>1, <2>2
<1> QED BY <1>6, <1>7

LEMMA RaisedFails ==
    ASSUME Typed, ThreadsInv, NEW j \in Jobs \ Removals, Raises(j)
    PROVE  stage' = "failed"
<1>1. j \in busy BY DEF Raises
<1>2. Awaited(j) BY <1>1, WorksForTheStage DEF Awaited
<1> QED BY <1>2 DEF Raises

LEMMA EndedReturns ==
    ASSUME Typed, ThreadsInv, NEW j \in Jobs \ Removals, NEW next, Ended(j, next), stage' # "failed"
    PROVE  Returns(j, next, {}) /\ UNCHANGED faults
BY RaisedFails DEF Ended

\* The restore that is under way belongs to the awaited step.
LEMMA RestoreIsAwaited ==
    ASSUME Typed, ThreadsInv, NEW place, AtRestore(place)
    PROVE  /\ restorer.at = place /\ RestoreJob \in Jobs \ Removals /\ RestoreJob \in busy
           /\ \/ stage = "gather" /\ RestoreJob = "files" /\ "files" \in busy
              \/ stage = "verify" /\ RestoreJob = "verify"
<1>1. RestoreJob \in busy /\ restorer.at = place BY DEF AtRestore
<1>2. RestoreJob \in {"files", "verify"} BY DEF RestoreJob
<1>3. {"files", "verify"} \subseteq Jobs \ Removals BY DEF Jobs, Gathered, Steps, Removals
<1>4. (stage = "gather" /\ RestoreJob \in Gathered) \/ (stage \in Steps /\ RestoreJob = stage)
    BY <1>1, <1>2, <1>3, WorksForTheStage
<1>5. "verify" \notin Gathered /\ "files" \notin Steps BY DEF Gathered, Steps
<1> QED BY <1>1, <1>2, <1>3, <1>4, <1>5

\* A build that has failed stays so.
LEMMA FailedStays ==
    ASSUME stage = "failed", BuildNext
    PROVE  stage' = "failed"
<1>1. \A j \in Jobs : stage # j BY DEF Jobs, Gathered, Steps, Removals
<1>2. ASSUME NEW j \in Jobs PROVE ~LastOf(j) /\ ~Awaited(j) BY <1>1 DEF LastOf, Awaited
<1>3. ASSUME NEW j \in Jobs, NEW next, NEW cleanup, Returns(j, next, cleanup) PROVE stage' = stage
    BY <1>2, <1>3 DEF Returns
<1>4. ASSUME NEW j \in Jobs, Raises(j) PROVE stage' = stage BY <1>2, <1>4 DEF Raises
<1>5. ASSUME NEW j \in Jobs, NEW next, Ended(j, next) PROVE stage' = stage BY <1>3, <1>4, <1>5 DEF Ended
<1>6. /\ Gathered \subseteq Jobs /\ Steps \subseteq Jobs /\ Removals \subseteq Jobs
      /\ {"db", "files", "woo", "ctx"} \subseteq Gathered
      /\ {"ssl", "rebuild", "mu", "inject", "replace", "patch", "verify", "rebuild2", "mu2", "keys",
          "health", "feed"} \subseteq Steps
    BY DEF Jobs, Gathered, Steps
<1>7. ASSUME RestoreStep PROVE stage' = stage
    <2>1. RestoreJob \in Jobs BY <1>6 DEF RestoreJob
    <2>2. CASE PutConfigBack BY <1>5, <2>1, <2>2 DEF PutConfigBack
    <2>3. CASE Move BY <1>4, <2>1, <2>3 DEF Move
    <2>4. CASE RestoreStarts \/ Unpack \/ Clear \/ MoveOthers
        BY <2>4 DEF RestoreStarts, RestoreBegins, Unpack, Clear, MoveOthers
    <2> QED BY <1>7, <2>2, <2>3, <2>4 DEF RestoreStep
<1>8. ASSUME Create \/ Certify \/ CertifyUnseen \/ CertificateLate \/ TimesOut PROVE stage' = stage
    BY <1>8 DEF Create, Certify, CertifyUnseen, CertificateLate, TimesOut, Ends
<1>9. ASSUME RestoreDb \/ RestoreDbMisread \/ \E s \in {"woo", "ctx"} : Inject(s) PROVE stage' = stage
    BY <1>3, <1>5, <1>6, <1>9 DEF RestoreDb, RestoreDbMisread, Inject
<1>10. ASSUME \/ \E j \in {"rebuild", "rebuild2"} : Rebuild(j)
              \/ \E j \in {"mu", "mu2"} : InjectMu(j)
       PROVE  stage' = stage
    BY <1>3, <1>5, <1>6, <1>10 DEF Rebuild, InjectMu
<1>11. ASSUME InjectReplace \/ ReplaceDomain \/ PatchConfig PROVE stage' = stage
    BY <1>3, <1>4, <1>5, <1>6, <1>11 DEF InjectReplace, ReplaceDomain, PatchConfig
<1>12. ASSUME Verify \/ FetchKeys \/ HealthCheck \/ FetchFeed PROVE stage' = stage
    BY <1>3, <1>4, <1>6, <1>12 DEF Verify, RestoreBegins, FetchKeys, HealthCheck, FetchFeed
<1>13. ASSUME \E j \in Removals : Remove(j) PROVE stage' = stage BY <1>13 DEF Remove
<1>14. ASSUME \E j \in Jobs : CallFails(j) PROVE stage' = stage BY <1>4, <1>14 DEF CallFails
<1> QED BY <1>7, <1>8, <1>9, <1>10, <1>11, <1>12, <1>13, <1>14 DEF BuildNext, BuildStep

-----------------------------------------------------------------------------
(* Directories.                                                            *)

\* Parts of the directories that a step leaves alone.
HomesKept   == \A e \in Dirs : disk'[e].home = disk[e].home
FoldersKept == \A e \in Dirs : disk'[e].content = disk[e].content /\ disk'[e].core = disk[e].core
MuKept      == \A e \in Dirs : disk'[e].mu = disk[e].mu
ScriptsKept == \A e \in Dirs : disk'[e].script = disk[e].script
DiskTyped   == disk' \in [Dirs -> Disk]

LEMMA OwnIsADir == "own" \in Dirs
BY DEF Dirs

LEMMA DiskStays ==
    ASSUME Typed, disk' = disk
    PROVE  DiskTyped /\ HomesKept /\ FoldersKept /\ MuKept /\ ScriptsKept
BY DEF Typed, DiskTyped, HomesKept, FoldersKept, MuKept, ScriptsKept

PutInto(d, s, by) == disk' = [disk EXCEPT ![d].script[s] = by]

LEMMA ScriptPutIn ==
    ASSUME Typed, NEW d \in Dirs, NEW s \in Scripts, NEW by \in {"none", "own", "other"}, PutInto(d, s, by)
    PROVE  /\ DiskTyped /\ HomesKept /\ FoldersKept /\ MuKept
           /\ \A e \in Dirs, t \in Scripts :
                disk'[e].script[t] = IF e = d /\ t = s THEN by ELSE disk[e].script[t]
<1>1. disk \in [Dirs -> Disk] BY DEF Typed
<1> DEFINE x == [disk[d] EXCEPT !.script = [disk[d].script EXCEPT ![s] = by]]
<1>2. disk' = [disk EXCEPT ![d] = x] BY DEF PutInto
<1>3. disk[d] \in Disk BY <1>1
<1>4. /\ x \in Disk /\ x.home = disk[d].home /\ x.content = disk[d].content /\ x.core = disk[d].core
      /\ x.mu = disk[d].mu /\ x.script = [disk[d].script EXCEPT ![s] = by]
    BY <1>3 DEF Disk
<1>5. \A t \in Scripts : x.script[t] = IF t = s THEN by ELSE disk[d].script[t] BY <1>3, <1>4 DEF Disk
<1> HIDE DEF x
<1>6. \A e \in Dirs : disk'[e] = IF e = d THEN x ELSE disk[e] BY <1>1, <1>2
<1>7. disk' \in [Dirs -> Disk] BY <1>1, <1>2, <1>4
<1> QED BY <1>4, <1>5, <1>6, <1>7 DEF DiskTyped, HomesKept, FoldersKept, MuKept

LEMMA ScriptPut ==
    ASSUME Typed, NEW s \in Scripts, NEW by \in {"none", "own", "other"}, Put(s, by)
    PROVE  /\ DiskTyped /\ HomesKept /\ FoldersKept /\ MuKept
           /\ \A e \in Dirs, t \in Scripts :
                disk'[e].script[t] = IF e = dir /\ t = s THEN by ELSE disk[e].script[t]
<1>1. dir \in Dirs /\ PutInto(dir, s, by) BY DEF Typed, Put, PutInto
<1> QED BY <1>1, ScriptPutIn

LEMMA OthersPut ==
    ASSUME Typed, disk' = [disk EXCEPT ![dir].script = [s \in Scripts |-> IF s \in root THEN "other" ELSE @[s]]]
    PROVE  /\ DiskTyped /\ HomesKept /\ FoldersKept /\ MuKept
           /\ \A e \in Dirs, t \in Scripts :
                disk'[e].script[t] = IF e = dir /\ t \in root THEN "other" ELSE disk[e].script[t]
<1>1. disk \in [Dirs -> Disk] /\ dir \in Dirs BY DEF Typed
<1> DEFINE y == [s \in Scripts |-> IF s \in root THEN "other" ELSE disk[dir].script[s]]
           x == [disk[dir] EXCEPT !.script = y]
<1>2. disk' = [disk EXCEPT ![dir] = x] OBVIOUS
<1>3. disk[dir] \in Disk BY <1>1
<1>4. y \in [Scripts -> {"none", "own", "other"}] BY <1>3 DEF Disk
<1>5. \A t \in Scripts : y[t] = IF t \in root THEN "other" ELSE disk[dir].script[t] OBVIOUS
<1> HIDE DEF y
<1>6. /\ x \in Disk /\ x.home = disk[dir].home /\ x.content = disk[dir].content /\ x.core = disk[dir].core
      /\ x.mu = disk[dir].mu /\ x.script = y
    BY <1>3, <1>4 DEF Disk
<1> HIDE DEF x
<1>7. \A e \in Dirs : disk'[e] = IF e = dir THEN x ELSE disk[e] BY <1>1, <1>2
<1>8. disk' \in [Dirs -> Disk] BY <1>1, <1>2, <1>6
<1> QED BY <1>5, <1>6, <1>7, <1>8 DEF DiskTyped, HomesKept, FoldersKept, MuKept

LEMMA HomePut ==
    ASSUME Typed, NEW h \in {"none", "http", "https"}, disk' = [disk EXCEPT ![dir].home = h]
    PROVE  DiskTyped /\ FoldersKept /\ MuKept /\ ScriptsKept /\ disk'[dir].home = h
<1>1. disk \in [Dirs -> Disk] /\ dir \in Dirs BY DEF Typed
<1> DEFINE x == [disk[dir] EXCEPT !.home = h]
<1>2. disk' = [disk EXCEPT ![dir] = x] OBVIOUS
<1>3. disk[dir] \in Disk BY <1>1
<1>4. /\ x \in Disk /\ x.home = h /\ x.content = disk[dir].content /\ x.core = disk[dir].core
      /\ x.mu = disk[dir].mu /\ x.script = disk[dir].script
    BY <1>3 DEF Disk
<1> HIDE DEF x
<1>5. \A e \in Dirs : disk'[e] = IF e = dir THEN x ELSE disk[e] BY <1>1, <1>2
<1>6. disk' \in [Dirs -> Disk] BY <1>1, <1>2, <1>4
<1> QED BY <1>1, <1>4, <1>5, <1>6 DEF DiskTyped, FoldersKept, MuKept, ScriptsKept

\* A directory whose folders change keeps its wp-config and its scripts.
LEMMA FoldersPut ==
    ASSUME Typed, NEW d \in Dirs, NEW x \in Disk, disk' = [disk EXCEPT ![d] = x],
           x.home = disk[d].home, x.script = disk[d].script
    PROVE  DiskTyped /\ HomesKept /\ ScriptsKept /\ (x.mu = disk[d].mu => MuKept) /\ disk'[d] = x
<1>1. disk \in [Dirs -> Disk] BY DEF Typed
<1>2. \A e \in Dirs : disk'[e] = IF e = d THEN x ELSE disk[e] BY <1>1
<1>3. disk' \in [Dirs -> Disk] BY <1>1
<1> QED BY <1>2, <1>3 DEF DiskTyped, HomesKept, ScriptsKept, MuKept

LEMMA FolderPut ==
    ASSUME NEW d \in Disk
    PROVE  /\ Emptied(d) \in Disk /\ Emptied(d).home = d.home /\ Emptied(d).script = d.script
           /\ Filled(d) \in Disk /\ Filled(d).home = d.home /\ Filled(d).script = d.script /\ Filled(d).mu = d.mu
<1>1. /\ [d EXCEPT !.content = "none", !.mu = FALSE] \in Disk
      /\ [d EXCEPT !.content = "none", !.mu = FALSE].home = d.home
      /\ [d EXCEPT !.content = "none", !.mu = FALSE].script = d.script
    BY DEF Disk
<1>2. /\ [d EXCEPT !.core = "none"] \in Disk
      /\ [d EXCEPT !.core = "none"].home = d.home /\ [d EXCEPT !.core = "none"].script = d.script
    BY DEF Disk
<1>3. /\ [d EXCEPT !.content = "template"] \in Disk /\ [d EXCEPT !.content = "template"].home = d.home
      /\ [d EXCEPT !.content = "template"].script = d.script /\ [d EXCEPT !.content = "template"].mu = d.mu
    BY DEF Disk
<1>4. /\ [d EXCEPT !.core = "template"] \in Disk /\ [d EXCEPT !.core = "template"].home = d.home
      /\ [d EXCEPT !.core = "template"].script = d.script /\ [d EXCEPT !.core = "template"].mu = d.mu
    BY DEF Disk
<1> QED BY <1>1, <1>2, <1>3, <1>4 DEF Emptied, Filled

\* A plugin put, or lost with the content folder, in one directory.
LEMMA MuPut ==
    ASSUME Typed, NEW d \in Dirs, NEW x \in Disk,
           \/ x = [disk[d] EXCEPT !.mu = TRUE]
           \/ x = [disk[d] EXCEPT !.content = "stock", !.mu = FALSE],
           disk' = [disk EXCEPT ![d] = x]
    PROVE  DiskTyped /\ HomesKept /\ ScriptsKept /\ disk'[d] = x
<1>1. disk[d] \in Disk BY DEF Typed
<1>2. x.home = disk[d].home /\ x.script = disk[d].script BY <1>1 DEF Disk
<1> QED BY <1>2, FoldersPut

-----------------------------------------------------------------------------
(* The actions, up to the gathering.                                       *)

LEMMA InitBuild == BuildInit => BuildInv
<1> SUFFICES ASSUME BuildInit PROVE LiveInv BY DEF BuildInv
<1>1. Fresh \in Disk /\ Previous \in Disk BY DEF Fresh, Previous, Disk, Scripts
<1>2. disk \in [Dirs -> Disk] /\ Own = Fresh BY <1>1 DEF BuildInit, Dirs, Own
<1>3. Typed BY <1>2 DEF BuildInit, Typed, Live, Dirs, NotRestoring
<1>4. Fresh.script["woo"] = "none" /\ Fresh.script["replace"] = "none" BY DEF Fresh, Scripts
<1>5. ThreadsInv /\ ProtoInv BY DEF BuildInit, ThreadsInv, ProtoInv, NotRestoring
<1>6. ScriptsInv BY <1>2, <1>4 DEF BuildInit, ScriptsInv, Behind
<1>7. TextInv /\ ConfigInv /\ PluginInv /\ KeyedInv
    BY DEF BuildInit, TextInv, ConfigInv, PluginInv, KeyedInv, Patched, Keyed
<1> QED BY <1>3, <1>5, <1>6, <1>7 DEF LiveInv

LEMMA StagesApart ==
    /\ Patched \subseteq Behind /\ Keyed \subseteq Patched /\ Behind \subseteq Live
    /\ {"create", "ssl", "gather"} \subseteq Live /\ {"create", "ssl", "gather"} \cap Behind = {}
BY DEF Patched, Behind, Keyed, Live, Steps

LEMMA CreateKeeps ==
    ASSUME LiveInv, Create
    PROVE  LiveInv'
<1>1. /\ stage = "create" /\ stage' = "ssl" /\ busy' = {"ssl"} /\ dir' \in Matching
      /\ UNCHANGED <<restorer, disk, db, proto, https, cert, mode, root, older, faults>>
    BY DEF Create, ssl, settings
<1>2. Typed /\ ThreadsInv /\ ProtoInv /\ ScriptsInv /\ PluginInv BY DEF LiveInv
<1>3. dir' \in Dirs /\ (~older => dir' = "own") BY <1>1 DEF Matching, Dirs
<1>4. Typed' BY <1>1, <1>2, <1>3 DEF Typed, Live, Steps, Jobs
<1>5. JobsOf("ssl") = {"ssl"} BY StageJobs DEF Steps
<1>6. ThreadsInv' BY <1>1, <1>2, <1>5 DEF ThreadsInv
<1>7. ProtoInv' BY <1>1, <1>2 DEF ProtoInv
<1>8. ScriptsInv' BY <1>1, <1>2 DEF ScriptsInv, Own
<1>9. (TextInv /\ ConfigInv /\ KeyedInv)' BY <1>1 DEF TextInv, ConfigInv, KeyedInv, Patched, Keyed
<1>10. PluginInv' BY <1>1, <1>3 DEF PluginInv
<1> QED BY <1>4, <1>6, <1>7, <1>8, <1>9, <1>10 DEF LiveInv

LEMMA CertifyKeeps ==
    ASSUME LiveInv, Certify
    PROVE  LiveInv'
<1>1. /\ stage = "ssl" /\ UNCHANGED <<restorer, dir, disk, db, cert, mode, root, older>>
      /\ Returns("ssl", "gather", {})
    BY DEF Certify, settings
<1>2. Typed /\ ThreadsInv /\ ProtoInv /\ ScriptsInv /\ PluginInv BY DEF LiveInv
<1>3. \/ proto' = "http" /\ https' = https /\ faults' = faults
      \/ proto' = "https" /\ https' = TRUE /\ faults' = faults
      \/ proto' = "http" /\ https' = TRUE /\ faults' = faults \cup {<<"lost", "ssl">>}
    BY DEF Certify, Fault
<1>4. "ssl" \in Jobs \ Removals /\ "gather" \in Live \ {"create"} /\ {} \in SUBSET Removals
    BY DEF Jobs, Steps, Removals, Live
<1>5. /\ stage' = "gather" /\ busy' \subseteq Jobs /\ busy' \subseteq JobsOf("gather") \cup Removals
      /\ Gathered \subseteq busy'
    BY <1>1, <1>2, <1>4, Returned, StageJobs
<1>6. proto' \in {"http", "https"} /\ https' \in BOOLEAN BY <1>2, <1>3 DEF Typed
<1>7. Typed' BY <1>1, <1>2, <1>5, <1>6 DEF Typed, Live
<1>8. ThreadsInv' BY <1>1, <1>2, <1>5 DEF ThreadsInv
<1>9. ProtoInv' BY <1>1, <1>2, <1>3, <1>5 DEF ProtoInv
<1>10. "ctx" \in busy' /\ "db" \in busy' BY <1>5 DEF Gathered
<1>11. ScriptsInv' BY <1>1, <1>2, <1>5, <1>10 DEF ScriptsInv, Own
<1>12. (TextInv /\ ConfigInv /\ KeyedInv)' BY <1>5, <1>10 DEF TextInv, ConfigInv, KeyedInv, Patched, Keyed
<1>13. PluginInv' BY <1>1, <1>2, <1>5 DEF PluginInv
<1> QED BY <1>7, <1>8, <1>9, <1>11, <1>12, <1>13 DEF LiveInv

LEMMA UnseenKeeps ==
    ASSUME LiveInv, CertifyUnseen
    PROVE  FALSE
<1>1. Typed /\ ThreadsInv /\ "ssl" \in busy /\ stage # "ssl" BY DEF LiveInv, CertifyUnseen
<1>2. "ssl" \in Jobs \ Removals /\ "ssl" \notin Gathered BY DEF Jobs, Steps, Removals, Gathered
<1> QED BY <1>1, <1>2, WorksForTheStage

\* The gathering goes on, or the rebuild begins.
LEMMA GatherReturn ==
    ASSUME LiveInv, NEW j \in Gathered, Returns(j, "rebuild", {})
    PROVE  /\ stage = "gather" /\ j \in busy /\ busy' \subseteq Jobs
           /\ busy' \subseteq JobsOf(stage') \cup Removals
           /\ \/ stage' = "rebuild" /\ busy \cap Gathered = {j}
              \/ stage' = "gather" /\ busy' = busy \ {j}
<1>1. Typed /\ ThreadsInv BY DEF LiveInv
<1>2. j \in Jobs \ Removals /\ "rebuild" \in Live \ {"create"} /\ {} \in SUBSET Removals /\ j \notin Steps
    BY DEF Jobs, Gathered, Removals, Live, Steps
<1>3. j \in busy BY DEF Returns
<1>4. stage = "gather" BY <1>1, <1>2, <1>3, WorksForTheStage
<1>5. stage # j BY <1>4 DEF Gathered
<1> QED BY <1>1, <1>2, <1>3, <1>4, <1>5, Returned

\* What a thread that is no restore of files leaves of the gathering.
LEMMA GatherKept ==
    ASSUME LiveInv, NEW j \in Gathered \ {"files"}, Returns(j, "rebuild", {}),
           UNCHANGED <<restorer, dir, proto, https, mode, root, older>>, faults \subseteq faults', DiskTyped
    PROVE  /\ stage' \in {"gather", "rebuild"} /\ ThreadsInv' /\ ProtoInv' /\ ConfigInv' /\ PluginInv' /\ KeyedInv'
           /\ db' \in [text : {"stock", "old", "new"}, keys : Nat, key : Nat] => Typed'
<1>1. /\ stage = "gather" /\ j \in busy /\ busy' \subseteq Jobs
      /\ busy' \subseteq JobsOf(stage') \cup Removals
      /\ \/ stage' = "rebuild" /\ busy \cap Gathered = {j}
         \/ stage' = "gather" /\ busy' = busy \ {j}
    BY GatherReturn
<1>2. Typed /\ ThreadsInv /\ ProtoInv /\ PluginInv BY DEF LiveInv
<1>3. "files" \in Gathered BY DEF Gathered
<1>4. ThreadsInv' BY <1>1, <1>2, <1>3 DEF ThreadsInv
<1>5. ProtoInv' BY <1>1, <1>2 DEF ProtoInv
<1>6. ConfigInv' /\ KeyedInv' BY <1>1 DEF ConfigInv, KeyedInv, Patched, Keyed
<1>7. PluginInv' BY <1>1, <1>2 DEF PluginInv
<1>8. ASSUME db' \in [text : {"stock", "old", "new"}, keys : Nat, key : Nat] PROVE Typed'
    BY <1>1, <1>2, <1>8 DEF Typed, Live, Steps, DiskTyped
<1> QED BY <1>1, <1>4, <1>5, <1>6, <1>7, <1>8

LEMMA RestoreDbKeeps ==
    ASSUME LiveInv, RestoreDb \/ RestoreDbMisread, stage' # "failed"
    PROVE  LiveInv'
<1>1. Typed /\ ThreadsInv /\ ScriptsInv BY DEF LiveInv
<1>2. "db" \in Gathered \ {"files"} /\ "db" \in Jobs \ Removals BY DEF Gathered, Jobs, Removals
<1>3. /\ Returns("db", "rebuild", {})
      /\ \/ db' = [db EXCEPT !.text = "old"] /\ faults' = faults
         \/ db' = db /\ faults' = faults \cup {<<"misread", "db">>}
    BY <1>1, <1>2, EndedReturns DEF RestoreDb, RestoreDbMisread, Fault
<1>4. UNCHANGED <<restorer, dir, disk, proto, https, mode, root, older>>
    BY DEF RestoreDb, RestoreDbMisread, ssl, settings
<1>5. faults \subseteq faults' /\ DiskTyped BY <1>1, <1>3, <1>4, DiskStays
<1>6. db' \in [text : {"stock", "old", "new"}, keys : Nat, key : Nat] /\ (db' # db => db'.text = "old")
    BY <1>1, <1>3 DEF Typed
<1>7. /\ stage' \in {"gather", "rebuild"} /\ ThreadsInv' /\ ProtoInv' /\ ConfigInv' /\ PluginInv' /\ KeyedInv'
      /\ Typed'
    BY <1>2, <1>3, <1>4, <1>5, <1>6, GatherKept
<1>8. TextInv'
    <2>1. CASE faults' = faults /\ db' = [db EXCEPT !.text = "old"]
        <3>1. db'.text = "old" BY <1>1, <2>1 DEF Typed
        <3> QED BY <1>7, <3>1 DEF TextInv, Patched
    <2>2. CASE faults' = faults \cup {<<"misread", "db">>} BY <2>2 DEF TextInv
    <2> QED BY <1>3, <2>1, <2>2
<1>9. ScriptsInv'
    <2>1. /\ stage = "gather" /\ "db" \in busy
          /\ \/ stage' = "rebuild" /\ busy \cap Gathered = {"db"}
             \/ stage' = "gather" /\ busy' = busy \ {"db"}
        BY <1>2, <1>3, GatherReturn
    <2>2. "ctx" \in Gathered BY DEF Gathered
    <2> QED BY <1>1, <1>4, <2>1, <2>2 DEF ScriptsInv, Own, Behind
<1> QED BY <1>7, <1>8, <1>9 DEF LiveInv

LEMMA InjectKeeps ==
    ASSUME LiveInv, NEW s \in {"woo", "ctx"}, Inject(s), stage' # "failed"
    PROVE  LiveInv'
<1>1. Typed /\ ThreadsInv /\ ScriptsInv /\ TextInv /\ dir \in Dirs BY DEF LiveInv, Typed
<1>2. s \in Gathered \ {"files"} /\ s \in Jobs \ Removals /\ s \in Scripts BY DEF Gathered, Jobs, Removals, Scripts
<1>3. /\ Returns(s, "rebuild", {}) /\ Put(s, "own")
      /\ UNCHANGED <<restorer, dir, db, proto, https, mode, root, older, faults>>
    BY <1>1, <1>2, EndedReturns DEF Inject, ssl, settings
<1>4. /\ DiskTyped
      /\ \A e \in Dirs, t \in Scripts :
            disk'[e].script[t] = IF e = dir /\ t = s THEN "own" ELSE disk[e].script[t]
    BY <1>1, <1>2, <1>3, ScriptPut
<1>5. db' \in [text : {"stock", "old", "new"}, keys : Nat, key : Nat] BY <1>1, <1>3 DEF Typed
<1>6. /\ stage' \in {"gather", "rebuild"} /\ ThreadsInv' /\ ProtoInv' /\ ConfigInv' /\ PluginInv' /\ KeyedInv'
      /\ Typed'
    BY <1>2, <1>3, <1>4, <1>5, GatherKept
<1>7. /\ stage = "gather" /\ s \in busy
      /\ \/ stage' = "rebuild" /\ busy \cap Gathered = {s}
         \/ stage' = "gather" /\ busy' = busy \ {s}
    BY <1>2, <1>3, GatherReturn
<1>8. {"ctx", "db"} \subseteq Gathered /\ {"woo", "ctx", "replace"} \subseteq Scripts BY DEF Gathered, Scripts
<1>9. TextInv'
    <2>1. "db" \in busy' <=> stage' = "gather" /\ "db" \in busy
        BY <1>6, <1>7, <1>8, StageJobs DEF ThreadsInv, Steps, Removals
    <2> QED BY <1>1, <1>3, <1>7, <1>8, <2>1 DEF TextInv, Patched
<1>10. ScriptsInv'
    <2>1. disk'["own"].script["woo"] = "own" => dir = "own"
        BY <1>1, <1>4, <1>7, <1>8, OwnIsADir DEF ScriptsInv, Own
    <2>2. mode = "safe" /\ (s = "ctx" \/ "ctx" \notin busy) => disk'[dir].script["ctx"] = "own"
        BY <1>1, <1>4, <1>7, <1>8 DEF ScriptsInv
    <2>3. UNCHANGED <<dir, mode>> BY <1>3
    <2> QED BY <1>7, <1>8, <2>1, <2>2, <2>3 DEF ScriptsInv, Own, Behind
<1> QED BY <1>6, <1>9, <1>10 DEF LiveInv

-----------------------------------------------------------------------------
(* The restores of files.                                                  *)

\* A restore's step on the way: of two restores only the second matters for
\* what is promised of wp-config.
LEMMA RestoreGoesOn ==
    ASSUME LiveInv, (stage = "gather" /\ "files" \in busy) \/ stage = "verify",
           UNCHANGED <<stage, busy, dir, db, proto, https, mode, root, older>>, faults \subseteq faults',
           restorer' \in [at : {"unpack", "clear", "move", "others", "config"},
                          config : {"none", "http", "https"}, left : SUBSET {"content", "core"}],
           restorer'.at = "others" => mode # "safe",
           restorer'.config = disk[dir].home \/ (restorer.at # "none" /\ restorer'.config = restorer.config),
           DiskTyped, HomesKept,
           \A e \in Dirs, t \in Scripts :
              \/ disk'[e].script[t] = disk[e].script[t]
              \/ disk'[e].script[t] = "other" /\ mode # "safe"
    PROVE  LiveInv'
<1>1. Typed /\ ThreadsInv /\ ProtoInv /\ ScriptsInv /\ TextInv /\ ConfigInv /\ PluginInv BY DEF LiveInv
<1>2. Typed' BY <1>1 DEF Typed, DiskTyped
<1>3. ThreadsInv' BY <1>1 DEF ThreadsInv
<1>4. ProtoInv' BY <1>1 DEF ProtoInv
<1>5. {"woo", "ctx", "replace"} \subseteq Scripts /\ dir \in Dirs BY <1>1 DEF Scripts, Typed
<1>6. ScriptsInv'
    <2>1. Own.script["woo"]' = "own" => Own.script["woo"] = "own" BY <1>5, OwnIsADir DEF Own
    <2>2. mode = "safe" => /\ Own.script["ctx"]' = Own.script["ctx"]
                           /\ disk'[dir].script["ctx"] = disk[dir].script["ctx"]
        BY <1>5, OwnIsADir DEF Own
    <2> QED BY <1>1, <2>1, <2>2 DEF ScriptsInv
<1>7. TextInv' BY <1>1 DEF TextInv
<1>8. ConfigInv'
    <2>1. Own.home' = Own.home BY OwnIsADir DEF HomesKept, Own
    <2>2. ~older => dir = "own" BY <1>1 DEF PluginInv
    <2>3. ~older /\ stage = "verify" => restorer'.config = proto
        BY <1>1, <2>2 DEF ConfigInv, Own, Patched
    <2> QED BY <1>1, <2>1, <2>3 DEF ConfigInv
<1>9. PluginInv' BY <1>1 DEF PluginInv
<1>10. KeyedInv' BY DEF KeyedInv, Keyed
<1> QED BY <1>2, <1>3, <1>4, <1>6, <1>7, <1>8, <1>9, <1>10 DEF LiveInv

LEMMA BeginsKeeps ==
    ASSUME LiveInv, RestoreBegins, faults \subseteq faults', "files" \in busy \/ "verify" \in busy
    PROVE  LiveInv'
<1>1. /\ restorer' = [at |-> "unpack", config |-> disk[dir].home, left |-> {}] /\ disk' = disk
      /\ UNCHANGED <<stage, busy, dir, db, proto, https, mode, root, older>>
    BY DEF RestoreBegins, ssl, settings
<1>2. Typed /\ ThreadsInv BY DEF LiveInv
<1>3. (stage = "gather" /\ "files" \in busy) \/ stage = "verify"
    <2>1. {"files", "verify"} \subseteq Jobs \ Removals /\ "files" \notin Steps /\ "verify" \notin Gathered
        BY DEF Jobs, Gathered, Steps, Removals
    <2> QED BY <1>2, <2>1, WorksForTheStage
<1>4. disk[dir].home \in {"none", "http", "https"} BY <1>2 DEF Typed, Disk
<1>5. /\ restorer' \in [at : {"unpack", "clear", "move", "others", "config"},
                        config : {"none", "http", "https"}, left : SUBSET {"content", "core"}]
      /\ restorer'.at = "unpack" /\ restorer'.config = disk[dir].home
    BY <1>1, <1>4
<1>6. DiskTyped /\ HomesKept BY <1>1, <1>2, DiskStays
<1> QED BY <1>1, <1>3, <1>5, <1>6, RestoreGoesOn

LEMMA UnpackKeeps ==
    ASSUME LiveInv, Unpack \/ Clear \/ (Move /\ stage' # "failed") \/ MoveOthers
    PROVE  LiveInv'
<1>1. Typed /\ ThreadsInv BY DEF LiveInv
<1>2. PICK place \in {"unpack", "clear", "move", "others"} : AtRestore(place)
    BY DEF Unpack, Clear, Move, MoveOthers
<1>3. /\ restorer.at # "none" /\ RestoreJob \in Jobs \ Removals
      /\ (stage = "gather" /\ "files" \in busy) \/ stage = "verify"
    BY <1>1, <1>2, RestoreIsAwaited
<1>4. Folder \in {"content", "core"} BY DEF Folder
<1>5. dir \in Dirs /\ disk[dir] \in Disk BY <1>1 DEF Typed
<1>6. ASSUME Unpack PROVE LiveInv'
    <2>1. /\ restorer' = [restorer EXCEPT !.at = "clear",
                             !.left = IF mode = "safe" THEN {"content"} ELSE {"content", "core"}]
          /\ UNCHANGED <<stage, busy, dir, disk, db, proto, https, mode, root, older, faults>>
        BY <1>6 DEF Unpack, ssl, settings
    <2>2. /\ restorer' \in [at : {"unpack", "clear", "move", "others", "config"},
                            config : {"none", "http", "https"}, left : SUBSET {"content", "core"}]
          /\ restorer'.at = "clear" /\ restorer'.config = restorer.config
        BY <1>1, <2>1 DEF Typed
    <2>3. DiskTyped /\ HomesKept BY <1>1, <2>1, DiskStays
    <2> QED BY <1>3, <2>1, <2>2, <2>3, RestoreGoesOn
<1>7. ASSUME Clear PROVE LiveInv'
    <2>1. /\ restorer' = [restorer EXCEPT !.at = "move"]
          /\ UNCHANGED <<stage, busy, dir, db, proto, https, mode, root, older>>
          /\ \/ disk' = [disk EXCEPT ![dir] = Emptied(disk[dir])] /\ faults' = faults
             \/ disk' = disk /\ faults' = faults \cup {<<"kept", Folder>>}
        BY <1>7 DEF Clear, ssl, settings, Fault
    <2>2. /\ restorer' \in [at : {"unpack", "clear", "move", "others", "config"},
                            config : {"none", "http", "https"}, left : SUBSET {"content", "core"}]
          /\ restorer'.at = "move" /\ restorer'.config = restorer.config
        BY <1>1, <2>1 DEF Typed
    <2>3. DiskTyped /\ HomesKept /\ ScriptsKept
        <3>1. Emptied(disk[dir]) \in Disk /\ Emptied(disk[dir]).home = disk[dir].home
              /\ Emptied(disk[dir]).script = disk[dir].script
            BY <1>5, FolderPut
        <3> QED BY <1>1, <1>5, <2>1, <3>1, DiskStays, FoldersPut
    <2>4. faults \subseteq faults' BY <2>1
    <2>5. UNCHANGED <<stage, busy, dir, db, proto, https, mode, root, older>> BY <2>1
    <2>6. \A e \in Dirs, t \in Scripts : disk'[e].script[t] = disk[e].script[t] BY <2>3 DEF ScriptsKept
    <2> QED BY <1>3, <2>2, <2>3, <2>4, <2>5, <2>6, RestoreGoesOn
<1>8. ASSUME Move, stage' # "failed" PROVE LiveInv'
    <2>1. ~Raises(RestoreJob) BY <1>1, <1>3, <1>8, RaisedFails
    <2>2. /\ MoveTo /\ UNCHANGED <<stage, busy, dir, db, proto, https, mode, root, older>>
          /\ \/ disk' = [disk EXCEPT ![dir] = Filled(disk[dir])] /\ faults' = faults
             \/ disk' = disk /\ faults' = faults \cup {<<"unseen", Folder>>}
        BY <1>8, <2>1 DEF Move, ssl, settings, Fault
    <2>3. /\ restorer' \in [at : {"unpack", "clear", "move", "others", "config"},
                            config : {"none", "http", "https"}, left : SUBSET {"content", "core"}]
          /\ restorer'.at = "others" => mode # "safe"
          /\ restorer'.config = restorer.config
        <3> DEFINE rest == restorer.left \ {Folder}
                   at == IF rest # {} THEN "clear" ELSE IF mode = "safe" THEN "config" ELSE "others"
        <3>1. restorer' = [restorer EXCEPT !.left = rest, !.at = at] BY <2>2 DEF MoveTo
        <3>2. rest \in SUBSET {"content", "core"} BY <1>1 DEF Typed
        <3>3. at \in {"clear", "config", "others"} /\ (at = "others" => mode # "safe") OBVIOUS
        <3> HIDE DEF rest, at
        <3>4. /\ [restorer EXCEPT !.left = rest, !.at = at] \in
                    [at : {"unpack", "clear", "move", "others", "config"},
                     config : {"none", "http", "https"}, left : SUBSET {"content", "core"}]
              /\ [restorer EXCEPT !.left = rest, !.at = at].at = at
              /\ [restorer EXCEPT !.left = rest, !.at = at].config = restorer.config
            BY <1>1, <3>2, <3>3 DEF Typed
        <3> QED BY <3>1, <3>3, <3>4
    <2>4. DiskTyped /\ HomesKept /\ ScriptsKept
        <3>1. Filled(disk[dir]) \in Disk /\ Filled(disk[dir]).home = disk[dir].home
              /\ Filled(disk[dir]).script = disk[dir].script
            BY <1>5, FolderPut
        <3> QED BY <1>1, <1>5, <2>2, <3>1, DiskStays, FoldersPut
    <2>5. faults \subseteq faults' BY <2>2
    <2>6. UNCHANGED <<stage, busy, dir, db, proto, https, mode, root, older>> BY <2>2
    <2>7. \A e \in Dirs, t \in Scripts : disk'[e].script[t] = disk[e].script[t] BY <2>4 DEF ScriptsKept
    <2> QED BY <1>3, <2>3, <2>4, <2>5, <2>6, <2>7, RestoreGoesOn
<1>9. ASSUME MoveOthers PROVE LiveInv'
    <2>1. /\ restorer.at = "others" /\ restorer' = [restorer EXCEPT !.at = "config"]
          /\ UNCHANGED <<stage, busy, dir, db, proto, https, mode, root, older, faults>>
          /\ disk' = [disk EXCEPT ![dir].script = [s \in Scripts |-> IF s \in root THEN "other" ELSE @[s]]]
        BY <1>9 DEF MoveOthers, AtRestore, ssl, settings
    <2>2. mode # "safe" BY <1>1, <2>1 DEF ThreadsInv
    <2>3. /\ restorer' \in [at : {"unpack", "clear", "move", "others", "config"},
                            config : {"none", "http", "https"}, left : SUBSET {"content", "core"}]
          /\ restorer'.at = "config" /\ restorer'.config = restorer.config
        BY <1>1, <2>1 DEF Typed
    <2>4. /\ DiskTyped /\ HomesKept
          /\ \A e \in Dirs, t \in Scripts :
                disk'[e].script[t] = IF e = dir /\ t \in root THEN "other" ELSE disk[e].script[t]
        BY <1>1, <2>1, OthersPut
    <2>5. UNCHANGED <<stage, busy, dir, db, proto, https, mode, root, older>> /\ faults \subseteq faults' BY <2>1
    <2> QED BY <1>3, <2>2, <2>3, <2>4, <2>5, RestoreGoesOn
<1> QED BY <1>6, <1>7, <1>8, <1>9

LEMMA ConfigKeeps ==
    ASSUME LiveInv, PutConfigBack, stage' # "failed"
    PROVE  LiveInv'
<1>1. Typed /\ ThreadsInv /\ ProtoInv /\ ScriptsInv /\ TextInv /\ ConfigInv /\ PluginInv BY DEF LiveInv
<1>2. /\ restorer.at = "config" /\ RestoreJob \in Jobs \ Removals
      /\ \/ stage = "gather" /\ RestoreJob = "files" /\ "files" \in busy
         \/ stage = "verify" /\ RestoreJob = "verify"
    BY <1>1, RestoreIsAwaited DEF PutConfigBack
<1>3. /\ Returns(RestoreJob, IF RestoreJob = "files" THEN "rebuild" ELSE "rebuild2", {})
      /\ UNCHANGED <<dir, db, proto, https, mode, root, older, faults>> /\ restorer' = NotRestoring
      /\ disk' = [disk EXCEPT ![dir].home = restorer.config]
    BY <1>1, <1>2, EndedReturns DEF PutConfigBack, ssl, settings
<1>4. restorer.config \in {"none", "http", "https"} /\ dir \in Dirs BY <1>1 DEF Typed
<1>5. DiskTyped /\ FoldersKept /\ MuKept /\ ScriptsKept /\ disk'[dir].home = restorer.config
    <2> DEFINE h == restorer.config
    <2>1. h \in {"none", "http", "https"} /\ disk' = [disk EXCEPT ![dir].home = h] BY <1>3, <1>4
    <2> HIDE DEF h
    <2>2. DiskTyped /\ FoldersKept /\ MuKept /\ ScriptsKept /\ disk'[dir].home = h BY <1>1, <2>1, HomePut
    <2> QED BY <2>2 DEF h
<1>6. /\ restorer'.at = "none"
      /\ restorer' \in [at : {"none", "unpack", "clear", "move", "others", "config"},
                        config : {"none", "http", "https"}, left : SUBSET {"content", "core"}]
    BY <1>3 DEF NotRestoring
<1>7. Own.script' = Own.script BY <1>5, OwnIsADir DEF ScriptsKept, Own
<1>8. CASE stage = "gather"
    <2>1. RestoreJob = "files" /\ "files" \in Gathered /\ {"db", "ctx"} \subseteq Gathered BY <1>2, <1>8 DEF Gathered
    <2>2. /\ busy' \subseteq Jobs /\ busy' \subseteq JobsOf(stage') \cup Removals
          /\ \/ stage' = "rebuild" /\ busy \cap Gathered = {"files"}
             \/ stage' = "gather" /\ busy' = busy \ {"files"}
        BY <1>3, <2>1, GatherReturn
    <2>3. Typed' BY <1>1, <1>3, <1>5, <1>6, <2>2 DEF Typed, DiskTyped, Live, Steps
    <2>4. ThreadsInv' BY <1>6, <2>2 DEF ThreadsInv
    <2>5. ProtoInv' BY <1>1, <1>3, <2>2 DEF ProtoInv
    <2>6. disk'[dir].script = disk[dir].script BY <1>4, <1>5 DEF ScriptsKept
    <2>7. ScriptsInv' BY <1>1, <1>3, <1>7, <1>8, <2>1, <2>2, <2>6 DEF ScriptsInv, Own, Behind
    <2>8. TextInv' BY <1>1, <1>3, <1>8, <2>1, <2>2 DEF TextInv, Patched
    <2>9. ConfigInv' /\ KeyedInv' BY <2>2 DEF ConfigInv, KeyedInv, Patched, Keyed
    <2>10. PluginInv' BY <1>1, <1>3, <2>2 DEF PluginInv
    <2> QED BY <2>3, <2>4, <2>5, <2>7, <2>8, <2>9, <2>10 DEF LiveInv
<1>9. CASE stage = "verify"
    <2>1. RestoreJob = "verify" /\ "verify" \notin Gathered BY <1>2, <1>9 DEF Gathered
    <2>2. Returns("verify", "rebuild2", {}) BY <1>3, <2>1
    <2>3. "verify" \in Jobs \ Removals /\ "rebuild2" \in Live \ {"create"} /\ {} \in SUBSET Removals
        BY DEF Jobs, Removals, Live, Steps
    <2>4. stage' = "rebuild2" /\ busy' \subseteq Jobs /\ busy' \subseteq JobsOf(stage') \cup Removals
        BY <1>1, <1>9, <2>2, <2>3, Returned
    <2>5. Typed' BY <1>1, <1>3, <1>5, <1>6, <2>4 DEF Typed, DiskTyped, Live, Steps
    <2>6. ThreadsInv' BY <1>6, <2>4 DEF ThreadsInv
    <2>7. ProtoInv' BY <1>1, <1>3, <2>4 DEF ProtoInv
    <2>8. ScriptsInv' BY <1>1, <1>3, <1>7, <1>9, <2>4 DEF ScriptsInv, Own, Behind
    <2>9. TextInv' BY <1>1, <1>3, <1>9, <2>4 DEF TextInv, Patched
    <2>10. ConfigInv'
        <3>1. ~older => dir = "own" /\ restorer.config = proto BY <1>1, <1>2, <1>9 DEF ConfigInv, PluginInv
        <3> QED BY <1>3, <1>5, <2>4, <3>1 DEF ConfigInv, Own
    <2>11. PluginInv' /\ KeyedInv' BY <1>1, <1>3, <2>4 DEF PluginInv, KeyedInv, Keyed
    <2> QED BY <2>5, <2>6, <2>7, <2>8, <2>9, <2>10, <2>11 DEF LiveInv
<1> QED BY <1>2, <1>8, <1>9

-----------------------------------------------------------------------------
(* The steps that follow.                                                  *)

\* A step that hands over to the next one: what is the same for all of them.
LEMMA StepReturn ==
    ASSUME LiveInv, NEW j \in Steps, NEW next \in Live \ {"create", "gather"}, NEW cleanup \in SUBSET Removals,
           Returns(j, next, cleanup), UNCHANGED <<restorer, proto, https, mode, root, older>>,
           faults \subseteq faults', restorer.at = "none",
           DiskTyped, dir' \in Dirs, db' \in [text : {"stock", "old", "new"}, keys : Nat, key : Nat]
    PROVE  /\ stage = j /\ stage' = next /\ Typed' /\ ThreadsInv'
           /\ next # "ssl" => ProtoInv'
<1>1. Typed /\ ThreadsInv /\ ProtoInv BY DEF LiveInv
<1>2. j \in Jobs \ Removals /\ j \notin Gathered BY DEF Jobs, Gathered, Removals, Steps
<1>3. next \in Live \ {"create"} OBVIOUS
<1>4. /\ stage = j /\ stage' = next /\ busy' \subseteq Jobs /\ busy' \subseteq JobsOf(stage') \cup Removals
    BY <1>1, <1>2, <1>3, Returned
<1>5. Typed' BY <1>1, <1>4 DEF Typed, DiskTyped
<1>6. ThreadsInv' BY <1>1, <1>4 DEF ThreadsInv
<1>7. ASSUME next # "ssl" PROVE ProtoInv' BY <1>1, <1>4, <1>7 DEF ProtoInv
<1> QED BY <1>4, <1>5, <1>6, <1>7

\* A step's thread is at work only at its stage, with no restore under way but
\* in the second check of the files.
LEMMA StepIsAwaited ==
    ASSUME LiveInv, NEW j \in Steps, j \in busy
    PROVE  stage = j /\ (j # "verify" => restorer.at = "none")
<1>1. Typed /\ ThreadsInv BY DEF LiveInv
<1>2. j \in Jobs \ Removals /\ j \notin Gathered /\ "gather" \notin Steps BY DEF Jobs, Gathered, Removals, Steps
<1>3. stage = j BY <1>1, <1>2, WorksForTheStage
<1> QED BY <1>1, <1>2, <1>3 DEF ThreadsInv

LEMMA StepNames ==
    /\ {"ssl", "rebuild", "mu", "inject", "replace", "patch", "verify", "rebuild2", "mu2", "keys", "health", "feed"} = Steps
    /\ {"rebuild", "mu", "inject", "replace", "patch", "verify", "rebuild2", "mu2", "keys", "health", "feed", "done"}
          \subseteq Live \ {"create", "gather"}
    /\ Steps \subseteq Jobs \ Removals
BY DEF Steps, Live, Jobs, Removals

LEMMA RebuildKeeps ==
    ASSUME LiveInv, NEW j \in {"rebuild", "rebuild2"}, Rebuild(j)
    PROVE  LiveInv'
<1>1. Typed /\ ThreadsInv /\ ScriptsInv /\ TextInv /\ ConfigInv /\ PluginInv BY DEF LiveInv
<1> DEFINE next == IF j = "rebuild" THEN "mu" ELSE "mu2"
<1>2. /\ j \in busy /\ Returns(j, next, {}) /\ UNCHANGED <<restorer, db, proto, https, mode, root, older>>
      /\ dir' \in Matching \cup {dir} /\ faults \subseteq faults'
      /\ \/ disk' = disk
         \/ \E d \in Matching : disk' = [disk EXCEPT ![d].content = "stock", ![d].mu = FALSE]
    BY DEF Rebuild, ssl, settings, Fault
<1>3. next \in Live \ {"create", "gather"} /\ next \in {"mu", "mu2"} /\ j \in Steps BY StepNames
<1>4. stage = j /\ restorer.at = "none" BY <1>2, <1>3, StepIsAwaited
<1>5. Matching \subseteq Dirs /\ (~older => Matching = {"own"}) BY DEF Matching, Dirs
<1>6. DiskTyped /\ HomesKept /\ ScriptsKept
    <2>1. CASE disk' = disk BY <1>1, <2>1, DiskStays
    <2>2. ASSUME NEW d \in Matching, disk' = [disk EXCEPT ![d].content = "stock", ![d].mu = FALSE]
          PROVE  DiskTyped /\ HomesKept /\ ScriptsKept
        <3> DEFINE x == [disk[d] EXCEPT !.content = "stock", !.mu = FALSE]
        <3>1. d \in Dirs /\ disk[d] \in Disk BY <1>1, <1>5 DEF Typed
        <3>2. x \in Disk BY <3>1 DEF Disk
        <3>3. disk' = [disk EXCEPT ![d] = x] BY <1>1, <2>2, <3>1 DEF Typed
        <3> QED BY <1>1, <3>1, <3>2, <3>3, MuPut
    <2> QED BY <1>2, <2>1, <2>2
<1>7. dir' \in Dirs /\ db' \in [text : {"stock", "old", "new"}, keys : Nat, key : Nat]
    BY <1>1, <1>2, <1>5 DEF Typed
<1>8. /\ stage' = next /\ Typed' /\ ThreadsInv' /\ ProtoInv'
    <2> HIDE DEF next
    <2>1. next # "ssl" BY <1>3
    <2> QED BY <1>2, <1>3, <1>4, <1>6, <1>7, <2>1, StepReturn
<1>9. Own.script' = Own.script /\ Own.home' = Own.home BY <1>6, OwnIsADir DEF HomesKept, ScriptsKept, Own
<1>10. ScriptsInv' BY <1>1, <1>2, <1>4, <1>8, <1>9 DEF ScriptsInv, Behind
<1>11. TextInv' BY <1>1, <1>2, <1>4, <1>8 DEF TextInv, Patched
<1>12. ConfigInv' BY <1>1, <1>2, <1>4, <1>8, <1>9 DEF ConfigInv, Patched
<1>13. PluginInv' /\ KeyedInv' BY <1>1, <1>2, <1>5, <1>8 DEF PluginInv, KeyedInv, Keyed
<1> QED BY <1>8, <1>10, <1>11, <1>12, <1>13 DEF LiveInv

LEMMA MuKeeps ==
    ASSUME LiveInv, NEW j \in {"mu", "mu2"}, InjectMu(j), stage' # "failed"
    PROVE  LiveInv'
<1>1. Typed /\ ThreadsInv /\ ScriptsInv /\ TextInv /\ ConfigInv /\ PluginInv BY DEF LiveInv
<1> DEFINE next == IF j = "mu" THEN "inject" ELSE "keys"
<1>2. j \in Steps /\ j \in Jobs \ Removals /\ next \in Live \ {"create", "gather"} /\ next \in {"inject", "keys"}
    BY StepNames
<1>3. /\ j \in busy /\ Returns(j, next, {})
      /\ UNCHANGED <<restorer, dir, db, proto, https, mode, root, older, faults>>
      /\ disk' = [disk EXCEPT ![dir].mu = TRUE]
    BY <1>1, <1>2, EndedReturns DEF InjectMu, ssl, settings
<1>4. stage = j /\ restorer.at = "none" BY <1>2, <1>3, StepIsAwaited
<1>5. dir \in Dirs /\ db \in [text : {"stock", "old", "new"}, keys : Nat, key : Nat] BY <1>1 DEF Typed
<1>6. DiskTyped /\ HomesKept /\ ScriptsKept /\ disk'[dir].mu
    <2> DEFINE x == [disk[dir] EXCEPT !.mu = TRUE]
    <2>1. disk[dir] \in Disk BY <1>1, <1>5 DEF Typed
    <2>2. x \in Disk /\ x.mu = TRUE BY <2>1 DEF Disk
    <2>3. disk' = [disk EXCEPT ![dir] = x] BY <1>3
    <2>4. DiskTyped /\ HomesKept /\ ScriptsKept /\ disk'[dir] = x BY <1>1, <1>5, <2>2, <2>3, MuPut
    <2> QED BY <2>2, <2>4
<1>7. /\ stage' = next /\ Typed' /\ ThreadsInv' /\ ProtoInv'
    <2> HIDE DEF next
    <2>1. next # "ssl" BY <1>2
    <2>2. dir' \in Dirs /\ db' \in [text : {"stock", "old", "new"}, keys : Nat, key : Nat] /\ faults \subseteq faults'
        BY <1>3, <1>5
    <2>3. UNCHANGED <<restorer, proto, https, mode, root, older>> BY <1>3
    <2> QED BY <1>2, <1>3, <1>4, <1>6, <2>1, <2>2, <2>3, StepReturn
<1>8. Own.script' = Own.script /\ Own.home' = Own.home BY <1>6, OwnIsADir DEF HomesKept, ScriptsKept, Own
<1>9. ScriptsInv' BY <1>1, <1>3, <1>4, <1>7, <1>8 DEF ScriptsInv, Behind
<1>10. TextInv' BY <1>1, <1>3, <1>4, <1>7 DEF TextInv, Patched
<1>11. ConfigInv' BY <1>1, <1>3, <1>4, <1>7, <1>8 DEF ConfigInv, Patched
<1>12. PluginInv' /\ KeyedInv' BY <1>1, <1>3, <1>6, <1>7 DEF PluginInv, KeyedInv, Keyed, Own
<1> QED BY <1>7, <1>9, <1>10, <1>11, <1>12 DEF LiveInv

LEMMA InjectReplaceKeeps ==
    ASSUME LiveInv, InjectReplace, stage' # "failed"
    PROVE  LiveInv'
<1>1. Typed /\ ThreadsInv /\ ScriptsInv /\ TextInv /\ ConfigInv /\ PluginInv BY DEF LiveInv
<1>2. "inject" \in Steps /\ "inject" \in Jobs \ Removals /\ "replace" \in Live \ {"create", "gather"}
    BY StepNames
<1>3. /\ "inject" \in busy /\ Returns("inject", "replace", {})
      /\ UNCHANGED <<restorer, dir, db, proto, https, mode, root, older, faults>>
    BY <1>1, <1>2, EndedReturns DEF InjectReplace, ssl, settings, Returns
<1>4. stage = "inject" /\ restorer.at = "none" BY <1>2, <1>3, StepIsAwaited
<1>5. {"woo", "ctx", "replace"} = Scripts BY DEF Scripts
<1>6. /\ DiskTyped /\ MuKept
      /\ \A e \in Dirs, t \in Scripts :
            t # "replace" => disk'[e].script[t] = disk[e].script[t]
    <2>1. PICK d \in {"own", dir} : PutInto(d, "replace", "own") BY DEF InjectReplace, PutInto
    <2>2. d \in Dirs /\ "replace" \in Scripts BY <1>1, <1>5, OwnIsADir DEF Typed
    <2> QED BY <1>1, <2>1, <2>2, ScriptPutIn
<1>7. /\ stage' = "replace" /\ Typed' /\ ThreadsInv' /\ ProtoInv'
    <2>1. dir' \in Dirs /\ db' \in [text : {"stock", "old", "new"}, keys : Nat, key : Nat] /\ faults \subseteq faults'
        BY <1>1, <1>3 DEF Typed
    <2>2. UNCHANGED <<restorer, proto, https, mode, root, older>> BY <1>3
    <2> QED BY <1>2, <1>3, <1>4, <1>6, <2>1, <2>2, StepReturn
<1>8. /\ disk'["own"].script["woo"] = disk["own"].script["woo"] /\ disk'["own"].script["ctx"] = disk["own"].script["ctx"]
      /\ disk'["own"].mu = disk["own"].mu
    BY <1>5, <1>6, OwnIsADir DEF MuKept
<1>9. ScriptsInv' BY <1>1, <1>3, <1>4, <1>7, <1>8 DEF ScriptsInv, Behind, Own
<1>10. TextInv' BY <1>1, <1>3, <1>4, <1>7 DEF TextInv, Patched
<1>11. ConfigInv' /\ KeyedInv' BY <1>7 DEF ConfigInv, Patched, KeyedInv, Keyed
<1>12. PluginInv' BY <1>1, <1>3, <1>4, <1>7, <1>8 DEF PluginInv, Own
<1> QED BY <1>7, <1>9, <1>10, <1>11, <1>12 DEF LiveInv

LEMMA ReplaceKeeps ==
    ASSUME LiveInv, ReplaceDomain, stage' # "failed"
    PROVE  LiveInv'
<1>1. Typed /\ ThreadsInv /\ ScriptsInv /\ TextInv /\ ConfigInv /\ PluginInv BY DEF LiveInv
<1>2. "replace" \in Steps /\ "replace" \in Jobs \ Removals /\ "patch" \in Live \ {"create", "gather"}
      /\ {"unreplace"} \in SUBSET Removals
    BY StepNames DEF Removals
<1>3. /\ "replace" \in busy /\ Returns("replace", "patch", {"unreplace"})
      /\ \/ db' = [db EXCEPT !.text = Rewritten(db.text)] /\ faults' = faults
         \/ db' = db /\ faults' = faults \cup {<<"unwritten", "replace">>}
      /\ UNCHANGED <<restorer, dir, disk, proto, https, mode, root, older>>
    BY <1>1, <1>2, RaisedFails DEF ReplaceDomain, ssl, settings, Fault
<1>4. stage = "replace" /\ restorer.at = "none" BY <1>2, <1>3, StepIsAwaited
<1>6. Rewritten(db.text) \in {"stock", "old", "new"} /\ (db.text # "stock" => Rewritten(db.text) = "new")
    BY <1>1 DEF Rewritten, Typed
<1>7. /\ db' \in [text : {"stock", "old", "new"}, keys : Nat, key : Nat] /\ faults \subseteq faults'
      /\ <<"unwritten", "replace">> \notin faults' => db'.text = Rewritten(db.text)
    BY <1>1, <1>3, <1>6 DEF Typed
<1>8. /\ stage' = "patch" /\ Typed' /\ ThreadsInv' /\ ProtoInv'
    <2>1. dir' \in Dirs /\ DiskTyped BY <1>1, <1>3, DiskStays DEF Typed
    <2>2. UNCHANGED <<restorer, proto, https, mode, root, older>> BY <1>3
    <2> QED BY <1>2, <1>3, <1>4, <1>7, <2>1, <2>2, StepReturn
<1>9. ScriptsInv' BY <1>1, <1>3, <1>4, <1>8 DEF ScriptsInv, Behind, Own
<1>10. TextInv' BY <1>1, <1>3, <1>4, <1>6, <1>7, <1>8 DEF TextInv, Patched
<1>11. ConfigInv' /\ KeyedInv' BY <1>8 DEF ConfigInv, Patched, KeyedInv, Keyed
<1>12. PluginInv' BY <1>1, <1>3, <1>4, <1>8 DEF PluginInv, Own
<1> QED BY <1>8, <1>9, <1>10, <1>11, <1>12 DEF LiveInv

LEMMA PatchKeeps ==
    ASSUME LiveInv, PatchConfig, stage' # "failed"
    PROVE  LiveInv'
<1>1. Typed /\ ThreadsInv /\ ScriptsInv /\ TextInv /\ ConfigInv /\ PluginInv BY DEF LiveInv
<1>2. "patch" \in Steps /\ "patch" \in Jobs \ Removals /\ "verify" \in Live \ {"create", "gather"}
      /\ {} \in SUBSET Removals
    BY StepNames
<1>3. /\ "patch" \in busy /\ Returns("patch", "verify", {}) /\ disk' = [disk EXCEPT ![dir].home = proto]
      /\ UNCHANGED <<restorer, dir, db, proto, https, mode, root, older, faults>>
    BY <1>1, <1>2, EndedReturns DEF PatchConfig, ssl, settings, Returns
<1>4. stage = "patch" /\ restorer.at = "none" BY <1>2, <1>3, StepIsAwaited
<1>5. ~older => dir = "own" BY <1>1 DEF PluginInv
<1>6. DiskTyped /\ FoldersKept /\ MuKept /\ ScriptsKept /\ disk'[dir].home = proto
    <2>1. proto \in {"none", "http", "https"} BY <1>1 DEF Typed
    <2> QED BY <1>1, <1>3, <2>1, HomePut
<1>7. /\ stage' = "verify" /\ Typed' /\ ThreadsInv' /\ ProtoInv'
    <2>1. dir' \in Dirs /\ db' \in [text : {"stock", "old", "new"}, keys : Nat, key : Nat] /\ faults \subseteq faults'
        BY <1>1, <1>3 DEF Typed
    <2>2. UNCHANGED <<restorer, proto, https, mode, root, older>> BY <1>3
    <2> QED BY <1>2, <1>3, <1>4, <1>6, <2>1, <2>2, StepReturn
<1>8. Own.script' = Own.script /\ Own.mu' = Own.mu BY <1>6, OwnIsADir DEF MuKept, ScriptsKept, Own
<1>9. ScriptsInv' BY <1>1, <1>3, <1>4, <1>7, <1>8 DEF ScriptsInv, Behind
<1>10. TextInv' BY <1>1, <1>3, <1>4, <1>7 DEF TextInv, Patched
<1>11. ConfigInv' BY <1>3, <1>4, <1>5, <1>6, <1>7 DEF ConfigInv, Own
<1>12. PluginInv' /\ KeyedInv' BY <1>1, <1>3, <1>4, <1>7, <1>8 DEF PluginInv, KeyedInv, Keyed
<1> QED BY <1>7, <1>9, <1>10, <1>11, <1>12 DEF LiveInv

LEMMA VerifyKeeps ==
    ASSUME LiveInv, Verify
    PROVE  LiveInv'
<1>1. Typed /\ ThreadsInv /\ ScriptsInv /\ TextInv /\ ConfigInv /\ PluginInv BY DEF LiveInv
<1>2. "verify" \in busy /\ restorer.at = "none" BY DEF Verify
<1>3. "verify" \in Steps /\ "keys" \in Live \ {"create", "gather"} /\ {} \in SUBSET Removals BY StepNames
<1>4. stage = "verify" BY <1>2, <1>3, StepIsAwaited
<1>5. ASSUME RestoreBegins, faults \subseteq faults' PROVE LiveInv' BY <1>2, <1>5, BeginsKeeps
<1>6. ASSUME Returns("verify", "keys", {}),
             UNCHANGED <<restorer, dir, disk, db, proto, https, mode, root, older, faults>>
      PROVE  LiveInv'
    <2>1. /\ dir' \in Dirs /\ db' \in [text : {"stock", "old", "new"}, keys : Nat, key : Nat]
          /\ faults \subseteq faults' /\ DiskTyped
        BY <1>1, <1>6, DiskStays DEF Typed
    <2>2. UNCHANGED <<restorer, proto, https, mode, root, older>> BY <1>6
    <2>3. /\ stage' = "keys" /\ Typed' /\ ThreadsInv' /\ ProtoInv'
        BY <1>2, <1>3, <1>6, <2>1, <2>2, StepReturn
    <2>4. ScriptsInv' BY <1>1, <1>4, <1>6, <2>3 DEF ScriptsInv, Behind, Own
    <2>5. TextInv' BY <1>1, <1>4, <1>6, <2>3 DEF TextInv, Patched
    <2>6. ConfigInv' BY <1>1, <1>4, <1>6, <2>3 DEF ConfigInv, Patched, Own
    <2>7. PluginInv' /\ KeyedInv' BY <1>1, <1>2, <1>4, <1>6, <2>3 DEF PluginInv, KeyedInv, Keyed, Own
    <2> QED BY <2>3, <2>4, <2>5, <2>6, <2>7 DEF LiveInv
<1>7. \/ /\ Returns("verify", "keys", {})
         /\ UNCHANGED <<restorer, dir, disk, db, proto, https, mode, root, older, faults>>
      \/ RestoreBegins /\ faults \subseteq faults'
    BY DEF Verify, ssl, settings, Fault
<1> QED BY <1>5, <1>6, <1>7

LEMMA KeysKeep ==
    ASSUME LiveInv, FetchKeys, stage' # "failed"
    PROVE  LiveInv'
<1>1. Typed /\ ThreadsInv /\ ProtoInv /\ ScriptsInv /\ TextInv /\ ConfigInv /\ PluginInv BY DEF LiveInv
<1>2. "keys" \in Steps /\ "keys" \in Jobs \ Removals /\ "health" \in Live \ {"create", "gather"}
      /\ {"unwoo"} \in SUBSET Removals
    BY StepNames DEF Removals
<1>3. /\ "keys" \in busy /\ KeyScriptWorks /\ faults \subseteq faults'
      /\ UNCHANGED <<restorer, dir, disk, proto, https, mode, root, older>>
    BY <1>1, <1>2, RaisedFails DEF FetchKeys, ssl, settings, Fault
<1>4. stage = "keys" /\ restorer.at = "none" BY <1>2, <1>3, StepIsAwaited
<1>5. \/ /\ db' = [db EXCEPT !.keys = db.keys + 1, !.key = db.keys + 1] /\ Returns("keys", "health", {"unwoo"})
      \/ /\ db' = [db EXCEPT !.keys = db.keys + 1] /\ UNCHANGED <<stage, busy>>
    BY <1>1, <1>2, RaisedFails DEF FetchKeys
<1>6. /\ db' \in [text : {"stock", "old", "new"}, keys : Nat, key : Nat] /\ db'.text = db.text
    <2>1. db \in [text : {"stock", "old", "new"}, keys : Nat, key : Nat] BY <1>1 DEF Typed
    <2>2. db.keys + 1 \in Nat BY <2>1
    <2> QED BY <1>5, <2>1, <2>2
<1>7. dir' \in Dirs /\ DiskTyped BY <1>1, <1>3, DiskStays DEF Typed
<1>8. CASE db' = [db EXCEPT !.keys = db.keys + 1, !.key = db.keys + 1] /\ Returns("keys", "health", {"unwoo"})
    <2>1. UNCHANGED <<restorer, proto, https, mode, root, older>> BY <1>3
    <2>2. /\ stage' = "health" /\ Typed' /\ ThreadsInv' /\ ProtoInv'
        BY <1>2, <1>3, <1>4, <1>6, <1>7, <1>8, <2>1, StepReturn
    <2>3. db'.key > 0 BY <1>1, <1>8 DEF Typed
    <2>4. /\ Own.content = "template" /\ Own.core # "none"
          /\ mode = "safe" => Own.script["ctx"] = "own"
        BY <1>1, <1>3, <1>4 DEF KeyScriptWorks, Answers, ScriptsInv, Own, Behind
    <2>5. KeyedInv' BY <1>3, <2>3, <2>4 DEF KeyedInv, Own
    <2>6. ScriptsInv' BY <1>1, <1>3, <1>4, <2>2 DEF ScriptsInv, Behind, Own
    <2>7. TextInv' BY <1>1, <1>3, <1>4, <1>6, <2>2 DEF TextInv, Patched
    <2>8. ConfigInv' BY <1>1, <1>3, <1>4, <2>2 DEF ConfigInv, Patched, Own
    <2>9. PluginInv' BY <1>1, <1>3, <1>4, <2>2 DEF PluginInv, Own
    <2> QED BY <2>2, <2>5, <2>6, <2>7, <2>8, <2>9 DEF LiveInv
<1>9. CASE db' = [db EXCEPT !.keys = db.keys + 1] /\ UNCHANGED <<stage, busy>>
    <2>1. Typed' BY <1>1, <1>3, <1>6, <1>7, <1>9 DEF Typed, DiskTyped
    <2>2. ThreadsInv' BY <1>1, <1>3, <1>9 DEF ThreadsInv
    <2>3. ProtoInv' BY <1>1, <1>3, <1>9 DEF ProtoInv
    <2>4. ScriptsInv' BY <1>1, <1>3, <1>9 DEF ScriptsInv, Own
    <2>5. TextInv' BY <1>1, <1>3, <1>6, <1>9 DEF TextInv
    <2>6. ConfigInv' BY <1>1, <1>3, <1>9 DEF ConfigInv, Own
    <2>7. PluginInv' BY <1>1, <1>3, <1>9 DEF PluginInv, Own
    <2>8. KeyedInv' BY <1>4, <1>9 DEF KeyedInv, Keyed
    <2> QED BY <2>1, <2>2, <2>3, <2>4, <2>5, <2>6, <2>7, <2>8 DEF LiveInv
<1> QED BY <1>5, <1>8, <1>9

LEMMA LastStepsKeep ==
    ASSUME LiveInv, HealthCheck \/ FetchFeed, stage' # "failed"
    PROVE  LiveInv'
<1>1. Typed /\ ThreadsInv /\ ScriptsInv /\ TextInv /\ ConfigInv /\ PluginInv /\ KeyedInv BY DEF LiveInv
<1>2. {"health", "feed"} \subseteq Steps /\ {"health", "feed"} \subseteq Jobs \ Removals
      /\ {"feed", "done"} \subseteq Live \ {"create", "gather"} /\ {} \in SUBSET Removals
    BY StepNames
<1>3. PICK j \in {"health", "feed"}, next \in {"feed", "done"} : Returns(j, next, {})
    BY <1>1, <1>2, RaisedFails DEF HealthCheck, FetchFeed
<1>4. UNCHANGED <<restorer, dir, disk, db, proto, https, mode, root, older, faults>>
    BY DEF HealthCheck, FetchFeed, ssl, settings
<1>5. j \in busy /\ j \in Steps /\ j # "verify" /\ next \in Live \ {"create", "gather"} /\ next # "ssl"
    BY <1>2, <1>3 DEF Returns
<1>6. stage = j /\ restorer.at = "none" BY <1>5, StepIsAwaited
<1>7. /\ dir' \in Dirs /\ db' \in [text : {"stock", "old", "new"}, keys : Nat, key : Nat]
      /\ faults \subseteq faults' /\ DiskTyped
    BY <1>1, <1>4, DiskStays DEF Typed
<1>8. UNCHANGED <<restorer, proto, https, mode, root, older>> BY <1>4
<1>9. /\ stage' = next /\ Typed' /\ ThreadsInv' /\ ProtoInv'
    BY <1>2, <1>3, <1>5, <1>6, <1>7, <1>8, StepReturn
<1>10. ScriptsInv' BY <1>1, <1>4, <1>6, <1>9 DEF ScriptsInv, Behind, Own
<1>11. TextInv' BY <1>1, <1>4, <1>6, <1>9 DEF TextInv, Patched
<1>12. ConfigInv' BY <1>1, <1>4, <1>6, <1>9 DEF ConfigInv, Patched, Own
<1>13. PluginInv' BY <1>1, <1>4, <1>6, <1>9 DEF PluginInv, Own
<1>14. KeyedInv' BY <1>1, <1>4, <1>6, <1>9 DEF KeyedInv, Keyed, Own
<1> QED BY <1>9, <1>10, <1>11, <1>12, <1>13, <1>14 DEF LiveInv

LEMMA RemoveKeeps ==
    ASSUME LiveInv, NEW j \in Removals, Remove(j)
    PROVE  LiveInv'
<1>1. Typed /\ ThreadsInv /\ ProtoInv /\ ScriptsInv /\ TextInv /\ ConfigInv /\ PluginInv /\ KeyedInv
    BY DEF LiveInv
<1>2. /\ busy' = busy \ {j} /\ UNCHANGED <<stage, restorer, dir, db, proto, https, mode, root, older>>
      /\ faults \subseteq faults'
      /\ disk' = disk \/ Put(IF j = "unwoo" THEN "woo" ELSE "replace", "none")
    BY DEF Remove, ssl, settings, Fault
<1> DEFINE s == IF j = "unwoo" THEN "woo" ELSE "replace"
<1>3. {"woo", "ctx", "replace"} = Scripts /\ s \in {"woo", "replace"} BY DEF Scripts
<1>4. /\ DiskTyped /\ HomesKept /\ FoldersKept /\ MuKept
      /\ \A e \in Dirs, t \in Scripts :
            \/ disk'[e].script[t] = disk[e].script[t]
            \/ t # "ctx" /\ disk'[e].script[t] = "none"
    <2>1. CASE disk' = disk BY <1>1, <2>1, DiskStays
    <2>2. CASE Put(s, "none")
        <3> HIDE DEF s
        <3>1. s \in Scripts BY <1>3
        <3> QED BY <1>1, <1>3, <2>2, <3>1, ScriptPut
    <2> QED BY <1>2, <2>1, <2>2
<1>5. {"db", "ctx", "files"} \cap Removals = {} BY DEF Removals
<1>6. Typed' BY <1>1, <1>2, <1>4 DEF Typed, DiskTyped
<1>7. ThreadsInv' BY <1>1, <1>2, <1>5 DEF ThreadsInv
<1>8. ProtoInv' BY <1>1, <1>2 DEF ProtoInv
<1>9. ScriptsInv'
    <2>1. /\ disk'["own"].script["woo"] = "own" => disk["own"].script["woo"] = "own"
          /\ disk'["own"].script["replace"] = "own" => disk["own"].script["replace"] = "own"
          /\ disk'["own"].script["ctx"] = disk["own"].script["ctx"]
          /\ disk'[dir].script["ctx"] = disk[dir].script["ctx"]
        BY <1>1, <1>3, <1>4, OwnIsADir DEF Typed
    <2> QED BY <1>1, <1>2, <1>5, <2>1 DEF ScriptsInv, Own
<1>10. TextInv' BY <1>1, <1>2, <1>5 DEF TextInv
<1>11. /\ Own.home' = Own.home /\ Own.content' = Own.content /\ Own.core' = Own.core /\ Own.mu' = Own.mu
       /\ Own.script["ctx"]' = Own.script["ctx"]
    BY <1>3, <1>4, OwnIsADir DEF HomesKept, FoldersKept, MuKept, Own
<1>12. ConfigInv' BY <1>1, <1>2, <1>11 DEF ConfigInv
<1>13. PluginInv' BY <1>1, <1>2, <1>11 DEF PluginInv
<1>14. KeyedInv' BY <1>1, <1>2, <1>11 DEF KeyedInv
<1> QED BY <1>6, <1>7, <1>8, <1>9, <1>10, <1>12, <1>13, <1>14 DEF LiveInv

-----------------------------------------------------------------------------
(* The theorem.                                                            *)

LEMMA NextKeeps == BuildInv /\ [BuildNext]_buildVars => BuildInv'
<1> SUFFICES ASSUME BuildInv, [BuildNext]_buildVars, stage' # "failed" PROVE LiveInv' BY DEF BuildInv
<1>1. CASE UNCHANGED buildVars
    <2>1. LiveInv BY <1>1 DEF BuildInv, buildVars
    <2> QED BY <1>1, <2>1 DEF buildVars, LiveInv, Typed, ThreadsInv, ProtoInv, ScriptsInv, TextInv, ConfigInv,
                              PluginInv, KeyedInv, Own
<1>2. CASE BuildNext
    <2>1. LiveInv BY <1>2, FailedStays DEF BuildInv
    <2>2. CASE Create BY <2>1, <2>2, CreateKeeps
    <2>3. CASE Certify BY <2>1, <2>3, CertifyKeeps
    <2>4. CASE CertifyUnseen BY <2>1, <2>4, UnseenKeeps
    <2>5. CASE RestoreDb \/ RestoreDbMisread BY <2>1, <2>5, RestoreDbKeeps
    <2>6. CASE RestoreStep
        <3>1. CASE RestoreStarts BY <2>1, <3>1, BeginsKeeps DEF RestoreStarts
        <3>2. CASE Unpack \/ Clear \/ Move \/ MoveOthers BY <2>1, <3>2, UnpackKeeps
        <3>3. CASE PutConfigBack BY <2>1, <3>3, ConfigKeeps
        <3> QED BY <2>6, <3>1, <3>2, <3>3 DEF RestoreStep
    <2>7. CASE \E s \in {"woo", "ctx"} : Inject(s) BY <2>1, <2>7, InjectKeeps
    <2>8. CASE \E j \in {"rebuild", "rebuild2"} : Rebuild(j) BY <2>1, <2>8, RebuildKeeps
    <2>9. CASE \E j \in {"mu", "mu2"} : InjectMu(j) BY <2>1, <2>9, MuKeeps
    <2>10. CASE InjectReplace BY <2>1, <2>10, InjectReplaceKeeps
    <2>11. CASE ReplaceDomain BY <2>1, <2>11, ReplaceKeeps
    <2>12. CASE PatchConfig BY <2>1, <2>12, PatchKeeps
    <2>13. CASE Verify BY <2>1, <2>13, VerifyKeeps
    <2>14. CASE FetchKeys BY <2>1, <2>14, KeysKeep
    <2>15. CASE HealthCheck \/ FetchFeed BY <2>1, <2>15, LastStepsKeep
    <2>16. CASE \E j \in Removals : Remove(j) BY <2>1, <2>16, RemoveKeeps
    <2>17. CASE CertificateLate \/ TimesOut BY <2>17 DEF CertificateLate, TimesOut
    <2>18. CASE \E j \in Jobs : CallFails(j)
        <3>1. PICK j \in Jobs \ Removals : Raises(j) BY <2>18 DEF CallFails
        <3> QED BY <2>1, <3>1, RaisedFails DEF LiveInv
    <2> QED BY <1>2, <2>2, <2>3, <2>4, <2>5, <2>6, <2>7, <2>8, <2>9, <2>10, <2>11, <2>12, <2>13, <2>14,
               <2>15, <2>16, <2>17, <2>18 DEF BuildNext, BuildStep
<1> QED BY <1>1, <1>2

LEMMA DoneWorks == BuildInv => BuiltSiteWorks
<1> SUFFICES ASSUME BuildInv, stage = "done"
             PROVE  /\ disk["own"].content = "template" /\ disk["own"].core # "none"
                    /\ <<"lost", "ssl">> \notin faults => (https <=> proto = "https")
                    /\ {<<"misread", "db">>, <<"unwritten", "replace">>} \cap faults = {} => db.text = "new"
                    /\ db.key > 0
                    /\ mode = "safe" => disk["own"].script["ctx"] = "own"
                    /\ ~older => disk["own"].mu /\ disk["own"].home = proto
    BY DEF BuiltSiteWorks
<1>1. ProtoInv /\ TextInv /\ ConfigInv /\ PluginInv /\ KeyedInv BY DEF BuildInv, LiveInv
<1>2. KeyedInv => /\ disk["own"].content = "template" /\ disk["own"].core # "none" /\ db.key > 0
                  /\ mode = "safe" => disk["own"].script["ctx"] = "own"
    BY DEF KeyedInv, Keyed, Own
<1>3. ~older => disk["own"].home = proto BY <1>1 DEF ConfigInv, Patched, Own
<1>4. <<"lost", "ssl">> \notin faults => (https <=> proto = "https") BY <1>1 DEF ProtoInv
<1>5. {<<"misread", "db">>, <<"unwritten", "replace">>} \cap faults = {} => db.text = "new" BY <1>1 DEF TextInv, Patched
<1>6. ~older => disk["own"].mu BY <1>1 DEF PluginInv, Own
<1> QED BY <1>1, <1>2, <1>3, <1>4, <1>5, <1>6

\* For any restore modes, templates, older apps of the domain and number of
\* faults: a build that succeeds has left the template's files, the new domain in
\* what the rewriting did not leave out, a known key and the script of its link,
\* and without an older app its own wp-config and the plugin, whatever order its
\* threads ran in and whatever failed, was lost, repeated or restored twice.
THEOREM BuiltSitesWork == Spec => []BuiltSiteWorks
<1>1. BuildInit => BuildInv BY InitBuild
<1>2. BuildInv /\ [BuildNext]_buildVars => BuildInv' BY NextKeeps
<1>3. BuildInv => BuiltSiteWorks BY DoneWorks
<1> QED BY <1>1, <1>2, <1>3, PTL DEF Spec
=============================================================================
