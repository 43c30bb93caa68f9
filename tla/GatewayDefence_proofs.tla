------------------------ MODULE GatewayDefence_proofs ------------------------
(***************************************************************************)
(* Proofs about the gateway defence: the task runner (GatewayTasks) and    *)
(* what a task deploys (Defences).                                         *)
(*                                                                         *)
(* GatewayTasks, for any number of tasks, sites and permits:               *)
(*   TypeInv   types, a started submission knows its site, and a task      *)
(*             about to save its site has settled its row;                 *)
(*   RunsInv   two tasks at one site never both run, and on a site nobody  *)
(*             disturbed every task before its Complete has a running row, *)
(*             so that it is the only one there;                           *)
(*   GateInv   hence its copy of the site is current, and the id it is     *)
(*             about to save is the site's first.                          *)
(*                                                                         *)
(* The editing functions of FangyuConf, for every configuration: what the  *)
(* removal, the three insertions and the whole of a deployment make of it. *)
(*                                                                         *)
(* Defences, for any number of runs and Workers:                           *)
(*   ConfInv     the configuration, and every one a run is about to        *)
(*               rewrite, has the whole defence or nothing of it;          *)
(*   FilesInv    a run about to write has uploaded what it will refer to;  *)
(*   MainInv     and has seen nginx.conf ready, unless that went wrong;    *)
(*   OutcomeInv  so that one that has passed leaves the site defended;     *)
(*   RouteInv    a route's id is given once, and a deployment only deletes *)
(*               the script's;                                             *)
(*   WorkerInv   so that a Worker deployment that has passed leaves the    *)
(*               domain defended.                                          *)
(***************************************************************************)
EXTENDS GatewayTasks, Defences, Integers,
        FiniteSetTheorems, SequenceTheorems, WellFoundedInduction, TLAPS

(* ---------------------------- the task runner ---------------------------- *)

\* A submission that has begun knows its site.
SiteKnown == \A t \in Tasks : pc[t] # "idle" => site[t] \in Sites

\* The last save of the site comes after the row's.
Recorded ==
    \A t \in Tasks : pc[t] \in {"sitesave", "fail_save"} => status[t] # "running"

Standing == SiteKnown /\ RunningHasTask /\ Recorded
TypeInv  == TypeOK /\ Standing

\* One more fault within the bound keeps the counters in theirs.
LEMMA OneMoreFault ==
    ASSUME TypeOK, used.faults < MaxFaults
    PROVE  [used EXCEPT !["faults"] = @ + 1] \in [cancels : 0..MaxCancels, faults : 0..MaxFaults]
BY BoundsAssumption DEF TypeOK

\* So does one more cancel.
LEMMA OneMoreCancel ==
    ASSUME TypeOK, used.cancels < MaxCancels
    PROVE  [used EXCEPT !["cancels"] = @ + 1] \in [cancels : 0..MaxCancels, faults : 0..MaxFaults]
BY BoundsAssumption DEF TypeOK

\* Running rows belong to sites.
LEMMA SitesOfTyped ==
    ASSUME TypeInv, NEW S \in SUBSET Tasks
    PROVE  SitesOf(S) \subseteq Sites
BY DEF TypeInv, Standing, SiteKnown, RunningHasTask, SitesOf, Live, Waiting,
     Permitted,
       Executing, Failing

\* What a submission that has begun finds in its site's row.
LEMMA SiteTyped ==
    ASSUME TypeInv, NEW t \in Tasks, pc[t] # "idle"
    PROVE  site[t] \in Sites /\ gid[site[t]] \in Nat /\ remote[site[t]] \in Nat
BY DEF TypeInv, TypeOK, Standing, SiteKnown

\* The initial state is typed.
LEMMA TypeInvInit == Init => TypeInv
<1> SUFFICES ASSUME Init PROVE TypeInv
  OBVIOUS
<1>1. TypeOK
  BY BoundsAssumption
  DEF Init, TypeOK, Pcs, Statuses, Results, MaybeTask, NoId
<1>2. Standing
  BY DEF Init, Standing, SiteKnown, RunningHasTask, Recorded
<1>3. QED
  BY <1>1, <1>2 DEF TypeInv

\* Every step keeps every variable in its type.
LEMMA TypeStep == TypeInv /\ [Next]_vars => TypeOK'
<1> SUFFICES ASSUME TypeInv, [Next]_vars PROVE TypeOK'
  OBVIOUS
<1> USE DEF TypeOK, Goto, SetStatus, SaveSite, reqVars, taskVars, siteVars,
            Statuses, Results, MaybeTask, NoId, SiteKnown, Pcs, Live, Permitted,
            Executing, Failing, Waiting, Requesting
<1>0. SiteKnown /\ TypeOK
  BY DEF TypeInv, Standing
<1>1. ASSUME NEW t \in Tasks, NEW s \in Sites, Submit(t, s) PROVE TypeOK'
  BY <1>0, <1>1 DEF Submit
<1>2. ASSUME NEW t \in Tasks, CheckNone(t) PROVE TypeOK'
  BY <1>0, <1>2 DEF CheckNone
<1>3. ASSUME NEW t \in Tasks, CheckBlocked(t) PROVE TypeOK'
  BY <1>0, <1>3 DEF CheckBlocked
<1>4. ASSUME NEW t \in Tasks, CheckOld(t) PROVE TypeOK'
  <2>1. PICK u \in Tasks : seen' = [seen EXCEPT ![t] = u]
    BY <1>0, <1>4 DEF CheckOld, Running
  <2>2. QED
    BY <1>0, <1>4, <2>1 DEF CheckOld
<1>5. ASSUME NEW t \in Tasks, Reclaim(t) PROVE TypeOK'
  <2>1. status' \in [Tasks -> Statuses] /\ pc' \in [Tasks -> Pcs]
    BY <1>0, <1>5 DEF Reclaim
  <2>2. site[t] \in Sites /\ gid[site[t]] \in Nat /\ remote[site[t]] \in Nat
    BY <1>0, <1>5, SiteTyped DEF Reclaim
  <2>3. QED
    BY <1>0, <1>5, <2>1, <2>2 DEF Reclaim
<1>6. ASSUME NEW t \in Tasks, Create(t) PROVE TypeOK'
  BY <1>0, <1>6 DEF Create
<1>7. ASSUME NEW t \in Tasks, SemGet(t) PROVE TypeOK'
  BY <1>0, <1>7 DEF SemGet
<1>8. ASSUME NEW t \in Tasks, SemMiss(t) PROVE TypeOK'
  BY <1>0, <1>8 DEF SemMiss
<1>9. ASSUME NEW t \in Tasks, SemSet(t) PROVE TypeOK'
  BY <1>0, <1>9 DEF SemSet
<1>10. ASSUME NEW t \in Tasks, Acquire(t) PROVE TypeOK'
  BY <1>0, <1>10 DEF Acquire
<1>11. ASSUME NEW t \in Tasks, Open(t) PROVE TypeOK'
  BY <1>0, <1>11 DEF Open
<1>12. ASSUME NEW t \in Tasks, DupNone(t) PROVE TypeOK'
  BY <1>0, <1>12 DEF DupNone
<1>13. ASSUME NEW t \in Tasks, DupFound(t) PROVE TypeOK'
  <2>1. PICK u \in Tasks : seen' = [seen EXCEPT ![t] = u]
    BY <1>0, <1>13 DEF DupFound, Running
  <2>2. QED
    BY <1>0, <1>13, <2>1 DEF DupFound
<1>14. ASSUME NEW t \in Tasks, DupCancel(t) PROVE TypeOK'
  BY <1>0, <1>14 DEF DupCancel
<1>15. ASSUME NEW t \in Tasks, Load(t) PROVE TypeOK'
  BY <1>0, <1>15, SiteTyped DEF Load
<1>16. ASSUME NEW t \in Tasks, Provision(t) PROVE TypeOK'
  <2>1. site[t] \in Sites /\ gid[site[t]] \in Nat /\ remote[site[t]] \in Nat
    BY <1>0, <1>16, SiteTyped DEF Provision
  <2>2. remote[site[t]] + 1 \in Nat
    BY <1>0, <2>1
  <2>3. copy' \in [Tasks -> Nat] /\ remote' \in [Sites -> Nat]
    BY <1>0, <1>16, <2>1, <2>2 DEF Provision
  <2>4. pc' \in [Tasks -> Pcs]
    BY <1>0, <1>16 DEF Provision
  <2>5. QED
    BY <1>0, <1>16, <2>3, <2>4 DEF Provision
<1>17. ASSUME NEW t \in Tasks, SaveId(t) PROVE TypeOK'
  BY <1>0, <1>17 DEF SaveId
<1>18. ASSUME NEW t \in Tasks, InstallStart(t) PROVE TypeOK'
  BY <1>0, <1>18 DEF InstallStart
<1>19. ASSUME NEW t \in Tasks, NEW res \in {"success", "failed"}, DeployReturn(t, res) PROVE TypeOK'
  BY <1>0, <1>19 DEF DeployReturn
<1>20. ASSUME NEW t \in Tasks, DeployRefused(t) PROVE TypeOK'
  BY <1>0, <1>20 DEF DeployRefused
<1>21. ASSUME NEW t \in Tasks, DeployTimeout(t) PROVE TypeOK'
  BY <1>0, <1>21 DEF DeployTimeout
<1>22. ASSUME NEW t \in Tasks, Complete(t) PROVE TypeOK'
  BY <1>0, <1>22 DEF Complete
<1>23. ASSUME NEW t \in Tasks, SiteSave(t) PROVE TypeOK'
  <2>1. site[t] \in Sites /\ gid[site[t]] \in Nat /\ remote[site[t]] \in Nat
    BY <1>0, <1>23, SiteTyped DEF SiteSave
  <2>2. disturbed' \subseteq Sites
    BY <1>0, <1>23, <2>1 DEF SiteSave
  <2>3. pc' \in [Tasks -> Pcs] /\ gid' \in [Sites -> Nat]
    BY <1>0, <1>23 DEF SiteSave
  <2>4. QED
    BY <1>0, <1>23, <2>2, <2>3 DEF SiteSave
<1>24. ASSUME NEW t \in Tasks, FailRead(t) PROVE TypeOK'
  BY <1>0, <1>24, SiteTyped DEF FailRead
<1>25. ASSUME NEW t \in Tasks, FailComplete(t) PROVE TypeOK'
  BY <1>0, <1>25 DEF FailComplete
<1>26. ASSUME NEW t \in Tasks, ForceFail(t) PROVE TypeOK'
  BY <1>0, <1>26 DEF ForceFail
<1>27. ASSUME NEW t \in Tasks, InstallEnd(t) PROVE TypeOK'
  BY <1>0, <1>27 DEF InstallEnd
<1>28. ASSUME NEW t \in Tasks, CancelTask(t) PROVE TypeOK'
  <2>1. used' \in [cancels : 0..MaxCancels, faults : 0..MaxFaults]
    BY <1>0, <1>28, OneMoreCancel DEF CancelTask, Count, TypeInv
  <2>2. QED
    BY <1>0, <1>28, <2>1, SitesOfTyped DEF CancelTask
<1>29. ASSUME NEW t \in Tasks, GrowOld(t) PROVE TypeOK'
  BY <1>0, <1>29 DEF GrowOld
<1>30. ASSUME NEW t \in Tasks, Raise(t) PROVE TypeOK'
  <2>1. used' \in [cancels : 0..MaxCancels, faults : 0..MaxFaults]
    BY <1>0, <1>30, OneMoreFault DEF Raise, Count, TypeInv
  <2>2. disturbed' \subseteq Sites
    BY <1>0, <1>30, SitesOfTyped, SiteTyped DEF Raise
  <2>3. pc' \in [Tasks -> Pcs]
    BY <1>0, <1>30 DEF Raise
  <2>4. QED
    BY <1>0, <1>30, <2>1, <2>2, <2>3 DEF Raise
<1>31. ASSUME NEW t \in Tasks, RaiseAfterCreate(t) PROVE TypeOK'
  <2>1. used' \in [cancels : 0..MaxCancels, faults : 0..MaxFaults]
    BY <1>0, <1>31, OneMoreFault DEF RaiseAfterCreate, Count, TypeInv
  <2>2. disturbed' \subseteq Sites
    BY <1>0, <1>31, SitesOfTyped, SiteTyped DEF RaiseAfterCreate
  <2>3. pc' \in [Tasks -> Pcs]
    BY <1>0, <1>31 DEF RaiseAfterCreate
  <2>4. remote' \in [Sites -> Nat]
    BY <1>0, <1>31, SiteTyped DEF RaiseAfterCreate
  <2>5. QED
    BY <1>0, <1>31, <2>1, <2>2, <2>3, <2>4 DEF RaiseAfterCreate
<1>32. ASSUME NEW t \in Tasks, RaiseFailing(t) PROVE TypeOK'
  <2>1. used' \in [cancels : 0..MaxCancels, faults : 0..MaxFaults]
    BY <1>0, <1>32, OneMoreFault DEF RaiseFailing, Count, TypeInv
  <2>2. QED
    BY <1>0, <1>32, <2>1, SitesOfTyped DEF RaiseFailing
<1>33. ASSUME NEW t \in Tasks, Die(t) PROVE TypeOK'
  <2>1. used' \in [cancels : 0..MaxCancels, faults : 0..MaxFaults]
    BY <1>0, <1>33, OneMoreFault DEF Die, Count, TypeInv
  <2>2. QED
    BY <1>0, <1>33, <2>1, SitesOfTyped DEF Die
<1>34. ASSUME NEW S \in SUBSET Tasks, Crash(S) PROVE TypeOK'
  <2>1. used' \in [cancels : 0..MaxCancels, faults : 0..MaxFaults]
    BY <1>0, <1>34, OneMoreFault DEF Crash, Count, TypeInv
  <2>2. disturbed' \subseteq Sites
    BY <1>0, <1>34, SitesOfTyped, SiteTyped DEF Crash
  <2>3. pc' \in [Tasks -> Pcs]
    BY <1>0, <1>34 DEF Crash
  <2>4. status' \in [Tasks -> Statuses]
    BY <1>0, <1>34 DEF Crash
  <2>5. QED
    BY <1>0, <1>34, <2>1, <2>2, <2>3, <2>4 DEF Crash
<1>35. ASSUME NEW S \in SUBSET Tasks, PeerStarts(S) PROVE TypeOK'
  <2>1. used' \in [cancels : 0..MaxCancels, faults : 0..MaxFaults]
    BY <1>0, <1>35, OneMoreFault DEF PeerStarts, Count, TypeInv
  <2>2. disturbed' \subseteq Sites
    BY <1>0, <1>35, SitesOfTyped, SiteTyped DEF PeerStarts
  <2>3. pc' \in [Tasks -> Pcs]
    BY <1>0, <1>35 DEF PeerStarts
  <2>4. status' \in [Tasks -> Statuses]
    BY <1>0, <1>35 DEF PeerStarts
  <2>5. QED
    BY <1>0, <1>35, <2>1, <2>2, <2>3, <2>4 DEF PeerStarts
<1>36. CASE UNCHANGED vars
  BY <1>0, <1>36 DEF vars
<1> HIDE DEF TypeOK, Goto, SetStatus, SaveSite, reqVars, taskVars, siteVars,
            Statuses, Results, MaybeTask, NoId, SiteKnown, Pcs, Live, Permitted,
            Executing, Failing, Waiting, Requesting
<1>37. QED
  BY <1>1, <1>2, <1>3, <1>4, <1>5, <1>6, <1>7, <1>8, <1>9, <1>10, <1>11, <1>12,
       <1>13, <1>14, <1>15, <1>16, <1>17, <1>18, <1>19, <1>20, <1>21, <1>22, <1>23,
       <1>24, <1>25, <1>26, <1>27, <1>28, <1>29, <1>30, <1>31, <1>32, <1>33, <1>34,
       <1>35, <1>36
  DEF Next, RequestStep, TaskStep, DeployStep, Fault

\* A row that runs is left to a task, and is settled before the last save.
LEMMA StandingStep == TypeInv /\ [Next]_vars => Standing'
<1> SUFFICES ASSUME TypeInv, [Next]_vars PROVE Standing'
  OBVIOUS
<1> USE DEF Standing, SiteKnown, RunningHasTask, Recorded, TypeOK, TypeInv, Goto,
            SetStatus, taskVars, Pcs, Live, Permitted, Executing, Failing, Waiting,
            Requesting
<1>1. ASSUME NEW t \in Tasks, NEW s \in Sites, Submit(t, s) PROVE Standing'
  BY <1>1 DEF Submit
<1>2. ASSUME NEW t \in Tasks, CheckNone(t) PROVE Standing'
  BY <1>2 DEF CheckNone
<1>3. ASSUME NEW t \in Tasks, CheckBlocked(t) PROVE Standing'
  BY <1>3 DEF CheckBlocked
<1>4. ASSUME NEW t \in Tasks, CheckOld(t) PROVE Standing'
  BY <1>4 DEF CheckOld
<1>5. ASSUME NEW t \in Tasks, Reclaim(t) PROVE Standing'
  BY <1>5 DEF Reclaim
<1>6. ASSUME NEW t \in Tasks, Create(t) PROVE Standing'
  BY <1>6 DEF Create
<1>7. ASSUME NEW t \in Tasks, SemGet(t) PROVE Standing'
  BY <1>7 DEF SemGet
<1>8. ASSUME NEW t \in Tasks, SemMiss(t) PROVE Standing'
  BY <1>8 DEF SemMiss
<1>9. ASSUME NEW t \in Tasks, SemSet(t) PROVE Standing'
  BY <1>9 DEF SemSet
<1>10. ASSUME NEW t \in Tasks, Acquire(t) PROVE Standing'
  BY <1>10 DEF Acquire
<1>11. ASSUME NEW t \in Tasks, Open(t) PROVE Standing'
  BY <1>11 DEF Open
<1>12. ASSUME NEW t \in Tasks, DupNone(t) PROVE Standing'
  BY <1>12 DEF DupNone
<1>13. ASSUME NEW t \in Tasks, DupFound(t) PROVE Standing'
  BY <1>13 DEF DupFound
<1>14. ASSUME NEW t \in Tasks, DupCancel(t) PROVE Standing'
  BY <1>14 DEF DupCancel
<1>15. ASSUME NEW t \in Tasks, Load(t) PROVE Standing'
  BY <1>15 DEF Load
<1>16. ASSUME NEW t \in Tasks, Provision(t) PROVE Standing'
  BY <1>16 DEF Provision
<1>17. ASSUME NEW t \in Tasks, SaveId(t) PROVE Standing'
  BY <1>17 DEF SaveId
<1>18. ASSUME NEW t \in Tasks, InstallStart(t) PROVE Standing'
  BY <1>18 DEF InstallStart
<1>19. ASSUME NEW t \in Tasks, NEW res \in {"success", "failed"}, DeployReturn(t, res) PROVE Standing'
  BY <1>19 DEF DeployReturn
<1>20. ASSUME NEW t \in Tasks, DeployRefused(t) PROVE Standing'
  BY <1>20 DEF DeployRefused
<1>21. ASSUME NEW t \in Tasks, DeployTimeout(t) PROVE Standing'
  BY <1>21 DEF DeployTimeout
<1>22. ASSUME NEW t \in Tasks, Complete(t) PROVE Standing'
  BY <1>22 DEF Complete
<1>23. ASSUME NEW t \in Tasks, SiteSave(t) PROVE Standing'
  BY <1>23 DEF SiteSave
<1>24. ASSUME NEW t \in Tasks, FailRead(t) PROVE Standing'
  BY <1>24 DEF FailRead
<1>25. ASSUME NEW t \in Tasks, FailComplete(t) PROVE Standing'
  BY <1>25 DEF FailComplete
<1>26. ASSUME NEW t \in Tasks, ForceFail(t) PROVE Standing'
  BY <1>26 DEF ForceFail
<1>27. ASSUME NEW t \in Tasks, InstallEnd(t) PROVE Standing'
  BY <1>27 DEF InstallEnd
<1>28. ASSUME NEW t \in Tasks, CancelTask(t) PROVE Standing'
  BY <1>28 DEF CancelTask
<1>29. ASSUME NEW t \in Tasks, GrowOld(t) PROVE Standing'
  BY <1>29 DEF GrowOld
<1>30. ASSUME NEW t \in Tasks, Raise(t) PROVE Standing'
  BY <1>30 DEF Raise
<1>31. ASSUME NEW t \in Tasks, RaiseAfterCreate(t) PROVE Standing'
  BY <1>31 DEF RaiseAfterCreate
<1>32. ASSUME NEW t \in Tasks, RaiseFailing(t) PROVE Standing'
  BY <1>32 DEF RaiseFailing
<1>33. ASSUME NEW t \in Tasks, Die(t) PROVE Standing'
  BY <1>33 DEF Die
<1>34. ASSUME NEW S \in SUBSET Tasks, Crash(S) PROVE Standing'
  BY <1>34 DEF Crash
<1>35. ASSUME NEW S \in SUBSET Tasks, PeerStarts(S) PROVE Standing'
  BY <1>35 DEF PeerStarts
<1>36. CASE UNCHANGED vars
  BY <1>36 DEF vars
<1> HIDE DEF Standing, SiteKnown, RunningHasTask, Recorded, TypeOK, TypeInv, Goto,
            SetStatus, taskVars, Pcs, Live, Permitted, Executing, Failing, Waiting,
            Requesting
<1>37. QED
  BY <1>1, <1>2, <1>3, <1>4, <1>5, <1>6, <1>7, <1>8, <1>9, <1>10, <1>11, <1>12,
       <1>13, <1>14, <1>15, <1>16, <1>17, <1>18, <1>19, <1>20, <1>21, <1>22, <1>23,
       <1>24, <1>25, <1>26, <1>27, <1>28, <1>29, <1>30, <1>31, <1>32, <1>33, <1>34,
       <1>35, <1>36
  DEF Next, RequestStep, TaskStep, DeployStep, Fault

\* The three parts together.
LEMMA TypeInvStep == TypeInv /\ [Next]_vars => TypeInv'
BY TypeStep, StandingStep DEF TypeInv

\* Every variable of the deployments keeps its type.
THEOREM TypeCorrect == Spec => []TypeOK
<1>1. Init => TypeInv
  BY TypeInvInit
<1>2. TypeInv /\ [Next]_vars => TypeInv'
  BY TypeInvStep
<1>3. TypeInv => TypeOK
  BY DEF TypeInv
<1>4. QED
  BY <1>1, <1>2, <1>3, PTL DEF Spec

\* A running row always has a task behind it, or one that was lost: every
\* other way a task ends, those inside _safe_fail included, settles its row.
THEOREM RunningRowsHaveTasks == Spec => []RunningHasTask
<1>1. Init => TypeInv
  BY TypeInvInit
<1>2. TypeInv /\ [Next]_vars => TypeInv'
  BY TypeInvStep
<1>3. TypeInv => RunningHasTask
  BY DEF TypeInv, Standing
<1>4. QED
  BY <1>1, <1>2, <1>3, PTL DEF Spec
(* One deployment at a time.                                               *)

\* Whatever settles rows, the check after the row's creation keeps a second
\* deployment from passing: rows begin to run only at Create, before it.
LEMMA ExclusiveStep == TypeInv /\ ExclusiveDeploy /\ [Next]_vars => ExclusiveDeploy'
<1> SUFFICES ASSUME TypeInv /\ ExclusiveDeploy, [Next]_vars PROVE ExclusiveDeploy'
  OBVIOUS
<1> USE DEF ExclusiveDeploy, TypeInv, TypeOK, Standing, SiteKnown, RunningHasTask,
            Running, Goto, SetStatus, reqVars, taskVars, siteVars, Pcs, Live,
            Permitted, Executing, Failing, Waiting, Requesting
<1>1. ASSUME NEW t \in Tasks, NEW s \in Sites, Submit(t, s) PROVE ExclusiveDeploy'
  BY <1>1 DEF Submit
<1>2. ASSUME NEW t \in Tasks, CheckNone(t) PROVE ExclusiveDeploy'
  BY <1>2 DEF CheckNone
<1>3. ASSUME NEW t \in Tasks, CheckBlocked(t) PROVE ExclusiveDeploy'
  BY <1>3 DEF CheckBlocked
<1>4. ASSUME NEW t \in Tasks, CheckOld(t) PROVE ExclusiveDeploy'
  BY <1>4 DEF CheckOld
<1>5. ASSUME NEW t \in Tasks, Reclaim(t) PROVE ExclusiveDeploy'
  BY <1>5 DEF Reclaim
<1>6. ASSUME NEW t \in Tasks, Create(t) PROVE ExclusiveDeploy'
  BY <1>6 DEF Create
<1>7. ASSUME NEW t \in Tasks, SemGet(t) PROVE ExclusiveDeploy'
  BY <1>7 DEF SemGet
<1>8. ASSUME NEW t \in Tasks, SemMiss(t) PROVE ExclusiveDeploy'
  BY <1>8 DEF SemMiss
<1>9. ASSUME NEW t \in Tasks, SemSet(t) PROVE ExclusiveDeploy'
  BY <1>9 DEF SemSet
<1>10. ASSUME NEW t \in Tasks, Acquire(t) PROVE ExclusiveDeploy'
  BY <1>10 DEF Acquire
<1>11. ASSUME NEW t \in Tasks, Open(t) PROVE ExclusiveDeploy'
  BY <1>11 DEF Open
<1>12. ASSUME NEW t \in Tasks, DupNone(t) PROVE ExclusiveDeploy'
  BY <1>12 DEF DupNone
<1>13. ASSUME NEW t \in Tasks, DupFound(t) PROVE ExclusiveDeploy'
  BY <1>13 DEF DupFound
<1>14. ASSUME NEW t \in Tasks, DupCancel(t) PROVE ExclusiveDeploy'
  BY <1>14 DEF DupCancel
<1>15. ASSUME NEW t \in Tasks, Load(t) PROVE ExclusiveDeploy'
  BY <1>15 DEF Load
<1>16. ASSUME NEW t \in Tasks, Provision(t) PROVE ExclusiveDeploy'
  BY <1>16 DEF Provision
<1>17. ASSUME NEW t \in Tasks, SaveId(t) PROVE ExclusiveDeploy'
  BY <1>17 DEF SaveId
<1>18. ASSUME NEW t \in Tasks, InstallStart(t) PROVE ExclusiveDeploy'
  BY <1>18 DEF InstallStart
<1>19. ASSUME NEW t \in Tasks, NEW res \in {"success", "failed"}, DeployReturn(t, res) PROVE ExclusiveDeploy'
  BY <1>19 DEF DeployReturn
<1>20. ASSUME NEW t \in Tasks, DeployRefused(t) PROVE ExclusiveDeploy'
  BY <1>20 DEF DeployRefused
<1>21. ASSUME NEW t \in Tasks, DeployTimeout(t) PROVE ExclusiveDeploy'
  BY <1>21 DEF DeployTimeout
<1>22. ASSUME NEW t \in Tasks, Complete(t) PROVE ExclusiveDeploy'
  BY <1>22 DEF Complete
<1>23. ASSUME NEW t \in Tasks, SiteSave(t) PROVE ExclusiveDeploy'
  BY <1>23 DEF SiteSave
<1>24. ASSUME NEW t \in Tasks, FailRead(t) PROVE ExclusiveDeploy'
  BY <1>24 DEF FailRead
<1>25. ASSUME NEW t \in Tasks, FailComplete(t) PROVE ExclusiveDeploy'
  BY <1>25 DEF FailComplete
<1>26. ASSUME NEW t \in Tasks, ForceFail(t) PROVE ExclusiveDeploy'
  BY <1>26 DEF ForceFail
<1>27. ASSUME NEW t \in Tasks, InstallEnd(t) PROVE ExclusiveDeploy'
  BY <1>27 DEF InstallEnd
<1>28. ASSUME NEW t \in Tasks, CancelTask(t) PROVE ExclusiveDeploy'
  BY <1>28 DEF CancelTask
<1>29. ASSUME NEW t \in Tasks, GrowOld(t) PROVE ExclusiveDeploy'
  BY <1>29 DEF GrowOld
<1>30. ASSUME NEW t \in Tasks, Raise(t) PROVE ExclusiveDeploy'
  BY <1>30 DEF Raise
<1>31. ASSUME NEW t \in Tasks, RaiseAfterCreate(t) PROVE ExclusiveDeploy'
  BY <1>31 DEF RaiseAfterCreate
<1>32. ASSUME NEW t \in Tasks, RaiseFailing(t) PROVE ExclusiveDeploy'
  BY <1>32 DEF RaiseFailing
<1>33. ASSUME NEW t \in Tasks, Die(t) PROVE ExclusiveDeploy'
  BY <1>33 DEF Die
<1>34. ASSUME NEW S \in SUBSET Tasks, Crash(S) PROVE ExclusiveDeploy'
  BY <1>34 DEF Crash
<1>35. ASSUME NEW S \in SUBSET Tasks, PeerStarts(S) PROVE ExclusiveDeploy'
  BY <1>35 DEF PeerStarts
<1>36. CASE UNCHANGED vars
  BY <1>36 DEF vars
<1> HIDE DEF ExclusiveDeploy, TypeInv, TypeOK, Standing, SiteKnown, RunningHasTask,
            Running, Goto, SetStatus, reqVars, taskVars, siteVars, Pcs, Live,
            Permitted, Executing, Failing, Waiting, Requesting
<1>37. QED
  BY <1>1, <1>2, <1>3, <1>4, <1>5, <1>6, <1>7, <1>8, <1>9, <1>10, <1>11, <1>12,
       <1>13, <1>14, <1>15, <1>16, <1>17, <1>18, <1>19, <1>20, <1>21, <1>22, <1>23,
       <1>24, <1>25, <1>26, <1>27, <1>28, <1>29, <1>30, <1>31, <1>32, <1>33, <1>34,
       <1>35, <1>36
  DEF Next, RequestStep, TaskStep, DeployStep, Fault

\* No two tasks that deploy to one site both have a running row, for any
\* number of submissions, sites and permits.
THEOREM DeploymentsAreExclusive == Spec => []ExclusiveDeploy
<1> DEFINE Inv == TypeInv /\ ExclusiveDeploy
<1>1. Init => Inv
  BY TypeInvInit DEF Init, ExclusiveDeploy, Executing
<1>2. Inv /\ [Next]_vars => Inv'
  BY TypeInvStep, ExclusiveStep
<1>3. Inv => ExclusiveDeploy
  OBVIOUS
<1>4. QED
  BY <1>1, <1>2, <1>3, PTL DEF Spec
(* The site on the gateway.                                                *)

\* A request that is to reclaim a row has read a row of its own site.
SeenStarted ==
    \A t \in Tasks : pc[t] = "reclaim" =>
        seen[t] \in Tasks /\ site[seen[t]] = site[t] /\ pc[seen[t]] # "idle"

Working == Executing \ {"sitesave"}

\* On a site nobody disturbed a task's row runs until the task settles it.
UndisturbedRuns ==
    \A t \in Tasks :
        site[t] \notin disturbed /\ pc[t] \in Waiting \cup {"open", "dup"} \cup Working =>
            status[t] = "running"

\* The row a working task holds is the one in the table,
CopyCurrent ==
    \A t \in Tasks :
        site[t] \notin disturbed /\ pc[t] \in {"provision", "deploy", "install", "complete"} =>
            copy[t] = gid[site[t]]

\* and the id it is about to save is the site's first.
SaveIdFirst ==
    \A t \in Tasks :
        site[t] \notin disturbed /\ pc[t] = "savegid" =>
            gid[site[t]] = NoId /\ remote[site[t]] = 1 /\ copy[t] = 1

RunsInv == TypeInv /\ ExclusiveDeploy /\ SeenStarted /\ UndisturbedRuns
GateInv == CopyCurrent /\ SaveIdFirst /\ GatewaySiteRecorded

\* The row to be reclaimed stays a row of the request's site.
LEMMA SeenStep == TypeInv /\ SeenStarted /\ [Next]_vars => SeenStarted'
<1> SUFFICES ASSUME TypeInv /\ SeenStarted, [Next]_vars PROVE SeenStarted'
  OBVIOUS
<1> USE DEF SeenStarted, TypeInv, TypeOK, Standing, SiteKnown, RunningHasTask,
            Running, Goto, SetStatus, reqVars, taskVars, siteVars, Pcs, Live,
            Permitted, Executing, Failing, Waiting, Requesting
<1>1. ASSUME NEW t \in Tasks, NEW s \in Sites, Submit(t, s) PROVE SeenStarted'
  BY <1>1 DEF Submit
<1>2. ASSUME NEW t \in Tasks, CheckNone(t) PROVE SeenStarted'
  BY <1>2 DEF CheckNone
<1>3. ASSUME NEW t \in Tasks, CheckBlocked(t) PROVE SeenStarted'
  BY <1>3 DEF CheckBlocked
<1>4. ASSUME NEW t \in Tasks, CheckOld(t) PROVE SeenStarted'
  BY <1>4 DEF CheckOld
<1>5. ASSUME NEW t \in Tasks, Reclaim(t) PROVE SeenStarted'
  BY <1>5 DEF Reclaim
<1>6. ASSUME NEW t \in Tasks, Create(t) PROVE SeenStarted'
  BY <1>6 DEF Create
<1>7. ASSUME NEW t \in Tasks, SemGet(t) PROVE SeenStarted'
  BY <1>7 DEF SemGet
<1>8. ASSUME NEW t \in Tasks, SemMiss(t) PROVE SeenStarted'
  BY <1>8 DEF SemMiss
<1>9. ASSUME NEW t \in Tasks, SemSet(t) PROVE SeenStarted'
  BY <1>9 DEF SemSet
<1>10. ASSUME NEW t \in Tasks, Acquire(t) PROVE SeenStarted'
  BY <1>10 DEF Acquire
<1>11. ASSUME NEW t \in Tasks, Open(t) PROVE SeenStarted'
  BY <1>11 DEF Open
<1>12. ASSUME NEW t \in Tasks, DupNone(t) PROVE SeenStarted'
  BY <1>12 DEF DupNone
<1>13. ASSUME NEW t \in Tasks, DupFound(t) PROVE SeenStarted'
  BY <1>13 DEF DupFound
<1>14. ASSUME NEW t \in Tasks, DupCancel(t) PROVE SeenStarted'
  BY <1>14 DEF DupCancel
<1>15. ASSUME NEW t \in Tasks, Load(t) PROVE SeenStarted'
  BY <1>15 DEF Load
<1>16. ASSUME NEW t \in Tasks, Provision(t) PROVE SeenStarted'
  BY <1>16 DEF Provision
<1>17. ASSUME NEW t \in Tasks, SaveId(t) PROVE SeenStarted'
  BY <1>17 DEF SaveId
<1>18. ASSUME NEW t \in Tasks, InstallStart(t) PROVE SeenStarted'
  BY <1>18 DEF InstallStart
<1>19. ASSUME NEW t \in Tasks, NEW res \in {"success", "failed"}, DeployReturn(t, res) PROVE SeenStarted'
  BY <1>19 DEF DeployReturn
<1>20. ASSUME NEW t \in Tasks, DeployRefused(t) PROVE SeenStarted'
  BY <1>20 DEF DeployRefused
<1>21. ASSUME NEW t \in Tasks, DeployTimeout(t) PROVE SeenStarted'
  BY <1>21 DEF DeployTimeout
<1>22. ASSUME NEW t \in Tasks, Complete(t) PROVE SeenStarted'
  BY <1>22 DEF Complete
<1>23. ASSUME NEW t \in Tasks, SiteSave(t) PROVE SeenStarted'
  BY <1>23 DEF SiteSave
<1>24. ASSUME NEW t \in Tasks, FailRead(t) PROVE SeenStarted'
  BY <1>24 DEF FailRead
<1>25. ASSUME NEW t \in Tasks, FailComplete(t) PROVE SeenStarted'
  BY <1>25 DEF FailComplete
<1>26. ASSUME NEW t \in Tasks, ForceFail(t) PROVE SeenStarted'
  BY <1>26 DEF ForceFail
<1>27. ASSUME NEW t \in Tasks, InstallEnd(t) PROVE SeenStarted'
  BY <1>27 DEF InstallEnd
<1>28. ASSUME NEW t \in Tasks, CancelTask(t) PROVE SeenStarted'
  BY <1>28 DEF CancelTask
<1>29. ASSUME NEW t \in Tasks, GrowOld(t) PROVE SeenStarted'
  BY <1>29 DEF GrowOld
<1>30. ASSUME NEW t \in Tasks, Raise(t) PROVE SeenStarted'
  BY <1>30 DEF Raise
<1>31. ASSUME NEW t \in Tasks, RaiseAfterCreate(t) PROVE SeenStarted'
  BY <1>31 DEF RaiseAfterCreate
<1>32. ASSUME NEW t \in Tasks, RaiseFailing(t) PROVE SeenStarted'
  BY <1>32 DEF RaiseFailing
<1>33. ASSUME NEW t \in Tasks, Die(t) PROVE SeenStarted'
  BY <1>33 DEF Die
<1>34. ASSUME NEW S \in SUBSET Tasks, Crash(S) PROVE SeenStarted'
  BY <1>34 DEF Crash
<1>35. ASSUME NEW S \in SUBSET Tasks, PeerStarts(S) PROVE SeenStarted'
  BY <1>35 DEF PeerStarts
<1>36. CASE UNCHANGED vars
  BY <1>36 DEF vars
<1> HIDE DEF SeenStarted, TypeInv, TypeOK, Standing, SiteKnown, RunningHasTask,
            Running, Goto, SetStatus, reqVars, taskVars, siteVars, Pcs, Live,
            Permitted, Executing, Failing, Waiting, Requesting
<1>37. QED
  BY <1>1, <1>2, <1>3, <1>4, <1>5, <1>6, <1>7, <1>8, <1>9, <1>10, <1>11, <1>12,
       <1>13, <1>14, <1>15, <1>16, <1>17, <1>18, <1>19, <1>20, <1>21, <1>22, <1>23,
       <1>24, <1>25, <1>26, <1>27, <1>28, <1>29, <1>30, <1>31, <1>32, <1>33, <1>34,
       <1>35, <1>36
  DEF Next, RequestStep, TaskStep, DeployStep, Fault

\* Only a disturbance settles the row of a task that has not completed.
LEMMA UndisturbedStep == RunsInv /\ [Next]_vars => UndisturbedRuns'
<1> SUFFICES ASSUME RunsInv, [Next]_vars PROVE UndisturbedRuns'
  OBVIOUS
<1> USE DEF UndisturbedRuns, RunsInv, SeenStarted, TypeInv, TypeOK, Standing,
            SiteKnown, RunningHasTask, Running, SitesOf, Working, Goto, SetStatus,
            reqVars, taskVars, siteVars, Pcs, Live, Permitted, Executing, Failing,
            Waiting, Requesting
<1>1. ASSUME NEW t \in Tasks, NEW s \in Sites, Submit(t, s) PROVE UndisturbedRuns'
  BY <1>1 DEF Submit
<1>2. ASSUME NEW t \in Tasks, CheckNone(t) PROVE UndisturbedRuns'
  BY <1>2 DEF CheckNone
<1>3. ASSUME NEW t \in Tasks, CheckBlocked(t) PROVE UndisturbedRuns'
  BY <1>3 DEF CheckBlocked
<1>4. ASSUME NEW t \in Tasks, CheckOld(t) PROVE UndisturbedRuns'
  BY <1>4 DEF CheckOld
<1>5. ASSUME NEW t \in Tasks, Reclaim(t) PROVE UndisturbedRuns'
  BY <1>5 DEF Reclaim
<1>6. ASSUME NEW t \in Tasks, Create(t) PROVE UndisturbedRuns'
  BY <1>6 DEF Create
<1>7. ASSUME NEW t \in Tasks, SemGet(t) PROVE UndisturbedRuns'
  BY <1>7 DEF SemGet
<1>8. ASSUME NEW t \in Tasks, SemMiss(t) PROVE UndisturbedRuns'
  BY <1>8 DEF SemMiss
<1>9. ASSUME NEW t \in Tasks, SemSet(t) PROVE UndisturbedRuns'
  BY <1>9 DEF SemSet
<1>10. ASSUME NEW t \in Tasks, Acquire(t) PROVE UndisturbedRuns'
  BY <1>10 DEF Acquire
<1>11. ASSUME NEW t \in Tasks, Open(t) PROVE UndisturbedRuns'
  BY <1>11 DEF Open
<1>12. ASSUME NEW t \in Tasks, DupNone(t) PROVE UndisturbedRuns'
  BY <1>12 DEF DupNone
<1>13. ASSUME NEW t \in Tasks, DupFound(t) PROVE UndisturbedRuns'
  BY <1>13 DEF DupFound
<1>14. ASSUME NEW t \in Tasks, DupCancel(t) PROVE UndisturbedRuns'
  BY <1>14 DEF DupCancel
<1>15. ASSUME NEW t \in Tasks, Load(t) PROVE UndisturbedRuns'
  BY <1>15 DEF Load
<1>16. ASSUME NEW t \in Tasks, Provision(t) PROVE UndisturbedRuns'
  BY <1>16 DEF Provision
<1>17. ASSUME NEW t \in Tasks, SaveId(t) PROVE UndisturbedRuns'
  BY <1>17 DEF SaveId
<1>18. ASSUME NEW t \in Tasks, InstallStart(t) PROVE UndisturbedRuns'
  BY <1>18 DEF InstallStart
<1>19. ASSUME NEW t \in Tasks, NEW res \in {"success", "failed"}, DeployReturn(t, res) PROVE UndisturbedRuns'
  BY <1>19 DEF DeployReturn
<1>20. ASSUME NEW t \in Tasks, DeployRefused(t) PROVE UndisturbedRuns'
  BY <1>20 DEF DeployRefused
<1>21. ASSUME NEW t \in Tasks, DeployTimeout(t) PROVE UndisturbedRuns'
  BY <1>21 DEF DeployTimeout
<1>22. ASSUME NEW t \in Tasks, Complete(t) PROVE UndisturbedRuns'
  BY <1>22 DEF Complete
<1>23. ASSUME NEW t \in Tasks, SiteSave(t) PROVE UndisturbedRuns'
  BY <1>23 DEF SiteSave
<1>24. ASSUME NEW t \in Tasks, FailRead(t) PROVE UndisturbedRuns'
  BY <1>24 DEF FailRead
<1>25. ASSUME NEW t \in Tasks, FailComplete(t) PROVE UndisturbedRuns'
  BY <1>25 DEF FailComplete
<1>26. ASSUME NEW t \in Tasks, ForceFail(t) PROVE UndisturbedRuns'
  BY <1>26 DEF ForceFail
<1>27. ASSUME NEW t \in Tasks, InstallEnd(t) PROVE UndisturbedRuns'
  BY <1>27 DEF InstallEnd
<1>28. ASSUME NEW t \in Tasks, CancelTask(t) PROVE UndisturbedRuns'
  BY <1>28 DEF CancelTask
<1>29. ASSUME NEW t \in Tasks, GrowOld(t) PROVE UndisturbedRuns'
  BY <1>29 DEF GrowOld
<1>30. ASSUME NEW t \in Tasks, Raise(t) PROVE UndisturbedRuns'
  BY <1>30 DEF Raise
<1>31. ASSUME NEW t \in Tasks, RaiseAfterCreate(t) PROVE UndisturbedRuns'
  BY <1>31 DEF RaiseAfterCreate
<1>32. ASSUME NEW t \in Tasks, RaiseFailing(t) PROVE UndisturbedRuns'
  BY <1>32 DEF RaiseFailing
<1>33. ASSUME NEW t \in Tasks, Die(t) PROVE UndisturbedRuns'
  BY <1>33 DEF Die
<1>34. ASSUME NEW S \in SUBSET Tasks, Crash(S) PROVE UndisturbedRuns'
  BY <1>34 DEF Crash
<1>35. ASSUME NEW S \in SUBSET Tasks, PeerStarts(S) PROVE UndisturbedRuns'
  BY <1>35 DEF PeerStarts
<1>36. CASE UNCHANGED vars
  BY <1>36 DEF vars
<1> HIDE DEF UndisturbedRuns, RunsInv, SeenStarted, TypeInv, TypeOK, Standing,
            SiteKnown, RunningHasTask, Running, SitesOf, Working, Goto, SetStatus,
            reqVars, taskVars, siteVars, Pcs, Live, Permitted, Executing, Failing,
            Waiting, Requesting
<1>37. QED
  BY <1>1, <1>2, <1>3, <1>4, <1>5, <1>6, <1>7, <1>8, <1>9, <1>10, <1>11, <1>12,
       <1>13, <1>14, <1>15, <1>16, <1>17, <1>18, <1>19, <1>20, <1>21, <1>22, <1>23,
       <1>24, <1>25, <1>26, <1>27, <1>28, <1>29, <1>30, <1>31, <1>32, <1>33, <1>34,
       <1>35, <1>36
  DEF Next, RequestStep, TaskStep, DeployStep, Fault

\* The only task working on an undisturbed site changes its id, and a late
\* save that would change it too disturbs the site.
LEMMA GateStep == RunsInv /\ GateInv /\ [Next]_vars => GateInv'
<1> SUFFICES ASSUME RunsInv /\ GateInv, [Next]_vars PROVE GateInv'
  OBVIOUS
<1> USE DEF GateInv, CopyCurrent, SaveIdFirst, GatewaySiteRecorded, ExclusiveDeploy,
            UndisturbedRuns, RunsInv, TypeInv, TypeOK, Standing, SiteKnown,
            RunningHasTask, Running, SitesOf, Working, NoId, SaveSite, Goto,
            SetStatus, reqVars, taskVars, siteVars, Pcs, Live, Permitted, Executing,
            Failing, Waiting, Requesting
<1>1. ASSUME NEW t \in Tasks, NEW s \in Sites, Submit(t, s) PROVE GateInv'
  BY <1>1 DEF Submit
<1>2. ASSUME NEW t \in Tasks, CheckNone(t) PROVE GateInv'
  BY <1>2 DEF CheckNone
<1>3. ASSUME NEW t \in Tasks, CheckBlocked(t) PROVE GateInv'
  BY <1>3 DEF CheckBlocked
<1>4. ASSUME NEW t \in Tasks, CheckOld(t) PROVE GateInv'
  BY <1>4 DEF CheckOld
<1>5. ASSUME NEW t \in Tasks, Reclaim(t) PROVE GateInv'
  BY <1>5 DEF Reclaim
<1>6. ASSUME NEW t \in Tasks, Create(t) PROVE GateInv'
  BY <1>6 DEF Create
<1>7. ASSUME NEW t \in Tasks, SemGet(t) PROVE GateInv'
  BY <1>7 DEF SemGet
<1>8. ASSUME NEW t \in Tasks, SemMiss(t) PROVE GateInv'
  BY <1>8 DEF SemMiss
<1>9. ASSUME NEW t \in Tasks, SemSet(t) PROVE GateInv'
  BY <1>9 DEF SemSet
<1>10. ASSUME NEW t \in Tasks, Acquire(t) PROVE GateInv'
  BY <1>10 DEF Acquire
<1>11. ASSUME NEW t \in Tasks, Open(t) PROVE GateInv'
  BY <1>11 DEF Open
<1>12. ASSUME NEW t \in Tasks, DupNone(t) PROVE GateInv'
  BY <1>12 DEF DupNone
<1>13. ASSUME NEW t \in Tasks, DupFound(t) PROVE GateInv'
  BY <1>13 DEF DupFound
<1>14. ASSUME NEW t \in Tasks, DupCancel(t) PROVE GateInv'
  BY <1>14 DEF DupCancel
<1>15. ASSUME NEW t \in Tasks, Load(t) PROVE GateInv'
  BY <1>15 DEF Load
<1>16. ASSUME NEW t \in Tasks, Provision(t) PROVE GateInv'
  BY <1>16 DEF Provision
<1>17. ASSUME NEW t \in Tasks, SaveId(t) PROVE GateInv'
  BY <1>17 DEF SaveId
<1>18. ASSUME NEW t \in Tasks, InstallStart(t) PROVE GateInv'
  BY <1>18 DEF InstallStart
<1>19. ASSUME NEW t \in Tasks, NEW res \in {"success", "failed"}, DeployReturn(t, res) PROVE GateInv'
  BY <1>19 DEF DeployReturn
<1>20. ASSUME NEW t \in Tasks, DeployRefused(t) PROVE GateInv'
  BY <1>20 DEF DeployRefused
<1>21. ASSUME NEW t \in Tasks, DeployTimeout(t) PROVE GateInv'
  BY <1>21 DEF DeployTimeout
<1>22. ASSUME NEW t \in Tasks, Complete(t) PROVE GateInv'
  BY <1>22 DEF Complete
<1>23. ASSUME NEW t \in Tasks, SiteSave(t) PROVE GateInv'
  BY <1>23 DEF SiteSave
<1>24. ASSUME NEW t \in Tasks, FailRead(t) PROVE GateInv'
  BY <1>24 DEF FailRead
<1>25. ASSUME NEW t \in Tasks, FailComplete(t) PROVE GateInv'
  BY <1>25 DEF FailComplete
<1>26. ASSUME NEW t \in Tasks, ForceFail(t) PROVE GateInv'
  BY <1>26 DEF ForceFail
<1>27. ASSUME NEW t \in Tasks, InstallEnd(t) PROVE GateInv'
  BY <1>27 DEF InstallEnd
<1>28. ASSUME NEW t \in Tasks, CancelTask(t) PROVE GateInv'
  BY <1>28 DEF CancelTask
<1>29. ASSUME NEW t \in Tasks, GrowOld(t) PROVE GateInv'
  BY <1>29 DEF GrowOld
<1>30. ASSUME NEW t \in Tasks, Raise(t) PROVE GateInv'
  BY <1>30 DEF Raise
<1>31. ASSUME NEW t \in Tasks, RaiseAfterCreate(t) PROVE GateInv'
  BY <1>31 DEF RaiseAfterCreate
<1>32. ASSUME NEW t \in Tasks, RaiseFailing(t) PROVE GateInv'
  BY <1>32 DEF RaiseFailing
<1>33. ASSUME NEW t \in Tasks, Die(t) PROVE GateInv'
  BY <1>33 DEF Die
<1>34. ASSUME NEW S \in SUBSET Tasks, Crash(S) PROVE GateInv'
  BY <1>34 DEF Crash
<1>35. ASSUME NEW S \in SUBSET Tasks, PeerStarts(S) PROVE GateInv'
  BY <1>35 DEF PeerStarts
<1>36. CASE UNCHANGED vars
  BY <1>36 DEF vars
<1> HIDE DEF GateInv, CopyCurrent, SaveIdFirst, GatewaySiteRecorded,
            ExclusiveDeploy, UndisturbedRuns, RunsInv, TypeInv, TypeOK, Standing,
            SiteKnown, RunningHasTask, Running, SitesOf, Working, NoId, SaveSite,
            Goto, SetStatus, reqVars, taskVars, siteVars, Pcs, Live, Permitted,
            Executing, Failing, Waiting, Requesting
<1>37. QED
  BY <1>1, <1>2, <1>3, <1>4, <1>5, <1>6, <1>7, <1>8, <1>9, <1>10, <1>11, <1>12,
       <1>13, <1>14, <1>15, <1>16, <1>17, <1>18, <1>19, <1>20, <1>21, <1>22, <1>23,
       <1>24, <1>25, <1>26, <1>27, <1>28, <1>29, <1>30, <1>31, <1>32, <1>33, <1>34,
       <1>35, <1>36
  DEF Next, RequestStep, TaskStep, DeployStep, Fault

\* On every site that nobody disturbed the gateway holds at most one site, and
\* its id is in the site's row or about to be saved there.
THEOREM GatewaySitesAreRecorded == Spec => []GatewaySiteRecorded
<1> DEFINE Inv == RunsInv /\ GateInv
<1>1. Init => Inv
  <2> SUFFICES ASSUME Init PROVE Inv
    OBVIOUS
  <2>1. RunsInv
    BY TypeInvInit
    DEF Init, RunsInv, ExclusiveDeploy, SeenStarted, UndisturbedRuns, Waiting, Working, Executing
  <2>2. GateInv
    BY DEF Init, GateInv, CopyCurrent, SaveIdFirst, GatewaySiteRecorded, NoId
  <2>3. QED
    BY <2>1, <2>2
<1>2. Inv /\ [Next]_vars => Inv'
  BY TypeInvStep, ExclusiveStep, SeenStep, UndisturbedStep, GateStep DEF RunsInv
<1>3. Inv => GatewaySiteRecorded
  BY DEF GateInv
<1>4. QED
  BY <1>1, <1>2, <1>3, PTL DEF Spec

(* ---------------------------- filters of lines --------------------------- *)

\* A non-empty set of naturals has a least element.
LEMMA HasLeast ==
    ASSUME NEW S \in SUBSET Nat, S # {}
    PROVE  \E x \in S : \A y \in S : x <= y
<1> DEFINE Less == OpToRel(<, Nat)
<1>1. \A x, y \in Nat : <<y, x>> \in Less <=> y < x
  BY DEF OpToRel
<1>2. IsWellFoundedOn(Less, Nat)
  BY NatLessThanWellFounded
<1> HIDE DEF Less
<1>3. PICK x \in S : \A y \in S : ~ (<<y, x>> \in Less)
  BY <1>2, WFMin
<1>4. ASSUME NEW y \in S PROVE x <= y
  <2>1. x \in Nat /\ y \in Nat
    OBVIOUS
  <2>2. ~ (y < x)
    BY <2>1, <1>1, <1>3
  <2>3. QED
    BY <2>1, <2>2
<1>5. QED
  BY <1>4

\* Induction over 0..n, as a set of numbers: one that has 0 and with every
\* number below n the next is all of it.
LEMMA UpTo ==
    ASSUME NEW n \in Nat, NEW S, 0 \in S,
           \A i \in 0..n : i # n /\ i \in S => i + 1 \in S
    PROVE  \A i \in 0..n : i \in S
<1> DEFINE Out == {i \in 0..n : i \notin S}
<1>1. SUFFICES ASSUME Out # {} PROVE FALSE
  OBVIOUS
<1>2. Out \in SUBSET Nat
  OBVIOUS
<1> HIDE DEF Out
<1>3. PICK x \in Out : \A y \in Out : x <= y
  BY <1>1, <1>2, HasLeast
<1> USE DEF Out
<1>4. x \in 0..n /\ x \notin S /\ x # 0
  OBVIOUS
<1>5. x - 1 \in 0..n /\ x - 1 # n /\ x - 1 \in S
  BY <1>3, <1>4
<1>6. QED
  BY <1>4, <1>5

\* One line of a filter.
Keep(s, kinds, f, i) ==
    IF i = 0 THEN <<>> ELSE IF s[i] \in kinds THEN f[i - 1] ELSE Append(f[i - 1], s[i])

\* The filter of FangyuConf is the function its recursion describes.
LEMMA KeptIs ==
    ASSUME NEW s, NEW kinds, Len(s) \in Nat
    PROVE  Kept(s, kinds) = [i \in 0..Len(s) |-> Keep(s, kinds, Kept(s, kinds), i)]
<1> DEFINE Good(n) == \E f : f = [i \in 0..n |-> Keep(s, kinds, f, i)]
           S == {n \in 0..Len(s) : Good(n)}
<1>1. Good(0)
  <2> DEFINE f == [i \in 0..0 |-> <<>>]
  <2>1. f = [i \in 0..0 |-> Keep(s, kinds, f, i)]
    BY DEF Keep
  <2>2. QED
    BY <2>1
<1>2. ASSUME NEW n \in 0..Len(s), n # Len(s), Good(n) PROVE Good(n + 1)
  <2>1. PICK g : g = [i \in 0..n |-> Keep(s, kinds, g, i)]
    BY <1>2
  <2> DEFINE f == [i \in 0..(n + 1) |-> IF i = n + 1 THEN Keep(s, kinds, g, i) ELSE g[i]]
  <2>2. ASSUME NEW i \in 0..(n + 1) PROVE f[i] = Keep(s, kinds, f, i)
    <3>1. Keep(s, kinds, f, i) = Keep(s, kinds, g, i)
      <4>1. i = 0 \/ f[i - 1] = g[i - 1]
        OBVIOUS
      <4>2. QED
        BY <4>1 DEF Keep
    <3>2. i = n + 1 \/ g[i] = Keep(s, kinds, g, i)
      BY <2>1
    <3>3. QED
      BY <3>1, <3>2
  <2>3. f = [i \in 0..(n + 1) |-> Keep(s, kinds, f, i)]
    BY <2>2
  <2>4. QED
    BY <2>3
<1>3. 0 \in S /\ \A i \in 0..Len(s) : i # Len(s) /\ i \in S => i + 1 \in S
  BY <1>1, <1>2
<1> HIDE DEF S
<1>4. \A i \in 0..Len(s) : i \in S
  BY <1>3, UpTo
<1>5. Good(Len(s))
  BY <1>4 DEF S
<1>6. Kept(s, kinds) = CHOOSE f : f = [i \in 0..Len(s) |-> Keep(s, kinds, f, i)]
  BY DEF Kept, Keep
<1>7. QED
  BY <1>5, <1>6

\* Its first value, and each from the one before.
LEMMA KeptSteps ==
    ASSUME NEW s, NEW kinds, Len(s) \in Nat
    PROVE  /\ Kept(s, kinds)[0] = <<>>
           /\ \A i \in 0..Len(s) : i # Len(s) =>
                Kept(s, kinds)[i + 1] = IF s[i + 1] \in kinds THEN Kept(s, kinds)[i]
                                        ELSE Append(Kept(s, kinds)[i], s[i + 1])
<1> DEFINE K == Kept(s, kinds)
<1>1. K = [i \in 0..Len(s) |-> Keep(s, kinds, K, i)]
  BY KeptIs
<1> HIDE DEF K
<1>2. \A i \in 0..Len(s) : K[i] = Keep(s, kinds, K, i)
  BY <1>1
<1>3. K[0] = <<>>
  BY <1>2 DEF Keep
<1>4. ASSUME NEW i \in 0..Len(s), i # Len(s)
      PROVE  K[i + 1] = IF s[i + 1] \in kinds THEN K[i] ELSE Append(K[i], s[i + 1])
  <2>1. i + 1 \in 0..Len(s) /\ i + 1 # 0 /\ i + 1 - 1 = i
    BY <1>4
  <2>2. K[i + 1] = Keep(s, kinds, K, i + 1)
    BY <1>2, <2>1
  <2>3. /\ s[i + 1] \in kinds => K[i + 1] = K[i]
        /\ s[i + 1] \notin kinds => K[i + 1] = Append(K[i], s[i + 1])
    BY <2>1, <2>2 DEF Keep
  <2>4. QED
    BY <2>3, Zenon
<1>5. QED
  BY <1>3, <1>4, Zenon DEF K

\* A filter leaves lines, and none of the kinds it drops.
LEMMA WithoutLines ==
    ASSUME NEW s \in Seq(Lines), NEW kinds
    PROVE  Without(s, kinds) \in Seq(Lines \ kinds)
<1> DEFINE K == Kept(s, kinds)
           S == {i \in 0..Len(s) : K[i] \in Seq(Lines \ kinds)}
<1>1. Len(s) \in Nat /\ 0 \in 0..Len(s) /\ Len(s) \in 0..Len(s)
  OBVIOUS
<1>2. /\ K[0] = <<>>
      /\ \A i \in 0..Len(s) : i # Len(s) =>
           K[i + 1] = IF s[i + 1] \in kinds THEN K[i] ELSE Append(K[i], s[i + 1])
  BY <1>1, KeptSteps, ZenonT(40)
<1> HIDE DEF K
<1>3. 0 \in S
  BY <1>1, <1>2, EmptySeq, Zenon
<1>4. ASSUME NEW i \in 0..Len(s), i # Len(s), i \in S PROVE i + 1 \in S
  <2>1. i + 1 \in 0..Len(s) /\ s[i + 1] \in Lines
    BY <1>4
  <2>2. K[i + 1] = IF s[i + 1] \in kinds THEN K[i] ELSE Append(K[i], s[i + 1])
    BY <1>2, <1>4, Zenon
  <2>3. K[i] \in Seq(Lines \ kinds)
    BY <1>4, Zenon
  <2>4. s[i + 1] \notin kinds => Append(K[i], s[i + 1]) \in Seq(Lines \ kinds)
    BY <2>1, <2>3, AppendProperties
  <2>5. K[i + 1] \in Seq(Lines \ kinds)
    BY <2>2, <2>3, <2>4, Zenon
  <2>6. QED
    BY <2>1, <2>5, Zenon
<1> HIDE DEF S
<1>5. \A i \in 0..Len(s) : i \in S
  BY <1>1, <1>3, <1>4, UpTo, Zenon
<1>6. QED
  BY <1>1, <1>5, Zenon DEF S, Without, K

\* Without any line to drop it leaves all as it was.
LEMMA WithoutNone ==
    ASSUME NEW s \in Seq(Lines), NEW kinds, \A i \in 1..Len(s) : s[i] \notin kinds
    PROVE  Without(s, kinds) = s
<1> DEFINE K == Kept(s, kinds)
           S == {i \in 0..Len(s) : K[i] = SubSeq(s, 1, i)}
<1>1. Len(s) \in Nat /\ 0 \in 0..Len(s) /\ Len(s) \in 0..Len(s)
  OBVIOUS
<1>2. /\ K[0] = <<>>
      /\ \A i \in 0..Len(s) : i # Len(s) =>
           K[i + 1] = IF s[i + 1] \in kinds THEN K[i] ELSE Append(K[i], s[i + 1])
  BY <1>1, KeptSteps, ZenonT(40)
<1> HIDE DEF K
<1>3. 0 \in S
  <2>1. SubSeq(s, 1, 0) = <<>>
    BY SubSeqEmpty
  <2>2. QED
    BY <1>1, <1>2, <2>1, Zenon
<1>4. ASSUME NEW i \in 0..Len(s), i # Len(s), i \in S PROVE i + 1 \in S
  <2>1. i + 1 \in 0..Len(s) /\ i + 1 \in 1..Len(s) /\ s[i + 1] \in Lines
    BY <1>4
  <2>2. s[i + 1] \notin kinds
    BY <2>1
  <2>3. K[i + 1] = Append(SubSeq(s, 1, i), s[i + 1])
    BY <1>2, <1>4, <2>2, Zenon
  <2>4. Append(SubSeq(s, 1, i), s[i + 1]) = SubSeq(s, 1, i + 1)
    <3> DEFINE p == SubSeq(s, 1, i)
               q == SubSeq(s, 1, i + 1)
    <3>1. p \in Seq(Lines) /\ Len(p) = i /\ \A j \in 1..i : p[j] = s[j]
      OBVIOUS
    <3>2. q \in Seq(Lines) /\ Len(q) = i + 1 /\ \A j \in 1..(i + 1) : q[j] = s[j]
      BY <2>1
    <3> HIDE DEF p, q
    <3>3. /\ Append(p, s[i + 1]) \in Seq(Lines) /\ Len(Append(p, s[i + 1])) = i + 1
          /\ \A j \in 1..(i + 1) : Append(p, s[i + 1])[j] = s[j]
      BY <3>1, <2>1
    <3>4. Append(p, s[i + 1]) = q
      BY <3>2, <3>3, SeqEqual
    <3>5. QED
      BY <3>4 DEF p, q
  <2>5. QED
    BY <2>1, <2>3, <2>4, Zenon
<1> HIDE DEF S
<1>5. \A i \in 0..Len(s) : i \in S
  BY <1>1, <1>3, <1>4, UpTo, Zenon
<1>6. SubSeq(s, 1, Len(s)) = s
  BY SubSeqFull
<1>7. QED
  BY <1>1, <1>5, <1>6, Zenon DEF S, Without, K

\* With nothing to keep it leaves nothing.
LEMMA WithoutAll ==
    ASSUME NEW s \in Seq(Lines), NEW kinds, \A i \in 1..Len(s) : s[i] \in kinds
    PROVE  Without(s, kinds) = <<>>
<1> DEFINE K == Kept(s, kinds)
           S == {i \in 0..Len(s) : K[i] = <<>>}
<1>1. Len(s) \in Nat /\ 0 \in 0..Len(s) /\ Len(s) \in 0..Len(s)
  OBVIOUS
<1>2. /\ K[0] = <<>>
      /\ \A i \in 0..Len(s) : i # Len(s) =>
           K[i + 1] = IF s[i + 1] \in kinds THEN K[i] ELSE Append(K[i], s[i + 1])
  BY <1>1, KeptSteps, Zenon
<1> HIDE DEF K
<1>3. 0 \in S
  BY <1>1, <1>2, Zenon
<1>4. ASSUME NEW i \in 0..Len(s), i # Len(s), i \in S PROVE i + 1 \in S
  <2>1. i + 1 \in 0..Len(s) /\ i + 1 \in 1..Len(s)
    BY <1>4
  <2>2. s[i + 1] \in kinds
    BY <2>1
  <2>3. QED
    BY <1>2, <1>4, <2>1, <2>2, Zenon
<1> HIDE DEF S
<1>5. \A i \in 0..Len(s) : i \in S
  BY <1>1, <1>3, <1>4, UpTo, Zenon
<1>6. QED
  BY <1>1, <1>5, Zenon DEF S, Without, K

\* Of the kinds it drops only those count that the configuration has.
LEMMA WithoutSame ==
    ASSUME NEW s \in Seq(Lines), NEW kinds, NEW others,
           \A i \in 1..Len(s) : s[i] \in kinds <=> s[i] \in others
    PROVE  Without(s, kinds) = Without(s, others)
<1> DEFINE K == Kept(s, kinds)
           O == Kept(s, others)
           S == {i \in 0..Len(s) : K[i] = O[i]}
<1>1. Len(s) \in Nat /\ 0 \in 0..Len(s) /\ Len(s) \in 0..Len(s)
  OBVIOUS
<1>2. /\ K[0] = <<>>
      /\ \A i \in 0..Len(s) : i # Len(s) =>
           K[i + 1] = IF s[i + 1] \in kinds THEN K[i] ELSE Append(K[i], s[i + 1])
  BY <1>1, KeptSteps, Zenon
<1>3. /\ O[0] = <<>>
      /\ \A i \in 0..Len(s) : i # Len(s) =>
           O[i + 1] = IF s[i + 1] \in others THEN O[i] ELSE Append(O[i], s[i + 1])
  BY <1>1, KeptSteps, Zenon
<1> HIDE DEF K, O
<1>4. 0 \in S
  BY <1>1, <1>2, <1>3, Zenon
<1>5. ASSUME NEW i \in 0..Len(s), i # Len(s), i \in S PROVE i + 1 \in S
  <2>1. i + 1 \in 0..Len(s) /\ i + 1 \in 1..Len(s)
    BY <1>5
  <2>2. s[i + 1] \in kinds <=> s[i + 1] \in others
    BY <2>1
  <2>3. QED
    BY <1>2, <1>3, <1>5, <2>1, <2>2, Zenon
<1> HIDE DEF S
<1>6. \A i \in 0..Len(s) : i \in S
  BY <1>1, <1>4, <1>5, UpTo, Zenon
<1>7. QED
  BY <1>1, <1>6, Zenon DEF S, Without, K, O

\* It goes through two parts of a configuration one after the other.
LEMMA WithoutConcat ==
    ASSUME NEW a \in Seq(Lines), NEW b \in Seq(Lines), NEW kinds
    PROVE  Without(a \o b, kinds) = Without(a, kinds) \o Without(b, kinds)
<1> DEFINE s == a \o b
           m == Len(a)
           n == Len(b)
           A == Kept(a, kinds)
           B == Kept(b, kinds)
           K == Kept(s, kinds)
           S == {i \in 0..m : K[i] = A[i]}
           T == {i \in 0..n : B[i] \in Seq(Lines) /\ K[m + i] = A[m] \o B[i]}
<1>1. /\ m \in Nat /\ n \in Nat /\ m + n \in Nat /\ Len(s) = m + n
      /\ 0 \in 0..m /\ m \in 0..m /\ 0 \in 0..n /\ n \in 0..n
  OBVIOUS
<1>2. \A i \in 0..m : i # m => s[i + 1] = a[i + 1] /\ i \in 0..(m + n) /\ i # m + n /\ i + 1 \in 0..m
  OBVIOUS
<1>3. \A i \in 0..n : i # n =>
        /\ s[m + i + 1] = b[i + 1] /\ b[i + 1] \in Lines
        /\ m + i \in 0..(m + n) /\ m + i # m + n /\ i + 1 \in 0..n /\ m + (i + 1) = m + i + 1
  <2>1. \A i \in 1..n : s[m + i] = b[i] /\ b[i] \in Lines
    OBVIOUS
  <2> HIDE DEF s, m, n
  <2>2. ASSUME NEW i \in 0..n, i # n
        PROVE  /\ s[m + i + 1] = b[i + 1] /\ b[i + 1] \in Lines
               /\ m + i \in 0..(m + n) /\ m + i # m + n /\ i + 1 \in 0..n /\ m + (i + 1) = m + i + 1
    <3>1. /\ i + 1 \in 1..n /\ m + (i + 1) = m + i + 1
          /\ m + i \in 0..(m + n) /\ m + i # m + n /\ i + 1 \in 0..n
      BY <1>1, <2>2
    <3>2. s[m + (i + 1)] = b[i + 1] /\ b[i + 1] \in Lines
      BY <2>1, <3>1, Zenon
    <3>3. QED
      BY <3>1, <3>2, Zenon
  <2>3. QED
    BY <2>2, Zenon
<1>4. /\ A[0] = <<>>
      /\ \A i \in 0..m : i # m =>
           A[i + 1] = IF a[i + 1] \in kinds THEN A[i] ELSE Append(A[i], a[i + 1])
  BY <1>1, KeptSteps, ZenonT(40)
<1>5. /\ B[0] = <<>>
      /\ \A i \in 0..n : i # n =>
           B[i + 1] = IF b[i + 1] \in kinds THEN B[i] ELSE Append(B[i], b[i + 1])
  BY <1>1, KeptSteps, ZenonT(40)
<1>6. /\ K[0] = <<>>
      /\ \A i \in 0..(m + n) : i # m + n =>
           K[i + 1] = IF s[i + 1] \in kinds THEN K[i] ELSE Append(K[i], s[i + 1])
  <2> HIDE DEF s, m, n, K
  <2>1. Len(s) \in Nat /\ 0..Len(s) = 0..(m + n) /\ Len(s) = m + n
    BY <1>1
  <2>2. /\ K[0] = <<>>
        /\ \A i \in 0..Len(s) : i # Len(s) =>
             K[i + 1] = IF s[i + 1] \in kinds THEN K[i] ELSE Append(K[i], s[i + 1])
    BY <2>1, KeptSteps, ZenonT(40) DEF K
  <2>3. QED
    BY <2>1, <2>2, Zenon
<1>7. A[m] \in Seq(Lines)
  <2>1. A[m] \in Seq(Lines \ kinds)
    BY WithoutLines, Zenon DEF Without
  <2> HIDE DEF A, m
  <2>2. QED
    BY <2>1, SeqMonotonic
<1>8. Without(s, kinds) = K[m + n] /\ Without(a, kinds) = A[m] /\ Without(b, kinds) = B[n]
  <2> HIDE DEF s
  <2>1. QED
    BY <1>1, Zenon DEF Without
<1> HIDE DEF s, A, B, K, m, n
<1>9. 0 \in S
  BY <1>1, <1>4, <1>6, Zenon
<1>10. ASSUME NEW i \in 0..m, i # m, i \in S PROVE i + 1 \in S
  BY <1>2, <1>4, <1>6, <1>10, Zenon
<1> HIDE DEF S
<1>11. \A i \in 0..m : i \in S
  BY <1>1, <1>9, <1>10, UpTo, Zenon
<1>12. K[m] = A[m]
  BY <1>1, <1>11, Zenon DEF S
<1>13. 0 \in T
  <2>1. A[m] \o <<>> = A[m]
    BY <1>7, ConcatEmptySeq
  <2>2. m + 0 = m
    BY <1>1
  <2>3. QED
    BY <1>1, <1>5, <1>12, <2>1, <2>2, EmptySeq, Zenon
<1>14. ASSUME NEW i \in 0..n, i # n, i \in T PROVE i + 1 \in T
  <2>1. /\ s[m + i + 1] = b[i + 1] /\ b[i + 1] \in Lines
        /\ m + i \in 0..(m + n) /\ m + i # m + n /\ i + 1 \in 0..n /\ m + (i + 1) = m + i + 1
    BY <1>3, <1>14, Zenon
  <2>2. B[i] \in Seq(Lines) /\ K[m + i] = A[m] \o B[i]
    BY <1>14, Zenon
  <2> HIDE DEF T
  <2>3. B[i + 1] = IF b[i + 1] \in kinds THEN B[i] ELSE Append(B[i], b[i + 1])
    BY <1>5, <1>14, Zenon
  <2>4. K[m + (i + 1)] = IF b[i + 1] \in kinds THEN K[m + i] ELSE Append(K[m + i], b[i + 1])
    BY <1>6, <2>1, Zenon
  <2>5. /\ Append(B[i], b[i + 1]) \in Seq(Lines)
        /\ Append(A[m] \o B[i], b[i + 1]) = A[m] \o Append(B[i], b[i + 1])
    <3> DEFINE x == A[m]
               y == B[i]
               z == b[i + 1]
    <3>1. x \in Seq(Lines) /\ y \in Seq(Lines) /\ z \in Lines
      BY <1>7, <2>1, <2>2
    <3> HIDE DEF x, y, z
    <3>2. x \o y \in Seq(Lines) /\ Append(y, z) \in Seq(Lines) /\ <<z>> \in Seq(Lines)
      BY <3>1
    <3>3. Append(x \o y, z) = (x \o y) \o <<z>> /\ Append(y, z) = y \o <<z>>
      BY <3>1, <3>2, AppendIsConcat
    <3>4. (x \o y) \o <<z>> = x \o (y \o <<z>>)
      BY SMTT(40), <3>1, <3>2, ConcatAssociative
    <3>5. Append(y, z) \in Seq(Lines) /\ Append(x \o y, z) = x \o Append(y, z)
      BY <3>2, <3>3, <3>4, Zenon
    <3>6. QED
      BY <3>5 DEF x, y, z
  <2>6. B[i + 1] \in Seq(Lines) /\ K[m + (i + 1)] = A[m] \o B[i + 1]
    BY <2>2, <2>3, <2>4, <2>5, Zenon
  <2>7. QED
    BY <2>1, <2>6, Zenon DEF T
<1> HIDE DEF T
<1>15. \A i \in 0..n : i \in T
  BY <1>1, <1>13, <1>14, UpTo, Zenon
<1>16. QED
  BY <1>1, <1>8, <1>15, Zenon DEF T, s

(* ------------------------------ lines put in ----------------------------- *)

\* Where the lines of a configuration are once l is put in after line i.
LEMMA InsertLines ==
    ASSUME NEW s \in Seq(Lines), NEW l \in Seq(Lines), NEW i \in 0..Len(s)
    PROVE  /\ Insert(s, i, l) \in Seq(Lines)
           /\ Len(Insert(s, i, l)) = Len(s) + Len(l)
           /\ \A k \in 1..i : Insert(s, i, l)[k] = s[k]
           /\ \A k \in 1..Len(l) : Insert(s, i, l)[i + k] = l[k]
           /\ \A k \in (i + 1)..Len(s) : Insert(s, i, l)[k + Len(l)] = s[k]
<1> DEFINE a == SubSeq(s, 1, i)
           b == SubSeq(s, i + 1, Len(s))
           m == Len(s)
           n == Len(l)
<1>1. m \in Nat /\ n \in Nat /\ i \in Nat /\ i <= m
  OBVIOUS
<1>2. a \in Seq(Lines) /\ Len(a) = i /\ \A k \in 1..i : a[k] = s[k]
  OBVIOUS
<1>3. b \in Seq(Lines) /\ Len(b) = m - i /\ \A k \in 1..(m - i) : b[k] = s[i + k]
  OBVIOUS
<1>4. n = Len(l)
  OBVIOUS
<1> HIDE DEF a, b, m, n
<1> DEFINE c == a \o l
<1>5a. /\ c \in Seq(Lines) /\ Len(c) = Len(a) + Len(l)
       /\ \A k \in 1..(Len(a) + Len(l)) : c[k] = IF k <= Len(a) THEN a[k] ELSE l[k - Len(a)]
  BY <1>2, ConcatProperties
<1> HIDE DEF c
<1>5. /\ c \in Seq(Lines) /\ Len(c) = i + n /\ \A k \in 1..i : c[k] = s[k]
      /\ \A k \in 1..n : c[i + k] = l[k]
  <2>1. Len(c) = i + n /\ \A k \in 1..(i + n) : c[k] = IF k <= i THEN a[k] ELSE l[k - i]
    BY <1>2, <1>4, <1>5a
  <2>2. ASSUME NEW k \in 1..i PROVE c[k] = s[k]
    <3>1. k \in 1..(i + n) /\ k <= i
      BY <1>1
    <3>2. QED
      BY <2>1, <1>2, <3>1
  <2>3. ASSUME NEW k \in 1..n PROVE c[i + k] = l[k]
    <3>1. i + k \in 1..(i + n) /\ ~ (i + k <= i) /\ i + k - i = k
      BY <1>1
    <3>2. QED
      BY <2>1, <3>1
  <2>4. QED
    BY <1>5a, <2>1, <2>2, <2>3
<1> DEFINE d == c \o b
<1>6a. /\ d \in Seq(Lines) /\ Len(d) = Len(c) + Len(b)
       /\ \A k \in 1..(Len(c) + Len(b)) : d[k] = IF k <= Len(c) THEN c[k] ELSE b[k - Len(c)]
  BY <1>3, <1>5, ConcatProperties
<1> HIDE DEF d
<1>6. /\ d \in Seq(Lines) /\ Len(d) = m + n
      /\ \A k \in 1..(i + n) : d[k] = c[k]
      /\ \A k \in 1..(m - i) : d[i + n + k] = b[k]
  <2>1. \A k \in 1..(m + n) : d[k] = IF k <= i + n THEN c[k] ELSE b[k - (i + n)]
    <3>1. Len(c) + Len(b) = m + n /\ Len(c) = i + n
      BY <1>1, <1>3, <1>5
    <3>2. QED
      BY <1>6a, <3>1
  <2>2. Len(d) = m + n
    BY <1>1, <1>3, <1>5, <1>6a
  <2>3. ASSUME NEW k \in 1..(i + n) PROVE d[k] = c[k]
    <3>1. k \in 1..(m + n) /\ k <= i + n
      BY <1>1
    <3>2. QED
      BY <2>1, <3>1
  <2>4. ASSUME NEW k \in 1..(m - i) PROVE d[i + n + k] = b[k]
    <3>1. i + n + k \in 1..(m + n) /\ ~ (i + n + k <= i + n)
      BY <1>1
    <3>2. d[i + n + k] = b[(i + n + k) - (i + n)]
      <4>1. \A j \in 1..(m + n) : ~ (j <= i + n) => d[j] = b[j - (i + n)]
        BY <2>1
      <4>2. QED
        BY <3>1, <4>1, Zenon
    <3>3. (i + n + k) - (i + n) = k
      BY <1>1
    <3>4. QED
      BY <3>2, <3>3, Zenon
  <2>5. QED
    BY <1>6a, <2>2, <2>3, <2>4
<1>7. \A k \in 1..i : d[k] = s[k]
  BY <1>1, <1>5, <1>6
<1>8. \A k \in 1..n : d[i + k] = l[k]
  <2>1. ASSUME NEW k \in 1..n PROVE d[i + k] = l[k]
    <3>1. i + k \in 1..(i + n)
      BY <1>1
    <3>2. QED
      BY <1>5, <1>6, <3>1
  <2>2. QED
    BY <2>1
<1>9. \A k \in (i + 1)..m : d[k + n] = s[k]
  <2>1. ASSUME NEW k \in (i + 1)..m PROVE d[k + n] = s[k]
    <3>1. k - i \in 1..(m - i) /\ i + n + (k - i) = k + n /\ i + (k - i) = k
      BY <1>1
    <3>2. d[i + n + (k - i)] = b[k - i] /\ b[k - i] = s[i + (k - i)]
      BY <1>3, <1>6, <3>1
    <3>3. QED
      BY <3>1, <3>2
  <2>2. QED
    BY <2>1
<1>10. Insert(s, i, l) = d
  BY DEF Insert, a, b, c, d
<1>11. QED
  BY <1>6, <1>7, <1>8, <1>9, <1>10 DEF m, n

\* The lines of the result come from one of the two.
LEMMA InsertFrom ==
    ASSUME NEW s \in Seq(Lines), NEW l \in Seq(Lines), NEW i \in 0..Len(s),
           NEW k \in 1..(Len(s) + Len(l))
    PROVE  \/ k \in 1..i /\ Insert(s, i, l)[k] = s[k]
           \/ k - i \in 1..Len(l) /\ Insert(s, i, l)[k] = l[k - i]
           \/ k - Len(l) \in (i + 1)..Len(s) /\ Insert(s, i, l)[k] = s[k - Len(l)]
<1> DEFINE d == Insert(s, i, l)
           m == Len(s)
           n == Len(l)
<1>1. m \in Nat /\ n \in Nat /\ i \in Nat /\ i <= m /\ k \in 1..(m + n)
  OBVIOUS
<1>2. /\ \A j \in 1..i : d[j] = s[j]
      /\ \A j \in 1..n : d[i + j] = l[j]
      /\ \A j \in (i + 1)..m : d[j + n] = s[j]
  BY InsertLines
<1> HIDE DEF d, m, n
<1>3. CASE k <= i
  <2>1. k \in 1..i
    BY <1>1, <1>3
  <2>2. QED
    BY <1>2, <2>1 DEF d
<1>4. CASE i < k /\ k <= i + n
  <2>1. k - i \in 1..n /\ i + (k - i) = k
    BY <1>1, <1>4
  <2>2. d[i + (k - i)] = l[k - i]
    BY <1>2, <2>1
  <2>3. d[k] = l[k - i]
    BY <2>1, <2>2
  <2>4. QED
    BY <2>1, <2>3 DEF d, n
<1>5. CASE i + n < k
  <2>1. k - n \in (i + 1)..m /\ (k - n) + n = k
    BY <1>1, <1>5
  <2>2. d[(k - n) + n] = s[k - n]
    BY <1>2, <2>1
  <2>3. d[k] = s[k - n]
    BY <2>1, <2>2
  <2>4. QED
    BY <2>1, <2>3 DEF d, m, n
<1>6. QED
  BY <1>1, <1>3, <1>4, <1>5

\* A filter drops lines it does not keep wherever they have been put in.
LEMMA WithoutInsert ==
    ASSUME NEW s \in Seq(Lines), NEW l \in Seq(Lines), NEW i \in 0..Len(s), NEW K,
           \A k \in 1..Len(l) : l[k] \in K
    PROVE  Without(Insert(s, i, l), K) = Without(s, K)
<1> DEFINE a == SubSeq(s, 1, i)
           b == SubSeq(s, i + 1, Len(s))
<1>1. a \in Seq(Lines) /\ b \in Seq(Lines)
  OBVIOUS
<1>2. a \o b = s
  <2>1. 1 \in 1..(Len(s) + 1) /\ i \in (1 - 1)..Len(s) /\ Len(s) \in i..Len(s)
    OBVIOUS
  <2>2. SubSeq(s, 1, i) \o SubSeq(s, i + 1, Len(s)) = SubSeq(s, 1, Len(s))
    <3> HIDE DEF a, b
    <3>1. QED
      BY <2>1, ConcatAdjacentSubSeq, Zenon
  <2>3. QED
    BY <2>2, SubSeqFull
<1>3. \A k \in 1..Len(l) : l[k] \in K
  OBVIOUS
<1>4. Insert(s, i, l) = (a \o l) \o b
  BY DEF Insert
<1> HIDE DEF a, b
<1>5. Without(l, K) = <<>>
  BY <1>3, WithoutAll
<1>6. a \o l \in Seq(Lines)
  BY <1>1
<1>6a. \A p, q \in Seq(Lines) : Without(p \o q, K) = Without(p, K) \o Without(q, K)
  BY WithoutConcat, SMTT(40)
<1>7. Without((a \o l) \o b, K) = Without(a \o l, K) \o Without(b, K)
  BY <1>1, <1>6, <1>6a, Zenon
<1>7a. Without(a \o l, K) = Without(a, K) \o Without(l, K)
  BY <1>1, <1>6a, Zenon
<1>7b. Without(a \o b, K) = Without(a, K) \o Without(b, K)
  BY <1>1, <1>6a, Zenon
<1>8. Without(a, K) \o <<>> = Without(a, K)
  <2>1. Without(a, K) \in Seq(Lines \ K)
    BY <1>1, WithoutLines
  <2>2. QED
    BY <2>1, ConcatEmptySeq
<1>9. QED
  BY <1>2, <1>4, <1>5, <1>7, <1>7a, <1>7b, <1>8, Zenon

\* Whether a kind of line occurs at all.
LEMMA HasIs ==
    ASSUME NEW s \in Seq(Lines), NEW kinds
    PROVE  Has(s, kinds) <=> \E k \in 1..Len(s) : s[k] \in kinds
<1> DEFINE P == {k \in DOMAIN s : s[k] \in kinds}
<1>1. DOMAIN s = 1..Len(s) /\ Len(s) \in Nat
  OBVIOUS
<1>2. IsFiniteSet(1..Len(s))
  BY <1>1, FS_Interval
<1>3. P \in SUBSET (1..Len(s))
  BY <1>1
<1>4. IsFiniteSet(P)
  BY <1>2, <1>3, FS_Subset
<1>5. P = {} <=> ~ \E k \in 1..Len(s) : s[k] \in kinds
  BY <1>1
<1> HIDE DEF P
<1>6. Cardinality(P) \in Nat /\ (Cardinality(P) = 0 <=> P = {})
  BY <1>4, FS_CardinalityType, FS_EmptySet
<1>7. Has(s, kinds) <=> Cardinality(P) > 0
  BY DEF Has, Occurrences, P
<1>8. QED
  BY <1>5, <1>6, <1>7

\* The line x stands at p and nowhere else.
OnlyAt(s, x, p) == p \in 1..Len(s) /\ \A k \in 1..Len(s) : s[k] = x <=> k = p

\* Such a line is counted once.
LEMMA OnlyOnce ==
    ASSUME NEW s \in Seq(Lines), NEW x, NEW p, OnlyAt(s, x, p)
    PROVE  Occurrences(s, {x}) = 1
<1> DEFINE P == {k \in DOMAIN s : s[k] \in {x}}
<1>1. P = {p}
  BY DEF OnlyAt
<1>2. Cardinality({p}) = 1
  BY FS_Singleton
<1> HIDE DEF P
<1>3. Occurrences(s, {x}) = Cardinality(P)
  BY DEF Occurrences, P
<1>4. QED
  BY <1>1, <1>2, <1>3

\* A line that comes with l.
LEMMA InsertNew ==
    ASSUME NEW s \in Seq(Lines), NEW l \in Seq(Lines), NEW i \in 0..Len(s), NEW x, NEW p,
           \A k \in 1..Len(s) : s[k] # x, OnlyAt(l, x, p)
    PROVE  OnlyAt(Insert(s, i, l), x, i + p)
<1> DEFINE d == Insert(s, i, l)
<1>0. Len(s) \in Nat /\ Len(l) \in Nat
  OBVIOUS
<1>1. Len(d) = Len(s) + Len(l) /\ Len(s) \in Nat /\ Len(l) \in Nat
  BY <1>0, InsertLines, Zenon
<1>2. i + p \in 1..Len(d) /\ i + p - i = p /\ p \in Nat
  BY <1>1 DEF OnlyAt
<1>3. d[i + p] = x
  <2>1. d[i + p] = l[p]
    BY InsertLines DEF OnlyAt
  <2>2. QED
    BY <2>1 DEF OnlyAt
<1>4. ASSUME NEW k \in 1..Len(d), d[k] = x PROVE k = i + p
  <2>1. k \in 1..(Len(s) + Len(l)) /\ k \in Nat
    BY <1>1
  <2>2. CASE k \in 1..i /\ d[k] = s[k]
    BY <1>4, <2>2
  <2>3. CASE k - i \in 1..Len(l) /\ d[k] = l[k - i]
    <3>1. k - i = p
      BY <1>4, <2>3 DEF OnlyAt
    <3>2. QED
      BY <2>1, <3>1
  <2>4. CASE k - Len(l) \in (i + 1)..Len(s) /\ d[k] = s[k - Len(l)]
    <3>1. k - Len(l) \in 1..Len(s)
      BY <1>1, <2>4
    <3>2. QED
      BY <1>4, <2>4, <3>1
  <2>5. \/ k \in 1..i /\ d[k] = s[k]
        \/ k - i \in 1..Len(l) /\ d[k] = l[k - i]
        \/ k - Len(l) \in (i + 1)..Len(s) /\ d[k] = s[k - Len(l)]
    BY <2>1, InsertFrom
  <2> HIDE DEF d
  <2>6. QED
    BY <2>2, <2>3, <2>4, <2>5, Zenon
<1>5. QED
  BY <1>2, <1>3, <1>4 DEF OnlyAt

\* A line that was there and is not in l.
LEMMA InsertOld ==
    ASSUME NEW s \in Seq(Lines), NEW l \in Seq(Lines), NEW i \in 0..Len(s), NEW x, NEW p,
           OnlyAt(s, x, p), \A k \in 1..Len(l) : l[k] # x
    PROVE  OnlyAt(Insert(s, i, l), x, IF p <= i THEN p ELSE p + Len(l))
<1> DEFINE d == Insert(s, i, l)
           q == IF p <= i THEN p ELSE p + Len(l)
<1>0. Len(s) \in Nat /\ Len(l) \in Nat
  OBVIOUS
<1>1. Len(d) = Len(s) + Len(l) /\ Len(s) \in Nat /\ Len(l) \in Nat
  BY <1>0, InsertLines, Zenon
<1>2. q \in 1..Len(d) /\ p \in Nat
  BY <1>1 DEF OnlyAt
<1>3. d[q] = x
  <2>1. CASE p <= i
    <3>1. p \in 1..i
      BY <2>1 DEF OnlyAt
    <3>2. d[p] = s[p]
      BY <3>1, InsertLines
    <3>3. QED
      BY <2>1, <3>2 DEF OnlyAt
  <2>2. CASE ~ (p <= i)
    <3>1. p \in (i + 1)..Len(s)
      BY <1>1, <1>2, <2>2 DEF OnlyAt
    <3>2. d[p + Len(l)] = s[p]
      BY <3>1, InsertLines
    <3>3. QED
      BY <2>2, <3>2 DEF OnlyAt
  <2>3. QED
    BY <2>1, <2>2
<1>4. ASSUME NEW k \in 1..Len(d), d[k] = x PROVE k = q
  <2>1. k \in 1..(Len(s) + Len(l)) /\ k \in Nat
    BY <1>1
  <2>2. CASE k \in 1..i /\ d[k] = s[k]
    <3>1. k \in 1..Len(s) /\ k <= i
      BY <1>1, <2>2
    <3>2. k = p
      BY <1>4, <2>2, <3>1 DEF OnlyAt
    <3>3. QED
      BY <3>1, <3>2
  <2>3. CASE k - i \in 1..Len(l) /\ d[k] = l[k - i]
    BY <1>4, <2>3
  <2>4. CASE k - Len(l) \in (i + 1)..Len(s) /\ d[k] = s[k - Len(l)]
    <3>1. k - Len(l) \in 1..Len(s)
      BY <1>1, <2>4
    <3>2. k - Len(l) = p
      BY <1>4, <2>4, <3>1 DEF OnlyAt
    <3>3. ~ (p <= i) /\ k = p + Len(l)
      BY <1>1, <1>2, <2>1, <2>4, <3>2
    <3>4. QED
      BY <3>3
  <2>5. QED
    BY <2>1, <2>2, <2>3, <2>4, InsertFrom
<1>5. QED
  BY <1>2, <1>3, <1>4 DEF OnlyAt

\* A line that is in neither.
LEMMA InsertNone ==
    ASSUME NEW s \in Seq(Lines), NEW l \in Seq(Lines), NEW i \in 0..Len(s), NEW x,
           \A k \in 1..Len(s) : s[k] # x, \A k \in 1..Len(l) : l[k] # x
    PROVE  \A k \in 1..Len(Insert(s, i, l)) : Insert(s, i, l)[k] # x
<1> DEFINE d == Insert(s, i, l)
<1>0. Len(s) \in Nat /\ Len(l) \in Nat
  OBVIOUS
<1>1. Len(d) = Len(s) + Len(l) /\ Len(s) \in Nat /\ Len(l) \in Nat
  BY <1>0, InsertLines, Zenon
<1>2. ASSUME NEW k \in 1..Len(d) PROVE d[k] # x
  <2>1. k \in 1..(Len(s) + Len(l))
    BY <1>1
  <2>2. \/ k \in 1..i /\ d[k] = s[k]
        \/ k - i \in 1..Len(l) /\ d[k] = l[k - i]
        \/ k - Len(l) \in (i + 1)..Len(s) /\ d[k] = s[k - Len(l)]
    BY <2>1, InsertFrom
  <2> HIDE DEF d
  <2>3. \A j \in (i + 1)..Len(s) : j \in 1..Len(s)
    BY <1>1
  <2>4. \A j \in 1..i : j \in 1..Len(s)
    BY <1>1
  <2>5. QED
    BY <2>2, <2>3, <2>4, Zenon
<1>3. QED
  BY <1>2

(* --------------------------------- blocks -------------------------------- *)

\* The least of a set is what its name says.
LEMMA LeastIs ==
    ASSUME NEW S \in SUBSET Nat, NEW x \in S, \A y \in S : x <= y
    PROVE  Least(S) = x
<1>1. S # {} /\ x \in Nat
  OBVIOUS
<1>2. Least(S) = CHOOSE z \in S : \A y \in S : z <= y
  BY <1>1 DEF Least
<1>3. \A z \in S : (\A y \in S : z <= y) => z = x
  OBVIOUS
<1>4. QED
  BY <1>2, <1>3

\* A set that has members has a least one; without any, it is 0.
LEMMA LeastFound ==
    ASSUME NEW S \in SUBSET Nat
    PROVE  /\ S # {} => Least(S) \in S /\ \A y \in S : Least(S) <= y
           /\ S = {} => Least(S) = 0
<1>1. ASSUME S # {} PROVE Least(S) \in S /\ \A y \in S : Least(S) <= y
  <2>1. PICK x \in S : \A y \in S : x <= y
    BY <1>1, HasLeast
  <2>2. Least(S) = x
    BY <2>1, LeastIs
  <2>3. QED
    BY <2>1, <2>2
<1>2. S = {} => Least(S) = 0
  BY DEF Least
<1>3. QED
  BY <1>1, <1>2

\* Lines of the kinds among a..j.
Among(s, kinds, a, j) == {k \in a..j : s[k] \in kinds}

\* They can be counted.
LEMMA AmongFinite ==
    ASSUME NEW s, NEW kinds, NEW a \in Nat, NEW j \in Nat
    PROVE  IsFiniteSet(Among(s, kinds, a, j)) /\ Cardinality(Among(s, kinds, a, j)) \in Nat
<1>1. IsFiniteSet(a..j)
  BY FS_Interval
<1>2. Among(s, kinds, a, j) \in SUBSET (a..j)
  BY DEF Among
<1>3. QED
  BY <1>1, <1>2, FS_Subset, FS_CardinalityType

\* Putting in lines of other kinds after line i leaves their number among the
\* lines up to i, up to any of the new ones, and up to any later line.
LEMMA AmongInsert ==
    ASSUME NEW s \in Seq(Lines), NEW l \in Seq(Lines), NEW i \in 0..Len(s), NEW kinds,
           \A k \in 1..Len(l) : l[k] \notin kinds, NEW a \in 1..i
    PROVE  /\ \A j \in a..i : Among(Insert(s, i, l), kinds, a, j) = Among(s, kinds, a, j)
           /\ \A j \in i..(i + Len(l)) : Among(Insert(s, i, l), kinds, a, j) = Among(s, kinds, a, i)
           /\ \A j \in i..Len(s) :
                Cardinality(Among(Insert(s, i, l), kinds, a, j + Len(l))) = Cardinality(Among(s, kinds, a, j))
<1> DEFINE d == Insert(s, i, l)
           m == Len(s)
           n == Len(l)
<1>1. m \in Nat /\ n \in Nat /\ i \in Nat /\ i <= m /\ a \in Nat /\ 1 <= a /\ a <= i
  OBVIOUS
<1>2. /\ \A k \in 1..i : d[k] = s[k]
      /\ \A k \in 1..n : d[i + k] = l[k]
      /\ \A k \in (i + 1)..m : d[k + n] = s[k]
  BY InsertLines
<1>3. \A k \in 1..n : l[k] \notin kinds
  OBVIOUS
<1> HIDE DEF d, m, n
<1>4. \A k \in (i + 1)..(i + n) : d[k] \notin kinds
  <2>1. ASSUME NEW k \in (i + 1)..(i + n) PROVE d[k] \notin kinds
    <3>1. k - i \in 1..n /\ i + (k - i) = k
      BY <1>1
    <3>2. d[i + (k - i)] = l[k - i] /\ l[k - i] \notin kinds
      BY <1>2, <1>3, <3>1
    <3>3. QED
      BY <3>1, <3>2
  <2>2. QED
    BY <2>1
<1>5. ASSUME NEW j \in a..i PROVE Among(d, kinds, a, j) = Among(s, kinds, a, j)
  <2>1. \A k \in a..j : d[k] = s[k]
    BY <1>1, <1>2
  <2>2. QED
    BY <2>1 DEF Among
<1>6. ASSUME NEW j \in i..(i + n) PROVE Among(d, kinds, a, j) = Among(s, kinds, a, i)
  <2>1. ASSUME NEW k PROVE k \in Among(d, kinds, a, j) <=> k \in Among(s, kinds, a, i)
    <3>1. CASE k \in a..i
      <4>1. k \in a..j /\ d[k] = s[k]
        BY <1>1, <1>2, <3>1
      <4>2. QED
        BY <3>1, <4>1 DEF Among
    <3>2. CASE k \notin a..i
      <4>1. k \in a..j => k \in (i + 1)..(i + n)
        BY <1>1, <3>2
      <4>2. QED
        BY <1>4, <3>2, <4>1 DEF Among
    <3>3. QED
      BY <3>1, <3>2
  <2>2. QED
    BY <2>1
<1>7. ASSUME NEW j \in i..m
      PROVE  Cardinality(Among(d, kinds, a, j + n)) = Cardinality(Among(s, kinds, a, j))
  <2> DEFINE S == Among(s, kinds, a, j)
             T == Among(d, kinds, a, j + n)
             f == [k \in S |-> IF k <= i THEN k ELSE k + n]
  <2>1. ASSUME NEW k \in S PROVE f[k] \in T
    <3>1. k \in a..j /\ s[k] \in kinds
      BY DEF Among
    <3>2. CASE k <= i
      <4>1. k \in a..(j + n) /\ d[k] = s[k] /\ f[k] = k
        BY <1>1, <1>2, <3>1, <3>2
      <4>2. QED
        BY <3>1, <4>1 DEF Among
    <3>3. CASE ~ (k <= i)
      <4>1. k + n \in a..(j + n) /\ k \in (i + 1)..m /\ f[k] = k + n
        BY <1>1, <3>1, <3>3
      <4>2. d[k + n] = s[k]
        BY <1>2, <4>1
      <4>3. QED
        BY <3>1, <4>1, <4>2 DEF Among
    <3>4. QED
      BY <3>2, <3>3
  <2>2. ASSUME NEW t \in T PROVE \E k \in S : f[k] = t
    <3>1. t \in a..(j + n) /\ d[t] \in kinds
      BY DEF Among
    <3>2. CASE t <= i
      <4>1. t \in a..j /\ d[t] = s[t]
        BY <1>1, <1>2, <3>1, <3>2
      <4>2. t \in S
        BY <3>1, <4>1 DEF Among
      <4>3. f[t] = t
        BY <3>2, <4>2
      <4>4. QED
        BY <4>2, <4>3
    <3>3. CASE ~ (t <= i)
      <4>1. t \notin (i + 1)..(i + n)
        BY <1>4, <3>1
      <4>2. t - n \in (i + 1)..m /\ (t - n) + n = t /\ t - n \in a..j /\ ~ (t - n <= i)
        BY <1>1, <3>1, <3>3, <4>1
      <4>3. d[(t - n) + n] = s[t - n]
        BY <1>2, <4>2
      <4>4. s[t - n] = d[t]
        BY <4>2, <4>3
      <4>5. t - n \in S
        BY <3>1, <4>2, <4>4 DEF Among
      <4>6. f[t - n] = t
        BY <4>2, <4>5
      <4>7. QED
        BY <4>5, <4>6
    <3>4. QED
      BY <3>2, <3>3
  <2>3. ASSUME NEW k \in S, NEW h \in S, f[k] = f[h] PROVE k = h
    <3>1. k \in a..j /\ h \in a..j
      BY DEF Among
    <3> HIDE DEF S
    <3>2. f[k] = (IF k <= i THEN k ELSE k + n) /\ f[h] = (IF h <= i THEN h ELSE h + n)
      OBVIOUS
    <3> HIDE DEF f
    <3>3. (IF k <= i THEN k ELSE k + n) = (IF h <= i THEN h ELSE h + n)
      BY <2>3, <3>2, Zenon
    <3>4. k \in Nat /\ h \in Nat
      BY <1>1, <3>1
    <3>5. QED
      BY <1>1, <3>3, <3>4
  <2>4. f \in [S -> T]
    <3> HIDE DEF S, T
    <3>1. QED
      BY <2>1
  <2> HIDE DEF S, T, f
  <2>5. f \in Bijection(S, T)
    BY <2>2, <2>3, <2>4 DEF Bijection, Injection, Surjection, IsInjective
  <2>6. ExistsBijection(S, T)
    BY <2>5 DEF ExistsBijection
  <2>7. IsFiniteSet(S)
    BY <1>1, AmongFinite DEF S
  <2>8. Cardinality(T) = Cardinality(S)
    BY <2>6, <2>7, FS_Bijection
  <2>9. QED
    BY <2>8 DEF S, T
<1>8. QED
  BY <1>5, <1>6, <1>7 DEF d, m, n

\* The lines that change the depth.
Opening == {"server", "location"}
Braces  == Opening \cup {"end"}

\* The depth counts the lines that open a block and those that end one.
LEMMA DepthIs ==
    ASSUME NEW s, NEW a, NEW j
    PROVE  Depth(s, a, j) = Cardinality(Among(s, Opening, a, j)) - Cardinality(Among(s, {"end"}, a, j))
<1>1. {k \in a..j : s[k] \in {"server", "location"}} = Among(s, Opening, a, j)
  BY DEF Among, Opening
<1>2. {k \in a..j : s[k] = "end"} = Among(s, {"end"}, a, j)
  BY DEF Among
<1>3. QED
  BY <1>1, <1>2, Zenon DEF Depth

\* Lines without braces put in after line i change no depth but shift it.
LEMMA DepthInsert ==
    ASSUME NEW s \in Seq(Lines), NEW l \in Seq(Lines), NEW i \in 0..Len(s),
           \A k \in 1..Len(l) : l[k] \notin Braces, NEW a \in 1..i
    PROVE  /\ \A j \in a..i : Depth(Insert(s, i, l), a, j) = Depth(s, a, j)
           /\ \A j \in i..(i + Len(l)) : Depth(Insert(s, i, l), a, j) = Depth(s, a, i)
           /\ \A j \in i..Len(s) : Depth(Insert(s, i, l), a, j + Len(l)) = Depth(s, a, j)
<1> DEFINE d == Insert(s, i, l)
           n == Len(l)
           m == Len(s)
<1>1. /\ \A k \in 1..Len(l) : l[k] \notin Opening
      /\ \A k \in 1..Len(l) : l[k] \notin {"end"}
  BY DEF Braces
<1>2a. \A j \in a..i : Among(d, Opening, a, j) = Among(s, Opening, a, j)
  BY <1>1, AmongInsert
<1>2b. \A j \in i..(i + n) : Among(d, Opening, a, j) = Among(s, Opening, a, i)
  BY <1>1, AmongInsert
<1>2c. \A j \in i..m : Cardinality(Among(d, Opening, a, j + n)) = Cardinality(Among(s, Opening, a, j))
  BY <1>1, AmongInsert
<1>3a. \A j \in a..i : Among(d, {"end"}, a, j) = Among(s, {"end"}, a, j)
  BY <1>1, AmongInsert
<1>3b. \A j \in i..(i + n) : Among(d, {"end"}, a, j) = Among(s, {"end"}, a, i)
  BY <1>1, AmongInsert
<1>3c. \A j \in i..m : Cardinality(Among(d, {"end"}, a, j + n)) = Cardinality(Among(s, {"end"}, a, j))
  BY <1>1, AmongInsert
<1> HIDE DEF d, m, n
<1>4. ASSUME NEW j \in a..i PROVE Depth(d, a, j) = Depth(s, a, j)
  BY <1>2a, <1>3a, <1>4, DepthIs, Zenon
<1>5. ASSUME NEW j \in i..(i + n) PROVE Depth(d, a, j) = Depth(s, a, i)
  BY <1>2b, <1>3b, <1>5, DepthIs, Zenon
<1>6. ASSUME NEW j \in i..m PROVE Depth(d, a, j + n) = Depth(s, a, j)
  BY <1>2c, <1>3c, <1>6, DepthIs, Zenon
<1>7. QED
  BY <1>4, <1>5, <1>6 DEF d, m, n

\* A block is open on its first line.
LEMMA DepthFirst ==
    ASSUME NEW s, NEW a \in Nat, s[a] \in Opening
    PROVE  Depth(s, a, a) = 1
<1>1. a..a = {a}
  OBVIOUS
<1>2. Among(s, Opening, a, a) = {a}
  BY <1>1 DEF Among
<1>3. Among(s, {"end"}, a, a) = {}
  BY <1>1 DEF Among, Opening
<1>4. Cardinality({a}) = 1 /\ Cardinality({}) = 0
  BY FS_Singleton, FS_EmptySet
<1>5. Depth(s, a, a) = 1 - 0
  BY <1>2, <1>3, <1>4, DepthIs, Zenon
<1>6. QED
  BY <1>5

\* The first block that opens with x among the lines from..to is p..q.
IsBlock(s, x, from, to, p, q) ==
    /\ p \in from..to /\ s[p] = x
    /\ \A k \in from..to : s[k] = x => p <= k
    /\ q \in p..to /\ Depth(s, p, q) <= 0
    /\ \A k \in p..to : Depth(s, p, k) <= 0 => q <= k

\* Block finds it, and what it finds is one.
LEMMA BlockIs ==
    ASSUME NEW s, NEW x, NEW from \in Nat, 0 < from, NEW to \in Nat, NEW p, NEW q,
           IsBlock(s, x, from, to, p, q)
    PROVE  Block(s, x, from, to) = <<p, q>>
<1> DEFINE S == {i \in from..to : s[i] = x}
           E(b) == {j \in b..to : b > 0 /\ Depth(s, b, j) <= 0}
<1>1. p \in S /\ p \in Nat /\ p > 0 /\ S \in SUBSET Nat /\ \A y \in S : p <= y
  BY DEF IsBlock
<1>2. q \in E(p) /\ q \in Nat /\ q # 0 /\ E(p) \in SUBSET Nat /\ \A y \in E(p) : q <= y
  BY <1>1 DEF IsBlock
<1>3. Block(s, x, from, to) = IF Least(S) = 0 \/ Least(E(Least(S))) = 0 THEN <<0, 0>>
                              ELSE <<Least(S), Least(E(Least(S)))>>
  BY DEF Block
<1> HIDE DEF S, E
<1>4. Least(S) = p
  BY <1>1, LeastIs
<1>5. Least(E(p)) = q
  BY <1>2, LeastIs
<1>6. p # 0
  BY <1>1
<1>7. Block(s, x, from, to) = IF p = 0 \/ q = 0 THEN <<0, 0>> ELSE <<p, q>>
  BY <1>3, <1>4, <1>5, Zenon
<1>8. QED
  BY <1>2, <1>6, <1>7, Zenon

\* What Block finds is that block.
LEMMA BlockFound ==
    ASSUME NEW s, NEW x, NEW from \in Nat, 0 < from, NEW to \in Nat,
           Block(s, x, from, to)[1] # 0
    PROVE  IsBlock(s, x, from, to, Block(s, x, from, to)[1], Block(s, x, from, to)[2])
<1> DEFINE S == {i \in from..to : s[i] = x}
           E(b) == {j \in b..to : b > 0 /\ Depth(s, b, j) <= 0}
           p == Least(S)
           q == Least(E(p))
<1>1. S \in SUBSET Nat
  OBVIOUS
<1>2. Block(s, x, from, to) = IF p = 0 \/ q = 0 THEN <<0, 0>> ELSE <<p, q>>
  BY DEF Block
<1> HIDE DEF S, E, p, q
<1>3. /\ S # {} => p \in S /\ \A y \in S : p <= y
      /\ S = {} => p = 0
  BY <1>1, LeastFound DEF p
<1>4. p # 0 /\ q # 0
  <2>1. <<0, 0>>[1] = 0
    OBVIOUS
  <2>2. QED
    BY <1>2, <2>1, Zenon
<1>5. Block(s, x, from, to)[1] = p /\ Block(s, x, from, to)[2] = q
  <2>1. Block(s, x, from, to) = <<p, q>>
    BY <1>2, <1>4, Zenon
  <2>2. <<p, q>>[1] = p /\ <<p, q>>[2] = q
    OBVIOUS
  <2>3. QED
    BY <2>1, <2>2, Zenon
<1>6. p \in S /\ p \in Nat /\ p > 0
  <2>1. p \in S
    BY <1>3, <1>4
  <2>2. p \in Nat
    BY <1>1, <2>1
  <2>3. QED
    BY <1>4, <2>1, <2>2
<1>7. E(p) \in SUBSET Nat
  BY <1>6 DEF E
<1>8. /\ E(p) # {} => q \in E(p) /\ \A y \in E(p) : q <= y
      /\ E(p) = {} => q = 0
  BY <1>7, LeastFound DEF q
<1>9. q \in E(p) /\ \A y \in E(p) : q <= y
  BY <1>4, <1>8
<1>10. p \in from..to /\ s[p] = x /\ \A k \in from..to : s[k] = x => p <= k
  BY <1>3, <1>6 DEF S
<1>11. /\ q \in p..to /\ Depth(s, p, q) <= 0
       /\ \A k \in p..to : Depth(s, p, k) <= 0 => q <= k
  BY <1>6, <1>9 DEF E
<1>12. IsBlock(s, x, from, to, p, q)
  BY <1>10, <1>11 DEF IsBlock
<1>13. QED
  BY <1>5, <1>12, Zenon

\* A block that opens with a brace has a last line after its first.
LEMMA BlockEnds ==
    ASSUME NEW s, NEW x \in Opening, NEW from \in Nat, NEW to \in Nat, NEW p, NEW q,
           IsBlock(s, x, from, to, p, q)
    PROVE  p \in Nat /\ q \in Nat /\ from <= p /\ p < q /\ q <= to
<1>1. p \in Nat /\ q \in Nat /\ from <= p /\ p <= q /\ q <= to
  BY DEF IsBlock
<1>2. ASSUME p = q PROVE FALSE
  <2>1. s[p] \in Opening
    BY DEF IsBlock
  <2>2. Depth(s, p, p) = 1
    BY <1>1, <2>1, DepthFirst
  <2>3. Depth(s, p, p) <= 0
    BY <1>2 DEF IsBlock
  <2>4. QED
    BY <2>2, <2>3
<1>3. QED
  BY <1>1, <1>2

\* The block around line i, but for its last line, takes in what is put there.
LEMMA BlockInsert ==
    ASSUME NEW s \in Seq(Lines), NEW l \in Seq(Lines), NEW x,
           NEW from \in Nat, 0 < from, NEW to \in Nat, to <= Len(s), NEW p, NEW q,
           IsBlock(s, x, from, to, p, q),
           NEW i \in Nat, p <= i, i < q,
           \A k \in 1..Len(l) : l[k] \notin Braces
    PROVE  IsBlock(Insert(s, i, l), x, from, to + Len(l), p, q + Len(l))
<1> DEFINE d == Insert(s, i, l)
           m == Len(s)
           n == Len(l)
<1>1. /\ m \in Nat /\ n \in Nat /\ to <= m
      /\ p \in Nat /\ from <= p /\ p <= to /\ q \in Nat /\ p <= q /\ q <= to
  BY DEF IsBlock
<1>2. i \in 0..m /\ p \in 1..i
  BY <1>1
<1>3. \A k \in 1..i : d[k] = s[k]
  BY <1>2, InsertLines
<1>4. /\ \A j \in p..i : Depth(d, p, j) = Depth(s, p, j)
      /\ \A j \in i..(i + n) : Depth(d, p, j) = Depth(s, p, i)
      /\ \A j \in i..m : Depth(d, p, j + n) = Depth(s, p, j)
  BY <1>2, DepthInsert
<1> HIDE DEF d, m, n
<1>5. p \in from..(to + n) /\ d[p] = x
  <2>1. d[p] = s[p] /\ p \in from..(to + n)
    BY <1>1, <1>2, <1>3
  <2>2. QED
    BY <2>1 DEF IsBlock
<1>6. ASSUME NEW k \in from..(to + n), d[k] = x PROVE p <= k
  <2>1. CASE k <= i
    <3>1. k \in 1..i /\ k \in from..to
      BY <1>1, <1>2, <2>1
    <3>2. s[k] = x
      BY <1>3, <1>6, <3>1
    <3>3. QED
      BY <3>1, <3>2 DEF IsBlock
  <2>2. CASE ~ (k <= i)
    BY <1>1, <2>2
  <2>3. QED
    BY <2>1, <2>2
<1>7. q + n \in p..(to + n) /\ Depth(d, p, q + n) <= 0
  <2>1. q + n \in p..(to + n) /\ q \in i..m
    BY <1>1
  <2>2. Depth(d, p, q + n) = Depth(s, p, q)
    BY <1>4, <2>1
  <2>3. QED
    BY <2>1, <2>2 DEF IsBlock
<1>8. ASSUME NEW k \in p..(to + n), Depth(d, p, k) <= 0 PROVE q + n <= k
  <2>0. \A j \in p..to : Depth(s, p, j) <= 0 => q <= j
    BY DEF IsBlock
  <2>1. CASE k <= i
    <3>1. k \in p..i /\ k \in p..to
      BY <1>1, <2>1
    <3>2. Depth(s, p, k) <= 0
      BY <1>4, <1>8, <3>1
    <3>3. q <= k
      BY <2>0, <3>1, <3>2
    <3>4. QED
      BY <1>1, <2>1, <3>1, <3>3
  <2>2. CASE i < k /\ k <= i + n
    <3>1. k \in i..(i + n) /\ i \in p..to
      BY <1>1, <2>2
    <3>2. Depth(s, p, i) <= 0
      BY <1>4, <1>8, <3>1
    <3>3. q <= i
      BY <2>0, <3>1, <3>2
    <3>4. QED
      BY <1>1, <3>3
  <2>3. CASE i + n < k
    <3>1. k - n \in i..m /\ (k - n) + n = k /\ k - n \in p..to
      BY <1>1, <2>3
    <3>2. Depth(d, p, (k - n) + n) = Depth(s, p, k - n)
      BY <1>4, <3>1
    <3>3. Depth(s, p, k - n) <= 0
      BY <1>8, <3>1, <3>2
    <3>4. q <= k - n
      BY <2>0, <3>1, <3>3
    <3>5. QED
      BY <1>1, <3>1, <3>4
  <2>4. QED
    BY <1>1, <2>1, <2>2, <2>3
<1>9. IsBlock(d, x, from, to + n, p, q + n)
  BY <1>5, <1>6, <1>7, <1>8 DEF IsBlock
<1>10. QED
  BY <1>9 DEF d, n

\* Location / is inside the server block.
LEMMA RootFound ==
    ASSUME NEW s \in Seq(Lines), RootLocation(s)[1] # 0
    PROVE  \E b, c \in Nat :
              /\ 0 < b /\ b < c /\ c <= Len(s)
              /\ IsBlock(s, "server", 1, Len(s), b, c)
              /\ IsBlock(s, "location", b + 1, c - 1, RootLocation(s)[1], RootLocation(s)[2])
<1> DEFINE B == ServerBlock(s)
           b == B[1]
           c == B[2]
<1>1. Len(s) \in Nat /\ "server" \in Opening
  BY DEF Opening
<1>2. RootLocation(s) = IF b = 0 THEN <<0, 0>> ELSE Block(s, "location", b + 1, c - 1)
  BY DEF RootLocation
<1> HIDE DEF B
<1>3. b # 0
  <2>1. <<0, 0>>[1] = 0
    OBVIOUS
  <2>2. QED
    BY <1>2, <2>1, Zenon
<1>4. IsBlock(s, "server", 1, Len(s), b, c)
  <2>1. 1 \in Nat /\ 0 < 1
    OBVIOUS
  <2>2. B = Block(s, "server", 1, Len(s))
    BY Zenon DEF B, ServerBlock
  <2>3. Block(s, "server", 1, Len(s))[1] # 0
    BY <1>3, <2>2, Zenon
  <2>4. IsBlock(s, "server", 1, Len(s), Block(s, "server", 1, Len(s))[1], Block(s, "server", 1, Len(s))[2])
    BY <1>1, <2>1, <2>3, BlockFound, Zenon
  <2>5. QED
    BY <2>2, <2>4, Zenon
<1> HIDE DEF b, c
<1>5. b \in Nat /\ c \in Nat /\ 1 <= b /\ b < c /\ c <= Len(s)
  BY <1>1, <1>4, BlockEnds
<1>6. b + 1 \in Nat /\ 0 < b + 1 /\ c - 1 \in Nat
  BY <1>5
<1>7. RootLocation(s) = Block(s, "location", b + 1, c - 1)
  BY <1>2, <1>3, Zenon
<1>8. IsBlock(s, "location", b + 1, c - 1, RootLocation(s)[1], RootLocation(s)[2])
  <2>1. Block(s, "location", b + 1, c - 1)[1] # 0
    BY <1>7, Zenon
  <2>2. IsBlock(s, "location", b + 1, c - 1, Block(s, "location", b + 1, c - 1)[1],
                Block(s, "location", b + 1, c - 1)[2])
    BY <1>6, <2>1, BlockFound
  <2>3. QED
    BY <1>7, <2>2, Zenon
<1>9. 0 < b
  BY <1>5
<1>10. QED
  BY <1>4, <1>5, <1>8, <1>9, Zenon

\* And it is that of its server block.
LEMMA RootIs ==
    ASSUME NEW s \in Seq(Lines), NEW b \in Nat, NEW c \in Nat, NEW p, NEW q,
           IsBlock(s, "server", 1, Len(s), b, c),
           IsBlock(s, "location", b + 1, c - 1, p, q)
    PROVE  RootLocation(s) = <<p, q>>
<1>1. Len(s) \in Nat /\ 1 \in Nat /\ 0 < 1 /\ "server" \in Opening
  BY DEF Opening
<1>2. 1 <= b /\ b < c
  BY <1>1, BlockEnds
<1>3. b + 1 \in Nat /\ 0 < b + 1 /\ c - 1 \in Nat /\ b # 0
  BY <1>2
<1>4. ServerBlock(s) = <<b, c>>
  BY <1>1, BlockIs DEF ServerBlock
<1>5. ServerBlock(s)[1] = b /\ ServerBlock(s)[2] = c
  BY <1>4
<1>6. RootLocation(s) = Block(s, "location", b + 1, c - 1)
  BY <1>3, <1>5, Zenon DEF RootLocation
<1>7. Block(s, "location", b + 1, c - 1) = <<p, q>>
  BY <1>3, BlockIs
<1>8. QED
  BY <1>6, <1>7, Zenon

\* It has an opening and a closing line inside the configuration.
LEMMA RootRange ==
    ASSUME NEW s \in Seq(Lines), RootLocation(s)[1] # 0
    PROVE  /\ RootLocation(s)[1] \in Nat /\ RootLocation(s)[2] \in Nat
           /\ 0 < RootLocation(s)[1] /\ RootLocation(s)[1] < RootLocation(s)[2]
           /\ RootLocation(s)[2] < Len(s)
<1> DEFINE p == RootLocation(s)[1]
           q == RootLocation(s)[2]
<1>1. PICK b, c \in Nat :
              /\ 0 < b /\ b < c /\ c <= Len(s)
              /\ IsBlock(s, "server", 1, Len(s), b, c)
              /\ IsBlock(s, "location", b + 1, c - 1, p, q)
  BY RootFound
<1>1a. 0 < b /\ b < c /\ c <= Len(s)
  BY <1>1, Zenon
<1> HIDE DEF p, q
<1>2. b + 1 \in Nat /\ c - 1 \in Nat /\ "location" \in Opening /\ Len(s) \in Nat
  BY <1>1a DEF Opening
<1>3. p \in Nat /\ q \in Nat /\ b + 1 <= p /\ p < q /\ q <= c - 1
  BY <1>1, <1>2, BlockEnds, Zenon
<1>4. 0 < p /\ q < Len(s)
  BY <1>1a, <1>2, <1>3
<1>5. QED
  BY <1>3, <1>4 DEF p, q

\* It grows by what is put into it.
LEMMA RootInsert ==
    ASSUME NEW s \in Seq(Lines), NEW l \in Seq(Lines), RootLocation(s)[1] # 0,
           NEW i \in Nat, RootLocation(s)[1] <= i, i < RootLocation(s)[2],
           \A k \in 1..Len(l) : l[k] \notin Braces
    PROVE  /\ RootLocation(Insert(s, i, l))[1] = RootLocation(s)[1]
           /\ RootLocation(Insert(s, i, l))[2] = RootLocation(s)[2] + Len(l)
<1> DEFINE d == Insert(s, i, l)
           n == Len(l)
           p == RootLocation(s)[1]
           q == RootLocation(s)[2]
<1>1. PICK b, c \in Nat :
              /\ 0 < b /\ b < c /\ c <= Len(s)
              /\ IsBlock(s, "server", 1, Len(s), b, c)
              /\ IsBlock(s, "location", b + 1, c - 1, p, q)
  BY RootFound
<1>2. Len(s) \in Nat /\ n \in Nat /\ "location" \in Opening
  BY DEF Opening
<1>3. p <= i /\ i < q
  OBVIOUS
<1> HIDE DEF d, n, p, q
<1>1a. 0 < b /\ b < c /\ c <= Len(s)
  BY <1>1, Zenon
<1>4. b + 1 \in Nat /\ 0 < b + 1 /\ c - 1 \in Nat /\ c - 1 <= Len(s)
  BY <1>1a, <1>2
<1>5. p \in Nat /\ q \in Nat /\ b + 1 <= p /\ p < q /\ q <= c - 1
  BY <1>1, <1>2, <1>4, BlockEnds, Zenon
<1>6. i \in 0..Len(s) /\ b <= i /\ i < c /\ Len(s) <= Len(s) /\ 1 \in Nat /\ 0 < 1
  BY <1>1a, <1>2, <1>3, <1>5
<1>7. Len(d) = Len(s) + n /\ d \in Seq(Lines)
  BY <1>6, InsertLines DEF d, n
<1>8. IsBlock(d, "server", 1, Len(s) + n, b, c + n)
  BY <1>1, <1>2, <1>6, BlockInsert, Zenon DEF d, n
<1>9. IsBlock(d, "location", b + 1, (c - 1) + n, p, q + n)
  BY <1>1, <1>3, <1>4, BlockInsert, Zenon DEF d, n
<1>10. c + n \in Nat /\ (c - 1) + n = (c + n) - 1
  BY <1>1a, <1>2
<1>11. IsBlock(d, "server", 1, Len(d), b, c + n) /\ IsBlock(d, "location", b + 1, (c + n) - 1, p, q + n)
  BY <1>7, <1>8, <1>9, <1>10, Zenon
<1>12. RootLocation(d) = <<p, q + n>>
  BY <1>1, <1>7, <1>10, <1>11, RootIs
<1>13. RootLocation(d)[1] = p /\ RootLocation(d)[2] = q + n
  BY <1>12
<1>14. QED
  BY <1>13 DEF d, n, p, q

\* After line i the lines of the kinds are as many as before, n lines further on.
LEMMA AmongShift ==
    ASSUME NEW s \in Seq(Lines), NEW l \in Seq(Lines), NEW i \in 0..Len(s), NEW kinds,
           NEW a \in (i + 1)..Len(s), NEW j \in a..Len(s)
    PROVE  Cardinality(Among(Insert(s, i, l), kinds, a + Len(l), j + Len(l)))
             = Cardinality(Among(s, kinds, a, j))
<1> DEFINE d == Insert(s, i, l)
           m == Len(s)
           n == Len(l)
           S == Among(s, kinds, a, j)
           T == Among(d, kinds, a + n, j + n)
           f == [k \in S |-> k + n]
<1>1. m \in Nat /\ n \in Nat /\ i \in Nat /\ a \in Nat /\ j \in Nat /\ i + 1 <= a /\ a <= j /\ j <= m
  OBVIOUS
<1>2. \A k \in (i + 1)..m : d[k + n] = s[k]
  BY InsertLines
<1> HIDE DEF d, m, n
<1>3. ASSUME NEW k \in S PROVE f[k] \in T
  <2>1. k \in a..j /\ s[k] \in kinds
    BY DEF Among
  <2>2. k + n \in (a + n)..(j + n) /\ k \in (i + 1)..m /\ f[k] = k + n
    BY <1>1, <2>1
  <2>3. d[k + n] = s[k]
    BY <1>2, <2>2
  <2>4. QED
    BY <2>1, <2>2, <2>3 DEF Among
<1>4. ASSUME NEW t \in T PROVE \E k \in S : f[k] = t
  <2>1. t \in (a + n)..(j + n) /\ d[t] \in kinds
    BY DEF Among
  <2>2. t - n \in a..j /\ t - n \in (i + 1)..m /\ (t - n) + n = t
    BY <1>1, <2>1
  <2>3. d[(t - n) + n] = s[t - n]
    BY <1>2, <2>2
  <2>4. t - n \in S
    BY <2>1, <2>2, <2>3 DEF Among
  <2>5. f[t - n] = t
    BY <2>2, <2>4
  <2>6. QED
    BY <2>4, <2>5
<1>5. ASSUME NEW k \in S, NEW h \in S, f[k] = f[h] PROVE k = h
  <2>1. k \in a..j /\ h \in a..j
    BY DEF Among
  <2> HIDE DEF S
  <2>2. k + n = h + n
    BY <1>5
  <2>3. QED
    BY <1>1, <2>1, <2>2
<1>6. f \in [S -> T]
  <2> HIDE DEF S, T
  <2>1. QED
    BY <1>3
<1> HIDE DEF S, T, f
<1>7. f \in Bijection(S, T)
  BY <1>4, <1>5, <1>6 DEF Bijection, Injection, Surjection, IsInjective
<1>8. ExistsBijection(S, T)
  BY <1>7 DEF ExistsBijection
<1>9. IsFiniteSet(S)
  BY <1>1, AmongFinite DEF S
<1>10. Cardinality(T) = Cardinality(S)
  BY <1>8, <1>9, FS_Bijection
<1>11. QED
  BY <1>10 DEF S, T, d, n

\* And so is the depth.
LEMMA DepthShift ==
    ASSUME NEW s \in Seq(Lines), NEW l \in Seq(Lines), NEW i \in 0..Len(s),
           NEW a \in (i + 1)..Len(s), NEW j \in a..Len(s)
    PROVE  Depth(Insert(s, i, l), a + Len(l), j + Len(l)) = Depth(s, a, j)
<1> DEFINE d == Insert(s, i, l)
           n == Len(l)
<1>1. Cardinality(Among(d, Opening, a + n, j + n)) = Cardinality(Among(s, Opening, a, j))
  BY AmongShift
<1>2. Cardinality(Among(d, {"end"}, a + n, j + n)) = Cardinality(Among(s, {"end"}, a, j))
  BY AmongShift
<1> HIDE DEF d, n
<1>3. Depth(d, a + n, j + n) = Depth(s, a, j)
  BY <1>1, <1>2, DepthIs, Zenon
<1>4. QED
  BY <1>3 DEF d, n

\* A line without a brace leaves the depth as it is.
LEMMA DepthStep ==
    ASSUME NEW s, NEW a \in Nat, NEW j \in Nat, a <= j, s[j + 1] \notin Braces
    PROVE  Depth(s, a, j + 1) = Depth(s, a, j)
<1>1. a..(j + 1) = (a..j) \cup {j + 1}
  OBVIOUS
<1>2. Among(s, Opening, a, j + 1) = Among(s, Opening, a, j)
  BY <1>1 DEF Among, Braces
<1>3. Among(s, {"end"}, a, j + 1) = Among(s, {"end"}, a, j)
  BY <1>1 DEF Among, Braces
<1>4. QED
  BY <1>2, <1>3, DepthIs, Zenon

\* A block after line i moves down by what is put in there.
LEMMA BlockShift ==
    ASSUME NEW s \in Seq(Lines), NEW l \in Seq(Lines), NEW x,
           NEW from \in Nat, 0 < from, NEW to \in Nat, to <= Len(s), NEW p, NEW q,
           IsBlock(s, x, from, to, p, q),
           NEW i \in Nat, from <= i + 1, i < p,
           \A k \in 1..Len(l) : l[k] # x
    PROVE  IsBlock(Insert(s, i, l), x, from, to + Len(l), p + Len(l), q + Len(l))
<1> DEFINE d == Insert(s, i, l)
           m == Len(s)
           n == Len(l)
<1>1. /\ m \in Nat /\ n \in Nat /\ to <= m
      /\ p \in Nat /\ from <= p /\ p <= to /\ q \in Nat /\ p <= q /\ q <= to
  BY DEF IsBlock
<1>2. i \in 0..m /\ p \in (i + 1)..m
  BY <1>1
<1>3. /\ \A k \in 1..i : d[k] = s[k]
      /\ \A k \in 1..n : d[i + k] = l[k]
      /\ \A k \in (i + 1)..m : d[k + n] = s[k]
  BY <1>2, InsertLines
<1>4. \A j \in p..m : Depth(d, p + n, j + n) = Depth(s, p, j)
  BY <1>2, DepthShift
<1>5. (\A k \in 1..n : l[k] # x) /\ from <= i + 1
  OBVIOUS
<1> HIDE DEF d, m, n
<1>6. p + n \in from..(to + n) /\ d[p + n] = x
  <2>1. d[p + n] = s[p] /\ p + n \in from..(to + n)
    BY <1>1, <1>2, <1>3
  <2>2. QED
    BY <2>1 DEF IsBlock
<1>7. ASSUME NEW k \in from..(to + n), d[k] = x PROVE p + n <= k
  <2>0. \A h \in from..to : s[h] = x => p <= h
    BY DEF IsBlock
  <2>1. CASE k <= i
    <3>1. k \in 1..i /\ k \in from..to
      BY <1>1, <1>2, <2>1
    <3>2. s[k] = x
      BY <1>3, <1>7, <3>1
    <3>3. p <= k
      BY <2>0, <3>1, <3>2
    <3>4. QED
      BY <1>1, <1>2, <2>1, <3>1, <3>3
  <2>2. CASE i < k /\ k <= i + n
    <3>1. k - i \in 1..n /\ i + (k - i) = k
      BY <1>1, <2>2
    <3>2. d[i + (k - i)] = l[k - i]
      BY <1>3, <3>1
    <3>3. QED
      BY <1>5, <1>7, <3>1, <3>2
  <2>3. CASE i + n < k
    <3>1. k - n \in (i + 1)..m /\ (k - n) + n = k /\ k - n <= to
      BY <1>1, <2>3
    <3>2. d[(k - n) + n] = s[k - n]
      BY <1>3, <3>1
    <3>3. k - n \in from..to /\ s[k - n] = x
      BY <1>1, <1>2, <1>5, <1>7, <3>1, <3>2
    <3>4. p <= k - n
      BY <2>0, <3>3
    <3>5. QED
      BY <1>1, <3>1, <3>4
  <2>4. QED
    BY <1>1, <2>1, <2>2, <2>3
<1>8. q + n \in (p + n)..(to + n) /\ Depth(d, p + n, q + n) <= 0
  <2>1. q + n \in (p + n)..(to + n) /\ q \in p..m
    BY <1>1
  <2>2. Depth(d, p + n, q + n) = Depth(s, p, q)
    BY <1>4, <2>1
  <2>3. QED
    BY <2>1, <2>2 DEF IsBlock
<1>9. ASSUME NEW k \in (p + n)..(to + n), Depth(d, p + n, k) <= 0 PROVE q + n <= k
  <2>1. k - n \in p..m /\ k - n \in p..to /\ (k - n) + n = k
    BY <1>1
  <2>2. Depth(s, p, k - n) <= 0
    BY <1>4, <1>9, <2>1
  <2>3. q <= k - n
    BY <2>1, <2>2 DEF IsBlock
  <2>4. QED
    BY <1>1, <2>1, <2>3
<1>10. IsBlock(d, x, from, to + n, p + n, q + n)
  BY <1>6, <1>7, <1>8, <1>9 DEF IsBlock
<1>11. QED
  BY <1>10 DEF d, n

\* A block before line i stays where it is.
LEMMA BlockBefore ==
    ASSUME NEW s \in Seq(Lines), NEW l \in Seq(Lines), NEW x,
           NEW from \in Nat, 0 < from, NEW to \in Nat, to <= Len(s), NEW p, NEW q,
           IsBlock(s, x, from, to, p, q),
           NEW i \in Nat, q <= i, i <= Len(s),
           \A k \in 1..Len(l) : l[k] \notin Braces
    PROVE  IsBlock(Insert(s, i, l), x, from, to + Len(l), p, q)
<1> DEFINE d == Insert(s, i, l)
           m == Len(s)
           n == Len(l)
<1>1. /\ m \in Nat /\ n \in Nat /\ to <= m
      /\ p \in Nat /\ from <= p /\ p <= to /\ q \in Nat /\ p <= q /\ q <= to
  BY DEF IsBlock
<1>2. i \in 0..m /\ p \in 1..i
  BY <1>1
<1>3. \A k \in 1..i : d[k] = s[k]
  BY <1>2, InsertLines
<1>4. \A j \in p..i : Depth(d, p, j) = Depth(s, p, j)
  BY <1>2, DepthInsert
<1>5. q <= i
  OBVIOUS
<1> HIDE DEF d, m, n
<1>6. /\ p \in from..to /\ s[p] = x
      /\ \A k \in from..to : s[k] = x => p <= k
      /\ q \in p..to /\ Depth(s, p, q) <= 0
      /\ \A k \in p..to : Depth(s, p, k) <= 0 => q <= k
  BY DEF IsBlock
<1>7. p \in from..(to + n) /\ d[p] = x
  BY <1>1, <1>2, <1>3, <1>6
<1>8. ASSUME NEW k \in from..(to + n), d[k] = x PROVE p <= k
  <2>1. CASE k <= q
    <3>1. k \in 1..i /\ k \in from..to
      BY <1>1, <1>2, <1>5, <2>1
    <3>2. s[k] = x
      BY <1>3, <1>8, <3>1
    <3>3. QED
      BY <1>6, <3>1, <3>2
  <2>2. CASE ~ (k <= q)
    BY <1>1, <2>2
  <2>3. QED
    BY <2>1, <2>2
<1>9. q \in p..(to + n) /\ Depth(d, p, q) <= 0
  <2>1. q \in p..(to + n) /\ q \in p..i
    BY <1>1, <1>5
  <2>2. Depth(d, p, q) = Depth(s, p, q)
    BY <1>4, <2>1
  <2>3. QED
    BY <1>6, <2>1, <2>2
<1>10. ASSUME NEW k \in p..(to + n), Depth(d, p, k) <= 0 PROVE q <= k
  <2>1. CASE k <= q
    <3>1. k \in p..i /\ k \in p..to
      BY <1>1, <1>5, <2>1
    <3>2. Depth(s, p, k) <= 0
      BY <1>4, <1>10, <3>1
    <3>3. QED
      BY <1>6, <3>1, <3>2
  <2>2. CASE ~ (k <= q)
    BY <1>1, <2>2
  <2>3. QED
    BY <2>1, <2>2
<1>11. IsBlock(d, x, from, to + n, p, q)
  BY <1>7, <1>8, <1>9, <1>10 DEF IsBlock
<1>12. QED
  BY <1>11 DEF d, n

\* The last line of a block ends one.
LEMMA BlockLast ==
    ASSUME NEW s, NEW x \in Opening, NEW from \in Nat, NEW to \in Nat, NEW p, NEW q,
           IsBlock(s, x, from, to, p, q)
    PROVE  s[q] \in Braces
<1>1. p \in Nat /\ q \in Nat /\ p < q /\ q <= to
  BY BlockEnds
<1>2. SUFFICES ASSUME s[q] \notin Braces PROVE FALSE
  OBVIOUS
<1>3. q - 1 \in Nat /\ p <= q - 1 /\ (q - 1) + 1 = q /\ q - 1 \in p..to
  BY <1>1
<1>4. Depth(s, p, (q - 1) + 1) = Depth(s, p, q - 1)
  BY <1>1, <1>2, <1>3, DepthStep
<1>5. Depth(s, p, q - 1) <= 0
  BY <1>3, <1>4 DEF IsBlock
<1>6. q <= q - 1
  BY <1>3, <1>5 DEF IsBlock
<1>7. QED
  BY <1>1, <1>6

(* --------------------------- what editing makes -------------------------- *)

\* The line x does not occur.
Absent(s, x) == \A k \in 1..Len(s) : s[k] # x

\* A configuration has a line or it does not occur.
LEMMA HasOne ==
    ASSUME NEW s \in Seq(Lines), NEW x
    PROVE  Has(s, {x}) <=> ~ Absent(s, x)
BY HasIs DEF Absent

\* Without any of the four parts, line by line.
LEMMA CleanIs ==
    ASSUME NEW s \in Seq(Lines)
    PROVE  Clean(s) <=> \A k \in 1..Len(s) : s[k] \notin {"include", "vars", "access", "filter"}
BY HasIs DEF Clean

\* What the three editing functions do, in terms of Insert.
LEMMA VariablesIs ==
    ASSUME NEW s \in Seq(Lines), NEW block
    PROVE  \/ InjectVariables(s, block) = s
           \/ \E n \in 0..Len(s) : InjectVariables(s, block) = Insert(s, n, block)
<1> DEFINE b == ServerBlock(s)
           S == {i \in b[1]..b[2] : i > 0 /\ s[i] = "name"}
           n == Least(S)
<1>1. InjectVariables(s, block) = IF b[1] = 0 \/ n = 0 THEN s ELSE Insert(s, n, block)
  BY DEF InjectVariables
<1>2. SUFFICES ASSUME b[1] # 0, n # 0 PROVE n \in 0..Len(s)
  <2> HIDE DEF b, S, n
  <2>1. QED
    BY <1>1
<1>3. 1 \in Nat /\ 0 < 1 /\ Len(s) \in Nat /\ "server" \in Opening
  BY DEF Opening
<1>4. IsBlock(s, "server", 1, Len(s), b[1], b[2])
  BY <1>2, <1>3, BlockFound, Zenon DEF ServerBlock
<1>5. b[1] \in Nat /\ b[2] \in Nat /\ b[2] <= Len(s)
  BY <1>3, <1>4, BlockEnds
<1> HIDE DEF b, n
<1>6. S \in SUBSET Nat
  BY <1>5
<1> HIDE DEF S
<1>7. n \in S
  BY <1>2, <1>6, LeastFound DEF n
<1>8. QED
  BY <1>3, <1>5, <1>7 DEF S

\* The access directive goes after the line that opens location /.
LEMMA AccessIs ==
    ASSUME NEW s \in Seq(Lines)
    PROVE  /\ RootLocation(s)[1] = 0 => InjectAccess(s) = s
           /\ RootLocation(s)[1] # 0 =>
                /\ RootLocation(s)[1] \in 0..Len(s)
                /\ InjectAccess(s) = Insert(s, RootLocation(s)[1], <<"access", "hide">>)
<1>1. /\ RootLocation(s)[1] = 0 => InjectAccess(s) = s
      /\ RootLocation(s)[1] # 0 => InjectAccess(s) = Insert(s, RootLocation(s)[1], <<"access", "hide">>)
  BY Zenon DEF InjectAccess
<1>2. ASSUME RootLocation(s)[1] # 0 PROVE RootLocation(s)[1] \in 0..Len(s)
  <2>1. /\ RootLocation(s)[1] \in Nat /\ RootLocation(s)[2] \in Nat
        /\ RootLocation(s)[1] < RootLocation(s)[2] /\ RootLocation(s)[2] < Len(s)
    BY <1>2, RootRange
  <2>2. Len(s) \in Nat
    OBVIOUS
  <2>3. QED
    BY <2>1, <2>2
<1>3. QED
  BY <1>1, <1>2, Zenon

\* The body filter goes before the line that ends location /.
LEMMA FilterIs ==
    ASSUME NEW s \in Seq(Lines)
    PROVE  /\ RootLocation(s)[1] = 0 => InjectBodyFilter(s) = s
           /\ RootLocation(s)[1] # 0 =>
                /\ RootLocation(s)[2] - 1 \in 0..Len(s)
                /\ InjectBodyFilter(s) = Insert(s, RootLocation(s)[2] - 1, <<"filter">>)
<1>1. /\ RootLocation(s)[1] = 0 => InjectBodyFilter(s) = s
      /\ RootLocation(s)[1] # 0 => InjectBodyFilter(s) = Insert(s, RootLocation(s)[2] - 1, <<"filter">>)
  BY Zenon DEF InjectBodyFilter
<1>2. ASSUME RootLocation(s)[1] # 0 PROVE RootLocation(s)[2] - 1 \in 0..Len(s)
  <2>1. /\ RootLocation(s)[1] \in Nat /\ RootLocation(s)[2] \in Nat
        /\ RootLocation(s)[1] < RootLocation(s)[2] /\ RootLocation(s)[2] < Len(s)
    BY <1>2, RootRange
  <2>2. Len(s) \in Nat
    OBVIOUS
  <2>3. QED
    BY <2>1, <2>2
<1>3. QED
  BY <1>1, <1>2, Zenon

\* d is s, or s with the lines l somewhere in it.
Extended(d, s, l) == d = s \/ \E n \in 0..Len(s) : d = Insert(s, n, l)

\* Such a configuration has no line but theirs.
LEMMA ExtendedLines ==
    ASSUME NEW s \in Seq(Lines), NEW l \in Seq(Lines), NEW d, Extended(d, s, l)
    PROVE  /\ d \in Seq(Lines)
           /\ \A x : Absent(s, x) /\ Absent(l, x) => Absent(d, x)
<1>1. CASE d = s
  BY <1>1
<1>2. CASE d # s
  <2>1. PICK n \in 0..Len(s) : d = Insert(s, n, l)
    BY <1>2 DEF Extended
  <2>2. d \in Seq(Lines)
    BY <2>1, InsertLines, Zenon
  <2>4. ASSUME NEW x, Absent(s, x), Absent(l, x) PROVE Absent(d, x)
    <3>1. \A k \in 1..Len(Insert(s, n, l)) : Insert(s, n, l)[k] # x
      BY <2>4, InsertNone DEF Absent
    <3>2. QED
      BY <2>1, <3>1, Zenon DEF Absent
  <2>5. QED
    BY <2>2, <2>4, Zenon
<1>3. QED
  BY <1>1, <1>2, Zenon

\* A filter that drops all of l makes the same of the two.
LEMMA ExtendedWithout ==
    ASSUME NEW s \in Seq(Lines), NEW l \in Seq(Lines), NEW d, Extended(d, s, l), NEW K,
           \A k \in 1..Len(l) : l[k] \in K
    PROVE  Without(d, K) = Without(s, K)
<1>1. CASE d = s
  BY <1>1
<1>2. CASE d # s
  <2>1. PICK n \in 0..Len(s) : d = Insert(s, n, l)
    BY <1>2 DEF Extended
  <2>2. Without(Insert(s, n, l), K) = Without(s, K)
    BY WithoutInsert
  <2>3. QED
    BY <2>1, <2>2
<1>3. QED
  BY <1>1, <1>2

\* Each editing function extends what it gets.
LEMMA EditsExtend ==
    ASSUME NEW s \in Seq(Lines)
    PROVE  /\ \A block : Extended(InjectVariables(s, block), s, block)
           /\ Extended(InjectAccess(s), s, <<"access", "hide">>)
           /\ Extended(InjectBodyFilter(s), s, <<"filter">>)
<1>1. \A block : Extended(InjectVariables(s, block), s, block)
  BY VariablesIs, Zenon DEF Extended
<1>2. Extended(InjectAccess(s), s, <<"access", "hide">>)
  BY AccessIs, Zenon DEF Extended
<1>3. Extended(InjectBodyFilter(s), s, <<"filter">>)
  <2>1. CASE RootLocation(s)[1] = 0
    BY <2>1, FilterIs, Zenon DEF Extended
  <2>2. CASE RootLocation(s)[1] # 0
    <3>1. /\ RootLocation(s)[2] - 1 \in 0..Len(s)
          /\ InjectBodyFilter(s) = Insert(s, RootLocation(s)[2] - 1, <<"filter">>)
      BY <2>2, FilterIs, Zenon
    <3>2. QED
      BY <3>1, Zenon DEF Extended
  <2>3. QED
    BY <2>1, <2>2, Zenon
<1>4. QED
  BY <1>1, <1>2, <1>3, Zenon

\* What a deployment makes of a configuration without an old defence.
Edited(s, block) == InjectBodyFilter(InjectAccess(InjectVariables(s, block)))

\* The lines of a block with the include and the variables in it.
IsPart(block) ==
    /\ block \in Seq({"include", "resolver", "vars"})
    /\ \E p, q : OnlyAt(block, "include", p) /\ OnlyAt(block, "vars", q)

\* Editing puts lines in and changes none: a filter that drops what it puts in
\* leaves the same as before.
LEMMA EditedLines ==
    ASSUME NEW s \in Seq(Lines), NEW block \in Seq({"include", "resolver", "vars"}), NEW K,
           \A k \in 1..Len(block) : block[k] \in K, {"access", "hide", "filter"} \subseteq K
    PROVE  Edited(s, block) \in Seq(Lines) /\ Without(Edited(s, block), K) = Without(s, K)
<1> DEFINE v == InjectVariables(s, block)
           a == InjectAccess(v)
           d == InjectBodyFilter(a)
           A == <<"access", "hide">>
           F == <<"filter">>
<1>1. block \in Seq(Lines)
  <2>1. {"include", "resolver", "vars"} \subseteq Lines
    BY DEF Lines, FangyuLines
  <2>2. QED
    BY <2>1, SeqMonotonic
<1>2. A \in Seq(Lines) /\ \A k \in 1..Len(A) : A[k] \in K
  BY DEF Lines, FangyuLines
<1>3. F \in Seq(Lines) /\ \A k \in 1..Len(F) : F[k] \in K
  BY DEF Lines, FangyuLines
<1>4. v \in Seq(Lines) /\ Without(v, K) = Without(s, K)
  <2>1. Extended(v, s, block)
    BY EditsExtend, Zenon
  <2> HIDE DEF v
  <2>2. QED
    BY <1>1, <2>1, ExtendedLines, ExtendedWithout
<1> HIDE DEF v
<1>5. a \in Seq(Lines) /\ Without(a, K) = Without(v, K)
  <2>1. Extended(a, v, A)
    BY <1>4, EditsExtend, Zenon
  <2> HIDE DEF a, A
  <2>2. QED
    BY <1>2, <1>4, <2>1, ExtendedLines, ExtendedWithout
<1> HIDE DEF a
<1>6. d \in Seq(Lines) /\ Without(d, K) = Without(a, K)
  <2>1. Extended(d, a, F)
    BY <1>5, EditsExtend, Zenon
  <2> HIDE DEF d, F
  <2>2. QED
    BY <1>3, <1>5, <2>1, ExtendedLines, ExtendedWithout
<1>7. QED
  BY <1>4, <1>5, <1>6, Zenon DEF Edited, v, a, d

\* Once the variables and the access directive are in, all of it is, the
\* directives inside location /.
LEMMA EditedWhole ==
    ASSUME NEW s \in Seq(Lines), Clean(s), NEW block, IsPart(block),
           Has(Edited(s, block), {"vars"}), Has(Edited(s, block), {"access"})
    PROVE  Whole(Edited(s, block))
<1> DEFINE v == InjectVariables(s, block)
           a == InjectAccess(v)
           d == InjectBodyFilter(a)
           A == <<"access", "hide">>
           F == <<"filter">>
           r == RootLocation(v)
<1>1. /\ block \in Seq(Lines)
      /\ \A k \in 1..Len(block) : block[k] \notin {"access", "filter"}
  <2>1. {"include", "resolver", "vars"} \subseteq Lines
    BY DEF Lines, FangyuLines
  <2>2. block \in Seq(Lines)
    BY <2>1, SeqMonotonic DEF IsPart
  <2>3. QED
    BY <2>2 DEF IsPart
<1>2. PICK p, q : OnlyAt(block, "include", p) /\ OnlyAt(block, "vars", q)
  BY DEF IsPart
<1>3. A \in Seq(Lines) /\ Len(A) = 2 /\ A[1] = "access" /\ A[2] = "hide"
  BY DEF Lines, FangyuLines
<1>4. F \in Seq(Lines) /\ Len(F) = 1 /\ F[1] = "filter"
  BY DEF Lines, FangyuLines
<1>5. Absent(s, "include") /\ Absent(s, "vars") /\ Absent(s, "access") /\ Absent(s, "filter")
  BY CleanIs DEF Absent
<1> HIDE DEF A, F
<1>6. /\ OnlyAt(A, "access", 1) /\ OnlyAt(F, "filter", 1)
      /\ Absent(A, "include") /\ Absent(A, "vars") /\ Absent(A, "filter")
      /\ Absent(F, "include") /\ Absent(F, "vars") /\ Absent(F, "access")
      /\ \A k \in 1..Len(A) : A[k] \notin Braces
      /\ \A k \in 1..Len(F) : F[k] \notin Braces
      /\ Absent(block, "access") /\ Absent(block, "filter")
  BY <1>1, <1>3, <1>4 DEF OnlyAt, Absent, Braces, Opening
<1> HIDE DEF d, a, v
<1>7. d = Edited(s, block)
  BY DEF d, a, v, Edited
<1>8. v \in Seq(Lines) /\ a \in Seq(Lines) /\ d \in Seq(Lines)
  <2>1. v \in Seq(Lines)
    BY <1>1, EditsExtend, ExtendedLines, Zenon DEF v
  <2>2. a \in Seq(Lines)
    BY <1>3, <2>1, EditsExtend, ExtendedLines, Zenon DEF a, A
  <2>3. d \in Seq(Lines)
    BY <1>4, <2>2, EditsExtend, ExtendedLines, Zenon DEF d, F
  <2>4. QED
    BY <2>1, <2>2, <2>3
<1>9. ~ Absent(d, "vars") /\ ~ Absent(d, "access")
  BY <1>7, <1>8, HasOne
<1>10. Absent(v, "vars") => Absent(a, "vars")
  BY <1>3, <1>6, <1>8, EditsExtend, ExtendedLines, Zenon DEF a, A
<1>11. Absent(a, "vars") => Absent(d, "vars")
  BY <1>4, <1>6, <1>8, EditsExtend, ExtendedLines, Zenon DEF d, F
<1>12. v # s
  BY <1>5, <1>9, <1>10, <1>11
<1>13. PICK n \in 0..Len(s) : v = Insert(s, n, block)
  BY <1>12, VariablesIs DEF v
<1>14. /\ OnlyAt(v, "include", n + p) /\ OnlyAt(v, "vars", n + q)
       /\ Absent(v, "access") /\ Absent(v, "filter")
  BY <1>1, <1>2, <1>5, <1>6, <1>13, InsertNew, InsertNone, Zenon DEF Absent
<1>15. r[1] # 0
  <2>1. SUFFICES ASSUME r[1] = 0 PROVE FALSE
    OBVIOUS
  <2>2. a = v
    BY <1>8, <2>1, AccessIs, Zenon DEF a
  <2>3. Absent(d, "access")
    BY <1>4, <1>6, <1>8, <1>14, <2>2, EditsExtend, ExtendedLines, Zenon DEF d, F
  <2>4. QED
    BY <1>9, <2>3
<1>16. r[1] \in 0..Len(v) /\ a = Insert(v, r[1], A)
  BY <1>8, <1>15, AccessIs, Zenon DEF a, A
<1>17. /\ r[1] \in Nat /\ r[2] \in Nat /\ 0 < r[1] /\ r[1] < r[2] /\ r[2] < Len(v)
  BY <1>8, <1>15, RootRange
<1>18. Len(a) = Len(v) + 2 /\ Len(v) \in Nat
  <2>1. Len(a) = Len(v) + Len(A)
    BY <1>3, <1>8, <1>16, InsertLines, ZenonT(40)
  <2>2. QED
    BY <1>3, <1>8, <2>1
<1>19. RootLocation(a)[1] = r[1] /\ RootLocation(a)[2] = r[2] + 2
  <2>1. r[1] \in Nat /\ r[1] <= r[1] /\ r[1] < r[2]
    BY <1>17
  <2>2. RootLocation(a)[1] = r[1] /\ RootLocation(a)[2] = r[2] + Len(A)
    BY <1>3, <1>6, <1>8, <1>15, <1>16, <2>1, RootInsert, Zenon
  <2>3. QED
    BY <1>3, <2>2
<1> HIDE DEF r
<1> DEFINE i == (r[2] + 2) - 1
<1>20. i \in 0..Len(a) /\ i \in Nat /\ r[1] + 1 <= i /\ i < r[2] + 2 /\ i + 1 = r[2] + 2
  BY <1>17, <1>18
<1>21. d = Insert(a, i, F)
  <2>1. RootLocation(a)[1] # 0
    BY <1>15, <1>19, Zenon DEF r
  <2>2. d = Insert(a, RootLocation(a)[2] - 1, F)
    BY <1>8, <2>1, FilterIs, Zenon DEF d, F
  <2>3. RootLocation(a)[2] - 1 = i
    BY <1>17, <1>19
  <2>4. QED
    BY <2>2, <2>3
<1>22. \E x, y : OnlyAt(a, "include", x) /\ OnlyAt(a, "vars", y)
  <2>1. /\ \A k \in 1..Len(A) : A[k] # "include"
        /\ \A k \in 1..Len(A) : A[k] # "vars"
    BY <1>6, Zenon DEF Absent
  <2>2. OnlyAt(a, "include", IF n + p <= r[1] THEN n + p ELSE n + p + Len(A))
    BY <1>3, <1>8, <1>14, <1>16, <2>1, InsertOld, ZenonT(40)
  <2>3. OnlyAt(a, "vars", IF n + q <= r[1] THEN n + q ELSE n + q + Len(A))
    BY <1>3, <1>8, <1>14, <1>16, <2>1, InsertOld, ZenonT(40)
  <2>4. QED
    BY <2>2, <2>3, Zenon
<1>23. \E x, y : OnlyAt(d, "include", x) /\ OnlyAt(d, "vars", y)
  <2>1. PICK x, y : OnlyAt(a, "include", x) /\ OnlyAt(a, "vars", y)
    BY <1>22, Zenon
  <2>2. /\ OnlyAt(d, "include", IF x <= i THEN x ELSE x + Len(F))
        /\ OnlyAt(d, "vars", IF y <= i THEN y ELSE y + Len(F))
    BY <1>4, <1>6, <1>8, <1>20, <1>21, <2>1, InsertOld, Zenon DEF Absent
  <2>3. QED
    BY <2>2, Zenon
<1>24. OnlyAt(a, "access", r[1] + 1) /\ Absent(a, "filter")
  <2>1. /\ \A k \in 1..Len(v) : v[k] # "access" /\ v[k] # "filter"
        /\ \A k \in 1..Len(A) : A[k] # "filter"
    BY <1>6, <1>14, Zenon DEF Absent
  <2>2. OnlyAt(Insert(v, r[1], A), "access", r[1] + 1)
    BY <1>3, <1>6, <1>8, <1>16, <2>1, InsertNew, Zenon
  <2>3. \A k \in 1..Len(Insert(v, r[1], A)) : Insert(v, r[1], A)[k] # "filter"
    BY <1>3, <1>8, <1>16, <2>1, InsertNone, Zenon
  <2>4. QED
    BY <1>16, <2>2, <2>3, Zenon DEF Absent
<1>25. OnlyAt(d, "access", r[1] + 1)
  <2>1. OnlyAt(d, "access", IF r[1] + 1 <= i THEN r[1] + 1 ELSE r[1] + 1 + Len(F))
    BY <1>4, <1>6, <1>8, <1>20, <1>21, <1>24, InsertOld, Zenon DEF Absent
  <2>2. QED
    BY <1>20, <2>1, Zenon
<1>26. OnlyAt(d, "filter", i + 1)
  BY <1>4, <1>6, <1>8, <1>20, <1>21, <1>24, InsertNew, Zenon DEF Absent
<1>27. RootLocation(d)[1] = r[1] /\ RootLocation(d)[2] = r[2] + 3
  <2>1. RootLocation(a)[1] # 0 /\ RootLocation(a)[1] <= i /\ i < RootLocation(a)[2]
    BY <1>17, <1>19, <1>20
  <2>2. /\ RootLocation(d)[1] = RootLocation(a)[1]
        /\ RootLocation(d)[2] = RootLocation(a)[2] + Len(F)
    BY <1>4, <1>6, <1>8, <1>20, <1>21, <2>1, RootInsert, Zenon
  <2>3. RootLocation(a)[2] + 1 = r[2] + 3
    BY <1>17, <1>19
  <2>4. QED
    BY <1>4, <1>19, <2>2, <2>3, Zenon
<1>28. \A l \in {"include", "vars", "access", "filter"} : Occurrences(d, {l}) = 1
  BY <1>8, <1>23, <1>25, <1>26, OnlyOnce, Zenon
<1>29. ASSUME NEW k \in DOMAIN d, d[k] \in {"access", "filter"}
       PROVE  k \in RootLocation(d)[1]..RootLocation(d)[2]
  <2>1. k = r[1] + 1 \/ k = r[2] + 2
    BY <1>8, <1>20, <1>25, <1>26, <1>29 DEF OnlyAt
  <2>2. QED
    BY <1>17, <1>27, <2>1
<1>30. Whole(d)
  BY <1>28, <1>29, Zenon DEF Whole
<1>31. QED
  BY <1>7, <1>30

\* A configuration the defence has not been put on, or the whole of it.
Untouched(c) == Clean(c) /\ Absent(c, "hide")
Sound(c)     == c \in Seq(Lines) /\ (Whole(c) \/ Untouched(c))

\* What is counted once is there.
LEMMA OccursIs ==
    ASSUME NEW s \in Seq(Lines), NEW x, Occurrences(s, {x}) = 1
    PROVE  Has(s, {x})
BY DEF Has

\* A configuration that has one of some kinds has one of more kinds.
LEMMA HasMore ==
    ASSUME NEW s \in Seq(Lines), NEW kinds, NEW others, kinds \subseteq others, Has(s, kinds)
    PROVE  Has(s, others)
BY HasIs

\* A whole defence is found by the service and by the script.
LEMMA WholeHas ==
    ASSUME NEW s \in Seq(Lines), Whole(s)
    PROVE  Has(s, {"access"}) /\ HasFangyu(s) /\ ScriptHasFangyu(s) /\ ~ Clean(s)
<1>1. Occurrences(s, {"access"}) = 1
  BY DEF Whole
<1>2. Has(s, {"access"})
  BY <1>1, OccursIs
<1>3. HasFangyu(s)
  BY <1>2, HasMore DEF HasFangyu
<1>4. ScriptHasFangyu(s)
  BY <1>2, HasMore DEF ScriptHasFangyu
<1>5. ~ Clean(s)
  BY <1>2, HasIs, CleanIs
<1>6. QED
  BY <1>2, <1>3, <1>4, <1>5

\* Without Fangyu's lines nothing of the defence is left.
LEMMA WithoutUntouched ==
    ASSUME NEW s \in Seq(Lines)
    PROVE  Without(s, Removed) \in Seq(Lines) /\ Untouched(Without(s, Removed))
<1> DEFINE w == Without(s, Removed)
<1>1. w \in Seq(Lines \ Removed)
  BY WithoutLines
<1> HIDE DEF w
<1>2. w \in Seq(Lines) /\ \A k \in 1..Len(w) : w[k] \notin Removed
  <2>1. Lines \ Removed \subseteq Lines
    OBVIOUS
  <2>2. w \in Seq(Lines)
    BY <1>1, <2>1, SeqMonotonic
  <2>3. QED
    BY <1>1, <2>2
<1>3. Clean(w) /\ Absent(w, "hide")
  BY <1>2, CleanIs DEF Removed, Absent
<1>4. QED
  BY <1>2, <1>3 DEF w, Untouched

\* A removal takes the defence off, the service's and the script's, and one
\* that finds none changes nothing.
LEMMA RemovalUntouched ==
    ASSUME NEW s, Sound(s)
    PROVE  /\ RemoveOld(s) \in Seq(Lines) /\ Untouched(RemoveOld(s))
           /\ ScriptRemoveOld(s) \in Seq(Lines) /\ Untouched(ScriptRemoveOld(s))
           /\ ~ HasFangyu(s) => RemoveOld(s) = s
           /\ ~ ScriptHasFangyu(s) => ScriptRemoveOld(s) = s
<1>1. s \in Seq(Lines) /\ (Whole(s) \/ Untouched(s))
  BY DEF Sound
<1>2. Without(s, Removed) \in Seq(Lines) /\ Untouched(Without(s, Removed))
  BY <1>1, WithoutUntouched
<1>3. /\ HasFangyu(s) => RemoveOld(s) = Without(s, Removed)
      /\ ~ HasFangyu(s) => RemoveOld(s) = s
      /\ ScriptHasFangyu(s) => ScriptRemoveOld(s) = Without(s, Removed)
      /\ ~ ScriptHasFangyu(s) => ScriptRemoveOld(s) = s
  BY Zenon DEF RemoveOld, ScriptRemoveOld
<1>4. Whole(s) => HasFangyu(s) /\ ScriptHasFangyu(s)
  BY <1>1, WholeHas
<1>5. QED
  BY <1>1, <1>2, <1>3, <1>4, Zenon

\* The blocks the service, the script and the template mode put in.
LEMMA BlocksAreParts ==
    IsPart(ServiceBlock) /\ IsPart(ScriptBlock) /\ TemplateBlock = ScriptBlock
<1>1. /\ ServiceBlock \in Seq({"include", "resolver", "vars"})
      /\ OnlyAt(ServiceBlock, "include", 1) /\ OnlyAt(ServiceBlock, "vars", 3)
  BY DEF ServiceBlock, OnlyAt
<1>2. /\ ScriptBlock \in Seq({"include", "resolver", "vars"})
      /\ OnlyAt(ScriptBlock, "include", 1) /\ OnlyAt(ScriptBlock, "vars", 2)
  BY DEF ScriptBlock, OnlyAt
<1>3. QED
  BY <1>1, <1>2 DEF IsPart, ScriptBlock, TemplateBlock

\* Both deployments write the whole defence or are refused by their own check.
THEOREM DeployedWhole ==
    ASSUME NEW s, Sound(s)
    PROVE  /\ Deployed(s) \in Seq(Lines) /\ ScriptDeployed(s) \in Seq(Lines)
           /\ ValidLogic(Deployed(s)) => Whole(Deployed(s))
           /\ ScriptValidLogic(ScriptDeployed(s)) => Whole(ScriptDeployed(s))
           /\ ~ HasFangyu(s) => Own(Deployed(s)) = Own(s)
           /\ ~ ScriptHasFangyu(s) => Own(ScriptDeployed(s)) = Own(s)
<1> DEFINE a == RemoveOld(s)
           b == ScriptRemoveOld(s)
<1>1. /\ a \in Seq(Lines) /\ Clean(a) /\ b \in Seq(Lines) /\ Clean(b)
      /\ ~ HasFangyu(s) => a = s
      /\ ~ ScriptHasFangyu(s) => b = s
  BY RemovalUntouched DEF Untouched
<1>2. Deployed(s) = Edited(a, ServiceBlock) /\ ScriptDeployed(s) = Edited(b, ScriptBlock)
  BY DEF Deployed, ScriptDeployed, Edited
<1> HIDE DEF a, b
<1>3. /\ Edited(a, ServiceBlock) \in Seq(Lines) /\ Own(Edited(a, ServiceBlock)) = Own(a)
      /\ Edited(b, ScriptBlock) \in Seq(Lines) /\ Own(Edited(b, ScriptBlock)) = Own(b)
  <2>1. {"include", "resolver", "vars", "access", "hide", "filter"} \subseteq Lines \ OwnLines
    BY DEF Lines, FangyuLines, OwnLines
  <2>2. /\ \A k \in 1..Len(ServiceBlock) : ServiceBlock[k] \in Lines \ OwnLines
        /\ \A k \in 1..Len(ScriptBlock) : ScriptBlock[k] \in Lines \ OwnLines
    BY <2>1, BlocksAreParts DEF IsPart
  <2>3. {"access", "hide", "filter"} \subseteq Lines \ OwnLines
    BY <2>1
  <2>4. QED
    BY <1>1, <2>2, <2>3, BlocksAreParts, EditedLines, ZenonT(40) DEF IsPart, Own
<1>4. ValidLogic(Edited(a, ServiceBlock)) => Whole(Edited(a, ServiceBlock))
  BY <1>1, BlocksAreParts, EditedWhole DEF ValidLogic
<1>5. ScriptValidLogic(Edited(b, ScriptBlock)) => Whole(Edited(b, ScriptBlock))
  BY <1>1, BlocksAreParts, EditedWhole DEF ScriptValidLogic
<1>6. QED
  BY <1>1, <1>2, <1>3, <1>4, <1>5, Zenon

\* A configuration the defence can be put on: its server has a name and a
\* location /.
Deployable(s) ==
    /\ RootLocation(s)[1] # 0
    /\ \E i \in ServerBlock(s)[1]..ServerBlock(s)[2] : s[i] = "name"

\* The variables go into its server block, and location / is found again.
LEMMA VariablesIn ==
    ASSUME NEW s \in Seq(Lines), Deployable(s), NEW l \in Seq(Lines),
           \A k \in 1..Len(l) : l[k] \notin Braces
    PROVE  \E n \in 0..Len(s) : /\ InjectVariables(s, l) = Insert(s, n, l)
                                /\ RootLocation(Insert(s, n, l))[1] # 0
<1> DEFINE p == RootLocation(s)[1]
           q == RootLocation(s)[2]
           B == ServerBlock(s)
           S == {i \in B[1]..B[2] : i > 0 /\ s[i] = "name"}
           n == Least(S)
           d == Insert(s, n, l)
           m == Len(l)
<1>1. PICK b, c \in Nat :
              /\ 0 < b /\ b < c /\ c <= Len(s)
              /\ IsBlock(s, "server", 1, Len(s), b, c)
              /\ IsBlock(s, "location", b + 1, c - 1, p, q)
  BY RootFound DEF Deployable
<1>2. /\ 0 < b /\ b < c /\ c <= Len(s) /\ b + 1 \in Nat /\ 0 < b + 1 /\ c - 1 \in Nat
      /\ c - 1 <= Len(s) /\ Len(s) \in Nat /\ m \in Nat
  BY <1>1
<1>3. /\ "server" \in Opening /\ "location" \in Opening /\ 1 \in Nat /\ 0 < 1
      /\ \A k \in 1..m : l[k] # "location"
  BY DEF Opening, Braces
<1>4. B = <<b, c>>
  BY <1>1, <1>2, <1>3, BlockIs DEF ServerBlock
<1>5. B[1] = b /\ B[2] = c
  BY <1>4
<1>6. \E i \in B[1]..B[2] : s[i] = "name"
  BY DEF Deployable
<1>7. InjectVariables(s, l) = IF B[1] = 0 \/ n = 0 THEN s ELSE Insert(s, n, l)
  BY DEF InjectVariables
<1> HIDE DEF B, p, q, m
<1>8. S \in SUBSET Nat /\ S # {} /\ \A i \in S : i \in b..c /\ s[i] = "name"
  <2>1. S = {i \in b..c : i > 0 /\ s[i] = "name"}
    BY <1>5, Zenon
  <2>2. \E i \in b..c : s[i] = "name"
    BY <1>5, <1>6, Zenon
  <2> HIDE DEF S
  <2>3. b \in Nat /\ c \in Nat /\ 0 < b
    BY <1>1
  <2>4. QED
    BY <2>1, <2>2, <2>3
<1> HIDE DEF S
<1>9. n \in S
  BY <1>8, LeastFound DEF n
<1>10. n \in b..c /\ s[n] = "name" /\ n \in Nat
  BY <1>8, <1>9
<1> HIDE DEF n
<1>11. n # b /\ n # c
  <2>1. s[b] = "server"
    BY <1>1 DEF IsBlock
  <2>2. s[c] \in Braces
    BY <1>1, <1>2, <1>3, BlockLast, Zenon
  <2>3. "name" \notin Braces
    BY DEF Braces, Opening
  <2>4. QED
    BY <1>10, <2>1, <2>2, <2>3
<1>12. b <= n /\ n < c /\ n # 0 /\ n \in 0..Len(s) /\ b # 0 /\ b + 1 <= n + 1 /\ n <= Len(s)
  BY <1>2, <1>10, <1>11
<1>13. InjectVariables(s, l) = d
  BY <1>5, <1>7, <1>12, Zenon DEF d
<1>14. d \in Seq(Lines) /\ Len(d) = Len(s) + m
  BY <1>12, InsertLines DEF d, m
<1> HIDE DEF d
<1>15. IsBlock(d, "server", 1, Len(s) + m, b, c + m)
  <2>1. Len(s) <= Len(s)
    BY <1>2
  <2>2. QED
    BY <1>1, <1>2, <1>3, <1>10, <1>12, <2>1, BlockInsert, Zenon DEF d, m
<1>16. p \in Nat /\ q \in Nat /\ b + 1 <= p /\ p < q
  BY <1>1, <1>2, <1>3, BlockEnds, Zenon
<1>17. \E x, y : x \in Nat /\ x # 0 /\ IsBlock(d, "location", b + 1, (c - 1) + m, x, y)
  <2>1. CASE n < p
    <3>1. IsBlock(d, "location", b + 1, (c - 1) + m, p + m, q + m)
      BY <1>1, <1>2, <1>3, <1>10, <1>12, <2>1, BlockShift, Zenon DEF d, m
    <3>2. p + m \in Nat /\ p + m # 0
      BY <1>2, <1>16
    <3>3. QED
      BY <3>1, <3>2, Zenon
  <2>2. CASE p <= n /\ n < q
    <3>1. IsBlock(d, "location", b + 1, (c - 1) + m, p, q + m)
      BY <1>1, <1>2, <1>10, <2>2, BlockInsert, Zenon DEF d, m
    <3>2. p # 0
      BY <1>2, <1>16
    <3>3. QED
      BY <1>16, <3>1, <3>2, Zenon
  <2>3. CASE q <= n
    <3>1. IsBlock(d, "location", b + 1, (c - 1) + m, p, q)
      BY <1>1, <1>2, <1>10, <1>12, <2>3, BlockBefore, Zenon DEF d, m
    <3>2. p # 0
      BY <1>2, <1>16
    <3>3. QED
      BY <1>16, <3>1, <3>2, Zenon
  <2>4. QED
    BY <1>10, <1>16, <2>1, <2>2, <2>3
<1>18. PICK x, y : x \in Nat /\ x # 0 /\ IsBlock(d, "location", b + 1, (c - 1) + m, x, y)
  BY <1>17, Zenon
<1>19. c + m \in Nat /\ (c - 1) + m = (c + m) - 1
  BY <1>2
<1>20. RootLocation(d) = <<x, y>>
  <2>1. IsBlock(d, "server", 1, Len(d), b, c + m) /\ IsBlock(d, "location", b + 1, (c + m) - 1, x, y)
    BY <1>14, <1>15, <1>18, <1>19, Zenon
  <2>2. QED
    BY <1>14, <1>19, <2>1, RootIs
<1>21. RootLocation(d)[1] # 0
  BY <1>18, <1>20
<1>22. QED
  BY <1>12, <1>13, <1>21, Zenon DEF d

\* Putting lines in takes none away, and they are there.
LEMMA InsertHas ==
    ASSUME NEW s \in Seq(Lines), NEW l \in Seq(Lines), NEW i \in 0..Len(s), NEW x,
           ~ Absent(s, x) \/ ~ Absent(l, x)
    PROVE  ~ Absent(Insert(s, i, l), x)
<1> DEFINE d == Insert(s, i, l)
           m == Len(s)
           n == Len(l)
<1>1. m \in Nat /\ n \in Nat /\ i \in Nat /\ i <= m
  OBVIOUS
<1>2. /\ Len(d) = m + n
      /\ \A k \in 1..i : d[k] = s[k]
      /\ \A k \in 1..n : d[i + k] = l[k]
      /\ \A k \in (i + 1)..m : d[k + n] = s[k]
  BY InsertLines
<1>3. (\E k \in 1..m : s[k] = x) \/ (\E k \in 1..n : l[k] = x)
  BY DEF Absent
<1> HIDE DEF d, m, n
<1>4. ASSUME NEW k \in 1..m, s[k] = x PROVE \E j \in 1..Len(d) : d[j] = x
  <2>1. CASE k <= i
    <3>1. k \in 1..i /\ k \in 1..Len(d)
      BY <1>1, <1>2, <2>1
    <3>2. QED
      BY <1>2, <1>4, <3>1
  <2>2. CASE ~ (k <= i)
    <3>1. k \in (i + 1)..m /\ k + n \in 1..Len(d)
      BY <1>1, <1>2, <2>2
    <3>2. QED
      BY <1>2, <1>4, <3>1
  <2>3. QED
    BY <2>1, <2>2
<1>5. ASSUME NEW k \in 1..n, l[k] = x PROVE \E j \in 1..Len(d) : d[j] = x
  <2>1. i + k \in 1..Len(d)
    BY <1>1, <1>2
  <2>2. QED
    BY <1>2, <1>5, <2>1
<1>6. \E j \in 1..Len(d) : d[j] = x
  BY <1>3, <1>4, <1>5
<1>7. QED
  BY <1>6 DEF Absent, d

\* All of the defence gets into such a configuration.
LEMMA EditedHas ==
    ASSUME NEW s \in Seq(Lines), Deployable(s), NEW block \in Seq({"include", "resolver", "vars"})
    PROVE  /\ Edited(s, block) \in Seq(Lines)
           /\ \A x : ~ Absent(block, x) \/ x \in {"access", "filter"} => Has(Edited(s, block), {x})
<1> DEFINE v == InjectVariables(s, block)
           a == InjectAccess(v)
           d == InjectBodyFilter(a)
           A == <<"access", "hide">>
           F == <<"filter">>
<1>1. block \in Seq(Lines) /\ \A k \in 1..Len(block) : block[k] \notin Braces
  <2>1. {"include", "resolver", "vars"} \subseteq Lines
    BY DEF Lines, FangyuLines
  <2>2. block \in Seq(Lines)
    BY <2>1, SeqMonotonic
  <2>3. QED
    BY <2>2 DEF Braces, Opening
<1>2. /\ A \in Seq(Lines) /\ Len(A) = 2 /\ A[1] = "access" /\ ~ Absent(A, "access")
      /\ \A k \in 1..Len(A) : A[k] \notin Braces
  BY DEF Lines, FangyuLines, Absent, Braces, Opening
<1>3. /\ F \in Seq(Lines) /\ ~ Absent(F, "filter")
      /\ \A k \in 1..Len(F) : F[k] \notin Braces
  BY DEF Lines, FangyuLines, Absent, Braces, Opening
<1> HIDE DEF v, a, d, A, F
<1>4. PICK n \in 0..Len(s) : v = Insert(s, n, block) /\ RootLocation(v)[1] # 0
  BY <1>1, VariablesIn, Zenon DEF v
<1>5. v \in Seq(Lines)
  BY <1>1, <1>4, InsertLines, Zenon
<1>6. RootLocation(v)[1] \in 0..Len(v) /\ a = Insert(v, RootLocation(v)[1], A)
  BY <1>4, <1>5, AccessIs, Zenon DEF a, A
<1>7. a \in Seq(Lines)
  BY <1>2, <1>5, <1>6, InsertLines, Zenon
<1>8. RootLocation(a)[1] # 0
  <2>1. /\ RootLocation(v)[1] \in Nat /\ RootLocation(v)[1] <= RootLocation(v)[1]
        /\ RootLocation(v)[1] < RootLocation(v)[2]
    BY <1>4, <1>5, RootRange
  <2>2. RootLocation(a)[1] = RootLocation(v)[1]
    BY <1>2, <1>4, <1>5, <1>6, <2>1, RootInsert, Zenon
  <2>3. QED
    BY <1>4, <2>2, Zenon
<1>9. RootLocation(a)[2] - 1 \in 0..Len(a) /\ d = Insert(a, RootLocation(a)[2] - 1, F)
  BY <1>7, <1>8, FilterIs, Zenon DEF d, F
<1>10. d \in Seq(Lines)
  BY <1>3, <1>7, <1>9, InsertLines, Zenon
<1>11. ASSUME NEW x, ~ Absent(block, x) \/ x \in {"access", "filter"} PROVE ~ Absent(d, x)
  <2>1. ~ Absent(block, x) => ~ Absent(v, x)
    BY <1>1, <1>4, InsertHas, Zenon
  <2>2. ~ Absent(v, x) \/ x = "access" => ~ Absent(a, x)
    BY <1>2, <1>5, <1>6, InsertHas, Zenon
  <2>3. ~ Absent(a, x) \/ x = "filter" => ~ Absent(d, x)
    BY <1>3, <1>7, <1>9, InsertHas, Zenon
  <2>4. QED
    BY <1>11, <2>1, <2>2, <2>3
<1>12. \A x : ~ Absent(block, x) \/ x \in {"access", "filter"} => Has(d, {x})
  BY <1>10, <1>11, HasOne
<1>13. QED
  BY <1>10, <1>12, Zenon DEF Edited, v, a, d

\* Where an earlier defence, if there is one, leaves a server name and a location /
\* neither deployment is refused by its own check, and both write the whole of it.
THEOREM DeployedPasses ==
    ASSUME NEW s, Sound(s)
    PROVE  /\ Deployable(RemoveOld(s)) => ValidLogic(Deployed(s)) /\ Whole(Deployed(s))
           /\ Deployable(ScriptRemoveOld(s)) =>
                ScriptValidLogic(ScriptDeployed(s)) /\ Whole(ScriptDeployed(s))
<1> DEFINE a == RemoveOld(s)
           b == ScriptRemoveOld(s)
<1>1. a \in Seq(Lines) /\ b \in Seq(Lines)
  BY RemovalUntouched
<1>2. Deployed(s) = Edited(a, ServiceBlock) /\ ScriptDeployed(s) = Edited(b, ScriptBlock)
  BY DEF Deployed, ScriptDeployed, Edited
<1> HIDE DEF a, b
<1>3. /\ ServiceBlock \in Seq({"include", "resolver", "vars"})
      /\ ~ Absent(ServiceBlock, "include") /\ ~ Absent(ServiceBlock, "resolver")
      /\ ~ Absent(ServiceBlock, "vars")
  BY DEF ServiceBlock, Absent
<1>4. ScriptBlock \in Seq({"include", "resolver", "vars"}) /\ ~ Absent(ScriptBlock, "vars")
  BY DEF ScriptBlock, Absent
<1>5. ASSUME Deployable(a) PROVE ValidLogic(Deployed(s))
  <2> DEFINE d == Deployed(s)
  <2>1. /\ d \in Seq(Lines)
        /\ Has(d, {"include"}) /\ Has(d, {"resolver"}) /\ Has(d, {"vars"})
        /\ Has(d, {"access"}) /\ Has(d, {"filter"})
    BY <1>1, <1>2, <1>3, <1>5, EditedHas
  <2> HIDE DEF d
  <2>2. Has(d, {"filter", "ownFilter"}) /\ Has(d, {"resolver", "ownResolver"})
    BY <2>1, HasMore
  <2>3. QED
    BY <2>1, <2>2, Zenon DEF ValidLogic, d
<1>6. ASSUME Deployable(b) PROVE ScriptValidLogic(ScriptDeployed(s))
  <2> DEFINE d == ScriptDeployed(s)
  <2>1. d \in Seq(Lines) /\ Has(d, {"vars"}) /\ Has(d, {"access"}) /\ Has(d, {"filter"})
    BY <1>1, <1>2, <1>4, <1>6, EditedHas
  <2> HIDE DEF d
  <2>2. Has(d, {"filter", "ownFilter"})
    BY <2>1, HasMore
  <2>3. QED
    BY <2>1, <2>2, Zenon DEF ScriptValidLogic, d
<1>7. QED
  BY <1>5, <1>6, DeployedWhole, Zenon DEF a, b

\* The script and the template mode make the same of any configuration that
\* has nothing of the defence.
LEMMA CopiesMakeTheSame ==
    ASSUME NEW s \in Seq(Lines), Untouched(s)
    PROVE  ScriptDeployed(s) = Migrated(s)
<1>1. \A k \in 1..Len(s) : s[k] \notin {"include", "vars", "access", "filter", "hide"}
  BY CleanIs DEF Untouched, Absent
<1>2. ScriptRemoveOld(s) = TemplateRemoveOld(s)
  <2>1. CASE ScriptHasFangyu(s)
    <3>1. \A k \in 1..Len(s) : s[k] \in Removed <=> s[k] \in Removed \ {"include"}
      BY <1>1
    <3>2. Without(s, Removed) = Without(s, Removed \ {"include"})
      BY <3>1, WithoutSame
    <3>3. QED
      BY <2>1, <3>2, Zenon DEF ScriptRemoveOld, TemplateRemoveOld
  <2>2. CASE ~ ScriptHasFangyu(s)
    <3>1. \A k \in 1..Len(s) : s[k] \notin {"vars", "access", "filter", "ownFilter", "ownRealIp"}
      BY <2>2, HasIs DEF ScriptHasFangyu
    <3>2. \A k \in 1..Len(s) : s[k] \notin Removed \ {"include"}
      BY <1>1, <3>1 DEF Removed
    <3>3. Without(s, Removed \ {"include"}) = s
      BY <3>2, WithoutNone
    <3>4. QED
      BY <2>2, <3>3, Zenon DEF ScriptRemoveOld, TemplateRemoveOld
  <2>3. QED
    BY <2>1, <2>2
<1>3. QED
  BY <1>2, BlocksAreParts, Zenon DEF ScriptDeployed, Migrated

\* The script's removal undoes its deployment: what was there before is all
\* that is left, as it was.
THEOREM ScriptUndone ==
    ASSUME NEW s \in Seq(Lines), \A k \in 1..Len(s) : s[k] \notin Removed
    PROVE  Without(ScriptDeployed(s), Removed) = s
<1>1. Without(s, Removed) = s
  BY WithoutNone
<1>2. ScriptRemoveOld(s) = s
  BY <1>1, Zenon DEF ScriptRemoveOld
<1>3. ScriptDeployed(s) = Edited(s, ScriptBlock)
  BY <1>2, Zenon DEF ScriptDeployed, Edited
<1>4. /\ {"access", "hide", "filter"} \subseteq Removed
      /\ \A k \in 1..Len(ScriptBlock) : ScriptBlock[k] \in Removed
  BY DEF Removed, ScriptBlock
<1>5. Without(Edited(s, ScriptBlock), Removed) = Without(s, Removed)
  BY <1>4, BlocksAreParts, EditedLines, Zenon DEF IsPart
<1>6. QED
  BY <1>1, <1>3, <1>5, Zenon

\* The configurations of the starting points have nothing of the defence.
LEMMA SamplesSound ==
    ASSUME NEW s \in SampleConfs
    PROVE  s \in Seq(Lines) /\ Untouched(s)
<1>1. SampleConfs = {Plain, OwnDefences, OwnDns, NoLocation, NoName, Redirecting}
  BY DEF SampleConfs
<1>2. /\ Plain \in Seq(Lines) /\ OwnDefences \in Seq(Lines) /\ OwnDns \in Seq(Lines)
      /\ NoLocation \in Seq(Lines) /\ NoName \in Seq(Lines) /\ Redirecting \in Seq(Lines)
  BY
  DEF Plain, OwnDefences, OwnDns, NoLocation, NoName, Redirecting, Lines, FangyuLines, OwnLines
<1> DEFINE Not(c) == \A k \in 1..Len(c) : c[k] \notin {"include", "vars", "access", "filter", "hide"}
<1>3. Not(Plain) /\ Not(OwnDefences) /\ Not(OwnDns) /\ Not(NoLocation) /\ Not(NoName)
  BY DEF Plain, OwnDefences, OwnDns, NoLocation, NoName
<1>4. Not(Redirecting)
  BY DEF Redirecting
<1>5. s \in Seq(Lines) /\ Not(s)
  BY <1>1, <1>2, <1>3, <1>4, Zenon
<1>6. QED
  BY <1>5, CleanIs DEF Untouched, Absent

(* --------------------- the invariant of the defences --------------------- *)

\* The configuration of the site, and of a run about to rewrite it.
ConfInv ==
    /\ Sound(disk)
    /\ \A t \in Runs : call[t] = "write" => Sound(held[t])
    /\ ~ cleaned => /\ Own(disk) = Own(original)
                    /\ \A t \in Runs : call[t] = "write" => Own(held[t]) = Own(original)

\* What a run has uploaded by the time it writes.
Uploaded(t, dir) ==
    /\ call[t] \in {"defense", "read", "write"} => <<dir, "realip">> \in files
    /\ call[t] \in {"read", "write"} => <<dir, "defense">> \in files

\* The files the configuration names, or a run will name, are in the container.
FilesInv ==
    /\ Has(disk, {"access"}) => FilesIn(points) \subseteq files
    /\ \A t \in Runs : /\ kind[t] = "deploy" => Uploaded(t, "service")
                       /\ kind[t] = "script" => Uploaded(t, "domain")

\* Past the steps about nginx.conf, and what they leave behind.
Prepared == {"realip", "defense", "read", "write", "test", "reload", "verify"}

MainReady == unready \/ places \subseteq main
Defended  == withdrawn \/ (Whole(disk) /\ MainReady)

\* A run past those steps leaves nginx.conf ready.
MainInv ==
    /\ \A t \in Runs : call[t] \in {"resolver", "resolverput"} => unready \/ "lua" \in main
    /\ \A t \in Runs : kind[t] \in {"deploy", "script"} /\ call[t] \in Prepared => MainReady

\* Only a run that has ended has passed, and then the site is defended.
OutcomeInv ==
    /\ \A t \in Runs : call[t] = "save" => kind[t] \in {"deploy", "undeploy"}
    /\ \A t \in passed : call[t] \in {"save", "done"}
    /\ \A t \in passed : kind[t] = "deploy" /\ call[t] = "save" => Defended
    /\ platform # "shopify" /\ row = "deployed" => Defended

\* The domain leads to its Worker.
RouteDefended == cut \/ (route.script = "site" /\ "site" \in scripts)

\* A route has its id for itself, and a deployment deletes none of the site's.
RouteInv ==
    /\ \A w \in Workers : listed[w].id <= made /\ (listed[w].id = route.id => listed[w] = route)
    /\ route.id <= made
    /\ \A w \in Workers : task[w] = "deploy" /\ at[w] = "delete" => listed[w].script # "site"
    /\ \A w \in Workers : task[w] = "deploy" /\ at[w] \in {"list", "delete", "add", "verify"} => "site" \in scripts

\* A Worker run that has passed leaves the domain defended.
WorkerInv ==
    /\ \A w \in Workers : at[w] = "save" => task[w] \in {"deploy", "undeploy"}
    /\ \A w \in good : at[w] \in {"save", "done"}
    /\ \A w \in good : task[w] = "deploy" /\ at[w] = "save" => RouteDefended
    /\ platform = "shopify" /\ row = "deployed" => RouteDefended

(* ------------------------ steps of the installers ------------------------ *)

\* The steps that only ask the panel, those that only end a run, and the checks
\* at the end.
Asking(t) ==
    \/ Resolve(t) \/ FindContainer(t) \/ ScriptFindContainer(t) \/ Reload(t)
    \/ \E answers \in BOOLEAN : TestSyntax(t, answers) \/ ScriptTestSyntax(t, answers)

Stopping(t) == CallFails(t) \/ SourceRefused(t) \/ CertificatesRefused(t)

Checking(t) ==
    \E answers, couldRead \in BOOLEAN : VerifyInstallation(t, answers) \/ RunTests(t, answers, couldRead)

\* The steps about nginx.conf.
NginxConf == {"main", "lua", "resolver"}

\* The steps of a run of the installers.
InstallCase(t) ==
    \/ \E k \in {"deploy", "undeploy", "script"} : Start(t, k)
    \/ Asking(t)
    \/ \E p \in NginxConf : ReadMain(t, p)
    \/ \E p \in NginxConf : PutMain(t, p)
    \/ \E p \in NginxConf : MainFails(t, p)
    \/ ServiceUpload(t) \/ ScriptUpload(t)
    \/ Stopping(t) \/ FindAndRead(t)
    \/ UpdateWebsite(t) \/ ScriptUpdateWebsite(t) \/ RemoveFromWebsite(t)
    \/ Checking(t) \/ Save(t) \/ Abandon(t)

\* Every step of the installers is one of these.
LEMMA InstallCases ==
    ASSUME InstallNext
    PROVE  (\E t \in Runs : InstallCase(t)) /\ places' = places
<1>1. PICK t \in Runs : ServiceStep(t) \/ ScriptStep(t) \/ FindAndRead(t) \/ CallFails(t)
  BY DEF InstallNext
<1>2. ServiceStep(t) => InstallCase(t)
  BY Zenon DEF ServiceStep, InstallCase, Asking, Checking, EnsureLuaConfig, NginxConf
<1>3. ScriptStep(t) => InstallCase(t)
  BY Zenon
  DEF ScriptStep, InstallCase, Asking, Stopping, Checking, AddLuaConfig, EnsureResolver,
      NginxConf
<1>4. FindAndRead(t) \/ CallFails(t) => InstallCase(t)
  BY Zenon DEF InstallCase, Stopping
<1>5. places' = places
  BY DEF InstallNext
<1>6. QED
  BY <1>1, <1>2, <1>3, <1>4, <1>5

\* What a run writes is a configuration.
LEMMA Rewritten ==
    ASSUME ConfInv, NEW t \in Runs, call[t] = "write"
    PROVE  /\ Deployed(held[t]) \in Seq(Lines)
           /\ ScriptDeployed(held[t]) \in Seq(Lines)
           /\ RemoveOld(held[t]) \in Seq(Lines)
BY DeployedWhole, RemovalUntouched DEF ConfInv

\* It is a sound one, and the owner's lines are kept unless a defence was found.
LEMMA RewrittenSound ==
    ASSUME ConfInv, NEW t \in Runs, call[t] = "write"
    PROVE  /\ ValidLogic(Deployed(held[t])) => Sound(Deployed(held[t])) /\ Whole(Deployed(held[t]))
           /\ ~ HasFangyu(held[t]) => Own(Deployed(held[t])) = Own(held[t])
           /\ ScriptValidLogic(ScriptDeployed(held[t])) =>
                Sound(ScriptDeployed(held[t])) /\ Whole(ScriptDeployed(held[t]))
           /\ ~ ScriptHasFangyu(held[t]) => Own(ScriptDeployed(held[t])) = Own(held[t])
           /\ Sound(RemoveOld(held[t])) /\ ~ Has(RemoveOld(held[t]), {"access"})
           /\ ~ HasFangyu(held[t]) => Own(RemoveOld(held[t])) = Own(held[t])
<1>1. Sound(held[t])
  BY DEF ConfInv
<1>2. RemoveOld(held[t]) \in Seq(Lines) /\ Untouched(RemoveOld(held[t]))
  BY <1>1, RemovalUntouched
<1>3. ~ Has(RemoveOld(held[t]), {"access"})
  BY <1>2, CleanIs, HasIs DEF Untouched
<1>4. QED
  BY <1>1, <1>2, <1>3, DeployedWhole, RemovalUntouched, Zenon DEF Sound

\* A row is saved as deployed only for a deployment that has passed.
LEMMA SavedRow ==
    ASSUME NEW t \in Runs, Save(t), OutcomeInv
    PROVE  \/ row' = row \/ row' = "failed" \/ row' = "undeployed"
           \/ row' = "deployed" /\ t \in passed /\ kind[t] = "deploy"
<1>1. kind[t] \in {"deploy", "undeploy"}
  BY DEF Save, Advance, OutcomeInv
<1>2. row' = IF t \in abandoned THEN row ELSE IF t \notin passed THEN "failed"
             ELSE IF kind[t] = "deploy" THEN "deployed" ELSE "undeployed"
  BY <1>1 DEF Save, Outcome
<1>3. QED
  BY <1>1, <1>2

\* Every step of the installers keeps every variable in its type.
LEMMA InstallTyped ==
    ASSUME InstallTypeOK, ConfInv, OutcomeInv, NEW t \in Runs, InstallCase(t), places' = places
    PROVE  InstallTypeOK'
<1> USE DEF InstallTypeOK, Kinds, Calls, Parts, Dirs, Needed, Layouts, RowStates
<1>1. ASSUME NEW k \in {"deploy", "undeploy", "script"}, Start(t, k) PROVE InstallTypeOK'
  BY <1>1 DEF Start, Advance, runVars, webVars
<1>2. ASSUME Asking(t) PROVE InstallTypeOK'
  BY <1>2, ZenonT(80)
  DEF Asking, Resolve, FindContainer, ScriptFindContainer, Reload, TestSyntax,
      ScriptTestSyntax, Asks, Advance, runVars, webVars
<1>3. ASSUME NEW p \in NginxConf, ReadMain(t, p) PROVE InstallTypeOK'
  BY <1>3 DEF NginxConf, ReadMain, Advance, Adds, PutOf, After, runVars, webVars
<1>4. ASSUME NEW p \in NginxConf, PutMain(t, p) PROVE InstallTypeOK'
  BY <1>4 DEF NginxConf, PutMain, Advance, Adds, PutOf, After, runVars, webVars
<1>5. ASSUME NEW p \in NginxConf, MainFails(t, p) PROVE InstallTypeOK'
  BY <1>5 DEF NginxConf, MainFails, PutOf, After, runVars, webVars
<1>6. ASSUME ServiceUpload(t) PROVE InstallTypeOK'
  <2>1. PICK f \in Parts : Upload(t, f, "service")
    BY <1>6 DEF ServiceUpload
  <2>2. <<"service", f>> \in UNION {FilesIn(d) : d \in Dirs}
    BY DEF FilesIn, Dirs, Parts
  <2>3. files' \subseteq UNION {FilesIn(d) : d \in Dirs}
    BY <2>1, <2>2 DEF Upload
  <2>4. QED
    BY ZenonT(40), <1>6, <2>1, <2>3 DEF ServiceUpload, Upload, Advance, Stop, Ended, runVars, webVars
<1>7. ASSUME ScriptUpload(t) PROVE InstallTypeOK'
  <2>1. PICK f \in Parts : Upload(t, f, "domain")
    BY <1>7 DEF ScriptUpload
  <2>2. <<"domain", f>> \in UNION {FilesIn(d) : d \in Dirs}
    BY DEF FilesIn, Dirs, Parts
  <2>3. files' \subseteq UNION {FilesIn(d) : d \in Dirs}
    BY <2>1, <2>2 DEF Upload
  <2>4. QED
    BY ZenonT(40), <1>7, <2>1, <2>3 DEF ScriptUpload, Upload, Advance, Stop, Ended, runVars, webVars
<1>8. ASSUME Stopping(t) PROVE InstallTypeOK'
  BY ZenonT(40), <1>8
  DEF Stopping, CallFails, SourceRefused, CertificatesRefused, Stop, Ended, Lenient, runVars,
      webVars
<1>9. ASSUME FindAndRead(t) PROVE InstallTypeOK'
  BY <1>9 DEF FindAndRead, Advance, runVars, webVars
<1>10. ASSUME UpdateWebsite(t) PROVE InstallTypeOK'
  BY <1>10, Rewritten DEF UpdateWebsite, Put, Advance, Stop, Ended, runVars, webVars
<1>11. ASSUME ScriptUpdateWebsite(t) PROVE InstallTypeOK'
  BY <1>11, Rewritten
  DEF ScriptUpdateWebsite, ScriptRefersTo, Put, Advance, Stop, Ended, runVars, webVars
<1>12. ASSUME RemoveFromWebsite(t) PROVE InstallTypeOK'
  BY <1>12, Rewritten DEF RemoveFromWebsite, Put, Advance, Stop, Ended, runVars, webVars
<1>13. ASSUME Checking(t) PROVE InstallTypeOK'
  BY ZenonT(40), <1>13
  DEF Checking, VerifyInstallation, RunTests, Verified, Stop, Ended, runVars, webVars
<1>14. ASSUME Save(t) PROVE InstallTypeOK'
  BY <1>14, SavedRow DEF Save, Advance, runVars, webVars
<1>15. ASSUME Abandon(t) PROVE InstallTypeOK'
  BY <1>15 DEF Abandon, runVars, webVars
<1> HIDE DEF InstallTypeOK, Kinds, Calls, Parts, Dirs, Needed, Layouts, RowStates
<1>16. QED
  BY <1>1, <1>2, <1>3, <1>4, <1>5, <1>6, <1>7, <1>8, <1>9, <1>10, <1>11, <1>12, <1>13, <1>14,
    <1>15, Zenon DEF InstallCase

\* No step leaves half a defence in the configuration or in the hands of a run.
LEMMA ConfKept ==
    ASSUME InstallTypeOK, ConfInv, NEW t \in Runs, InstallCase(t)
    PROVE  ConfInv'
<1>1. ASSUME NEW k \in {"deploy", "undeploy", "script"}, Start(t, k) PROVE ConfInv'
  BY <1>1 DEF Start, Advance, ConfInv, InstallTypeOK, runVars, webVars
<1>2. ASSUME Asking(t) PROVE ConfInv'
  BY <1>2
  DEF Asking, Resolve, FindContainer, ScriptFindContainer, Reload, TestSyntax,
      ScriptTestSyntax, Asks, Advance, ConfInv, InstallTypeOK, runVars, webVars
<1>3. ASSUME NEW p \in NginxConf, ReadMain(t, p) PROVE ConfInv'
  BY <1>3
  DEF NginxConf, ReadMain, Advance, Adds, PutOf, After, ConfInv, InstallTypeOK, runVars,
      webVars
<1>4. ASSUME NEW p \in NginxConf, PutMain(t, p) PROVE ConfInv'
  BY <1>4
  DEF NginxConf, PutMain, Advance, Adds, PutOf, After, ConfInv, InstallTypeOK, runVars, webVars
<1>5. ASSUME NEW p \in NginxConf, MainFails(t, p) PROVE ConfInv'
  BY <1>5 DEF NginxConf, MainFails, PutOf, After, ConfInv, InstallTypeOK, runVars, webVars
<1>6. ASSUME ServiceUpload(t) PROVE ConfInv'
  BY <1>6
  DEF ServiceUpload, Upload, Advance, Stop, Ended, FilesIn, Parts, ConfInv, InstallTypeOK,
      runVars, webVars
<1>7. ASSUME ScriptUpload(t) PROVE ConfInv'
  BY <1>7
  DEF ScriptUpload, Upload, Advance, Stop, Ended, FilesIn, Parts, ConfInv, InstallTypeOK,
      runVars, webVars
<1>8. ASSUME Stopping(t) PROVE ConfInv'
  BY <1>8
  DEF Stopping, CallFails, SourceRefused, CertificatesRefused, Stop, Ended, Lenient, ConfInv,
      InstallTypeOK, runVars, webVars
<1>9. ASSUME FindAndRead(t) PROVE ConfInv'
  BY <1>9 DEF FindAndRead, Advance, ConfInv, InstallTypeOK, runVars, webVars
<1>10. ASSUME UpdateWebsite(t) PROVE ConfInv'
  BY <1>10, RewrittenSound
  DEF UpdateWebsite, Put, Advance, Stop, Ended, ConfInv, InstallTypeOK, runVars, webVars
<1>11. ASSUME ScriptUpdateWebsite(t) PROVE ConfInv'
  BY <1>11, RewrittenSound
  DEF ScriptUpdateWebsite, ScriptRefersTo, Put, Advance, Stop, Ended, ConfInv, InstallTypeOK,
      runVars, webVars
<1>12. ASSUME RemoveFromWebsite(t) PROVE ConfInv'
  BY <1>12, RewrittenSound
  DEF RemoveFromWebsite, Put, Advance, Stop, Ended, ConfInv, InstallTypeOK, runVars, webVars
<1>13. ASSUME Checking(t) PROVE ConfInv'
  BY <1>13
  DEF Checking, VerifyInstallation, RunTests, Verified, Stop, Ended, ConfInv, InstallTypeOK,
      runVars, webVars
<1>14. ASSUME Save(t) PROVE ConfInv'
  BY <1>14 DEF Save, Advance, ConfInv, InstallTypeOK, runVars, webVars
<1>15. ASSUME Abandon(t) PROVE ConfInv'
  BY <1>15 DEF Abandon, ConfInv, InstallTypeOK, runVars, webVars
<1>16. QED
  BY <1>1, <1>2, <1>3, <1>4, <1>5, <1>6, <1>7, <1>8, <1>9, <1>10, <1>11, <1>12, <1>13, <1>14,
    <1>15, Zenon DEF InstallCase

\* Files are there before the configuration names them.
LEMMA FilesKept ==
    ASSUME ServerNameIsDomain = TRUE, InstallTypeOK, ConfInv, FilesInv, NEW t \in Runs,
           InstallCase(t)
    PROVE  FilesInv'
<1>1. ASSUME NEW k \in {"deploy", "undeploy", "script"}, Start(t, k) PROVE FilesInv'
  BY <1>1 DEF Start, Advance, FilesInv, InstallTypeOK, Uploaded, runVars, webVars
<1>2. ASSUME Asking(t) PROVE FilesInv'
  BY <1>2
  DEF Asking, Resolve, FindContainer, ScriptFindContainer, Reload, TestSyntax,
      ScriptTestSyntax, Asks, Advance, FilesInv, InstallTypeOK, Uploaded, runVars, webVars
<1>3. ASSUME NEW p \in NginxConf, ReadMain(t, p) PROVE FilesInv'
  BY <1>3
  DEF NginxConf, ReadMain, Advance, Adds, PutOf, After, FilesInv, InstallTypeOK, Uploaded,
      runVars, webVars
<1>4. ASSUME NEW p \in NginxConf, PutMain(t, p) PROVE FilesInv'
  BY <1>4
  DEF NginxConf, PutMain, Advance, Adds, PutOf, After, FilesInv, InstallTypeOK, Uploaded,
      runVars, webVars
<1>5. ASSUME NEW p \in NginxConf, MainFails(t, p) PROVE FilesInv'
  BY <1>5
  DEF NginxConf, MainFails, PutOf, After, FilesInv, InstallTypeOK, Uploaded, runVars, webVars
<1>6. ASSUME ServiceUpload(t) PROVE FilesInv'
  <2>1. PICK f \in Parts : Upload(t, f, "service")
    BY <1>6 DEF ServiceUpload
  <2>2. QED
    BY <1>6, <2>1
    DEF ServiceUpload, Upload, Advance, Stop, Ended, FilesIn, Parts, FilesInv, InstallTypeOK,
        Uploaded, runVars, webVars
<1>7. ASSUME ScriptUpload(t) PROVE FilesInv'
  <2>1. PICK f \in Parts : Upload(t, f, "domain")
    BY <1>7 DEF ScriptUpload
  <2>2. QED
    BY <1>7, <2>1
    DEF ScriptUpload, Upload, Advance, Stop, Ended, FilesIn, Parts, FilesInv, InstallTypeOK,
        Uploaded, runVars, webVars
<1>8. ASSUME Stopping(t) PROVE FilesInv'
  BY <1>8
  DEF Stopping, CallFails, SourceRefused, CertificatesRefused, Stop, Ended, Lenient, FilesInv,
      InstallTypeOK, Uploaded, runVars, webVars
<1>9. ASSUME FindAndRead(t) PROVE FilesInv'
  BY <1>9 DEF FindAndRead, Advance, FilesInv, InstallTypeOK, Uploaded, runVars, webVars
<1>10. ASSUME UpdateWebsite(t) PROVE FilesInv'
  BY <1>10, RewrittenSound
  DEF UpdateWebsite, Put, Advance, Stop, Ended, FilesIn, Parts, FilesInv, InstallTypeOK,
      Uploaded, runVars, webVars
<1>11. ASSUME ScriptUpdateWebsite(t) PROVE FilesInv'
  BY <1>11, RewrittenSound
  DEF ScriptUpdateWebsite, ScriptRefersTo, Put, Advance, Stop, Ended, FilesIn, Parts, FilesInv,
      InstallTypeOK, Uploaded, runVars, webVars
<1>12. ASSUME RemoveFromWebsite(t) PROVE FilesInv'
  BY <1>12, RewrittenSound
  DEF RemoveFromWebsite, Put, Advance, Stop, Ended, FilesIn, Parts, FilesInv, InstallTypeOK,
      Uploaded, runVars, webVars
<1>13. ASSUME Checking(t) PROVE FilesInv'
  BY <1>13
  DEF Checking, VerifyInstallation, RunTests, Verified, Stop, Ended, FilesInv, InstallTypeOK,
      Uploaded, runVars, webVars
<1>14. ASSUME Save(t) PROVE FilesInv'
  BY <1>14 DEF Save, Advance, FilesInv, InstallTypeOK, Uploaded, runVars, webVars
<1>15. ASSUME Abandon(t) PROVE FilesInv'
  BY <1>15 DEF Abandon, FilesInv, InstallTypeOK, Uploaded, runVars, webVars
<1>16. QED
  BY <1>1, <1>2, <1>3, <1>4, <1>5, <1>6, <1>7, <1>8, <1>9, <1>10, <1>11, <1>12, <1>13, <1>14,
    <1>15, Zenon DEF InstallCase

\* An nginx.conf with all that is needed.
LEMMA AllAdded ==
    ASSUME InstallTypeOK, Needed \subseteq main \/ ("lua" \in main /\ "resolver" \in main)
    PROVE  places \subseteq main
BY DEF InstallTypeOK, Layouts, Needed

\* Where a run goes once it has read nginx.conf.
LEMMA MainRead ==
    ASSUME InstallTypeOK, MainInv, NEW t \in Runs, NEW p \in NginxConf, ReadMain(t, p),
           places' = places
    PROVE  /\ call' = [call EXCEPT ![t] = call'[t]]
           /\ UNCHANGED <<kind, main, unready>>
           /\ call'[t] \notin {"idle", "save", "done"}
           /\ call'[t] \in {"resolver", "resolverput"} => unready \/ "lua" \in main
           /\ call'[t] \in Prepared => MainReady
<1>1. /\ call[t] = p /\ call' = [call EXCEPT ![t] = IF Adds[p] \subseteq main THEN After[p] ELSE PutOf[p]]
      /\ UNCHANGED <<kind, main, unready>>
  BY DEF ReadMain, Advance
<1>2. CASE p = "main"
  <2>1. Adds[p] = Needed /\ After[p] = "realip" /\ PutOf[p] = "mainput"
    BY <1>2 DEF Adds, After, PutOf
  <2>2. call' = [call EXCEPT ![t] = IF Needed \subseteq main THEN "realip" ELSE "mainput"]
    BY <1>1, <2>1, Zenon
  <2>3. Needed \subseteq main => MainReady
    BY AllAdded DEF MainReady
  <2>4. QED
    BY <1>1, <2>2, <2>3 DEF InstallTypeOK, Prepared
<1>3. CASE p = "lua"
  <2>1. Adds[p] = {"lua"} /\ After[p] = "resolver" /\ PutOf[p] = "luaput"
    BY <1>3 DEF Adds, After, PutOf
  <2>2. call' = [call EXCEPT ![t] = IF {"lua"} \subseteq main THEN "resolver" ELSE "luaput"]
    BY <1>1, <2>1, Zenon
  <2>3. QED
    BY <1>1, <2>2 DEF InstallTypeOK, Prepared
<1>4. CASE p = "resolver"
  <2>1. Adds[p] = {"resolver"} /\ After[p] = "realip" /\ PutOf[p] = "resolverput"
    BY <1>4 DEF Adds, After, PutOf
  <2>2. call' = [call EXCEPT ![t] = IF {"resolver"} \subseteq main THEN "realip" ELSE "resolverput"]
    BY <1>1, <2>1, Zenon
  <2>3. unready \/ "lua" \in main
    BY <1>1, <1>4 DEF MainInv
  <2>4. "resolver" \in main => MainReady
    BY <2>3, AllAdded DEF MainReady
  <2>5. QED
    BY <1>1, <2>2, <2>3, <2>4 DEF InstallTypeOK, Prepared
<1>5. QED
  BY <1>2, <1>3, <1>4 DEF NginxConf

\* An upload of nginx.conf that overlaps no other takes nothing out of it.
LEMMA MainGrows ==
    ASSUME InstallTypeOK, NEW t \in Runs, NEW p \in NginxConf, PutMain(t, p), MainReady, places' = places
    PROVE  MainReady'
<1>1. main' = heldMain[t] \cup (Adds[p] \cap places) /\ unready' = (unready \/ main # heldMain[t])
  BY DEF PutMain
<1>2. QED
  BY <1>1 DEF MainReady

\* The text search cannot be passed by half a defence.
LEMMA ValidWhole ==
    ASSUME ConfInv, ValidLogic(disk)
    PROVE  Whole(disk)
<1>1. Has(disk, {"access"})
  BY DEF ValidLogic
<1>2. QED
  BY <1>1, HasIs, CleanIs DEF ConfInv, Sound, Untouched

\* A run is past its nginx.conf steps only when nginx.conf is ready.
LEMMA MainKept ==
    ASSUME InstallTypeOK, MainInv, NEW t \in Runs, InstallCase(t), places' = places
    PROVE  MainInv'
<1>1. ASSUME NEW k \in {"deploy", "undeploy", "script"}, Start(t, k) PROVE MainInv'
  BY <1>1
  DEF Start, Advance, MainInv, MainReady, Needed, Prepared, InstallTypeOK, runVars, webVars
<1>2. ASSUME Asking(t) PROVE MainInv'
  BY <1>2
  DEF Asking, Resolve, FindContainer, ScriptFindContainer, Reload, TestSyntax,
      ScriptTestSyntax, Asks, Advance, MainInv, MainReady, Needed, Prepared, InstallTypeOK,
      runVars, webVars
<1>3. ASSUME NEW p \in NginxConf, ReadMain(t, p) PROVE MainInv'
  BY <1>3, MainRead DEF MainInv, InstallTypeOK, MainReady
<1>4. ASSUME NEW p \in NginxConf, PutMain(t, p) PROVE MainInv'
  <2>1. /\ call[t] = PutOf[p] /\ call' = [call EXCEPT ![t] = After[p]]
        /\ main' = heldMain[t] \cup (Adds[p] \cap places) /\ unready' = (unready \/ main # heldMain[t])
        /\ kind' = kind /\ (p # "main" => Adds[p] \subseteq places)
    BY <1>4 DEF PutMain, Advance, runVars
  <2>2. \A r \in Runs : r # t => call'[r] = call[r]
    BY <2>1 DEF InstallTypeOK
  <2>3. main \subseteq main' \/ unready'
    BY <2>1
  <2>4. CASE p = "main"
    <3>1. Adds[p] = Needed /\ After[p] = "realip"
      BY <2>4 DEF Adds, After
    <3>2. call'[t] = "realip" /\ MainReady'
      BY <2>1, <3>1 DEF InstallTypeOK, Layouts, Needed, MainReady
    <3>3. QED
      BY <2>1, <2>2, <2>3, <3>2 DEF MainInv, MainReady
  <2>5. CASE p = "lua"
    <3>1. Adds[p] = {"lua"} /\ After[p] = "resolver"
      BY <2>5 DEF Adds, After
    <3>2. call'[t] = "resolver" /\ "lua" \in main'
      BY <2>1, <2>5, <3>1 DEF InstallTypeOK
    <3>3. QED
      BY <2>1, <2>2, <2>3, <3>2 DEF MainInv, MainReady, Prepared
  <2>6. CASE p = "resolver"
    <3>1. Adds[p] = {"resolver"} /\ After[p] = "realip" /\ PutOf[p] = "resolverput"
      BY <2>6 DEF Adds, After, PutOf
    <3>2. call'[t] = "realip" /\ "resolver" \in main' /\ (unready \/ "lua" \in main)
      BY <2>1, <2>6, <3>1 DEF InstallTypeOK, MainInv
    <3>3. MainReady'
      BY <2>1, <2>3, <3>2 DEF MainReady, InstallTypeOK, Layouts, Needed
    <3>4. QED
      BY <2>1, <2>2, <2>3, <3>2, <3>3 DEF MainInv, MainReady
  <2>7. QED
    BY <2>4, <2>5, <2>6, <1>4 DEF NginxConf
<1>5. ASSUME NEW p \in NginxConf, MainFails(t, p) PROVE MainInv'
  BY <1>5
  DEF NginxConf, MainFails, PutOf, After, MainInv, MainReady, Needed, Prepared, InstallTypeOK,
      runVars, webVars
<1>6. ASSUME ServiceUpload(t) PROVE MainInv'
  BY <1>6
  DEF ServiceUpload, Upload, Advance, Stop, Ended, FilesIn, Parts, MainInv, MainReady, Needed,
      Prepared, InstallTypeOK, runVars, webVars
<1>7. ASSUME ScriptUpload(t) PROVE MainInv'
  BY <1>7
  DEF ScriptUpload, Upload, Advance, Stop, Ended, FilesIn, Parts, MainInv, MainReady, Needed,
      Prepared, InstallTypeOK, runVars, webVars
<1>8. ASSUME Stopping(t) PROVE MainInv'
  BY <1>8
  DEF Stopping, CallFails, SourceRefused, CertificatesRefused, Stop, Ended, Lenient, MainInv,
      MainReady, Needed, Prepared, InstallTypeOK, runVars, webVars
<1>9. ASSUME FindAndRead(t) PROVE MainInv'
  BY <1>9
  DEF FindAndRead, Advance, MainInv, MainReady, Needed, Prepared, InstallTypeOK, runVars,
      webVars
<1>10. ASSUME UpdateWebsite(t) PROVE MainInv'
  BY <1>10
  DEF UpdateWebsite, Put, Advance, Stop, Ended, MainInv, MainReady, Needed, Prepared,
      InstallTypeOK, runVars, webVars
<1>11. ASSUME ScriptUpdateWebsite(t) PROVE MainInv'
  BY <1>11
  DEF ScriptUpdateWebsite, ScriptRefersTo, Put, Advance, Stop, Ended, MainInv, MainReady,
      Needed, Prepared, InstallTypeOK, runVars, webVars
<1>12. ASSUME RemoveFromWebsite(t) PROVE MainInv'
  BY <1>12
  DEF RemoveFromWebsite, Put, Advance, Stop, Ended, MainInv, MainReady, Needed, Prepared,
      InstallTypeOK, runVars, webVars
<1>13. ASSUME Checking(t) PROVE MainInv'
  BY <1>13
  DEF Checking, VerifyInstallation, RunTests, Verified, Stop, Ended, MainInv, MainReady,
      Needed, Prepared, InstallTypeOK, runVars, webVars
<1>14. ASSUME Save(t) PROVE MainInv'
  BY <1>14
  DEF Save, Advance, MainInv, MainReady, Needed, Prepared, InstallTypeOK, runVars, webVars
<1>15. ASSUME Abandon(t) PROVE MainInv'
  BY <1>15 DEF Abandon, MainInv, MainReady, Needed, Prepared, InstallTypeOK, runVars, webVars
<1>16. QED
  BY <1>1, <1>2, <1>3, <1>4, <1>5, <1>6, <1>7, <1>8, <1>9, <1>10, <1>11, <1>12, <1>13, <1>14,
    <1>15, Zenon DEF InstallCase

\* A deployment that has passed, and a row that says so, speak of a defended site.
LEMMA OutcomeKept ==
    ASSUME platform # "shopify", InstallTypeOK, ConfInv, MainInv, OutcomeInv, platform' =
           platform, NEW t \in Runs, InstallCase(t), places' = places
    PROVE  OutcomeInv'
<1>1. ASSUME NEW k \in {"deploy", "undeploy", "script"}, Start(t, k) PROVE OutcomeInv'
  BY <1>1
  DEF Start, Advance, OutcomeInv, MainInv, MainReady, Defended, Prepared, InstallTypeOK,
      runVars, webVars
<1>2. ASSUME Asking(t) PROVE OutcomeInv'
  BY <1>2
  DEF Asking, Resolve, FindContainer, ScriptFindContainer, Reload, TestSyntax,
      ScriptTestSyntax, Asks, Advance, OutcomeInv, MainInv, MainReady, Defended, Prepared,
      InstallTypeOK, runVars, webVars
<1>3. ASSUME NEW p \in NginxConf, ReadMain(t, p) PROVE OutcomeInv'
  <2>1. UNCHANGED <<passed, webVars, row>> /\ call[t] \notin {"save", "done"}
    BY <1>3 DEF ReadMain, Advance, NginxConf
  <2>2. QED
    BY <1>3, <2>1, MainRead DEF OutcomeInv, Defended, MainReady, InstallTypeOK, webVars
<1>4. ASSUME NEW p \in NginxConf, PutMain(t, p) PROVE OutcomeInv'
  <2>1. Defended => Defended'
    BY <1>4, MainGrows DEF PutMain, Defended, webVars
  <2>2. call[t] \notin {"save", "done"} /\ call'[t] \notin {"save", "done"}
    BY <1>4 DEF PutMain, Advance, PutOf, After, NginxConf, InstallTypeOK
  <2>3. /\ UNCHANGED <<kind, passed, row>> /\ \A u \in Runs : u # t => call'[u] = call[u]
    BY <1>4 DEF PutMain, Advance, InstallTypeOK
  <2>4. QED
    BY <2>1, <2>2, <2>3 DEF OutcomeInv, InstallTypeOK
<1>5. ASSUME NEW p \in NginxConf, MainFails(t, p) PROVE OutcomeInv'
  BY <1>5
  DEF NginxConf, MainFails, PutOf, After, OutcomeInv, MainInv, MainReady, Defended, Prepared,
      InstallTypeOK, runVars, webVars
<1>6. ASSUME ServiceUpload(t) PROVE OutcomeInv'
  <2>1. PICK f \in Parts : Upload(t, f, "service")
    BY <1>6 DEF ServiceUpload
  <2>2. QED
    BY <1>6, <2>1
    DEF ServiceUpload, Upload, Advance, Stop, Ended, Parts, OutcomeInv, Defended, MainReady,
        InstallTypeOK, runVars, webVars
<1>7. ASSUME ScriptUpload(t) PROVE OutcomeInv'
  <2>1. PICK f \in Parts : Upload(t, f, "domain")
    BY <1>7 DEF ScriptUpload
  <2>2. QED
    BY <1>7, <2>1
    DEF ScriptUpload, Upload, Advance, Stop, Ended, Parts, OutcomeInv, Defended, MainReady,
        InstallTypeOK, runVars, webVars
<1>8. ASSUME Stopping(t) PROVE OutcomeInv'
  BY <1>8
  DEF Stopping, CallFails, SourceRefused, CertificatesRefused, Stop, Ended, Lenient,
      OutcomeInv, MainInv, MainReady, Defended, Prepared, InstallTypeOK, runVars, webVars
<1>9. ASSUME FindAndRead(t) PROVE OutcomeInv'
  BY <1>9
  DEF FindAndRead, Advance, OutcomeInv, MainInv, MainReady, Defended, Prepared, InstallTypeOK,
      runVars, webVars
<1>10. ASSUME UpdateWebsite(t) PROVE OutcomeInv'
  BY <1>10, RewrittenSound
  DEF UpdateWebsite, Put, Advance, Stop, Ended, OutcomeInv, MainInv, MainReady, Defended,
      Prepared, InstallTypeOK, runVars, webVars
<1>11. ASSUME ScriptUpdateWebsite(t) PROVE OutcomeInv'
  BY <1>11, RewrittenSound
  DEF ScriptUpdateWebsite, ScriptRefersTo, Put, Advance, Stop, Ended, OutcomeInv, MainInv,
      MainReady, Defended, Prepared, InstallTypeOK, runVars, webVars
<1>12. ASSUME RemoveFromWebsite(t) PROVE OutcomeInv'
  BY <1>12, RewrittenSound
  DEF RemoveFromWebsite, Put, Advance, Stop, Ended, OutcomeInv, MainInv, MainReady, Defended,
      Prepared, InstallTypeOK, runVars, webVars
<1>13. ASSUME Checking(t) PROVE OutcomeInv'
  <2>1. PICK ok \in BOOLEAN : Verified(t, ok) /\ (ok /\ kind[t] = "deploy" => ValidLogic(disk))
    BY <1>13 DEF Checking, VerifyInstallation, RunTests
  <2>2. ok /\ kind[t] = "deploy" => Defended
    BY <2>1, ValidWhole DEF Verified, Defended, MainInv, Prepared
  <2>3. QED
    BY <2>1, <2>2
    DEF Verified, Stop, Ended, OutcomeInv, Defended, MainReady, InstallTypeOK, runVars, webVars
<1>14. ASSUME Save(t) PROVE OutcomeInv'
  BY <1>14, SavedRow
  DEF Save, Advance, OutcomeInv, MainInv, MainReady, Defended, Prepared, InstallTypeOK,
      runVars, webVars
<1>15. ASSUME Abandon(t) PROVE OutcomeInv'
  BY <1>15
  DEF Abandon, OutcomeInv, MainInv, MainReady, Defended, Prepared, InstallTypeOK, runVars,
      webVars
<1>16. QED
  BY <1>1, <1>2, <1>3, <1>4, <1>5, <1>6, <1>7, <1>8, <1>9, <1>10, <1>11, <1>12, <1>13, <1>14,
    <1>15, Zenon DEF InstallCase

(* ------------------------ steps of the Worker runs ----------------------- *)

\* The steps of a Worker run.
WorkerCase(w) ==
    \/ \E k \in {"deploy", "undeploy", "script"} : W!Begin(w, k)
    \/ W!Fails(w)
    \/ W!FindZone(w) \/ W!UploadWorker(w) \/ W!ListRoutes(w)
    \/ W!ScriptFindZone(w) \/ W!ScriptUploadWorker(w) \/ W!ScriptListRoutes(w)
    \/ W!UndeployListRoutes(w)
    \/ W!DeleteRoute(w) \/ W!AddRoute(w) \/ W!VerifyDeployment(w) \/ W!SaveSite(w) \/ W!TimeOut(w)

\* Every step of the Worker runs is one of these.
LEMMA WorkerCases ==
    ASSUME W!WorkerNext
    PROVE  \E w \in Workers : WorkerCase(w)
BY DEF W!WorkerNext, W!WorkerStep, WorkerCase, W!Tasks

\* Every step of the Worker runs keeps every variable in its type.
LEMMA WorkerTyped ==
    ASSUME W!WorkerTypeOK, NEW w \in Workers, WorkerCase(w)
    PROVE  W!WorkerTypeOK'
<1>1. ASSUME NEW k \in {"deploy", "undeploy", "script"}, W!Begin(w, k) PROVE W!WorkerTypeOK'
  BY <1>1
  DEF W!Begin, W!Move, W!cloudVars, W!WorkerTypeOK, W!Tasks, W!Places, W!Names, W!NoRoute,
      W!Routes
<1>2. ASSUME W!Fails(w) PROVE W!WorkerTypeOK'
  BY <1>2
  DEF W!Fails, W!Leave, W!Over, W!cloudVars, W!Places, W!WorkerTypeOK, W!Tasks, W!Places,
      W!Names, W!NoRoute, W!Routes
<1>3. ASSUME W!FindZone(w) PROVE W!WorkerTypeOK'
  BY <1>3
  DEF W!FindZone, W!Move, W!cloudVars, W!WorkerTypeOK, W!Tasks, W!Places, W!Names, W!NoRoute,
      W!Routes
<1>4. ASSUME W!UploadWorker(w) PROVE W!WorkerTypeOK'
  BY <1>4
  DEF W!UploadWorker, W!Upload, W!Leave, W!Over, W!Move, W!Mine, W!WorkerTypeOK, W!Tasks,
      W!Places, W!Names, W!NoRoute, W!Routes
<1>5. ASSUME W!ListRoutes(w) PROVE W!WorkerTypeOK'
  BY <1>5
  DEF W!ListRoutes, W!List, W!AfterList, W!Move, W!Mine, W!cloudVars, W!NoRoute,
      W!WorkerTypeOK, W!Tasks, W!Places, W!Names, W!NoRoute, W!Routes
<1>6. ASSUME W!ScriptFindZone(w) PROVE W!WorkerTypeOK'
  BY <1>6
  DEF W!ScriptFindZone, W!Leave, W!Over, W!Move, W!cloudVars, W!WorkerTypeOK, W!Tasks,
      W!Places, W!Names, W!NoRoute, W!Routes
<1>7. ASSUME W!ScriptUploadWorker(w) PROVE W!WorkerTypeOK'
  BY <1>7
  DEF W!ScriptUploadWorker, W!Upload, W!Leave, W!Over, W!Move, W!Mine, W!WorkerTypeOK, W!Tasks,
      W!Places, W!Names, W!NoRoute, W!Routes
<1>8. ASSUME W!ScriptListRoutes(w) PROVE W!WorkerTypeOK'
  BY <1>8
  DEF W!ScriptListRoutes, W!List, W!AfterList, W!Move, W!Mine, W!cloudVars, W!NoRoute,
      W!WorkerTypeOK, W!Tasks, W!Places, W!Names, W!NoRoute, W!Routes
<1>9. ASSUME W!UndeployListRoutes(w) PROVE W!WorkerTypeOK'
  BY <1>9
  DEF W!UndeployListRoutes, W!List, W!Move, W!cloudVars, W!WorkerTypeOK, W!Tasks, W!Places,
      W!Names, W!NoRoute, W!Routes
<1>10. ASSUME W!DeleteRoute(w) PROVE W!WorkerTypeOK'
  BY <1>10
  DEF W!DeleteRoute, W!Leave, W!Over, W!Move, W!NoRoute, W!WorkerTypeOK, W!Tasks, W!Places,
      W!Names, W!NoRoute, W!Routes
<1>11. ASSUME W!AddRoute(w) PROVE W!WorkerTypeOK'
  BY <1>11, RoutesAssumption
  DEF W!AddRoute, W!Leave, W!Over, W!Move, W!Mine, W!NoRoute, W!WorkerTypeOK, W!Tasks,
      W!Places, W!Names, W!NoRoute, W!Routes
<1>12. ASSUME W!VerifyDeployment(w) PROVE W!WorkerTypeOK'
  BY <1>12
  DEF W!VerifyDeployment, W!Leave, W!Over, W!Mine, W!cloudVars, W!WorkerTypeOK, W!Tasks,
      W!Places, W!Names, W!NoRoute, W!Routes
<1>13. ASSUME W!SaveSite(w) PROVE W!WorkerTypeOK'
  BY <1>13
  DEF W!SaveSite, W!Move, W!cloudVars, W!WorkerTypeOK, W!Tasks, W!Places, W!Names, W!NoRoute,
      W!Routes
<1>14. ASSUME W!TimeOut(w) PROVE W!WorkerTypeOK'
  BY <1>14
  DEF W!TimeOut, W!cloudVars, W!WorkerTypeOK, W!Tasks, W!Places, W!Names, W!NoRoute, W!Routes
<1>15. QED
  BY <1>1, <1>2, <1>3, <1>4, <1>5, <1>6, <1>7, <1>8, <1>9, <1>10, <1>11, <1>12, <1>13, <1>14,
    Zenon DEF WorkerCase

\* No step gives an id twice, and a deployment deletes only the script's route.
LEMMA RouteKept ==
    ASSUME W!WorkerTypeOK, RouteInv, NEW w \in Workers, WorkerCase(w)
    PROVE  RouteInv'
<1>1. ASSUME NEW k \in {"deploy", "undeploy", "script"}, W!Begin(w, k) PROVE RouteInv'
  BY <1>1
  DEF W!Begin, W!Move, W!cloudVars, W!WorkerTypeOK, W!Names, W!NoRoute, W!Routes, RouteInv
<1>2. ASSUME W!Fails(w) PROVE RouteInv'
  BY <1>2
  DEF W!Fails, W!Leave, W!Over, W!cloudVars, W!Places, W!WorkerTypeOK, W!Names, W!NoRoute,
      W!Routes, RouteInv
<1>3. ASSUME W!FindZone(w) PROVE RouteInv'
  BY <1>3
  DEF W!FindZone, W!Move, W!cloudVars, W!WorkerTypeOK, W!Names, W!NoRoute, W!Routes, RouteInv
<1>4. ASSUME W!UploadWorker(w) PROVE RouteInv'
  BY <1>4
  DEF W!UploadWorker, W!Upload, W!Leave, W!Over, W!Move, W!Mine, W!WorkerTypeOK, W!Names,
      W!NoRoute, W!Routes, RouteInv
<1>5. ASSUME W!ListRoutes(w) PROVE RouteInv'
  BY <1>5
  DEF W!ListRoutes, W!List, W!AfterList, W!Move, W!Mine, W!cloudVars, W!NoRoute,
      W!WorkerTypeOK, W!Names, W!NoRoute, W!Routes, RouteInv
<1>6. ASSUME W!ScriptFindZone(w) PROVE RouteInv'
  BY <1>6
  DEF W!ScriptFindZone, W!Leave, W!Over, W!Move, W!cloudVars, W!WorkerTypeOK, W!Names,
      W!NoRoute, W!Routes, RouteInv
<1>7. ASSUME W!ScriptUploadWorker(w) PROVE RouteInv'
  BY <1>7
  DEF W!ScriptUploadWorker, W!Upload, W!Leave, W!Over, W!Move, W!Mine, W!WorkerTypeOK, W!Names,
      W!NoRoute, W!Routes, RouteInv
<1>8. ASSUME W!ScriptListRoutes(w) PROVE RouteInv'
  BY <1>8
  DEF W!ScriptListRoutes, W!List, W!AfterList, W!Move, W!Mine, W!cloudVars, W!NoRoute,
      W!WorkerTypeOK, W!Names, W!NoRoute, W!Routes, RouteInv
<1>9. ASSUME W!UndeployListRoutes(w) PROVE RouteInv'
  BY <1>9
  DEF W!UndeployListRoutes, W!List, W!Move, W!cloudVars, W!WorkerTypeOK, W!Names, W!NoRoute,
      W!Routes, RouteInv
<1>10. ASSUME W!DeleteRoute(w) PROVE RouteInv'
  BY <1>10
  DEF W!DeleteRoute, W!Leave, W!Over, W!Move, W!NoRoute, W!WorkerTypeOK, W!Names, W!NoRoute,
      W!Routes, RouteInv
<1>11. ASSUME W!AddRoute(w) PROVE RouteInv'
  BY <1>11, RoutesAssumption
  DEF W!AddRoute, W!Leave, W!Over, W!Move, W!Mine, W!NoRoute, W!WorkerTypeOK, W!Names,
      W!NoRoute, W!Routes, RouteInv
<1>12. ASSUME W!VerifyDeployment(w) PROVE RouteInv'
  BY <1>12
  DEF W!VerifyDeployment, W!Leave, W!Over, W!Mine, W!cloudVars, W!WorkerTypeOK, W!Names,
      W!NoRoute, W!Routes, RouteInv
<1>13. ASSUME W!SaveSite(w) PROVE RouteInv'
  BY <1>13
  DEF W!SaveSite, W!Move, W!cloudVars, W!WorkerTypeOK, W!Names, W!NoRoute, W!Routes, RouteInv
<1>14. ASSUME W!TimeOut(w) PROVE RouteInv'
  BY <1>14 DEF W!TimeOut, W!cloudVars, W!WorkerTypeOK, W!Names, W!NoRoute, W!Routes, RouteInv
<1>15. QED
  BY <1>1, <1>2, <1>3, <1>4, <1>5, <1>6, <1>7, <1>8, <1>9, <1>10, <1>11, <1>12, <1>13, <1>14,
    Zenon DEF WorkerCase

\* A deployment that has passed, and a row that says so, speak of a defended domain.
LEMMA WorkerKept ==
    ASSUME platform = "shopify", platform' = platform, W!WorkerTypeOK, RouteInv, WorkerInv, NEW
           w \in Workers, WorkerCase(w)
    PROVE  WorkerInv'
<1>1. ASSUME NEW k \in {"deploy", "undeploy", "script"}, W!Begin(w, k) PROVE WorkerInv'
  BY <1>1
  DEF W!Begin, W!Move, W!cloudVars, W!WorkerTypeOK, W!NoRoute, RouteInv, RouteDefended,
      WorkerInv
<1>2. ASSUME W!Fails(w) PROVE WorkerInv'
  BY <1>2
  DEF W!Fails, W!Leave, W!Over, W!cloudVars, W!Places, W!WorkerTypeOK, W!NoRoute, RouteInv,
      RouteDefended, WorkerInv
<1>3. ASSUME W!FindZone(w) PROVE WorkerInv'
  BY <1>3
  DEF W!FindZone, W!Move, W!cloudVars, W!WorkerTypeOK, W!NoRoute, RouteInv, RouteDefended,
      WorkerInv
<1>4. ASSUME W!UploadWorker(w) PROVE WorkerInv'
  BY <1>4
  DEF W!UploadWorker, W!Upload, W!Leave, W!Over, W!Move, W!Mine, W!WorkerTypeOK, W!NoRoute,
      RouteInv, RouteDefended, WorkerInv
<1>5. ASSUME W!ListRoutes(w) PROVE WorkerInv'
  BY <1>5
  DEF W!ListRoutes, W!List, W!AfterList, W!Move, W!Mine, W!cloudVars, W!NoRoute,
      W!WorkerTypeOK, W!NoRoute, RouteInv, RouteDefended, WorkerInv
<1>6. ASSUME W!ScriptFindZone(w) PROVE WorkerInv'
  BY <1>6
  DEF W!ScriptFindZone, W!Leave, W!Over, W!Move, W!cloudVars, W!WorkerTypeOK, W!NoRoute,
      RouteInv, RouteDefended, WorkerInv
<1>7. ASSUME W!ScriptUploadWorker(w) PROVE WorkerInv'
  BY <1>7
  DEF W!ScriptUploadWorker, W!Upload, W!Leave, W!Over, W!Move, W!Mine, W!WorkerTypeOK,
      W!NoRoute, RouteInv, RouteDefended, WorkerInv
<1>8. ASSUME W!ScriptListRoutes(w) PROVE WorkerInv'
  BY <1>8
  DEF W!ScriptListRoutes, W!List, W!AfterList, W!Move, W!Mine, W!cloudVars, W!NoRoute,
      W!WorkerTypeOK, W!NoRoute, RouteInv, RouteDefended, WorkerInv
<1>9. ASSUME W!UndeployListRoutes(w) PROVE WorkerInv'
  BY <1>9
  DEF W!UndeployListRoutes, W!List, W!Move, W!cloudVars, W!WorkerTypeOK, W!NoRoute, RouteInv,
      RouteDefended, WorkerInv
<1>10. ASSUME W!DeleteRoute(w) PROVE WorkerInv'
  BY <1>10, ZenonT(40)
  DEF W!DeleteRoute, W!Leave, W!Over, W!Move, W!NoRoute, W!WorkerTypeOK, W!NoRoute, RouteInv,
      RouteDefended, WorkerInv
<1>11. ASSUME W!AddRoute(w) PROVE WorkerInv'
  BY <1>11
  DEF W!AddRoute, W!Leave, W!Over, W!Move, W!Mine, W!NoRoute, W!WorkerTypeOK, W!NoRoute,
      RouteInv, RouteDefended, WorkerInv
<1>12. ASSUME W!VerifyDeployment(w) PROVE WorkerInv'
  BY <1>12
  DEF W!VerifyDeployment, W!Leave, W!Over, W!Mine, W!cloudVars, W!WorkerTypeOK, W!NoRoute,
      RouteInv, RouteDefended, WorkerInv
<1>13. ASSUME W!SaveSite(w) PROVE WorkerInv'
  BY <1>13
  DEF W!SaveSite, W!Move, W!cloudVars, W!WorkerTypeOK, W!NoRoute, RouteInv, RouteDefended,
      WorkerInv
<1>14. ASSUME W!TimeOut(w) PROVE WorkerInv'
  BY <1>14
  DEF W!TimeOut, W!cloudVars, W!WorkerTypeOK, W!NoRoute, RouteInv, RouteDefended, WorkerInv
<1>15. QED
  BY <1>1, <1>2, <1>3, <1>4, <1>5, <1>6, <1>7, <1>8, <1>9, <1>10, <1>11, <1>12, <1>13, <1>14,
    Zenon DEF WorkerCase

(* ------------------------------ the theorems ----------------------------- *)

\* The invariant of the two defences together.
DefencesInv ==
    DefencesTypeOK /\ ConfInv /\ MainInv /\ OutcomeInv /\ RouteInv /\ WorkerInv

\* The invariant holds at the start.
LEMMA DefencesStart ==
    ASSUME DefencesInit PROVE DefencesInv /\ FilesInv
<1>1. disk \in SampleConfs /\ original = disk
  BY DEF DefencesInit, InstallInit
<1>2. disk \in Seq(Lines) /\ Untouched(disk)
  BY <1>1, SamplesSound
<1>3. ~ Has(disk, {"access"})
  BY <1>2, HasIs, CleanIs DEF Untouched
<1>4. InstallTypeOK
  <2>1. <<>> \in Seq(Lines) /\ "none" \in Kinds /\ "idle" \in Calls /\ "domain" \in Dirs /\ "none" \in RowStates
    BY EmptySeq DEF Kinds, Calls, Dirs, RowStates
  <2>2. /\ kind \in [Runs -> Kinds] /\ call \in [Runs -> Calls]
        /\ held \in [Runs -> Seq(Lines)] /\ heldMain \in [Runs -> SUBSET Needed]
    BY <2>1, Zenon DEF DefencesInit, InstallInit
  <2>3. QED
    BY <1>1, <1>2, <2>1, <2>2 DEF DefencesInit, InstallInit, InstallTypeOK
<1>5. W!WorkerTypeOK
  <2>1. "none" \in W!Tasks /\ "idle" \in W!Places /\ W!NoRoute \in W!Routes
    BY DEF W!Tasks, W!Places, W!Routes
  <2>2. /\ task \in [Workers -> W!Tasks] /\ at \in [Workers -> W!Places]
        /\ listed \in [Workers -> W!Routes]
    BY <2>1, Zenon DEF DefencesInit, W!WorkerInit
  <2>3. QED
    <3>1. made \in 0..MaxRoutes
      BY RoutesAssumption DEF DefencesInit, W!WorkerInit
    <3>2. route \in W!Routes
      BY <2>1 DEF DefencesInit, W!WorkerInit
    <3>3. QED
      BY <2>2, <3>1, <3>2 DEF DefencesInit, W!WorkerInit, W!WorkerTypeOK
<1>6. ConfInv
  BY <1>1, <1>2 DEF DefencesInit, InstallInit, ConfInv, Sound
<1>7. MainInv /\ OutcomeInv
  BY DEF DefencesInit, InstallInit, MainInv, OutcomeInv
<1>8. FilesInv
  BY <1>3 DEF DefencesInit, InstallInit, FilesInv
<1>9. RouteInv /\ WorkerInv
  BY DEF DefencesInit, InstallInit, W!WorkerInit, W!NoRoute, RouteInv, WorkerInv
<1>10. QED
  BY <1>4, <1>5, <1>6, <1>7, <1>8, <1>9 DEF DefencesInit, DefencesTypeOK, DefencesInv

\* Every step keeps it.
LEMMA DefencesStep ==
    ASSUME DefencesInv, [DefencesNext]_allVars
    PROVE  /\ DefencesInv'
           /\ ServerNameIsDomain = TRUE /\ FilesInv => FilesInv'
<1>1. platform \in Platforms /\ InstallTypeOK /\ W!WorkerTypeOK
  BY DEF DefencesInv, DefencesTypeOK
<1>2. ConfInv /\ MainInv /\ OutcomeInv /\ RouteInv /\ WorkerInv
  BY DEF DefencesInv
<1>3. CASE UNCHANGED allVars
  <2>1. UNCHANGED <<kind, call, held, heldMain, passed, abandoned, disk, points, cleaned, withdrawn,
                    main, places, files, row, original, unready, platform,
                    task, at, listed, good, timedOut, scripts, route, made, configured, cut>>
    BY <1>3 DEF allVars, installVars, runVars, webVars, workers
  <2>2. InstallTypeOK' /\ ConfInv'
    BY <1>1, <1>2, <2>1 DEF InstallTypeOK, ConfInv
  <2>3. MainInv' /\ OutcomeInv'
    BY <1>2, <2>1 DEF MainInv, OutcomeInv, MainReady, Defended
  <2>4. FilesInv => FilesInv'
    BY <2>1 DEF FilesInv, Uploaded
  <2>5. W!WorkerTypeOK'
    BY <1>1, <2>1 DEF W!WorkerTypeOK
  <2>6. RouteInv' /\ WorkerInv'
    BY <1>2, <2>1 DEF RouteInv, WorkerInv, RouteDefended
  <2>7. QED
    BY <1>1, <2>1, <2>2, <2>3, <2>4, <2>5, <2>6 DEF DefencesInv, DefencesTypeOK
<1>4. CASE /\ platform = "shopify" /\ W!WorkerNext
           /\ UNCHANGED <<platform, runVars, webVars, main, places, files, original, unready>>
  <2>1. PICK w \in Workers : WorkerCase(w)
    BY <1>4, WorkerCases
  <2>2. UNCHANGED <<kind, call, held, heldMain, passed, abandoned, disk, points, cleaned, withdrawn,
                    main, places, files, original, unready, platform>>
    BY <1>4 DEF runVars, webVars
  <2>3. W!WorkerTypeOK' /\ RouteInv' /\ WorkerInv'
    BY <1>1, <1>2, <1>4, <2>1, <2>2, WorkerTyped, RouteKept, WorkerKept
  <2>4. row' \in RowStates
    BY <2>3 DEF W!WorkerTypeOK, RowStates
  <2>5. InstallTypeOK' /\ ConfInv'
    BY <1>1, <1>2, <2>2, <2>4 DEF InstallTypeOK, ConfInv
  <2>6. MainInv' /\ OutcomeInv'
    BY <1>2, <1>4, <2>2 DEF MainInv, OutcomeInv, MainReady, Defended
  <2>7. FilesInv => FilesInv'
    BY <2>2 DEF FilesInv, Uploaded
  <2>8. QED
    BY <1>1, <2>2, <2>3, <2>5, <2>6, <2>7 DEF DefencesInv, DefencesTypeOK
<1>5. CASE platform # "shopify" /\ InstallNext /\ UNCHANGED <<platform, workers>>
  <2>1. PICK t \in Runs : InstallCase(t) /\ places' = places
    BY <1>5, InstallCases
  <2>2. UNCHANGED <<platform, task, at, listed, good, timedOut, scripts, route, made, configured, cut>>
    BY <1>5 DEF workers
  <2>3. InstallTypeOK'
    BY <1>1, <1>2, <2>1, InstallTyped
  <2>4. ConfInv' /\ MainInv'
    BY <1>1, <1>2, <2>1, ConfKept, MainKept
  <2>5. OutcomeInv'
    BY <1>1, <1>2, <1>5, <2>1, <2>2, OutcomeKept
  <2>6. ServerNameIsDomain = TRUE /\ FilesInv => FilesInv'
    BY <1>1, <1>2, <2>1, FilesKept
  <2>7. W!WorkerTypeOK'
    BY <1>1, <2>2, <2>3 DEF W!WorkerTypeOK, InstallTypeOK, RowStates
  <2>8. RouteInv' /\ WorkerInv'
    BY <1>2, <1>5, <2>2 DEF RouteInv, WorkerInv, RouteDefended
  <2>9. QED
    BY <1>1, <2>2, <2>3, <2>4, <2>5, <2>6, <2>7, <2>8 DEF DefencesInv, DefencesTypeOK
<1>6. QED
  BY <1>3, <1>4, <1>5 DEF DefencesNext

\* The invariant of both defences holds in every state.
THEOREM DefencesInvariant == DefencesSpec => []DefencesInv
<1>1. DefencesInit => DefencesInv
  BY DefencesStart
<1>2. DefencesInv /\ [DefencesNext]_allVars => DefencesInv'
  BY DefencesStep
<1>3. QED
  BY <1>1, <1>2, PTL DEF DefencesSpec

\* Every variable of the two defences keeps its type.
THEOREM DefencesTypeCorrect == DefencesSpec => []DefencesTypeOK
<1>1. DefencesInv => DefencesTypeOK
  BY DEF DefencesInv
<1>2. QED
  BY <1>1, DefencesInvariant, PTL

\* FangyuWhole: the whole defence or nothing of it, for any number of overlapping,
\* failing and abandoned deployments, removals and runs of the script.
THEOREM ConfigurationWhole == DefencesSpec => []FangyuWhole
<1>1. DefencesInv => FangyuWhole
  BY DEF DefencesInv, ConfInv, Sound, Untouched, FangyuWhole
<1>2. QED
  BY <1>1, DefencesInvariant, PTL

\* OwnLinesKept: no deployment takes the owner's lines for Fangyu's until a removal
\* has found an earlier defence.
THEOREM OwnLinesStay == DefencesSpec => []OwnLinesKept
<1>1. DefencesInv => OwnLinesKept
  BY DEF DefencesInv, ConfInv, OwnLinesKept
<1>2. QED
  BY <1>1, DefencesInvariant, PTL

\* DeployedIsDefended: a row that says deployed speaks of a defended site, on Nginx
\* and on Cloudflare, until something the code passes over has happened.
THEOREM DeployedStaysDefended == DefencesSpec => []DeployedIsDefended
<1>1. DefencesInv => DeployedIsDefended
  BY Zenon
  DEF DefencesInv, OutcomeInv, WorkerInv, Defended, MainReady, RouteDefended,
      DeployedIsDefended
<1>2. QED
  BY <1>1, DefencesInvariant, PTL

\* CopiesAgree: the script and the template mode make the same of the site's
\* configuration as long as it has no defence.
THEOREM ScriptAgreesWithTemplate == DefencesSpec => []CopiesAgree
<1>1. ASSUME DefencesInv, Clean(disk) PROVE ScriptDeployed(disk) = Migrated(disk)
  <2>1. disk \in Seq(Lines) /\ (Whole(disk) \/ Untouched(disk))
    BY <1>1 DEF DefencesInv, ConfInv, Sound
  <2>2. Untouched(disk)
    BY <1>1, <2>1, WholeHas
  <2>3. QED
    BY <2>1, <2>2, CopiesMakeTheSame
<1>2. DefencesInv => CopiesAgree
  BY <1>1 DEF CopiesAgree
<1>3. QED
  BY <1>2, DefencesInvariant, PTL

\* ReferencedFilesExist: the files the configuration names have been uploaded,
\* where the script's directory and the server_name agree.
THEOREM FilesReferencedExist ==
    ASSUME ServerNameIsDomain = TRUE
    PROVE  DefencesSpec => []ReferencedFilesExist
<1>1. DefencesInit => DefencesInv /\ FilesInv
  BY DefencesStart
<1>2. (DefencesInv /\ FilesInv) /\ [DefencesNext]_allVars => (DefencesInv /\ FilesInv)'
  BY DefencesStep
<1>3. FilesInv => ReferencedFilesExist
  BY DEF FilesInv, ReferencedFilesExist
<1>4. QED
  BY <1>1, <1>2, <1>3, PTL DEF DefencesSpec
=============================================================================
