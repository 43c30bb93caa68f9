--------------------------- MODULE Provision_proofs ---------------------------
(***************************************************************************)
(* Proofs about Provision, for any number of tasks, sites and permits.     *)
(*   TypeInv   types, a started submission knows its site, and a task that *)
(*             is to record an outcome has one;                            *)
(*   RunsInv   on a site nobody disturbed every task before its Complete   *)
(*             has a running row, so that it is the only one there;        *)
(*   PanelInv  hence what such a task holds of the panel is current.       *)
(***************************************************************************)
EXTENDS Provision, TLAPS

\* A submission that has begun knows its site.
SiteKnown == \A t \in Tasks : pc[t] # "idle" => site[t] \in Sites

\* A pool thread was started by a task.
ThreadKnown == \A t \in Tasks : thread[t] # "none" => pc[t] # "idle"

\* A task that is to record an outcome has one.
ResultKnown == \A t \in Tasks : pc[t] \in {"close", "record"} => result[t] # "none"

Standing == SiteKnown /\ ThreadKnown /\ ResultKnown /\ RunningHasTask
TypeInv  == TypeOK /\ Standing

\* A deletion mark keeps a row a row.
LEMMA MarkTyped ==
    ASSUME NEW r \in [Sites -> Rows], NEW s \in Sites, NEW b \in BOOLEAN
    PROVE  [r EXCEPT ![s].deleted = b] \in [Sites -> Rows]
BY DEF Rows

\* One more event within the bound keeps the count in it.
LEMMA OneMoreEvent ==
    ASSUME TypeOK, used < MaxEvents PROVE used + 1 \in 0..MaxEvents
BY BoundsAssumption DEF TypeOK

\* Running rows belong to sites.
LEMMA SitesOfTyped ==
    ASSUME TypeInv, NEW S \in SUBSET Tasks
    PROVE  SitesOf(S) \subseteq Sites
BY DEF TypeInv, Standing, SiteKnown, RunningHasTask, SitesOf, Live, Permitted, Executing

\* What a submission that has begun finds in its site's row and on the panel.
LEMMA SiteTyped ==
    ASSUME TypeInv, NEW t \in Tasks, pc[t] # "idle"
    PROVE  /\ site[t] \in Sites /\ row[site[t]] \in Rows
           /\ panel[site[t]] \in Nat /\ made[site[t]] \in Nat
           /\ copy[t] \in Rows /\ found[t] \in Nat
BY DEF TypeInv, TypeOK, Standing, SiteKnown

\* The initial state is typed.
LEMMA TypeInvInit == Init => TypeInv
<1> SUFFICES ASSUME Init PROVE TypeInv
  OBVIOUS
<1>1. NewRow \in Rows /\ [NewRow EXCEPT !.state = "created", !.pid = 1] \in Rows
  BY DEF NewRow, Rows, States, NoId
<1>2. TypeOK
  BY <1>1, BoundsAssumption DEF Init, TypeOK, Pcs, Statuses, Stages, NoId
<1>3. Standing
  BY DEF Init, Standing, SiteKnown, ThreadKnown, ResultKnown, RunningHasTask
<1>4. QED
  BY <1>2, <1>3 DEF TypeInv

\* Every step keeps every variable in its type.
LEMMA TypeStep == TypeInv /\ [Next]_vars => TypeOK'
<1> SUFFICES ASSUME TypeInv, [Next]_vars PROVE TypeOK'
  OBVIOUS
<1> USE DEF TypeOK, Goto, SetStatus, Save, Event, taskVars, threadVars,
    panelVars, deleteVars, Statuses, States, NoId, Stages, Working, Pcs, Live,
    Permitted, Executing, Requesting
<1>0. TypeOK /\ SiteKnown /\ ThreadKnown /\ ResultKnown
  BY DEF TypeInv, Standing
<1> USE DEF SiteKnown, ThreadKnown, ResultKnown
<1>1. ASSUME NEW t \in Tasks, NEW s \in Sites, Submit(t, s) PROVE TypeOK'
  BY <1>0, <1>1 DEF Submit
<1>2. ASSUME NEW t \in Tasks, CheckNone(t) PROVE TypeOK'
  BY <1>0, <1>2 DEF CheckNone
<1>3. ASSUME NEW t \in Tasks, CheckBlocked(t) PROVE TypeOK'
  BY <1>0, <1>3 DEF CheckBlocked
<1>4. ASSUME NEW t \in Tasks, CheckOld(t) PROVE TypeOK'
  <2>1. PICK u \in Tasks : seen' = [seen EXCEPT ![t] = u]
    BY <1>4 DEF CheckOld, Running
  <2>2. QED
    BY <1>0, <1>4, <2>1 DEF CheckOld
<1>5. ASSUME NEW t \in Tasks, Reclaim(t) PROVE TypeOK'
  <2>1. site[t] \in Sites /\ row[site[t]] \in Rows /\ panel[site[t]] \in Nat
        /\ made[site[t]] \in Nat /\ copy[t] \in Rows /\ found[t] \in Nat
    BY <1>5, SiteTyped DEF Reclaim
  <2>2. QED
    BY <1>0, <1>5, <2>1 DEF Reclaim
<1>6. ASSUME NEW t \in Tasks, Create(t) PROVE TypeOK'
  BY <1>0, <1>6 DEF Create
<1>7. ASSUME NEW t \in Tasks, Acquire(t) PROVE TypeOK'
  BY <1>0, <1>7 DEF Acquire
<1>8. ASSUME NEW t \in Tasks, DupNone(t) PROVE TypeOK'
  BY <1>0, <1>8 DEF DupNone
<1>9. ASSUME NEW t \in Tasks, DupFound(t) PROVE TypeOK'
  BY <1>0, <1>9 DEF DupFound
<1>10. ASSUME NEW t \in Tasks, DupCancel(t) PROVE TypeOK'
  BY <1>0, <1>10 DEF DupCancel
<1>11. ASSUME NEW t \in Tasks, DnsReady(t) PROVE TypeOK'
  BY <1>0, <1>11 DEF DnsReady
<1>12. ASSUME NEW t \in Tasks, DnsMissing(t) PROVE TypeOK'
  <2>1. site[t] \in Sites /\ copy[t] \in Rows /\ found[t] \in Nat
    BY <1>12, SiteTyped DEF DnsMissing
  <2>2. [copy[t] EXCEPT !.state = "failed"] \in Rows
    BY <2>1 DEF Rows
  <2>3. QED
    BY <1>0, <1>12, <2>1, <2>2 DEF DnsMissing
<1>13. ASSUME NEW t \in Tasks, CreateDone(t) PROVE TypeOK'
  <2>1. site[t] \in Sites /\ copy[t] \in Rows /\ found[t] \in Nat
    BY <1>13, SiteTyped DEF CreateDone
  <2>2. [copy[t] EXCEPT !.pid = found[t]] \in Rows
    BY <2>1 DEF Rows
  <2>3. QED
    BY <1>0, <1>13, <2>1, <2>2 DEF CreateDone
<1>14. ASSUME NEW t \in Tasks, CreateTimeout(t) PROVE TypeOK'
  BY <1>0, <1>14 DEF CreateTimeout
<1>15. ASSUME NEW t \in Tasks, CreateRaised(t) PROVE TypeOK'
  BY <1>0, <1>15 DEF CreateRaised
<1>16. ASSUME NEW t \in Tasks, CreateExists(t) PROVE TypeOK'
  <2>1. site[t] \in Sites /\ row[site[t]] \in Rows /\ panel[site[t]] \in Nat
        /\ made[site[t]] \in Nat /\ copy[t] \in Rows /\ found[t] \in Nat
    BY <1>0, <1>16, SiteTyped DEF CreateExists
  <2>2. row' \in [Sites -> Rows] /\ copy' \in [Tasks -> Rows]
    <3>1. CASE copy[t].state = "created"
      <4>1. [row[site[t]] EXCEPT !.pid = found[t]] \in Rows
        BY <2>1 DEF Rows
      <4>2. QED
        BY <1>0, <1>16, <2>1, <3>1, <4>1 DEF CreateExists
    <3>2. CASE copy[t].state # "created"
      <4>1. [copy[t] EXCEPT !.pid = found[t], !.state = "exists"] \in Rows
        BY <2>1 DEF Rows
      <4>2. QED
        BY <1>0, <1>16, <2>1, <3>2, <4>1 DEF CreateExists
    <3>3. QED
      BY <3>1, <3>2
  <2>3. pc' \in [Tasks -> Pcs] /\ result' \in [Tasks -> {"none", "success", "failed"}]
    BY <1>0, <1>16 DEF CreateExists
  <2>4. QED
    BY <1>0, <1>16, <2>2, <2>3 DEF CreateExists
<1>17. ASSUME NEW t \in Tasks, Build(t) PROVE TypeOK'
  BY <1>0, <1>17 DEF Build
<1>18. ASSUME NEW t \in Tasks, BuildFails(t) PROVE TypeOK'
  BY <1>0, <1>18 DEF BuildFails
<1>19. ASSUME NEW t \in Tasks, Finish(t) PROVE TypeOK'
  <2>1. site[t] \in Sites /\ copy[t] \in Rows /\ found[t] \in Nat
    BY <1>19, SiteTyped DEF Finish
  <2>2. [copy[t] EXCEPT !.state = "created"] \in Rows
    BY <2>1 DEF Rows
  <2>3. QED
    BY <1>0, <1>19, <2>1, <2>2 DEF Finish
<1>20. ASSUME NEW t \in Tasks, Fail(t) PROVE TypeOK'
  <2>1. site[t] \in Sites /\ copy[t] \in Rows /\ found[t] \in Nat
    BY <1>20, SiteTyped DEF Fail
  <2>2. [copy[t] EXCEPT !.state = "failed"] \in Rows
    BY <2>1 DEF Rows
  <2>3. QED
    BY <1>0, <1>20, <2>1, <2>2 DEF Fail
<1>21. ASSUME NEW t \in Tasks, Complete(t) PROVE TypeOK'
  <2>1. site[t] \in Sites /\ row[site[t]] \in Rows /\ panel[site[t]] \in Nat
        /\ made[site[t]] \in Nat /\ copy[t] \in Rows /\ found[t] \in Nat
    BY <1>21, SiteTyped DEF Complete
  <2>2. QED
    BY <1>0, <1>21, <2>1 DEF Complete
<1>22. ASSUME NEW t \in Tasks, Renamed(t) PROVE TypeOK'
  <2>1. site[t] \in Sites /\ row[site[t]] \in Rows /\ panel[site[t]] \in Nat
        /\ made[site[t]] \in Nat /\ copy[t] \in Rows /\ found[t] \in Nat
    BY <1>22, SiteTyped DEF Renamed
  <2>2. QED
    BY <1>0, <1>22, <2>1 DEF Renamed
<1>23. ASSUME NEW t \in Tasks, ThreadSearch(t) PROVE TypeOK'
  <2>1. site[t] \in Sites /\ row[site[t]] \in Rows /\ panel[site[t]] \in Nat
        /\ made[site[t]] \in Nat /\ copy[t] \in Rows /\ found[t] \in Nat
    BY <1>0, <1>23, SiteTyped DEF ThreadSearch
  <2>2. QED
    BY <1>0, <1>23, <2>1 DEF ThreadSearch
<1>24. ASSUME NEW t \in Tasks, ThreadClean(t) PROVE TypeOK'
  <2>1. site[t] \in Sites /\ row[site[t]] \in Rows /\ panel[site[t]] \in Nat
        /\ made[site[t]] \in Nat /\ copy[t] \in Rows /\ found[t] \in Nat
    BY <1>0, <1>24, SiteTyped DEF ThreadClean
  <2>2. QED
    BY <1>0, <1>24, <2>1 DEF ThreadClean
<1>25. ASSUME NEW t \in Tasks, ThreadPost(t) PROVE TypeOK'
  <2>1. site[t] \in Sites /\ row[site[t]] \in Rows /\ panel[site[t]] \in Nat
        /\ made[site[t]] \in Nat /\ copy[t] \in Rows /\ found[t] \in Nat
    BY <1>0, <1>25, SiteTyped DEF ThreadPost
  <2>2. panel' \in [Sites -> Nat] /\ made' \in [Sites -> Nat]
    BY <1>0, <1>25, <2>1 DEF ThreadPost
  <2>3. thread' \in [Tasks -> Stages]
    BY <1>0, <1>25 DEF ThreadPost
  <2>4. QED
    BY <1>0, <1>25, <2>2, <2>3 DEF ThreadPost
<1>26. ASSUME NEW t \in Tasks, ThreadReady(t) PROVE TypeOK'
  <2>1. site[t] \in Sites /\ row[site[t]] \in Rows /\ panel[site[t]] \in Nat
        /\ made[site[t]] \in Nat /\ copy[t] \in Rows /\ found[t] \in Nat
    BY <1>0, <1>26, SiteTyped DEF ThreadReady
  <2>2. PICK id \in Nat : found' = [found EXCEPT ![t] = id]
    BY <1>26, <2>1 DEF ThreadReady
  <2>3. QED
    BY <1>0, <1>26, <2>2 DEF ThreadReady
<1>27. ASSUME NEW t \in Tasks, ThreadFails(t) PROVE TypeOK'
  <2>1. site[t] \in Sites /\ row[site[t]] \in Rows /\ panel[site[t]] \in Nat
        /\ made[site[t]] \in Nat /\ copy[t] \in Rows /\ found[t] \in Nat
    BY <1>0, <1>27, SiteTyped DEF ThreadFails
  <2>2. QED
    BY <1>0, <1>27, <2>1 DEF ThreadFails
<1>28. ASSUME NEW t \in Tasks, PostLost(t) PROVE TypeOK'
  <2>1. site[t] \in Sites /\ row[site[t]] \in Rows /\ panel[site[t]] \in Nat
        /\ made[site[t]] \in Nat /\ copy[t] \in Rows /\ found[t] \in Nat
    BY <1>0, <1>28, SiteTyped DEF PostLost
  <2>2. panel' \in [Sites -> Nat] /\ made' \in [Sites -> Nat]
    BY <1>0, <1>28, <2>1 DEF PostLost
  <2>3. thread' \in [Tasks -> Stages] /\ used' \in 0..MaxEvents
    BY <1>0, <1>28, OneMoreEvent DEF PostLost
  <2>4. QED
    BY <1>0, <1>28, <2>2, <2>3 DEF PostLost
<1>29. ASSUME NEW t \in Tasks, CancelTask(t) PROVE TypeOK'
  <2>1. SitesOf({t}) \subseteq Sites
    BY SitesOfTyped
  <2>2. QED
    BY <1>0, <1>29, <2>1, OneMoreEvent DEF CancelTask
<1>30. ASSUME NEW t \in Tasks, GrowOld(t) PROVE TypeOK'
  BY <1>0, <1>30 DEF GrowOld
<1>31. ASSUME NEW t \in Tasks, Raise(t) PROVE TypeOK'
  BY <1>0, <1>31, OneMoreEvent DEF Raise
<1>32. ASSUME NEW t \in Tasks, Die(t) PROVE TypeOK'
  <2>1. pc' \in [Tasks -> Pcs] /\ used' \in 0..MaxEvents
    BY <1>0, <1>32, OneMoreEvent DEF Die
  <2>2. disturbed' \subseteq Sites
    BY <1>0, <1>32 DEF Die
  <2>3. QED
    BY <1>0, <1>32, <2>1, <2>2 DEF Die
<1>33. ASSUME NEW s \in Sites, Delete(s) PROVE TypeOK'
  <2>1. row' = [row EXCEPT ![s].deleted = TRUE]
    BY <1>33 DEF Delete
  <2>2. row \in [Sites -> Rows]
    BY <1>0
  <2>3. row' \in [Sites -> Rows]
    BY <2>1, <2>2, MarkTyped
  <2>4. QED
    BY <1>0, <1>33, <2>3, OneMoreEvent DEF Delete
<1>34. ASSUME NEW s \in Sites, DeleteSearch(s) PROVE TypeOK'
  <2>1. panel[s] \in Nat
    BY <1>0, <1>34
  <2>2. deleter' \in [Sites -> {"none", "search", "remove"}] /\ target' \in [Sites -> Nat]
    BY <1>0, <1>34, <2>1 DEF DeleteSearch
  <2>3. QED
    BY <1>0, <1>34, <2>2 DEF DeleteSearch
<1>35. ASSUME NEW s \in Sites, DeleteRemove(s) PROVE TypeOK'
  BY <1>0, <1>35 DEF DeleteRemove
<1>36. ASSUME NEW s \in Sites, Restore(s) PROVE TypeOK'
  <2>1. row' = [row EXCEPT ![s].deleted = FALSE]
    BY <1>36 DEF Restore
  <2>2. row \in [Sites -> Rows]
    BY <1>0
  <2>3. row' \in [Sites -> Rows]
    BY <2>1, <2>2, MarkTyped
  <2>4. QED
    BY <1>0, <1>36, <2>3 DEF Restore
<1>37. ASSUME NEW S \in SUBSET Tasks, Crash(S) PROVE TypeOK'
  <2>1. SitesOf(S) \subseteq Sites
    BY SitesOfTyped
  <2>2. {site[t] : t \in {u \in Tasks : pc[u] \in {"create", "fail"}}} \subseteq Sites
    BY <1>0
  <2>3. QED
    BY <1>0, <1>37, <2>1, <2>2, BoundsAssumption DEF Crash
<1>38. ASSUME NEW S \in SUBSET Tasks, PeerStarts(S) PROVE TypeOK'
  <2>1. SitesOf(S) \subseteq Sites
    BY SitesOfTyped
  <2>2. QED
    BY <1>0, <1>38, <2>1, BoundsAssumption DEF PeerStarts
<1>39. CASE UNCHANGED vars
  BY <1>0, <1>39 DEF vars
<1> HIDE DEF TypeOK, Goto, SetStatus, Save, Event, taskVars, threadVars,
    panelVars, deleteVars, Statuses, States, NoId, Stages, Working, Pcs, Live,
    Permitted, Executing, Requesting
<1>40. QED
  BY <1>1, <1>2, <1>3, <1>4, <1>5, <1>6, <1>7, <1>8, <1>9, <1>10, <1>11,
    <1>12, <1>13, <1>14, <1>15, <1>16, <1>17, <1>18, <1>19, <1>20, <1>21,
    <1>22, <1>23, <1>24, <1>25, <1>26, <1>27, <1>28, <1>29, <1>30, <1>31,
    <1>32, <1>33, <1>34, <1>35, <1>36, <1>37, <1>38, <1>39
  DEF Next, RequestStep, TaskStep, CreateStep, ThreadStep, SiteStep, Fault

\* A row that runs is left to a task, and a task knows what it is to record.
LEMMA StandingStep == TypeInv /\ [Next]_vars => Standing'
<1> SUFFICES ASSUME TypeInv, [Next]_vars PROVE Standing'
  OBVIOUS
<1> USE DEF Standing, SiteKnown, ThreadKnown, ResultKnown, RunningHasTask,
    TypeOK, TypeInv, Goto, SetStatus, Save, Event, taskVars, threadVars,
    panelVars, deleteVars, Stages, Working, Pcs, Live, Permitted, Executing,
    Requesting
<1>1. ASSUME NEW t \in Tasks, NEW s \in Sites, Submit(t, s) PROVE Standing'
  BY <1>1 DEF Submit
<1>2. ASSUME NEW t \in Tasks, CheckNone(t) PROVE Standing'
  BY <1>2 DEF CheckNone
<1>3. ASSUME NEW t \in Tasks, CheckBlocked(t) PROVE Standing'
  BY <1>3 DEF CheckBlocked
<1>4. ASSUME NEW t \in Tasks, CheckOld(t) PROVE Standing'
  BY <1>4 DEF CheckOld
<1>5. ASSUME NEW t \in Tasks, Reclaim(t) PROVE Standing'
  BY <1>5 DEF Reclaim
<1>6. ASSUME NEW t \in Tasks, Create(t) PROVE Standing'
  BY <1>6 DEF Create
<1>7. ASSUME NEW t \in Tasks, Acquire(t) PROVE Standing'
  BY <1>7 DEF Acquire
<1>8. ASSUME NEW t \in Tasks, DupNone(t) PROVE Standing'
  BY <1>8 DEF DupNone
<1>9. ASSUME NEW t \in Tasks, DupFound(t) PROVE Standing'
  BY <1>9 DEF DupFound
<1>10. ASSUME NEW t \in Tasks, DupCancel(t) PROVE Standing'
  BY <1>10 DEF DupCancel
<1>11. ASSUME NEW t \in Tasks, DnsReady(t) PROVE Standing'
  BY <1>11 DEF DnsReady
<1>12. ASSUME NEW t \in Tasks, DnsMissing(t) PROVE Standing'
  BY <1>12 DEF DnsMissing
<1>13. ASSUME NEW t \in Tasks, CreateDone(t) PROVE Standing'
  BY <1>13 DEF CreateDone
<1>14. ASSUME NEW t \in Tasks, CreateTimeout(t) PROVE Standing'
  BY <1>14 DEF CreateTimeout
<1>15. ASSUME NEW t \in Tasks, CreateRaised(t) PROVE Standing'
  BY <1>15 DEF CreateRaised
<1>16. ASSUME NEW t \in Tasks, CreateExists(t) PROVE Standing'
  BY <1>16 DEF CreateExists
<1>17. ASSUME NEW t \in Tasks, Build(t) PROVE Standing'
  BY <1>17 DEF Build
<1>18. ASSUME NEW t \in Tasks, BuildFails(t) PROVE Standing'
  BY <1>18 DEF BuildFails
<1>19. ASSUME NEW t \in Tasks, Finish(t) PROVE Standing'
  BY <1>19 DEF Finish
<1>20. ASSUME NEW t \in Tasks, Fail(t) PROVE Standing'
  BY <1>20 DEF Fail
<1>21. ASSUME NEW t \in Tasks, Complete(t) PROVE Standing'
  BY <1>21 DEF Complete
<1>22. ASSUME NEW t \in Tasks, Renamed(t) PROVE Standing'
  BY <1>22 DEF Renamed
<1>23. ASSUME NEW t \in Tasks, ThreadSearch(t) PROVE Standing'
  BY <1>23 DEF ThreadSearch
<1>24. ASSUME NEW t \in Tasks, ThreadClean(t) PROVE Standing'
  BY <1>24 DEF ThreadClean
<1>25. ASSUME NEW t \in Tasks, ThreadPost(t) PROVE Standing'
  BY <1>25 DEF ThreadPost
<1>26. ASSUME NEW t \in Tasks, ThreadReady(t) PROVE Standing'
  BY <1>26 DEF ThreadReady
<1>27. ASSUME NEW t \in Tasks, ThreadFails(t) PROVE Standing'
  BY <1>27 DEF ThreadFails
<1>28. ASSUME NEW t \in Tasks, PostLost(t) PROVE Standing'
  BY <1>28 DEF PostLost
<1>29. ASSUME NEW t \in Tasks, CancelTask(t) PROVE Standing'
  BY <1>29 DEF CancelTask
<1>30. ASSUME NEW t \in Tasks, GrowOld(t) PROVE Standing'
  BY <1>30 DEF GrowOld
<1>31. ASSUME NEW t \in Tasks, Raise(t) PROVE Standing'
  BY <1>31 DEF Raise
<1>32. ASSUME NEW t \in Tasks, Die(t) PROVE Standing'
  BY <1>32 DEF Die
<1>33. ASSUME NEW s \in Sites, Delete(s) PROVE Standing'
  BY <1>33 DEF Delete
<1>34. ASSUME NEW s \in Sites, DeleteSearch(s) PROVE Standing'
  BY <1>34 DEF DeleteSearch
<1>35. ASSUME NEW s \in Sites, DeleteRemove(s) PROVE Standing'
  BY <1>35 DEF DeleteRemove
<1>36. ASSUME NEW s \in Sites, Restore(s) PROVE Standing'
  BY <1>36 DEF Restore
<1>37. ASSUME NEW S \in SUBSET Tasks, Crash(S) PROVE Standing'
  BY <1>37 DEF Crash
<1>38. ASSUME NEW S \in SUBSET Tasks, PeerStarts(S) PROVE Standing'
  BY <1>38 DEF PeerStarts
<1>39. CASE UNCHANGED vars
  BY <1>39 DEF vars
<1> HIDE DEF Standing, SiteKnown, ThreadKnown, ResultKnown, RunningHasTask,
    TypeOK, TypeInv, Goto, SetStatus, Save, Event, taskVars, threadVars,
    panelVars, deleteVars, Stages, Working, Pcs, Live, Permitted, Executing,
    Requesting
<1>40. QED
  BY <1>1, <1>2, <1>3, <1>4, <1>5, <1>6, <1>7, <1>8, <1>9, <1>10, <1>11,
    <1>12, <1>13, <1>14, <1>15, <1>16, <1>17, <1>18, <1>19, <1>20, <1>21,
    <1>22, <1>23, <1>24, <1>25, <1>26, <1>27, <1>28, <1>29, <1>30, <1>31,
    <1>32, <1>33, <1>34, <1>35, <1>36, <1>37, <1>38, <1>39
  DEF Next, RequestStep, TaskStep, CreateStep, ThreadStep, SiteStep, Fault

\* The two parts together.
LEMMA TypeInvStep == TypeInv /\ [Next]_vars => TypeInv'
BY TypeStep, StandingStep DEF TypeInv

\* Every variable of the provisionings keeps its type.
THEOREM TypeCorrect == Spec => []TypeOK
<1>1. Init => TypeInv
  BY TypeInvInit
<1>2. TypeInv /\ [Next]_vars => TypeInv'
  BY TypeInvStep
<1>3. TypeInv => TypeOK
  BY DEF TypeInv
<1>4. QED
  BY <1>1, <1>2, <1>3, PTL DEF Spec

\* A running row always has a task behind it, or one that was lost: every
\* other way a provisioning ends settles its row.
THEOREM RunningRowsHaveTasks == Spec => []RunningHasTask
<1>1. Init => TypeInv
  BY TypeInvInit
<1>2. TypeInv /\ [Next]_vars => TypeInv'
  BY TypeInvStep
<1>3. TypeInv => RunningHasTask
  BY DEF TypeInv, Standing
<1>4. QED
  BY <1>1, <1>2, <1>3, PTL DEF Spec

-----------------------------------------------------------------------------
(* One provisioning of a site at a time.                                   *)

\* Whatever settles rows, the check after the row's creation keeps a second
\* run from passing: rows begin to run only at Create, before it.
LEMMA ExclusiveStep == TypeInv /\ ExclusiveProvision /\ [Next]_vars => ExclusiveProvision'
<1> SUFFICES ASSUME TypeInv /\ ExclusiveProvision, [Next]_vars PROVE ExclusiveProvision'
  OBVIOUS
<1> USE DEF ExclusiveProvision, TypeInv, TypeOK, Standing, SiteKnown,
    RunningHasTask, Running, Goto, SetStatus, Save, Event, taskVars,
    threadVars, panelVars, deleteVars, Pcs, Live, Permitted, Executing,
    Requesting
<1>1. ASSUME NEW t \in Tasks, NEW s \in Sites, Submit(t, s) PROVE ExclusiveProvision'
  BY <1>1 DEF Submit
<1>2. ASSUME NEW t \in Tasks, CheckNone(t) PROVE ExclusiveProvision'
  BY <1>2 DEF CheckNone
<1>3. ASSUME NEW t \in Tasks, CheckBlocked(t) PROVE ExclusiveProvision'
  BY <1>3 DEF CheckBlocked
<1>4. ASSUME NEW t \in Tasks, CheckOld(t) PROVE ExclusiveProvision'
  BY <1>4 DEF CheckOld
<1>5. ASSUME NEW t \in Tasks, Reclaim(t) PROVE ExclusiveProvision'
  BY <1>5 DEF Reclaim
<1>6. ASSUME NEW t \in Tasks, Create(t) PROVE ExclusiveProvision'
  BY <1>6 DEF Create
<1>7. ASSUME NEW t \in Tasks, Acquire(t) PROVE ExclusiveProvision'
  BY <1>7 DEF Acquire
<1>8. ASSUME NEW t \in Tasks, DupNone(t) PROVE ExclusiveProvision'
  BY <1>8 DEF DupNone
<1>9. ASSUME NEW t \in Tasks, DupFound(t) PROVE ExclusiveProvision'
  BY <1>9 DEF DupFound
<1>10. ASSUME NEW t \in Tasks, DupCancel(t) PROVE ExclusiveProvision'
  BY <1>10 DEF DupCancel
<1>11. ASSUME NEW t \in Tasks, DnsReady(t) PROVE ExclusiveProvision'
  BY <1>11 DEF DnsReady
<1>12. ASSUME NEW t \in Tasks, DnsMissing(t) PROVE ExclusiveProvision'
  BY <1>12 DEF DnsMissing
<1>13. ASSUME NEW t \in Tasks, CreateDone(t) PROVE ExclusiveProvision'
  BY <1>13 DEF CreateDone
<1>14. ASSUME NEW t \in Tasks, CreateTimeout(t) PROVE ExclusiveProvision'
  BY <1>14 DEF CreateTimeout
<1>15. ASSUME NEW t \in Tasks, CreateRaised(t) PROVE ExclusiveProvision'
  BY <1>15 DEF CreateRaised
<1>16. ASSUME NEW t \in Tasks, CreateExists(t) PROVE ExclusiveProvision'
  BY <1>16 DEF CreateExists
<1>17. ASSUME NEW t \in Tasks, Build(t) PROVE ExclusiveProvision'
  BY <1>17 DEF Build
<1>18. ASSUME NEW t \in Tasks, BuildFails(t) PROVE ExclusiveProvision'
  BY <1>18 DEF BuildFails
<1>19. ASSUME NEW t \in Tasks, Finish(t) PROVE ExclusiveProvision'
  BY <1>19 DEF Finish
<1>20. ASSUME NEW t \in Tasks, Fail(t) PROVE ExclusiveProvision'
  BY <1>20 DEF Fail
<1>21. ASSUME NEW t \in Tasks, Complete(t) PROVE ExclusiveProvision'
  BY <1>21 DEF Complete
<1>22. ASSUME NEW t \in Tasks, Renamed(t) PROVE ExclusiveProvision'
  BY <1>22 DEF Renamed
<1>23. ASSUME NEW t \in Tasks, ThreadSearch(t) PROVE ExclusiveProvision'
  BY <1>23 DEF ThreadSearch
<1>24. ASSUME NEW t \in Tasks, ThreadClean(t) PROVE ExclusiveProvision'
  BY <1>24 DEF ThreadClean
<1>25. ASSUME NEW t \in Tasks, ThreadPost(t) PROVE ExclusiveProvision'
  BY <1>25 DEF ThreadPost
<1>26. ASSUME NEW t \in Tasks, ThreadReady(t) PROVE ExclusiveProvision'
  BY <1>26 DEF ThreadReady
<1>27. ASSUME NEW t \in Tasks, ThreadFails(t) PROVE ExclusiveProvision'
  BY <1>27 DEF ThreadFails
<1>28. ASSUME NEW t \in Tasks, PostLost(t) PROVE ExclusiveProvision'
  BY <1>28 DEF PostLost
<1>29. ASSUME NEW t \in Tasks, CancelTask(t) PROVE ExclusiveProvision'
  BY <1>29 DEF CancelTask
<1>30. ASSUME NEW t \in Tasks, GrowOld(t) PROVE ExclusiveProvision'
  BY <1>30 DEF GrowOld
<1>31. ASSUME NEW t \in Tasks, Raise(t) PROVE ExclusiveProvision'
  BY <1>31 DEF Raise
<1>32. ASSUME NEW t \in Tasks, Die(t) PROVE ExclusiveProvision'
  BY <1>32 DEF Die
<1>33. ASSUME NEW s \in Sites, Delete(s) PROVE ExclusiveProvision'
  BY <1>33 DEF Delete
<1>34. ASSUME NEW s \in Sites, DeleteSearch(s) PROVE ExclusiveProvision'
  BY <1>34 DEF DeleteSearch
<1>35. ASSUME NEW s \in Sites, DeleteRemove(s) PROVE ExclusiveProvision'
  BY <1>35 DEF DeleteRemove
<1>36. ASSUME NEW s \in Sites, Restore(s) PROVE ExclusiveProvision'
  BY <1>36 DEF Restore
<1>37. ASSUME NEW S \in SUBSET Tasks, Crash(S) PROVE ExclusiveProvision'
  BY <1>37 DEF Crash
<1>38. ASSUME NEW S \in SUBSET Tasks, PeerStarts(S) PROVE ExclusiveProvision'
  BY <1>38 DEF PeerStarts
<1>39. CASE UNCHANGED vars
  BY <1>39 DEF vars
<1> HIDE DEF ExclusiveProvision, TypeInv, TypeOK, Standing, SiteKnown,
    RunningHasTask, Running, Goto, SetStatus, Save, Event, taskVars,
    threadVars, panelVars, deleteVars, Pcs, Live, Permitted, Executing,
    Requesting
<1>40. QED
  BY <1>1, <1>2, <1>3, <1>4, <1>5, <1>6, <1>7, <1>8, <1>9, <1>10, <1>11,
    <1>12, <1>13, <1>14, <1>15, <1>16, <1>17, <1>18, <1>19, <1>20, <1>21,
    <1>22, <1>23, <1>24, <1>25, <1>26, <1>27, <1>28, <1>29, <1>30, <1>31,
    <1>32, <1>33, <1>34, <1>35, <1>36, <1>37, <1>38, <1>39
  DEF Next, RequestStep, TaskStep, CreateStep, ThreadStep, SiteStep, Fault

\* No two tasks that provision one site both have a running row, for any
\* number of submissions, sites and permits.
THEOREM ProvisioningsAreExclusive == Spec => []ExclusiveProvision
<1> DEFINE Inv == TypeInv /\ ExclusiveProvision
<1>1. Init => Inv
  BY TypeInvInit DEF Init, ExclusiveProvision, Executing
<1>2. Inv /\ [Next]_vars => Inv'
  BY TypeInvStep, ExclusiveStep
<1>3. Inv => ExclusiveProvision
  OBVIOUS
<1>4. QED
  BY <1>1, <1>2, <1>3, PTL DEF Spec

-----------------------------------------------------------------------------
(* The site on the panel.                                                  *)

\* A request that is to reclaim a row has read a row of its own site.
SeenHere ==
    \A t \in Tasks : pc[t] = "reclaim" =>
        seen[t] \in Tasks /\ pc[seen[t]] # "idle" /\ site[seen[t]] = site[t]

\* On an undisturbed site nobody but a task itself has settled its row.
StillRunning ==
    \A t \in Tasks : pc[t] \in Live /\ site[t] \notin disturbed => status[t] = "running"

\* A deletion that is under way has disturbed its site.
DeletionKnown == \A s \in Sites : deleter[s] # "none" => s \in disturbed

RunsInv == SeenHere /\ StillRunning /\ DeletionKnown

\* A row is settled by its task, or by somebody who disturbs the site.
LEMMA RunsInvStep == TypeInv /\ RunsInv /\ [Next]_vars => RunsInv'
<1> SUFFICES ASSUME TypeInv /\ RunsInv, [Next]_vars PROVE RunsInv'
  OBVIOUS
<1> USE DEF RunsInv, SeenHere, StillRunning, DeletionKnown, TypeInv, TypeOK,
    Standing, SiteKnown, ThreadKnown, RunningHasTask, Running, SitesOf, Goto,
    SetStatus, Save, Event, taskVars, threadVars, panelVars, deleteVars, Pcs,
    Live, Permitted, Executing, Requesting
<1>1. ASSUME NEW t \in Tasks, NEW s \in Sites, Submit(t, s) PROVE RunsInv'
  BY <1>1 DEF Submit
<1>2. ASSUME NEW t \in Tasks, CheckNone(t) PROVE RunsInv'
  BY <1>2 DEF CheckNone
<1>3. ASSUME NEW t \in Tasks, CheckBlocked(t) PROVE RunsInv'
  BY <1>3 DEF CheckBlocked
<1>4. ASSUME NEW t \in Tasks, CheckOld(t) PROVE RunsInv'
  BY <1>4 DEF CheckOld
<1>5. ASSUME NEW t \in Tasks, Reclaim(t) PROVE RunsInv'
  BY <1>5 DEF Reclaim
<1>6. ASSUME NEW t \in Tasks, Create(t) PROVE RunsInv'
  BY <1>6 DEF Create
<1>7. ASSUME NEW t \in Tasks, Acquire(t) PROVE RunsInv'
  BY <1>7 DEF Acquire
<1>8. ASSUME NEW t \in Tasks, DupNone(t) PROVE RunsInv'
  BY <1>8 DEF DupNone
<1>9. ASSUME NEW t \in Tasks, DupFound(t) PROVE RunsInv'
  BY <1>9 DEF DupFound
<1>10. ASSUME NEW t \in Tasks, DupCancel(t) PROVE RunsInv'
  BY <1>10 DEF DupCancel
<1>11. ASSUME NEW t \in Tasks, DnsReady(t) PROVE RunsInv'
  BY <1>11 DEF DnsReady
<1>12. ASSUME NEW t \in Tasks, DnsMissing(t) PROVE RunsInv'
  BY <1>12 DEF DnsMissing
<1>13. ASSUME NEW t \in Tasks, CreateDone(t) PROVE RunsInv'
  BY <1>13 DEF CreateDone
<1>14. ASSUME NEW t \in Tasks, CreateTimeout(t) PROVE RunsInv'
  BY <1>14 DEF CreateTimeout
<1>15. ASSUME NEW t \in Tasks, CreateRaised(t) PROVE RunsInv'
  BY <1>15 DEF CreateRaised
<1>16. ASSUME NEW t \in Tasks, CreateExists(t) PROVE RunsInv'
  BY <1>16 DEF CreateExists
<1>17. ASSUME NEW t \in Tasks, Build(t) PROVE RunsInv'
  BY <1>17 DEF Build
<1>18. ASSUME NEW t \in Tasks, BuildFails(t) PROVE RunsInv'
  BY <1>18 DEF BuildFails
<1>19. ASSUME NEW t \in Tasks, Finish(t) PROVE RunsInv'
  BY <1>19 DEF Finish
<1>20. ASSUME NEW t \in Tasks, Fail(t) PROVE RunsInv'
  BY <1>20 DEF Fail
<1>21. ASSUME NEW t \in Tasks, Complete(t) PROVE RunsInv'
  BY <1>21 DEF Complete
<1>22. ASSUME NEW t \in Tasks, Renamed(t) PROVE RunsInv'
  BY <1>22 DEF Renamed
<1>23. ASSUME NEW t \in Tasks, ThreadSearch(t) PROVE RunsInv'
  BY <1>23 DEF ThreadSearch
<1>24. ASSUME NEW t \in Tasks, ThreadClean(t) PROVE RunsInv'
  BY <1>24 DEF ThreadClean
<1>25. ASSUME NEW t \in Tasks, ThreadPost(t) PROVE RunsInv'
  BY <1>25 DEF ThreadPost
<1>26. ASSUME NEW t \in Tasks, ThreadReady(t) PROVE RunsInv'
  BY <1>26 DEF ThreadReady
<1>27. ASSUME NEW t \in Tasks, ThreadFails(t) PROVE RunsInv'
  BY <1>27 DEF ThreadFails
<1>28. ASSUME NEW t \in Tasks, PostLost(t) PROVE RunsInv'
  BY <1>28 DEF PostLost
<1>29. ASSUME NEW t \in Tasks, CancelTask(t) PROVE RunsInv'
  BY <1>29 DEF CancelTask
<1>30. ASSUME NEW t \in Tasks, GrowOld(t) PROVE RunsInv'
  BY <1>30 DEF GrowOld
<1>31. ASSUME NEW t \in Tasks, Raise(t) PROVE RunsInv'
  BY <1>31 DEF Raise
<1>32. ASSUME NEW t \in Tasks, Die(t) PROVE RunsInv'
  BY <1>32 DEF Die
<1>33. ASSUME NEW s \in Sites, Delete(s) PROVE RunsInv'
  BY <1>33 DEF Delete
<1>34. ASSUME NEW s \in Sites, DeleteSearch(s) PROVE RunsInv'
  BY <1>34 DEF DeleteSearch
<1>35. ASSUME NEW s \in Sites, DeleteRemove(s) PROVE RunsInv'
  BY <1>35 DEF DeleteRemove
<1>36. ASSUME NEW s \in Sites, Restore(s) PROVE RunsInv'
  BY <1>36 DEF Restore
<1>37. ASSUME NEW S \in SUBSET Tasks, Crash(S) PROVE RunsInv'
  BY <1>37 DEF Crash
<1>38. ASSUME NEW S \in SUBSET Tasks, PeerStarts(S) PROVE RunsInv'
  BY <1>38 DEF PeerStarts
<1>39. CASE UNCHANGED vars
  BY <1>39 DEF vars
<1> HIDE DEF RunsInv, SeenHere, StillRunning, DeletionKnown, TypeInv, TypeOK,
    Standing, SiteKnown, ThreadKnown, RunningHasTask, Running, SitesOf, Goto,
    SetStatus, Save, Event, taskVars, threadVars, panelVars, deleteVars, Pcs,
    Live, Permitted, Executing, Requesting
<1>40. QED
  BY <1>1, <1>2, <1>3, <1>4, <1>5, <1>6, <1>7, <1>8, <1>9, <1>10, <1>11,
    <1>12, <1>13, <1>14, <1>15, <1>16, <1>17, <1>18, <1>19, <1>20, <1>21,
    <1>22, <1>23, <1>24, <1>25, <1>26, <1>27, <1>28, <1>29, <1>30, <1>31,
    <1>32, <1>33, <1>34, <1>35, <1>36, <1>37, <1>38, <1>39
  DEF Next, RequestStep, TaskStep, CreateStep, ThreadStep, SiteStep, Fault

\* Until its thread deletes the panel's site, a run finds row and panel as
\* they were.
Before ==
    \A t \in Tasks :
        /\ pc[t] = "create" /\ thread[t] \in {"search", "exists"}
        /\ site[t] \notin disturbed
        /\ row[site[t]].state = "created" /\ row[site[t]].pid # NoId
        => panel[site[t]] = row[site[t]].pid

\* The id a thread brings back is the one on the panel.
Answered ==
    \A t \in Tasks :
        /\ pc[t] = "create" /\ thread[t] \in {"ok", "exists"}
        /\ site[t] \notin disturbed
        => found[t] \in {NoId, panel[site[t]]}

\* So is the one in the copy of a run that goes on.
Held ==
    \A t \in Tasks :
        pc[t] \in {"build", "finish"} /\ site[t] \notin disturbed
        => copy[t].pid \in {NoId, panel[site[t]]}

\* A run about to record a success has saved its site as created.
Closing ==
    \A t \in Tasks :
        /\ pc[t] = "record" => result[t] = "failed"
        /\ pc[t] = "close" /\ result[t] = "success" /\ site[t] \notin disturbed
           => row[site[t]].state = "created"

PanelInv == Before /\ Answered /\ Held /\ Closing /\ CreatedIsOnPanel

\* On an undisturbed site a run is alone.
Alone ==
    \A t, u \in Tasks :
        /\ pc[t] \in Executing /\ pc[u] \in Executing
        /\ site[t] = site[u] /\ site[t] \notin disturbed
        => t = u

\* The row's creation came before the check, and nobody else settled it.
LEMMA AloneHolds == RunsInv /\ ExclusiveProvision => Alone
BY DEF RunsInv, StillRunning, ExclusiveProvision, Alone, Live, Permitted

\* A step that leaves rows and panel, and the tasks that replace a site in
\* their places, breaks nothing of CreatedIsOnPanel.
Quiet ==
    /\ row' = row /\ panel' = panel /\ disturbed \subseteq disturbed'
    /\ \A u \in Tasks : pc[u] \in {"create", "fail"} =>
          pc'[u] \in {"create", "fail"} /\ site'[u] = site[u]

LEMMA QuietKeepsCreated == CreatedIsOnPanel /\ Quiet => CreatedIsOnPanel'
BY DEF CreatedIsOnPanel, Quiet

\* A run that has not touched the panel finds it as the row says.
LEMMA BeforeStep == TypeInv /\ RunsInv /\ Alone /\ PanelInv /\ [Next]_vars => Before'
<1> SUFFICES ASSUME TypeInv /\ RunsInv /\ Alone /\ PanelInv, [Next]_vars PROVE Before'
  OBVIOUS
<1> USE DEF Before, CreatedIsOnPanel, TypeInv, TypeOK, Standing, SiteKnown,
    ThreadKnown, RunsInv, DeletionKnown, Alone, PanelInv, Rows, NoId, Goto,
    SetStatus, Save, Event, taskVars, threadVars, panelVars, deleteVars,
    Executing
<1>1. ASSUME NEW t \in Tasks, NEW s \in Sites, Submit(t, s) PROVE Before'
  BY <1>1 DEF Submit
<1>2. ASSUME NEW t \in Tasks, CheckNone(t) PROVE Before'
  BY <1>2 DEF CheckNone
<1>3. ASSUME NEW t \in Tasks, CheckBlocked(t) PROVE Before'
  BY <1>3 DEF CheckBlocked
<1>4. ASSUME NEW t \in Tasks, CheckOld(t) PROVE Before'
  BY <1>4 DEF CheckOld
<1>5. ASSUME NEW t \in Tasks, Reclaim(t) PROVE Before'
  BY <1>5 DEF Reclaim
<1>6. ASSUME NEW t \in Tasks, Create(t) PROVE Before'
  BY <1>6 DEF Create
<1>7. ASSUME NEW t \in Tasks, Acquire(t) PROVE Before'
  BY <1>7 DEF Acquire
<1>8. ASSUME NEW t \in Tasks, DupNone(t) PROVE Before'
  BY <1>8 DEF DupNone
<1>9. ASSUME NEW t \in Tasks, DupFound(t) PROVE Before'
  BY <1>9 DEF DupFound
<1>10. ASSUME NEW t \in Tasks, DupCancel(t) PROVE Before'
  BY <1>10 DEF DupCancel
<1>11. ASSUME NEW t \in Tasks, DnsReady(t) PROVE Before'
  BY <1>11 DEF DnsReady
<1>12. ASSUME NEW t \in Tasks, DnsMissing(t) PROVE Before'
  BY <1>12 DEF DnsMissing
<1>13. ASSUME NEW t \in Tasks, CreateDone(t) PROVE Before'
  BY <1>13 DEF CreateDone
<1>14. ASSUME NEW t \in Tasks, CreateTimeout(t) PROVE Before'
  BY <1>14 DEF CreateTimeout
<1>15. ASSUME NEW t \in Tasks, CreateRaised(t) PROVE Before'
  BY <1>15 DEF CreateRaised
<1>16. ASSUME NEW t \in Tasks, CreateExists(t) PROVE Before'
  BY <1>16 DEF CreateExists
<1>17. ASSUME NEW t \in Tasks, Build(t) PROVE Before'
  BY <1>17 DEF Build
<1>18. ASSUME NEW t \in Tasks, BuildFails(t) PROVE Before'
  BY <1>18 DEF BuildFails
<1>19. ASSUME NEW t \in Tasks, Finish(t) PROVE Before'
  BY <1>19 DEF Finish
<1>20. ASSUME NEW t \in Tasks, Fail(t) PROVE Before'
  BY <1>20 DEF Fail
<1>21. ASSUME NEW t \in Tasks, Complete(t) PROVE Before'
  BY <1>21 DEF Complete
<1>22. ASSUME NEW t \in Tasks, Renamed(t) PROVE Before'
  BY <1>22 DEF Renamed
<1>23. ASSUME NEW t \in Tasks, ThreadSearch(t) PROVE Before'
  <2> SUFFICES ASSUME NEW u \in Tasks, pc[u] = "create", thread'[u] \in {"search", "exists"},
                      site[u] \notin disturbed, row[site[u]].state = "created",
                      row[site[u]].pid # NoId
               PROVE  panel[site[u]] = row[site[u]].pid
    BY <1>23 DEF ThreadSearch
  <2>1. thread[u] \in {"search", "exists"}
    BY <1>23 DEF ThreadSearch
  <2>2. QED
    BY <2>1
<1>24. ASSUME NEW t \in Tasks, ThreadClean(t) PROVE Before'
  BY <1>24 DEF ThreadClean
<1>25. ASSUME NEW t \in Tasks, ThreadPost(t) PROVE Before'
  BY <1>25 DEF ThreadPost
<1>26. ASSUME NEW t \in Tasks, ThreadReady(t) PROVE Before'
  BY <1>26 DEF ThreadReady
<1>27. ASSUME NEW t \in Tasks, ThreadFails(t) PROVE Before'
  BY <1>27 DEF ThreadFails
<1>28. ASSUME NEW t \in Tasks, PostLost(t) PROVE Before'
  BY <1>28 DEF PostLost
<1>29. ASSUME NEW t \in Tasks, CancelTask(t) PROVE Before'
  BY <1>29 DEF CancelTask
<1>30. ASSUME NEW t \in Tasks, GrowOld(t) PROVE Before'
  BY <1>30 DEF GrowOld
<1>31. ASSUME NEW t \in Tasks, Raise(t) PROVE Before'
  BY <1>31 DEF Raise
<1>32. ASSUME NEW t \in Tasks, Die(t) PROVE Before'
  BY <1>32 DEF Die
<1>33. ASSUME NEW s \in Sites, Delete(s) PROVE Before'
  BY <1>33 DEF Delete
<1>34. ASSUME NEW s \in Sites, DeleteSearch(s) PROVE Before'
  BY <1>34 DEF DeleteSearch
<1>35. ASSUME NEW s \in Sites, DeleteRemove(s) PROVE Before'
  BY <1>35 DEF DeleteRemove
<1>36. ASSUME NEW s \in Sites, Restore(s) PROVE Before'
  BY <1>36 DEF Restore
<1>37. ASSUME NEW S \in SUBSET Tasks, Crash(S) PROVE Before'
  BY <1>37 DEF Crash
<1>38. ASSUME NEW S \in SUBSET Tasks, PeerStarts(S) PROVE Before'
  BY <1>38 DEF PeerStarts
<1>39. CASE UNCHANGED vars
  BY <1>39 DEF vars
<1> HIDE DEF Before, CreatedIsOnPanel, TypeInv, TypeOK, Standing, SiteKnown,
    ThreadKnown, RunsInv, DeletionKnown, Alone, PanelInv, Rows, NoId, Goto,
    SetStatus, Save, Event, taskVars, threadVars, panelVars, deleteVars,
    Executing
<1>40. QED
  BY <1>1, <1>2, <1>3, <1>4, <1>5, <1>6, <1>7, <1>8, <1>9, <1>10, <1>11,
    <1>12, <1>13, <1>14, <1>15, <1>16, <1>17, <1>18, <1>19, <1>20, <1>21,
    <1>22, <1>23, <1>24, <1>25, <1>26, <1>27, <1>28, <1>29, <1>30, <1>31,
    <1>32, <1>33, <1>34, <1>35, <1>36, <1>37, <1>38, <1>39
  DEF Next, RequestStep, TaskStep, CreateStep, ThreadStep, SiteStep, Fault

\* Ids on their way back stay current: only the run itself may change the
\* panel, others disturb the site.
LEMMA AnsweredStep == TypeInv /\ RunsInv /\ Alone /\ PanelInv /\ [Next]_vars => Answered'
<1> SUFFICES ASSUME TypeInv /\ RunsInv /\ Alone /\ PanelInv, [Next]_vars PROVE Answered'
  OBVIOUS
<1> USE DEF Answered, TypeInv, TypeOK, Standing, SiteKnown, ThreadKnown,
    RunsInv, DeletionKnown, Alone, PanelInv, Rows, NoId, Goto, SetStatus,
    Save, Event, taskVars, threadVars, panelVars, deleteVars, Executing
<1>1. ASSUME NEW t \in Tasks, NEW s \in Sites, Submit(t, s) PROVE Answered'
  BY <1>1 DEF Submit
<1>2. ASSUME NEW t \in Tasks, CheckNone(t) PROVE Answered'
  BY <1>2 DEF CheckNone
<1>3. ASSUME NEW t \in Tasks, CheckBlocked(t) PROVE Answered'
  BY <1>3 DEF CheckBlocked
<1>4. ASSUME NEW t \in Tasks, CheckOld(t) PROVE Answered'
  BY <1>4 DEF CheckOld
<1>5. ASSUME NEW t \in Tasks, Reclaim(t) PROVE Answered'
  BY <1>5 DEF Reclaim
<1>6. ASSUME NEW t \in Tasks, Create(t) PROVE Answered'
  BY <1>6 DEF Create
<1>7. ASSUME NEW t \in Tasks, Acquire(t) PROVE Answered'
  BY <1>7 DEF Acquire
<1>8. ASSUME NEW t \in Tasks, DupNone(t) PROVE Answered'
  BY <1>8 DEF DupNone
<1>9. ASSUME NEW t \in Tasks, DupFound(t) PROVE Answered'
  BY <1>9 DEF DupFound
<1>10. ASSUME NEW t \in Tasks, DupCancel(t) PROVE Answered'
  BY <1>10 DEF DupCancel
<1>11. ASSUME NEW t \in Tasks, DnsReady(t) PROVE Answered'
  BY <1>11 DEF DnsReady
<1>12. ASSUME NEW t \in Tasks, DnsMissing(t) PROVE Answered'
  BY <1>12 DEF DnsMissing
<1>13. ASSUME NEW t \in Tasks, CreateDone(t) PROVE Answered'
  BY <1>13 DEF CreateDone
<1>14. ASSUME NEW t \in Tasks, CreateTimeout(t) PROVE Answered'
  BY <1>14 DEF CreateTimeout
<1>15. ASSUME NEW t \in Tasks, CreateRaised(t) PROVE Answered'
  BY <1>15 DEF CreateRaised
<1>16. ASSUME NEW t \in Tasks, CreateExists(t) PROVE Answered'
  BY <1>16 DEF CreateExists
<1>17. ASSUME NEW t \in Tasks, Build(t) PROVE Answered'
  BY <1>17 DEF Build
<1>18. ASSUME NEW t \in Tasks, BuildFails(t) PROVE Answered'
  BY <1>18 DEF BuildFails
<1>19. ASSUME NEW t \in Tasks, Finish(t) PROVE Answered'
  BY <1>19 DEF Finish
<1>20. ASSUME NEW t \in Tasks, Fail(t) PROVE Answered'
  BY <1>20 DEF Fail
<1>21. ASSUME NEW t \in Tasks, Complete(t) PROVE Answered'
  BY <1>21 DEF Complete
<1>22. ASSUME NEW t \in Tasks, Renamed(t) PROVE Answered'
  BY <1>22 DEF Renamed
<1>23. ASSUME NEW t \in Tasks, ThreadSearch(t) PROVE Answered'
  BY <1>23 DEF ThreadSearch
<1>24. ASSUME NEW t \in Tasks, ThreadClean(t) PROVE Answered'
  BY <1>24 DEF ThreadClean
<1>25. ASSUME NEW t \in Tasks, ThreadPost(t) PROVE Answered'
  BY <1>25 DEF ThreadPost
<1>26. ASSUME NEW t \in Tasks, ThreadReady(t) PROVE Answered'
  BY <1>26 DEF ThreadReady
<1>27. ASSUME NEW t \in Tasks, ThreadFails(t) PROVE Answered'
  BY <1>27 DEF ThreadFails
<1>28. ASSUME NEW t \in Tasks, PostLost(t) PROVE Answered'
  BY <1>28 DEF PostLost
<1>29. ASSUME NEW t \in Tasks, CancelTask(t) PROVE Answered'
  BY <1>29 DEF CancelTask
<1>30. ASSUME NEW t \in Tasks, GrowOld(t) PROVE Answered'
  BY <1>30 DEF GrowOld
<1>31. ASSUME NEW t \in Tasks, Raise(t) PROVE Answered'
  BY <1>31 DEF Raise
<1>32. ASSUME NEW t \in Tasks, Die(t) PROVE Answered'
  BY <1>32 DEF Die
<1>33. ASSUME NEW s \in Sites, Delete(s) PROVE Answered'
  BY <1>33 DEF Delete
<1>34. ASSUME NEW s \in Sites, DeleteSearch(s) PROVE Answered'
  BY <1>34 DEF DeleteSearch
<1>35. ASSUME NEW s \in Sites, DeleteRemove(s) PROVE Answered'
  BY <1>35 DEF DeleteRemove
<1>36. ASSUME NEW s \in Sites, Restore(s) PROVE Answered'
  BY <1>36 DEF Restore
<1>37. ASSUME NEW S \in SUBSET Tasks, Crash(S) PROVE Answered'
  BY <1>37 DEF Crash
<1>38. ASSUME NEW S \in SUBSET Tasks, PeerStarts(S) PROVE Answered'
  BY <1>38 DEF PeerStarts
<1>39. CASE UNCHANGED vars
  BY <1>39 DEF vars
<1> HIDE DEF Answered, TypeInv, TypeOK, Standing, SiteKnown, ThreadKnown,
    RunsInv, DeletionKnown, Alone, PanelInv, Rows, NoId, Goto, SetStatus,
    Save, Event, taskVars, threadVars, panelVars, deleteVars, Executing
<1>40. QED
  BY <1>1, <1>2, <1>3, <1>4, <1>5, <1>6, <1>7, <1>8, <1>9, <1>10, <1>11,
    <1>12, <1>13, <1>14, <1>15, <1>16, <1>17, <1>18, <1>19, <1>20, <1>21,
    <1>22, <1>23, <1>24, <1>25, <1>26, <1>27, <1>28, <1>29, <1>30, <1>31,
    <1>32, <1>33, <1>34, <1>35, <1>36, <1>37, <1>38, <1>39
  DEF Next, RequestStep, TaskStep, CreateStep, ThreadStep, SiteStep, Fault

\* So do the ids in the copies of the runs that go on.
LEMMA HeldStep == TypeInv /\ RunsInv /\ Alone /\ PanelInv /\ [Next]_vars => Held'
<1> SUFFICES ASSUME TypeInv /\ RunsInv /\ Alone /\ PanelInv, [Next]_vars PROVE Held'
  OBVIOUS
<1> USE DEF Held, Answered, TypeInv, TypeOK, Standing, SiteKnown, ThreadKnown,
    RunsInv, DeletionKnown, Alone, PanelInv, Rows, NoId, Goto, SetStatus,
    Save, Event, taskVars, threadVars, panelVars, deleteVars, Executing
<1>1. ASSUME NEW t \in Tasks, NEW s \in Sites, Submit(t, s) PROVE Held'
  BY <1>1 DEF Submit
<1>2. ASSUME NEW t \in Tasks, CheckNone(t) PROVE Held'
  BY <1>2 DEF CheckNone
<1>3. ASSUME NEW t \in Tasks, CheckBlocked(t) PROVE Held'
  BY <1>3 DEF CheckBlocked
<1>4. ASSUME NEW t \in Tasks, CheckOld(t) PROVE Held'
  BY <1>4 DEF CheckOld
<1>5. ASSUME NEW t \in Tasks, Reclaim(t) PROVE Held'
  BY <1>5 DEF Reclaim
<1>6. ASSUME NEW t \in Tasks, Create(t) PROVE Held'
  BY <1>6 DEF Create
<1>7. ASSUME NEW t \in Tasks, Acquire(t) PROVE Held'
  BY <1>7 DEF Acquire
<1>8. ASSUME NEW t \in Tasks, DupNone(t) PROVE Held'
  BY <1>8 DEF DupNone
<1>9. ASSUME NEW t \in Tasks, DupFound(t) PROVE Held'
  BY <1>9 DEF DupFound
<1>10. ASSUME NEW t \in Tasks, DupCancel(t) PROVE Held'
  BY <1>10 DEF DupCancel
<1>11. ASSUME NEW t \in Tasks, DnsReady(t) PROVE Held'
  BY <1>11 DEF DnsReady
<1>12. ASSUME NEW t \in Tasks, DnsMissing(t) PROVE Held'
  BY <1>12 DEF DnsMissing
<1>13. ASSUME NEW t \in Tasks, CreateDone(t) PROVE Held'
  BY <1>13 DEF CreateDone
<1>14. ASSUME NEW t \in Tasks, CreateTimeout(t) PROVE Held'
  BY <1>14 DEF CreateTimeout
<1>15. ASSUME NEW t \in Tasks, CreateRaised(t) PROVE Held'
  BY <1>15 DEF CreateRaised
<1>16. ASSUME NEW t \in Tasks, CreateExists(t) PROVE Held'
  BY <1>16 DEF CreateExists
<1>17. ASSUME NEW t \in Tasks, Build(t) PROVE Held'
  BY <1>17 DEF Build
<1>18. ASSUME NEW t \in Tasks, BuildFails(t) PROVE Held'
  BY <1>18 DEF BuildFails
<1>19. ASSUME NEW t \in Tasks, Finish(t) PROVE Held'
  BY <1>19 DEF Finish
<1>20. ASSUME NEW t \in Tasks, Fail(t) PROVE Held'
  BY <1>20 DEF Fail
<1>21. ASSUME NEW t \in Tasks, Complete(t) PROVE Held'
  BY <1>21 DEF Complete
<1>22. ASSUME NEW t \in Tasks, Renamed(t) PROVE Held'
  BY <1>22 DEF Renamed
<1>23. ASSUME NEW t \in Tasks, ThreadSearch(t) PROVE Held'
  BY <1>23 DEF ThreadSearch
<1>24. ASSUME NEW t \in Tasks, ThreadClean(t) PROVE Held'
  BY <1>24 DEF ThreadClean
<1>25. ASSUME NEW t \in Tasks, ThreadPost(t) PROVE Held'
  BY <1>25 DEF ThreadPost
<1>26. ASSUME NEW t \in Tasks, ThreadReady(t) PROVE Held'
  BY <1>26 DEF ThreadReady
<1>27. ASSUME NEW t \in Tasks, ThreadFails(t) PROVE Held'
  BY <1>27 DEF ThreadFails
<1>28. ASSUME NEW t \in Tasks, PostLost(t) PROVE Held'
  BY <1>28 DEF PostLost
<1>29. ASSUME NEW t \in Tasks, CancelTask(t) PROVE Held'
  BY <1>29 DEF CancelTask
<1>30. ASSUME NEW t \in Tasks, GrowOld(t) PROVE Held'
  BY <1>30 DEF GrowOld
<1>31. ASSUME NEW t \in Tasks, Raise(t) PROVE Held'
  BY <1>31 DEF Raise
<1>32. ASSUME NEW t \in Tasks, Die(t) PROVE Held'
  BY <1>32 DEF Die
<1>33. ASSUME NEW s \in Sites, Delete(s) PROVE Held'
  BY <1>33 DEF Delete
<1>34. ASSUME NEW s \in Sites, DeleteSearch(s) PROVE Held'
  BY <1>34 DEF DeleteSearch
<1>35. ASSUME NEW s \in Sites, DeleteRemove(s) PROVE Held'
  BY <1>35 DEF DeleteRemove
<1>36. ASSUME NEW s \in Sites, Restore(s) PROVE Held'
  BY <1>36 DEF Restore
<1>37. ASSUME NEW S \in SUBSET Tasks, Crash(S) PROVE Held'
  BY <1>37 DEF Crash
<1>38. ASSUME NEW S \in SUBSET Tasks, PeerStarts(S) PROVE Held'
  BY <1>38 DEF PeerStarts
<1>39. CASE UNCHANGED vars
  BY <1>39 DEF vars
<1> HIDE DEF Held, Answered, TypeInv, TypeOK, Standing, SiteKnown,
    ThreadKnown, RunsInv, DeletionKnown, Alone, PanelInv, Rows, NoId, Goto,
    SetStatus, Save, Event, taskVars, threadVars, panelVars, deleteVars,
    Executing
<1>40. QED
  BY <1>1, <1>2, <1>3, <1>4, <1>5, <1>6, <1>7, <1>8, <1>9, <1>10, <1>11,
    <1>12, <1>13, <1>14, <1>15, <1>16, <1>17, <1>18, <1>19, <1>20, <1>21,
    <1>22, <1>23, <1>24, <1>25, <1>26, <1>27, <1>28, <1>29, <1>30, <1>31,
    <1>32, <1>33, <1>34, <1>35, <1>36, <1>37, <1>38, <1>39
  DEF Next, RequestStep, TaskStep, CreateStep, ThreadStep, SiteStep, Fault

\* Nobody else saves the site of a run that has saved it as created.
LEMMA ClosingStep == TypeInv /\ RunsInv /\ Alone /\ PanelInv /\ [Next]_vars => Closing'
<1> SUFFICES ASSUME TypeInv /\ RunsInv /\ Alone /\ PanelInv, [Next]_vars PROVE Closing'
  OBVIOUS
<1> USE DEF Closing, TypeInv, TypeOK, Standing, SiteKnown, ThreadKnown,
    RunsInv, DeletionKnown, Alone, PanelInv, Rows, NoId, Goto, SetStatus,
    Save, Event, taskVars, threadVars, panelVars, deleteVars, Executing
<1>1. ASSUME NEW t \in Tasks, NEW s \in Sites, Submit(t, s) PROVE Closing'
  BY <1>1 DEF Submit
<1>2. ASSUME NEW t \in Tasks, CheckNone(t) PROVE Closing'
  BY <1>2 DEF CheckNone
<1>3. ASSUME NEW t \in Tasks, CheckBlocked(t) PROVE Closing'
  BY <1>3 DEF CheckBlocked
<1>4. ASSUME NEW t \in Tasks, CheckOld(t) PROVE Closing'
  BY <1>4 DEF CheckOld
<1>5. ASSUME NEW t \in Tasks, Reclaim(t) PROVE Closing'
  BY <1>5 DEF Reclaim
<1>6. ASSUME NEW t \in Tasks, Create(t) PROVE Closing'
  BY <1>6 DEF Create
<1>7. ASSUME NEW t \in Tasks, Acquire(t) PROVE Closing'
  BY <1>7 DEF Acquire
<1>8. ASSUME NEW t \in Tasks, DupNone(t) PROVE Closing'
  BY <1>8 DEF DupNone
<1>9. ASSUME NEW t \in Tasks, DupFound(t) PROVE Closing'
  BY <1>9 DEF DupFound
<1>10. ASSUME NEW t \in Tasks, DupCancel(t) PROVE Closing'
  BY <1>10 DEF DupCancel
<1>11. ASSUME NEW t \in Tasks, DnsReady(t) PROVE Closing'
  BY <1>11 DEF DnsReady
<1>12. ASSUME NEW t \in Tasks, DnsMissing(t) PROVE Closing'
  BY <1>12 DEF DnsMissing
<1>13. ASSUME NEW t \in Tasks, CreateDone(t) PROVE Closing'
  BY <1>13 DEF CreateDone
<1>14. ASSUME NEW t \in Tasks, CreateTimeout(t) PROVE Closing'
  BY <1>14 DEF CreateTimeout
<1>15. ASSUME NEW t \in Tasks, CreateRaised(t) PROVE Closing'
  BY <1>15 DEF CreateRaised
<1>16. ASSUME NEW t \in Tasks, CreateExists(t) PROVE Closing'
  BY <1>16 DEF CreateExists
<1>17. ASSUME NEW t \in Tasks, Build(t) PROVE Closing'
  BY <1>17 DEF Build
<1>18. ASSUME NEW t \in Tasks, BuildFails(t) PROVE Closing'
  BY <1>18 DEF BuildFails
<1>19. ASSUME NEW t \in Tasks, Finish(t) PROVE Closing'
  BY <1>19 DEF Finish
<1>20. ASSUME NEW t \in Tasks, Fail(t) PROVE Closing'
  BY <1>20 DEF Fail
<1>21. ASSUME NEW t \in Tasks, Complete(t) PROVE Closing'
  BY <1>21 DEF Complete
<1>22. ASSUME NEW t \in Tasks, Renamed(t) PROVE Closing'
  BY <1>22 DEF Renamed
<1>23. ASSUME NEW t \in Tasks, ThreadSearch(t) PROVE Closing'
  BY <1>23 DEF ThreadSearch
<1>24. ASSUME NEW t \in Tasks, ThreadClean(t) PROVE Closing'
  BY <1>24 DEF ThreadClean
<1>25. ASSUME NEW t \in Tasks, ThreadPost(t) PROVE Closing'
  BY <1>25 DEF ThreadPost
<1>26. ASSUME NEW t \in Tasks, ThreadReady(t) PROVE Closing'
  BY <1>26 DEF ThreadReady
<1>27. ASSUME NEW t \in Tasks, ThreadFails(t) PROVE Closing'
  BY <1>27 DEF ThreadFails
<1>28. ASSUME NEW t \in Tasks, PostLost(t) PROVE Closing'
  BY <1>28 DEF PostLost
<1>29. ASSUME NEW t \in Tasks, CancelTask(t) PROVE Closing'
  BY <1>29 DEF CancelTask
<1>30. ASSUME NEW t \in Tasks, GrowOld(t) PROVE Closing'
  BY <1>30 DEF GrowOld
<1>31. ASSUME NEW t \in Tasks, Raise(t) PROVE Closing'
  BY <1>31 DEF Raise
<1>32. ASSUME NEW t \in Tasks, Die(t) PROVE Closing'
  BY <1>32 DEF Die
<1>33. ASSUME NEW s \in Sites, Delete(s) PROVE Closing'
  BY <1>33 DEF Delete
<1>34. ASSUME NEW s \in Sites, DeleteSearch(s) PROVE Closing'
  BY <1>34 DEF DeleteSearch
<1>35. ASSUME NEW s \in Sites, DeleteRemove(s) PROVE Closing'
  BY <1>35 DEF DeleteRemove
<1>36. ASSUME NEW s \in Sites, Restore(s) PROVE Closing'
  BY <1>36 DEF Restore
<1>37. ASSUME NEW S \in SUBSET Tasks, Crash(S) PROVE Closing'
  BY <1>37 DEF Crash
<1>38. ASSUME NEW S \in SUBSET Tasks, PeerStarts(S) PROVE Closing'
  BY <1>38 DEF PeerStarts
<1>39. CASE UNCHANGED vars
  BY <1>39 DEF vars
<1> HIDE DEF Closing, TypeInv, TypeOK, Standing, SiteKnown, ThreadKnown,
    RunsInv, DeletionKnown, Alone, PanelInv, Rows, NoId, Goto, SetStatus,
    Save, Event, taskVars, threadVars, panelVars, deleteVars, Executing
<1>40. QED
  BY <1>1, <1>2, <1>3, <1>4, <1>5, <1>6, <1>7, <1>8, <1>9, <1>10, <1>11,
    <1>12, <1>13, <1>14, <1>15, <1>16, <1>17, <1>18, <1>19, <1>20, <1>21,
    <1>22, <1>23, <1>24, <1>25, <1>26, <1>27, <1>28, <1>29, <1>30, <1>31,
    <1>32, <1>33, <1>34, <1>35, <1>36, <1>37, <1>38, <1>39
  DEF Next, RequestStep, TaskStep, CreateStep, ThreadStep, SiteStep, Fault

\* A created row keeps its site, or a task is about to write otherwise.
LEMMA CreatedIsOnPanelStep == TypeInv /\ RunsInv /\ Alone /\ PanelInv /\ [Next]_vars => CreatedIsOnPanel'
<1> SUFFICES ASSUME TypeInv /\ RunsInv /\ Alone /\ PanelInv, [Next]_vars PROVE CreatedIsOnPanel'
  OBVIOUS
<1> USE DEF CreatedIsOnPanel, Before, Answered, Held, TypeInv, TypeOK,
    Standing, SiteKnown, ThreadKnown, RunsInv, DeletionKnown, Alone, PanelInv,
    Rows, NoId, Goto, SetStatus, Save, Event, taskVars, threadVars, panelVars,
    deleteVars, Executing
<1>1. ASSUME NEW t \in Tasks, NEW s \in Sites, Submit(t, s) PROVE CreatedIsOnPanel'
  <2>1. Quiet
    BY <1>1 DEF Submit, Quiet
  <2>2. QED
    BY <2>1, QuietKeepsCreated
<1>2. ASSUME NEW t \in Tasks, CheckNone(t) PROVE CreatedIsOnPanel'
  <2>1. Quiet
    BY <1>2 DEF CheckNone, Quiet
  <2>2. QED
    BY <2>1, QuietKeepsCreated
<1>3. ASSUME NEW t \in Tasks, CheckBlocked(t) PROVE CreatedIsOnPanel'
  <2>1. Quiet
    BY <1>3 DEF CheckBlocked, Quiet
  <2>2. QED
    BY <2>1, QuietKeepsCreated
<1>4. ASSUME NEW t \in Tasks, CheckOld(t) PROVE CreatedIsOnPanel'
  <2>1. Quiet
    BY <1>4 DEF CheckOld, Quiet
  <2>2. QED
    BY <2>1, QuietKeepsCreated
<1>5. ASSUME NEW t \in Tasks, Reclaim(t) PROVE CreatedIsOnPanel'
  <2>1. Quiet
    BY <1>5 DEF Reclaim, Quiet
  <2>2. QED
    BY <2>1, QuietKeepsCreated
<1>6. ASSUME NEW t \in Tasks, Create(t) PROVE CreatedIsOnPanel'
  <2>1. Quiet
    BY <1>6 DEF Create, Quiet
  <2>2. QED
    BY <2>1, QuietKeepsCreated
<1>7. ASSUME NEW t \in Tasks, Acquire(t) PROVE CreatedIsOnPanel'
  <2>1. Quiet
    BY <1>7 DEF Acquire, Quiet
  <2>2. QED
    BY <2>1, QuietKeepsCreated
<1>8. ASSUME NEW t \in Tasks, DupNone(t) PROVE CreatedIsOnPanel'
  <2>1. Quiet
    BY <1>8 DEF DupNone, Quiet
  <2>2. QED
    BY <2>1, QuietKeepsCreated
<1>9. ASSUME NEW t \in Tasks, DupFound(t) PROVE CreatedIsOnPanel'
  <2>1. Quiet
    BY <1>9 DEF DupFound, Quiet
  <2>2. QED
    BY <2>1, QuietKeepsCreated
<1>10. ASSUME NEW t \in Tasks, DupCancel(t) PROVE CreatedIsOnPanel'
  <2>1. Quiet
    BY <1>10 DEF DupCancel, Quiet
  <2>2. QED
    BY <2>1, QuietKeepsCreated
<1>11. ASSUME NEW t \in Tasks, DnsReady(t) PROVE CreatedIsOnPanel'
  <2>1. Quiet
    BY <1>11 DEF DnsReady, Quiet
  <2>2. QED
    BY <2>1, QuietKeepsCreated
<1>12. ASSUME NEW t \in Tasks, DnsMissing(t) PROVE CreatedIsOnPanel'
  BY <1>12 DEF DnsMissing
<1>13. ASSUME NEW t \in Tasks, CreateDone(t) PROVE CreatedIsOnPanel'
  BY <1>13 DEF CreateDone
<1>14. ASSUME NEW t \in Tasks, CreateTimeout(t) PROVE CreatedIsOnPanel'
  <2>1. Quiet
    BY <1>14 DEF CreateTimeout, Quiet
  <2>2. QED
    BY <2>1, QuietKeepsCreated
<1>15. ASSUME NEW t \in Tasks, CreateRaised(t) PROVE CreatedIsOnPanel'
  <2>1. Quiet
    BY <1>15 DEF CreateRaised, Quiet
  <2>2. QED
    BY <2>1, QuietKeepsCreated
<1>16. ASSUME NEW t \in Tasks, CreateExists(t) PROVE CreatedIsOnPanel'
  <2> DEFINE s == site[t]
  <2>1. s \in Sites /\ copy[t] \in Rows
    BY <1>16 DEF CreateExists
  <2>2. row'[s].state = "created" /\ s \notin disturbed => row'[s].pid \in {NoId, panel[s]}
    <3>1. CASE copy[t].state = "created"
      <4>1. row'[s].pid = found[t]
        BY <1>16, <2>1, <3>1 DEF CreateExists
      <4>2. s \notin disturbed => found[t] \in {NoId, panel[s]}
        BY <1>16 DEF CreateExists
      <4>3. QED
        BY <4>1, <4>2
    <3>2. CASE copy[t].state # "created"
      <4>1. row'[s] = [copy[t] EXCEPT !.pid = found[t], !.state = "exists"]
        BY <1>16, <2>1, <3>2 DEF CreateExists
      <4>2. row'[s].state = "exists"
        BY <2>1, <4>1
      <4>3. QED
        BY <4>2
    <3>3. QED
      BY <3>1, <3>2
  <2>3. \A r \in Sites \ {s} : row'[r] = row[r]
    BY <1>16, <2>1 DEF CreateExists
  <2>4. \A u \in Tasks : u # t => pc'[u] = pc[u]
    BY <1>16 DEF CreateExists
  <2>5. panel' = panel /\ disturbed' = disturbed /\ site' = site
    BY <1>16 DEF CreateExists
  <2>6. ASSUME NEW r \in Sites \ disturbed, row'[r].state = "created", row'[r].pid # NoId
        PROVE  \/ panel[r] = row'[r].pid
               \/ \E u \in Tasks : site[u] = r /\ pc'[u] \in {"create", "fail"}
    <3>1. CASE r = s
      BY <2>2, <2>6, <3>1
    <3>2. CASE r # s /\ panel[r] # row[r].pid
      <4>1. row'[r] = row[r]
        BY <2>3, <3>2
      <4>2. PICK u \in Tasks : site[u] = r /\ pc[u] \in {"create", "fail"}
        BY <2>6, <3>2, <4>1
      <4>3. u # t
        BY <3>2, <4>2
      <4>4. QED
        BY <2>4, <4>2, <4>3
    <3>3. CASE r # s /\ panel[r] = row[r].pid
      BY <2>3, <3>3
    <3>4. QED
      BY <3>1, <3>2, <3>3
  <2>7. QED
    BY <2>5, <2>6
<1>17. ASSUME NEW t \in Tasks, Build(t) PROVE CreatedIsOnPanel'
  <2>1. Quiet
    BY <1>17 DEF Build, Quiet
  <2>2. QED
    BY <2>1, QuietKeepsCreated
<1>18. ASSUME NEW t \in Tasks, BuildFails(t) PROVE CreatedIsOnPanel'
  <2>1. Quiet
    BY <1>18 DEF BuildFails, Quiet
  <2>2. QED
    BY <2>1, QuietKeepsCreated
<1>19. ASSUME NEW t \in Tasks, Finish(t) PROVE CreatedIsOnPanel'
  BY <1>19 DEF Finish
<1>20. ASSUME NEW t \in Tasks, Fail(t) PROVE CreatedIsOnPanel'
  BY <1>20 DEF Fail
<1>21. ASSUME NEW t \in Tasks, Complete(t) PROVE CreatedIsOnPanel'
  <2>1. Quiet
    BY <1>21 DEF Complete, Quiet
  <2>2. QED
    BY <2>1, QuietKeepsCreated
<1>22. ASSUME NEW t \in Tasks, Renamed(t) PROVE CreatedIsOnPanel'
  BY <1>22 DEF Renamed
<1>23. ASSUME NEW t \in Tasks, ThreadSearch(t) PROVE CreatedIsOnPanel'
  <2>1. Quiet
    BY <1>23 DEF ThreadSearch, Quiet
  <2>2. QED
    BY <2>1, QuietKeepsCreated
<1>24. ASSUME NEW t \in Tasks, ThreadClean(t) PROVE CreatedIsOnPanel'
  BY <1>24 DEF ThreadClean
<1>25. ASSUME NEW t \in Tasks, ThreadPost(t) PROVE CreatedIsOnPanel'
  BY <1>25 DEF ThreadPost
<1>26. ASSUME NEW t \in Tasks, ThreadReady(t) PROVE CreatedIsOnPanel'
  <2>1. Quiet
    BY <1>26 DEF ThreadReady, Quiet
  <2>2. QED
    BY <2>1, QuietKeepsCreated
<1>27. ASSUME NEW t \in Tasks, ThreadFails(t) PROVE CreatedIsOnPanel'
  <2>1. Quiet
    BY <1>27 DEF ThreadFails, Quiet
  <2>2. QED
    BY <2>1, QuietKeepsCreated
<1>28. ASSUME NEW t \in Tasks, PostLost(t) PROVE CreatedIsOnPanel'
  BY <1>28 DEF PostLost
<1>29. ASSUME NEW t \in Tasks, CancelTask(t) PROVE CreatedIsOnPanel'
  <2>1. Quiet
    BY <1>29 DEF CancelTask, Quiet
  <2>2. QED
    BY <2>1, QuietKeepsCreated
<1>30. ASSUME NEW t \in Tasks, GrowOld(t) PROVE CreatedIsOnPanel'
  <2>1. Quiet
    BY <1>30 DEF GrowOld, Quiet
  <2>2. QED
    BY <2>1, QuietKeepsCreated
<1>31. ASSUME NEW t \in Tasks, Raise(t) PROVE CreatedIsOnPanel'
  <2>1. Quiet
    BY <1>31 DEF Raise, Quiet
  <2>2. QED
    BY <2>1, QuietKeepsCreated
<1>32. ASSUME NEW t \in Tasks, Die(t) PROVE CreatedIsOnPanel'
  <2>1. site' = site /\ row' = row /\ panel' = panel /\ disturbed \subseteq disturbed'
    BY <1>32 DEF Die
  <2>2. pc[t] = "fail" => site[t] \in disturbed'
    BY <1>32 DEF Die
  <2>3. pc[t] = "create" => thread[t] = "exists"
    BY <1>32 DEF Die, Requesting
  <2>4. \A u \in Tasks : u # t => pc'[u] = pc[u]
    BY <1>32 DEF Die
  <2>5. ASSUME NEW r \in Sites \ disturbed', row[r].state = "created", row[r].pid # NoId
        PROVE  \/ panel[r] = row[r].pid
               \/ \E u \in Tasks : site[u] = r /\ pc'[u] \in {"create", "fail"}
    <3>1. CASE panel[r] = row[r].pid
      BY <3>1
    <3>2. CASE panel[r] # row[r].pid
      <4>1. PICK u \in Tasks : site[u] = r /\ pc[u] \in {"create", "fail"}
        BY <2>1, <2>5, <3>2
      <4>2. u # t
        BY <2>1, <2>2, <2>3, <2>5, <3>2, <4>1
      <4>3. QED
        BY <2>4, <4>1, <4>2
    <3>3. QED
      BY <3>1, <3>2
  <2>6. QED
    BY <2>1, <2>5
<1>33. ASSUME NEW s \in Sites, Delete(s) PROVE CreatedIsOnPanel'
  BY <1>33 DEF Delete
<1>34. ASSUME NEW s \in Sites, DeleteSearch(s) PROVE CreatedIsOnPanel'
  <2>1. Quiet
    BY <1>34 DEF DeleteSearch, Quiet
  <2>2. QED
    BY <2>1, QuietKeepsCreated
<1>35. ASSUME NEW s \in Sites, DeleteRemove(s) PROVE CreatedIsOnPanel'
  BY <1>35 DEF DeleteRemove
<1>36. ASSUME NEW s \in Sites, Restore(s) PROVE CreatedIsOnPanel'
  BY <1>36 DEF Restore
<1>37. ASSUME NEW S \in SUBSET Tasks, Crash(S) PROVE CreatedIsOnPanel'
  BY <1>37 DEF Crash
<1>38. ASSUME NEW S \in SUBSET Tasks, PeerStarts(S) PROVE CreatedIsOnPanel'
  <2>1. Quiet
    BY <1>38 DEF PeerStarts, Quiet
  <2>2. QED
    BY <2>1, QuietKeepsCreated
<1>39. CASE UNCHANGED vars
  <2>1. Quiet
    BY <1>39 DEF vars, Quiet
  <2>2. QED
    BY <2>1, QuietKeepsCreated
<1> HIDE DEF CreatedIsOnPanel, Before, Answered, Held, TypeInv, TypeOK,
    Standing, SiteKnown, ThreadKnown, RunsInv, DeletionKnown, Alone, PanelInv,
    Rows, NoId, Goto, SetStatus, Save, Event, taskVars, threadVars, panelVars,
    deleteVars, Executing
<1>40. QED
  BY <1>1, <1>2, <1>3, <1>4, <1>5, <1>6, <1>7, <1>8, <1>9, <1>10, <1>11,
    <1>12, <1>13, <1>14, <1>15, <1>16, <1>17, <1>18, <1>19, <1>20, <1>21,
    <1>22, <1>23, <1>24, <1>25, <1>26, <1>27, <1>28, <1>29, <1>30, <1>31,
    <1>32, <1>33, <1>34, <1>35, <1>36, <1>37, <1>38, <1>39
  DEF Next, RequestStep, TaskStep, CreateStep, ThreadStep, SiteStep, Fault

\* The five parts together.
LEMMA PanelInvStep == TypeInv /\ RunsInv /\ Alone /\ PanelInv /\ [Next]_vars => PanelInv'
BY BeforeStep, AnsweredStep, HeldStep, ClosingStep, CreatedIsOnPanelStep DEF PanelInv

\* The strengthened invariant: CreatedIsOnPanel alone does not say that what a
\* task in the middle of its run is about to save agrees with the panel.
IInv == TypeInv /\ ExclusiveProvision /\ RunsInv /\ PanelInv

LEMMA IInvInit == Init => IInv
<1> SUFFICES ASSUME Init PROVE IInv
  OBVIOUS
<1>1. ExclusiveProvision /\ RunsInv
  BY DEF Init, ExclusiveProvision, Executing, RunsInv, SeenHere, StillRunning,
         DeletionKnown, Live, Permitted
<1>2. PanelInv
  BY DEF Init, PanelInv, Before, Answered, Held, Closing, CreatedIsOnPanel
<1>3. QED
  BY <1>1, <1>2, TypeInvInit DEF IInv

LEMMA IInvStep == IInv /\ [Next]_vars => IInv'
BY TypeInvStep, ExclusiveStep, RunsInvStep, AloneHolds, PanelInvStep DEF IInv

\* An undisturbed site that its row calls created is on the panel under the
\* row's id, or being replaced by a task that will write how that ended.
THEOREM CreatedSitesAreOnPanel == Spec => []CreatedIsOnPanel
<1>1. IInv => CreatedIsOnPanel
  BY DEF IInv, PanelInv
<1>2. QED
  BY <1>1, IInvInit, IInvStep, PTL DEF Spec

\* What SuccessMeansCreated says of a step.
Truthful ==
    \A t \in Tasks :
        status[t] # "success" /\ status'[t] = "success" /\ site[t] \notin disturbed
        => row'[site[t]].state = "created"

\* Only Complete makes a job a success.
LEMMA SuccessStep == IInv /\ [Next]_vars => Truthful
<1> SUFFICES ASSUME IInv, [Next]_vars PROVE Truthful
  OBVIOUS
<1> USE DEF Truthful, IInv, PanelInv, Closing, TypeInv, TypeOK, Goto,
    SetStatus, Save, Event, taskVars, threadVars, panelVars, deleteVars
<1>1. ASSUME NEW t \in Tasks, NEW s \in Sites, Submit(t, s) PROVE Truthful
  BY <1>1 DEF Submit
<1>2. ASSUME NEW t \in Tasks, CheckNone(t) PROVE Truthful
  BY <1>2 DEF CheckNone
<1>3. ASSUME NEW t \in Tasks, CheckBlocked(t) PROVE Truthful
  BY <1>3 DEF CheckBlocked
<1>4. ASSUME NEW t \in Tasks, CheckOld(t) PROVE Truthful
  BY <1>4 DEF CheckOld
<1>5. ASSUME NEW t \in Tasks, Reclaim(t) PROVE Truthful
  BY <1>5 DEF Reclaim
<1>6. ASSUME NEW t \in Tasks, Create(t) PROVE Truthful
  BY <1>6 DEF Create
<1>7. ASSUME NEW t \in Tasks, Acquire(t) PROVE Truthful
  BY <1>7 DEF Acquire
<1>8. ASSUME NEW t \in Tasks, DupNone(t) PROVE Truthful
  BY <1>8 DEF DupNone
<1>9. ASSUME NEW t \in Tasks, DupFound(t) PROVE Truthful
  BY <1>9 DEF DupFound
<1>10. ASSUME NEW t \in Tasks, DupCancel(t) PROVE Truthful
  BY <1>10 DEF DupCancel
<1>11. ASSUME NEW t \in Tasks, DnsReady(t) PROVE Truthful
  BY <1>11 DEF DnsReady
<1>12. ASSUME NEW t \in Tasks, DnsMissing(t) PROVE Truthful
  BY <1>12 DEF DnsMissing
<1>13. ASSUME NEW t \in Tasks, CreateDone(t) PROVE Truthful
  BY <1>13 DEF CreateDone
<1>14. ASSUME NEW t \in Tasks, CreateTimeout(t) PROVE Truthful
  BY <1>14 DEF CreateTimeout
<1>15. ASSUME NEW t \in Tasks, CreateRaised(t) PROVE Truthful
  BY <1>15 DEF CreateRaised
<1>16. ASSUME NEW t \in Tasks, CreateExists(t) PROVE Truthful
  BY <1>16 DEF CreateExists
<1>17. ASSUME NEW t \in Tasks, Build(t) PROVE Truthful
  BY <1>17 DEF Build
<1>18. ASSUME NEW t \in Tasks, BuildFails(t) PROVE Truthful
  BY <1>18 DEF BuildFails
<1>19. ASSUME NEW t \in Tasks, Finish(t) PROVE Truthful
  BY <1>19 DEF Finish
<1>20. ASSUME NEW t \in Tasks, Fail(t) PROVE Truthful
  BY <1>20 DEF Fail
<1>21. ASSUME NEW t \in Tasks, Complete(t) PROVE Truthful
  BY <1>21 DEF Complete
<1>22. ASSUME NEW t \in Tasks, Renamed(t) PROVE Truthful
  BY <1>22 DEF Renamed
<1>23. ASSUME NEW t \in Tasks, ThreadSearch(t) PROVE Truthful
  BY <1>23 DEF ThreadSearch
<1>24. ASSUME NEW t \in Tasks, ThreadClean(t) PROVE Truthful
  BY <1>24 DEF ThreadClean
<1>25. ASSUME NEW t \in Tasks, ThreadPost(t) PROVE Truthful
  BY <1>25 DEF ThreadPost
<1>26. ASSUME NEW t \in Tasks, ThreadReady(t) PROVE Truthful
  BY <1>26 DEF ThreadReady
<1>27. ASSUME NEW t \in Tasks, ThreadFails(t) PROVE Truthful
  BY <1>27 DEF ThreadFails
<1>28. ASSUME NEW t \in Tasks, PostLost(t) PROVE Truthful
  BY <1>28 DEF PostLost
<1>29. ASSUME NEW t \in Tasks, CancelTask(t) PROVE Truthful
  BY <1>29 DEF CancelTask
<1>30. ASSUME NEW t \in Tasks, GrowOld(t) PROVE Truthful
  BY <1>30 DEF GrowOld
<1>31. ASSUME NEW t \in Tasks, Raise(t) PROVE Truthful
  BY <1>31 DEF Raise
<1>32. ASSUME NEW t \in Tasks, Die(t) PROVE Truthful
  BY <1>32 DEF Die
<1>33. ASSUME NEW s \in Sites, Delete(s) PROVE Truthful
  BY <1>33 DEF Delete
<1>34. ASSUME NEW s \in Sites, DeleteSearch(s) PROVE Truthful
  BY <1>34 DEF DeleteSearch
<1>35. ASSUME NEW s \in Sites, DeleteRemove(s) PROVE Truthful
  BY <1>35 DEF DeleteRemove
<1>36. ASSUME NEW s \in Sites, Restore(s) PROVE Truthful
  BY <1>36 DEF Restore
<1>37. ASSUME NEW S \in SUBSET Tasks, Crash(S) PROVE Truthful
  BY <1>37 DEF Crash
<1>38. ASSUME NEW S \in SUBSET Tasks, PeerStarts(S) PROVE Truthful
  BY <1>38 DEF PeerStarts
<1>39. CASE UNCHANGED vars
  BY <1>39 DEF vars
<1> HIDE DEF Truthful, IInv, PanelInv, Closing, TypeInv, TypeOK, Goto,
    SetStatus, Save, Event, taskVars, threadVars, panelVars, deleteVars
<1>40. QED
  BY <1>1, <1>2, <1>3, <1>4, <1>5, <1>6, <1>7, <1>8, <1>9, <1>10, <1>11,
    <1>12, <1>13, <1>14, <1>15, <1>16, <1>17, <1>18, <1>19, <1>20, <1>21,
    <1>22, <1>23, <1>24, <1>25, <1>26, <1>27, <1>28, <1>29, <1>30, <1>31,
    <1>32, <1>33, <1>34, <1>35, <1>36, <1>37, <1>38, <1>39
  DEF Next, RequestStep, TaskStep, CreateStep, ThreadStep, SiteStep, Fault

\* When a job turns to success its undisturbed site already says created.
THEOREM SuccessesAreCreated == Spec => SuccessMeansCreated
<1>1. IInv /\ [Next]_vars => Truthful
  BY SuccessStep
<1>2. (UNCHANGED vars) => Truthful
  BY DEF Truthful, vars
<1>3. QED
  BY <1>1, IInvInit, IInvStep, PTL DEF Spec, SuccessMeansCreated, Truthful
===============================================================================
