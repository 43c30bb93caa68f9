--------------------------- MODULE HubJobs_proofs ---------------------------
(***************************************************************************)
(* Proofs about HubJobs, for every number of agents, handlers, sites and   *)
(* jobs.  These inductive invariants carry them:                           *)
(*   TypeInv   types, and which job each handler and agent has in hand;    *)
(*   ClaimInv  a holder's turn differs from every other holder's, and a    *)
(*             queueing nobody claimed is newer than all of them;          *)
(*   LedgerContext  what relates the job table to its abstract ledger;     *)
(*   SitesInv  the ids on a site, and on every copy of its row, are backed *)
(*             by a success or entered for that site by hand;              *)
(*   OpRowsInv, PaidInv  the OperationJobs shown as success and those that *)
(*             reports have still to close are no more than the successes; *)
(*   Pairing   who waits is answered for what it asked, and                *)
(*   Owners    the current queueing of a running job has an owner.         *)
(***************************************************************************)
EXTENDS HubJobs, Integers, FiniteSetTheorems, TLAPS, WellFoundedInduction

\* A non-empty set of naturals has a least element.
LEMMA HasLeast ==
    ASSUME NEW S \in SUBSET Nat, S # {}
    PROVE  \E x \in S : \A y \in S : x <= y
<1> DEFINE Less == OpToRel(<, Nat)
<1>1. \A x, y \in Nat : <<y, x>> \in Less <=> y < x
  BY DEF OpToRel
<1>2. IsWellFoundedOn(Less, Nat)
  BY NatLessThanWellFounded
<1> HIDE DEF Less
<1>3. PICK x \in S : \A y \in S : ~ (<<y, x>> \in Less)
  BY <1>2, WFMin
<1>4. ASSUME NEW y \in S PROVE x <= y
  <2>1. x \in Nat /\ y \in Nat
    OBVIOUS
  <2>2. ~ (y < x)
    BY <2>1, <1>1, <1>3
  <2>3. QED
    BY <2>1, <2>2
<1>5. QED
  BY <1>4

\* What ClaimRead gets from Min: the least pending id.
LEMMA MinIsMember ==
    ASSUME NEW S \in SUBSET Nat, S # {}
    PROVE  Min(S) \in S /\ \A x \in S : Min(S) <= x
BY HasLeast DEF Min

\* What LatestOp gets from Max: some row of the set (ids are bounded).
LEMMA MaxIsMember ==
    ASSUME NEW S \in SUBSET JobIds, S # {}
    PROVE  Max(S) \in S
<1> DEFINE Gap == {MaxJobs - x : x \in S}
<1>1. ASSUME NEW x \in S PROVE MaxJobs - x \in Nat
  BY BoundsAssumption DEF JobIds
<1>2. Gap \in SUBSET Nat /\ Gap # {}
  BY <1>1
<1>3. PICK g \in Gap : \A y \in Gap : g <= y
  BY <1>2, HasLeast
<1>4. PICK x \in S : g = MaxJobs - x
  BY <1>3
<1>5. ASSUME NEW y \in S PROVE x >= y
  <2>1. MaxJobs - x <= MaxJobs - y
    BY <1>3, <1>4
  <2>2. x \in Int /\ y \in Int /\ MaxJobs \in Int
    BY BoundsAssumption DEF JobIds
  <2>3. QED
    BY <2>1, <2>2
<1>6. QED
  BY <1>5 DEF Max
-----------------------------------------------------------------------------
(* Type correctness.  TypeOK is not inductive: that a claim or a report     *)
(* writes a value of the right type needs that the handler holds a job that *)
(* was dispatched, and an agent's report an outcome.                        *)

\* Ids handed out so far.
Issued == 1..(nextJob - 1)

\* Rows exist for ids handed out only, and say what was dispatched.
RowsIssued ==
    /\ \A j \in JobIds : status[j] # "absent" => j \in Issued
    /\ \A j \in Issued : kind[j] \in Kinds

EditPcs == {"update_save", "assign_save"}
JobPcs == HandlerPcs \ {"idle", "claim_read", "claim_reply", "dispatch_clear", "dispatch_job",
                         "update_save", "assign_save"}
ReportPcs == {"report_read", "report_cas", "report_site_read", "report_site_save",
              "report_op_read", "report_op_save"}
\* What each handler holds at each statement.
HandlersInHand ==
    \A h \in Handlers :
        /\ hpc[h] \in JobPcs => local[h].job \in Issued
        /\ hpc[h] = "claim_read" => local[h].job = NoJob
        /\ hpc[h] = "claim_reply" => local[h].job \in Issued \cup {NoJob}
        /\ hpc[h] \in ReportPcs => local[h].res \in Outcomes
        /\ hpc[h] \in {"dispatch_clear", "dispatch_job", "dispatch_op"} =>
               local[h].kind \in Kinds
        /\ hpc[h] \in EditPcs => local[h].site \in Sites

\* What each agent holds.
AgentsInHand ==
    \A a \in Agents :
        /\ work[a].job \in Issued \cup {NoJob}
        /\ apc[a] \in {"exec", "send", "await_report"} => work[a].job \in Issued
        /\ apc[a] \in {"send", "await_report"} => work[a].res \in Outcomes

TypeInv == TypeOK /\ RowsIssued /\ HandlersInHand /\ AgentsInHand

\* The locals of an idle handler are locals.
LEMMA NoLocalsTyped == NoLocals \in Locals
BY DEF Locals, NoLocals, MaybeJob, SiteIds, NoKind, SiteRows, EmptySite

\* The state of an idle agent is a state of an agent.
LEMMA NoWorkTyped == NoWork \in Works
BY BoundsAssumption DEF Works, NoWork, MaybeJob

\* Sending a report once more keeps the count within MaxSends.
LEMMA OneMoreSend ==
    ASSUME NEW w \in Works, NEW h \in Handlers, w.sends < MaxSends
    PROVE  [w EXCEPT !.call = h, !.sends = @ + 1] \in Works
<1>1. w.sends + 1 \in 0..MaxSends
  BY BoundsAssumption DEF Works
<1>2. [w EXCEPT !.call = h, !.sends = w.sends + 1] \in Works
  BY <1>1 DEF Works
<1>3. [w EXCEPT !.call = h, !.sends = @ + 1] = [w EXCEPT !.call = h, !.sends = w.sends + 1]
  BY Zenon
<1>4. QED
  BY <1>2, <1>3

\* Ids handed out are job ids.
LEMMA IssuedIsJobs == TypeOK => Issued \in SUBSET JobIds /\ Issued \subseteq MaybeJob
BY BoundsAssumption DEF TypeOK, Issued, JobIds, MaybeJob

\* LatestOp returns an OperationJob id, or NoJob.
LEMMA LatestOpTyped ==
    ASSUME NEW k, NEW S PROVE LatestOp(k, S) \in MaybeJob
BY MaxIsMember DEF LatestOp, OpsOf, MaybeJob

\* The initial state satisfies the strengthened type invariant.
LEMMA TypeInvInit == Init => TypeInv
<1> SUFFICES ASSUME Init PROVE TypeInv
  OBVIOUS
<1>1. EmptySite \in SiteRows
  BY DEF EmptySite, SiteRows, SiteIds, MaybeJob
<1>2. [kind |-> NoKind, status |-> "absent"] \in OpRows
  BY DEF OpRows, Statuses
<1>3. TypeOK
  BY <1>1, <1>2, NoLocalsTyped, NoWorkTyped, BoundsAssumption
  DEF Init, TypeOK, Statuses, HandlerPcs, AgentPcs
<1>4. Issued = {}
  BY DEF Init, Issued
<1>5. RowsIssued /\ HandlersInHand /\ AgentsInHand
  BY <1>4 DEF Init, RowsIssued, HandlersInHand, AgentsInHand, JobPcs, ReportPcs, EditPcs, NoWork, NoJob
<1>6. QED
  BY <1>3, <1>5 DEF TypeInv

\* _sync_site_from_job turns a Site row into a Site row.
LEMMA SyncedTyped ==
    ASSUME NEW row \in SiteRows, NEW t \in JobTypes, NEW r \in Outcomes, NEW j \in MaybeJob
    PROVE  Synced(row, t, r, j) \in SiteRows
<1> DEFINE e == IF t = "create_env" /\ r = "success" THEN j ELSE row.env
           c == IF t = "create_account" /\ r = "success" THEN j ELSE row.account
<1>1. Synced(row, t, r, j) = [row EXCEPT !.hub = <<t, r>>, !.env = e, !.account = c]
  BY Zenon DEF Synced
<1>2. e \in SiteIds /\ c \in SiteIds /\ <<t, r>> \in (JobTypes \X Outcomes) \cup {<<>>}
  BY DEF SiteRows, SiteIds
<1> HIDE DEF e, c
<1>3. QED
  BY <1>1, <1>2 DEF SiteRows

\* What is saved over a site by hand is the row of a site.
LEMMA EditRows ==
    ASSUME TypeInv, NEW h \in Handlers, UpdateSave(h) \/ AssignSave(h)
    PROVE  \E from \in EditPcs, row \in SiteRows : EditSave(h, from, row)
<1>1. local[h].row \in SiteRows
  BY DEF TypeInv, TypeOK, Locals
<1>2. local[h].site \in Sites
  BY DEF TypeInv, HandlersInHand, UpdateSave, AssignSave, EditSave, EditPcs
<1>3. CASE UpdateSave(h)
  <2>1. Updates(local[h].site, local[h].row) \subseteq SiteRows
    BY <1>1, <1>2 DEF Updates, SiteRows, SiteIds, MaybeJob
  <2>2. QED
    BY <1>3, <2>1 DEF UpdateSave, EditPcs
<1>4. CASE AssignSave(h)
  <2>1. [local[h].row EXCEPT !.env = local[h].site] \in SiteRows
    BY <1>1, <1>2 DEF SiteRows, SiteIds
  <2>2. QED
    BY <1>4, <2>1 DEF AssignSave, EditPcs
<1>5. QED
  BY <1>3, <1>4

\* Every action preserves the strengthened type invariant: one step per
\* action, and under it one per conjunct.
LEMMA TypeInvStep == TypeInv /\ [Next]_vars => TypeInv'
<1> SUFFICES ASSUME TypeInv, [Next]_vars PROVE TypeInv'
  OBVIOUS
<1>1. ASSUME NEW a \in Agents, NEW h \in Handlers, ClaimRequest(a, h)
      PROVE  TypeInv'
  <2>1. UNCHANGED <<status, kind, nextJob, ops, nextOp, site, calls, queued,
     outcomes, wins, orphaned>>
    BY <1>1 DEF ClaimRequest, jobVars, opVars, histVars
  <2>2. [NoLocals EXCEPT !.agent = a] \in Locals
    BY NoLocalsTyped DEF Locals
  <2>3. [NoWork EXCEPT !.call = h] \in Works
    BY NoWorkTyped DEF Works
  <2>4. local' \in [Handlers -> Locals]
    BY <1>1, <2>1, <2>2 DEF TypeInv, TypeOK, ClaimRequest
  <2>5. work' \in [Agents -> Works]
    BY <1>1, <2>1, <2>3 DEF TypeInv, TypeOK, ClaimRequest
  <2>6. TypeOK'
    BY <1>1, <2>1, <2>2, <2>3, <2>4, <2>5 DEF TypeInv, TypeOK, HandlerPcs,
       AgentPcs, ClaimRequest
  <2>7. RowsIssued'
    BY <2>1 DEF TypeInv, RowsIssued, Issued
  <2>8. HandlersInHand'
    BY <1>1, <2>1, <2>2, <2>3, <2>4, <2>5 DEF TypeInv, TypeOK,
       HandlersInHand, HandlerPcs, JobPcs, ReportPcs, EditPcs, Issued, ClaimRequest,
       NoLocals
  <2>9. AgentsInHand'
    BY <1>1, <2>1, <2>2, <2>3, <2>4, <2>5 DEF TypeInv, TypeOK, AgentsInHand,
       Issued, ClaimRequest, NoWork, NoJob
  <2>10. QED
    BY <2>6, <2>7, <2>8, <2>9 DEF TypeInv
<1>2. ASSUME NEW a \in Agents, NEW h \in Handlers, ReportRequest(a, h)
      PROVE  TypeInv'
  <2>1. UNCHANGED <<status, kind, nextJob, ops, nextOp, site, calls, queued,
     outcomes, wins, orphaned>>
    BY <1>2 DEF ReportRequest, jobVars, opVars, histVars
  <2>2. work[a] \in Works
    BY DEF TypeInv, TypeOK
  <2>3. work[a].job \in Issued /\ work[a].res \in Outcomes
    BY <1>2 DEF TypeInv, AgentsInHand, ReportRequest
  <2>4. [NoLocals EXCEPT !.agent = a, !.job = work[a].job, !.res =
     work[a].res] \in Locals
    BY <2>3, NoLocalsTyped, IssuedIsJobs DEF TypeInv, Locals
  <2>5. [work[a] EXCEPT !.call = h, !.sends = @ + 1] \in Works
    BY <1>2, <2>2, OneMoreSend DEF ReportRequest
  <2>6. local' \in [Handlers -> Locals]
    BY <1>2, <2>1, <2>4 DEF TypeInv, TypeOK, ReportRequest
  <2>7. work' \in [Agents -> Works]
    BY <1>2, <2>1, <2>5 DEF TypeInv, TypeOK, ReportRequest
  <2>8. TypeOK'
    BY <1>2, <2>1, <2>2, <2>3, <2>4, <2>5, <2>6, <2>7 DEF TypeInv, TypeOK,
       HandlerPcs, AgentPcs, ReportRequest
  <2>9. RowsIssued'
    BY <2>1 DEF TypeInv, RowsIssued, Issued
  <2>10. HandlersInHand'
    BY <1>2, <2>1, <2>2, <2>3, <2>4, <2>5, <2>6, <2>7 DEF TypeInv, TypeOK,
       HandlersInHand, HandlerPcs, JobPcs, ReportPcs, EditPcs, Issued, ReportRequest,
       NoLocals
  <2>11. AgentsInHand'
    BY <1>2, <2>1, <2>2, <2>3, <2>4, <2>5, <2>6, <2>7 DEF TypeInv, TypeOK,
       AgentsInHand, Issued, ReportRequest
  <2>12. QED
    BY <2>8, <2>9, <2>10, <2>11 DEF TypeInv
<1>3. ASSUME NEW a \in Agents, Execute(a)
      PROVE  TypeInv'
  <2>1. UNCHANGED <<status, kind, nextJob, ops, nextOp, site, hpc, local,
     calls, queued, outcomes, wins, orphaned>>
    BY <1>3 DEF Execute, jobVars, opVars, serverVars, histVars
  <2>2. work[a] \in Works
    BY DEF TypeInv, TypeOK
  <2>3. \A r \in Outcomes : [work[a] EXCEPT !.res = r] \in Works
    BY <2>2 DEF Works
  <2>4. work' \in [Agents -> Works]
    BY <1>3, <2>1, <2>3 DEF TypeInv, TypeOK, Execute
  <2>5. TypeOK'
    BY <1>3, <2>1, <2>2, <2>3, <2>4 DEF TypeInv, TypeOK, HandlerPcs,
       AgentPcs, Execute
  <2>6. RowsIssued'
    BY <2>1 DEF TypeInv, RowsIssued, Issued
  <2>7. HandlersInHand'
    BY <2>1 DEF TypeInv, HandlersInHand, Issued
  <2>8. AgentsInHand'
    BY <1>3, <2>1, <2>2, <2>3, <2>4 DEF TypeInv, TypeOK, AgentsInHand,
       Issued, Execute
  <2>9. QED
    BY <2>5, <2>6, <2>7, <2>8 DEF TypeInv
<1>4. ASSUME NEW a \in Agents, ConnectionLost(a)
      PROVE  TypeInv'
  <2>1. UNCHANGED <<status, kind, nextJob, ops, nextOp, site, hpc, local,
     calls, queued, outcomes, wins>>
    BY <1>4 DEF ConnectionLost, jobVars, opVars, serverVars, histVars,
       Abandon
  <2>2. work[a] \in Works
    BY DEF TypeInv, TypeOK
  <2>3. work[a].job \in MaybeJob
    BY <2>2 DEF Works
  <2>4. [work[a] EXCEPT !.call = NoHandler] \in Works
    BY <2>2 DEF Works
  <2>5. work' \in [Agents -> Works]
    BY <1>4, <2>4, NoWorkTyped DEF TypeInv, TypeOK, Abandon, ConnectionLost
  <2>6. TypeOK'
    BY <1>4, <2>1, <2>2, <2>3, <2>4, <2>5 DEF TypeInv, TypeOK, HandlerPcs,
       AgentPcs, ConnectionLost, Abandon, Orphan, GivesUpReport, MaybeJob,
       NoJob
  <2>7. RowsIssued'
    BY <2>1 DEF TypeInv, RowsIssued, Issued
  <2>8. HandlersInHand'
    BY <2>1 DEF TypeInv, HandlersInHand, Issued
  <2>9. AgentsInHand'
    BY <1>4, <2>1, <2>2, <2>3, <2>4, <2>5 DEF TypeInv, TypeOK, AgentsInHand,
       Issued, ConnectionLost, Abandon, NoWork, NoJob
  <2>10. QED
    BY <2>6, <2>7, <2>8, <2>9 DEF TypeInv
<1>5. ASSUME NEW a \in Agents, Timeout(a)
      PROVE  TypeInv'
  <2>1. UNCHANGED <<status, kind, nextJob, ops, nextOp, site, hpc, local,
     queued, outcomes, wins>>
    BY <1>5 DEF Timeout, Count, jobVars, opVars, serverVars, histVars,
       Abandon
  <2>2. work[a] \in Works
    BY DEF TypeInv, TypeOK
  <2>3. work[a].job \in MaybeJob
    BY <2>2 DEF Works
  <2>4. [work[a] EXCEPT !.call = NoHandler] \in Works
    BY <2>2 DEF Works
  <2>5. work' \in [Agents -> Works]
    BY <1>5, <2>4, NoWorkTyped DEF TypeInv, TypeOK, Abandon, Timeout, Count
  <2>6. TypeOK'
    BY <1>5, <2>1, <2>2, <2>3, <2>4, <2>5 DEF TypeInv, TypeOK, HandlerPcs,
       AgentPcs, Timeout, Count, Abandon, Orphan, GivesUpReport, MaybeJob,
       NoJob
  <2>7. RowsIssued'
    BY <2>1 DEF TypeInv, RowsIssued, Issued
  <2>8. HandlersInHand'
    BY <2>1 DEF TypeInv, HandlersInHand, Issued
  <2>9. AgentsInHand'
    BY <1>5, <2>1, <2>2, <2>3, <2>4, <2>5 DEF TypeInv, TypeOK, AgentsInHand,
       Issued, Timeout, Count, Abandon, NoWork, NoJob
  <2>10. QED
    BY <2>6, <2>7, <2>8, <2>9 DEF TypeInv
<1>6. ASSUME NEW a \in Agents, AgentCrash(a)
      PROVE  TypeInv'
  <2>1. UNCHANGED <<status, kind, nextJob, ops, nextOp, site, hpc, local,
     queued, outcomes, wins>>
    BY <1>6 DEF AgentCrash, Count, jobVars, opVars, serverVars, histVars
  <2>2. work[a] \in Works
    BY DEF TypeInv, TypeOK
  <2>3. work[a].job \in MaybeJob
    BY <2>2 DEF Works
  <2>4. work' \in [Agents -> Works]
    BY <1>6, <2>1, NoWorkTyped DEF TypeInv, TypeOK, AgentCrash, Count
  <2>5. TypeOK'
    BY <1>6, <2>1, <2>2, <2>3, <2>4 DEF TypeInv, TypeOK, HandlerPcs,
       AgentPcs, AgentCrash, Count, Orphan, MaybeJob, NoJob
  <2>6. RowsIssued'
    BY <2>1 DEF TypeInv, RowsIssued, Issued
  <2>7. HandlersInHand'
    BY <2>1 DEF TypeInv, HandlersInHand, Issued
  <2>8. AgentsInHand'
    BY <1>6, <2>1, <2>2, <2>3, <2>4 DEF TypeInv, TypeOK, AgentsInHand,
       Issued, AgentCrash, Count, NoWork, NoJob
  <2>9. QED
    BY <2>5, <2>6, <2>7, <2>8 DEF TypeInv
<1>7. ASSUME NEW h \in Handlers, ClaimRead(h)
      PROVE  TypeInv'
  <2>1. UNCHANGED <<status, kind, nextJob, ops, nextOp, site, apc, work,
     calls, queued, outcomes, wins, orphaned>>
    BY <1>7 DEF ClaimRead, Goto, jobVars, opVars, agentVars, histVars
  <2>2. local[h] \in Locals
    BY DEF TypeInv, TypeOK
  <2>3. Pending \in SUBSET Nat /\ Pending \subseteq Issued
    BY BoundsAssumption DEF TypeInv, RowsIssued, Pending, JobIds
  <2>4. Pending # {} => Min(Pending) \in Issued
    BY <2>3, MinIsMember
  <2>5. Pending # {} => [local[h] EXCEPT !.job = Min(Pending)] \in Locals
    BY <2>2, <2>4, IssuedIsJobs DEF TypeInv, Locals
  <2>6. local' \in [Handlers -> Locals]
    BY <1>7, <2>1, <2>5 DEF TypeInv, TypeOK, ClaimRead, Goto
  <2>7. TypeOK'
    BY <1>7, <2>1, <2>2, <2>3, <2>4, <2>5, <2>6 DEF TypeInv, TypeOK,
       HandlerPcs, AgentPcs, ClaimRead, Goto
  <2>8. RowsIssued'
    BY <2>1 DEF TypeInv, RowsIssued, Issued
  <2>9. HandlersInHand'
    <3>1. CASE Pending = {}
      BY <1>7, <2>1, <3>1 DEF TypeInv, TypeOK, HandlersInHand, HandlerPcs, JobPcs,
         ReportPcs, EditPcs, Issued, ClaimRead, Goto
    <3>2. CASE Pending # {}
      BY <1>7, <2>1, <2>2, <2>4, <3>2 DEF TypeInv, TypeOK, HandlersInHand, HandlerPcs,
         JobPcs, ReportPcs, EditPcs, Issued, ClaimRead, Goto, Locals
    <3>3. QED
      BY <3>1, <3>2
  <2>10. AgentsInHand'
    BY <2>1 DEF TypeInv, AgentsInHand, Issued
  <2>11. QED
    BY <2>7, <2>8, <2>9, <2>10 DEF TypeInv
<1>8. ASSUME NEW h \in Handlers, ClaimCas(h)
      PROVE  TypeInv'
  <2>1. UNCHANGED <<kind, nextJob, ops, nextOp, site, apc, work, calls,
     queued, outcomes, wins, orphaned>>
    BY <1>8 DEF ClaimCas, Goto, opVars, agentVars, histVars
  <2>2. local[h] \in Locals
    BY DEF TypeInv, TypeOK
  <2>3. local[h].job \in Issued
    BY <1>8 DEF TypeInv, HandlersInHand, HandlerPcs, JobPcs, ClaimCas, Goto
  <2>4. queued[local[h].job] \in Nat
    BY <2>3, IssuedIsJobs DEF TypeInv, TypeOK
  <2>5. [local[h] EXCEPT !.turn = queued[local[h].job]] \in Locals
    BY <2>2, <2>4 DEF Locals
  <2>6. [local[h] EXCEPT !.job = NoJob] \in Locals
    BY <2>2 DEF Locals, MaybeJob
  <2>7. local' \in [Handlers -> Locals]
    BY <1>8, <2>1, <2>5, <2>6 DEF TypeInv, TypeOK, ClaimCas, Goto
  <2>8. TypeOK'
    BY <1>8, <2>1, <2>2, <2>3, <2>4, <2>5, <2>6, <2>7 DEF TypeInv, TypeOK,
       HandlerPcs, AgentPcs, ClaimCas, Goto, Statuses, Open
  <2>9. RowsIssued'
    BY <1>8, <2>1, <2>2, <2>3, <2>4, <2>5, <2>6, <2>7 DEF TypeInv, TypeOK,
       RowsIssued, Issued, ClaimCas, Goto
  <2>10. HandlersInHand'
    <3>1. PICK l \in Locals : /\ l.job \in Issued \cup {NoJob}
                              /\ hpc' = [hpc EXCEPT ![h] = "claim_reply"]
                              /\ local' = [local EXCEPT ![h] = l]
      BY <1>8, <2>2, <2>3, <2>5, <2>6 DEF TypeInv, TypeOK, ClaimCas, Goto, Locals
    <3>2. QED
      BY <2>1, <3>1 DEF TypeInv, TypeOK, HandlersInHand, HandlerPcs, JobPcs, ReportPcs, EditPcs, Issued
  <2>11. AgentsInHand'
    BY <2>1 DEF TypeInv, AgentsInHand, Issued
  <2>12. QED
    BY <2>8, <2>9, <2>10, <2>11 DEF TypeInv
<1>9. ASSUME NEW h \in Handlers, ClaimReply(h)
      PROVE  TypeInv'
  <2>1. UNCHANGED <<status, kind, nextJob, ops, nextOp, site, calls, queued,
     outcomes, wins>>
    BY <1>9 DEF ClaimReply, End, jobVars, opVars, agentVars, histVars
  <2>2. local[h] \in Locals
    BY DEF TypeInv, TypeOK
  <2>3. local[h].job \in Issued \cup {NoJob}
    BY <1>9 DEF TypeInv, HandlersInHand, ClaimReply, End
  <2>4. local[h].job \in MaybeJob
    BY <2>2 DEF Locals
  <2>5. [NoWork EXCEPT !.job = local[h].job, !.turn = local[h].turn] \in
     Works
    BY <2>2, <2>4, NoWorkTyped DEF Locals, Works
  <2>6. local' \in [Handlers -> Locals]
    BY <1>9, <2>1, NoLocalsTyped DEF TypeInv, TypeOK, ClaimReply, End
  <2>7. work' \in [Agents -> Works]
    BY <1>9, <2>1, <2>5 DEF TypeInv, TypeOK, ClaimReply, End, agentVars
  <2>8. TypeOK'
    BY <1>9, <2>1, <2>2, <2>3, <2>4, <2>5, <2>6, <2>7 DEF TypeInv, TypeOK,
       HandlerPcs, AgentPcs, ClaimReply, End, agentVars, Orphan, MaybeJob,
       NoJob
  <2>9. RowsIssued'
    BY <2>1 DEF TypeInv, RowsIssued, Issued
  <2>10. HandlersInHand'
    BY <1>9, <2>1, <2>2, <2>3, <2>4, <2>5, <2>6, <2>7 DEF TypeInv, TypeOK,
       HandlersInHand, HandlerPcs, JobPcs, ReportPcs, EditPcs, Issued, ClaimReply,
       End, agentVars
  <2>11. AgentsInHand'
    <3>1. CASE Waits(local[h].agent, h)
      <4>1. PICK w \in Works, pc \in {"poll", "exec"} :
                /\ w.job = local[h].job /\ (pc = "exec" => w.job # NoJob)
                /\ apc' = [apc EXCEPT ![local[h].agent] = pc]
                /\ work' = [work EXCEPT ![local[h].agent] = w]
        BY <1>9, <2>5, <3>1 DEF ClaimReply, NoWork
      <4>2. QED
        BY <2>1, <2>3, <4>1 DEF TypeInv, TypeOK, AgentsInHand, Issued
    <3>2. CASE ~Waits(local[h].agent, h)
      BY <1>9, <2>1, <3>2 DEF TypeInv, AgentsInHand, Issued, ClaimReply, agentVars
    <3>3. QED
      BY <3>1, <3>2
  <2>12. QED
    BY <2>8, <2>9, <2>10, <2>11 DEF TypeInv
<1>10. ASSUME NEW h \in Handlers, ReportRead(h)
      PROVE  TypeInv'
  <2>1. UNCHANGED <<status, kind, nextJob, ops, nextOp, site, local, apc,
     work, calls, queued, outcomes, wins, orphaned>>
    BY <1>10 DEF ReportRead, Goto, jobVars, opVars, agentVars, histVars
  <2>2. TypeOK'
    BY <1>10, <2>1 DEF TypeInv, TypeOK, HandlerPcs, AgentPcs, ReportRead,
       Goto
  <2>3. RowsIssued'
    BY <2>1 DEF TypeInv, RowsIssued, Issued
  <2>4. HandlersInHand'
    BY <1>10, <2>1 DEF TypeInv, TypeOK, HandlersInHand, HandlerPcs, JobPcs,
       ReportPcs, EditPcs, Issued, ReportRead, Goto
  <2>5. AgentsInHand'
    BY <2>1 DEF TypeInv, AgentsInHand, Issued
  <2>6. QED
    BY <2>2, <2>3, <2>4, <2>5 DEF TypeInv
<1>11. ASSUME NEW h \in Handlers, ReportCas(h)
      PROVE  TypeInv'
  <2>1. UNCHANGED <<kind, nextJob, ops, nextOp, site, local, apc, work,
     calls, queued, orphaned>>
    BY <1>11 DEF ReportCas, Goto, opVars, agentVars, ReportUpdate
  <2>2. local[h].job \in Issued /\ local[h].res \in Outcomes
    BY <1>11 DEF ReportUpdate, TypeInv, HandlersInHand, HandlerPcs, JobPcs,
       ReportPcs, ReportCas, Goto
  <2>3. TypeOK'
    BY <1>11, <2>1, <2>2 DEF TypeInv, TypeOK, HandlerPcs, AgentPcs,
       ReportCas, Goto, ReportUpdate, Statuses, Outcomes, Open
  <2>4. RowsIssued'
    BY <1>11, <2>1, <2>2 DEF TypeInv, TypeOK, RowsIssued, Issued, ReportCas,
       Goto, ReportUpdate
  <2>5. HandlersInHand'
    BY <1>11, <2>1, <2>2 DEF TypeInv, TypeOK, HandlersInHand, HandlerPcs,
       JobPcs, ReportPcs, EditPcs, Issued, ReportCas, Goto, ReportUpdate
  <2>6. AgentsInHand'
    BY <2>1 DEF TypeInv, AgentsInHand, Issued
  <2>7. QED
    BY <2>3, <2>4, <2>5, <2>6 DEF TypeInv
<1>12. ASSUME NEW h \in Handlers, ReportSiteRead(h)
      PROVE  TypeInv'
  <2>1. UNCHANGED <<status, kind, nextJob, ops, nextOp, site, apc, work,
     calls, queued, outcomes, wins, orphaned>>
    BY <1>12 DEF ReportSiteRead, Goto, jobVars, opVars, agentVars, histVars
  <2>2. local[h] \in Locals
    BY DEF TypeInv, TypeOK
  <2>3. local[h].job \in Issued
    BY <1>12 DEF TypeInv, HandlersInHand, HandlerPcs, JobPcs, ReportSiteRead,
       Goto
  <2>4. site[kind[local[h].job].site] \in SiteRows
    BY <2>3 DEF TypeInv, TypeOK, RowsIssued, Kinds
  <2>5. [local[h] EXCEPT !.row = site[kind[local[h].job].site]] \in Locals
    BY <2>2, <2>4 DEF Locals
  <2>6. local' \in [Handlers -> Locals]
    BY <1>12, <2>1, <2>5 DEF TypeInv, TypeOK, ReportSiteRead, Goto
  <2>7. TypeOK'
    BY <1>12, <2>1, <2>2, <2>3, <2>4, <2>5, <2>6 DEF TypeInv, TypeOK,
       HandlerPcs, AgentPcs, ReportSiteRead, Goto
  <2>8. RowsIssued'
    BY <2>1 DEF TypeInv, RowsIssued, Issued
  <2>9. HandlersInHand'
    BY <1>12, <2>1, <2>2, <2>3, <2>4, <2>5, <2>6 DEF TypeInv, TypeOK,
       HandlersInHand, HandlerPcs, JobPcs, ReportPcs, EditPcs, Issued, ReportSiteRead,
       Goto
  <2>10. AgentsInHand'
    BY <2>1 DEF TypeInv, AgentsInHand, Issued
  <2>11. QED
    BY <2>7, <2>8, <2>9, <2>10 DEF TypeInv
<1>13. ASSUME NEW h \in Handlers, ReportSiteSave(h)
      PROVE  TypeInv'
  <2>1. UNCHANGED <<status, kind, nextJob, ops, nextOp, local, apc, work,
     calls, queued, outcomes, wins, orphaned>>
    BY <1>13 DEF ReportSiteSave, Goto, jobVars, opVars, agentVars, histVars
  <2>2. local[h] \in Locals
    BY DEF TypeInv, TypeOK
  <2>3. local[h].job \in Issued /\ local[h].res \in Outcomes
    BY <1>13 DEF TypeInv, HandlersInHand, HandlerPcs, JobPcs, ReportPcs,
       ReportSiteSave, Goto
  <2>4. local[h].job \in MaybeJob
    BY <2>3, IssuedIsJobs DEF TypeInv
  <2>5. kind[local[h].job].type \in JobTypes
    BY <2>3 DEF TypeInv, RowsIssued, Kinds
  <2>6. local[h].row \in SiteRows
    BY <2>2 DEF Locals
  <2>7. Synced(local[h].row, kind[local[h].job].type, local[h].res,
     local[h].job) \in SiteRows
    BY <2>3, <2>4, <2>5, <2>6, SyncedTyped
  <2>8. site' \in [Sites -> SiteRows]
    BY <1>13, <2>7 DEF TypeInv, TypeOK, ReportSiteSave, Goto
  <2>9. TypeOK'
    BY <1>13, <2>1, <2>2, <2>3, <2>4, <2>5, <2>6, <2>7, <2>8 DEF TypeInv,
       TypeOK, HandlerPcs, AgentPcs, ReportSiteSave, Goto
  <2>10. RowsIssued'
    BY <2>1 DEF TypeInv, RowsIssued, Issued
  <2>11. HandlersInHand'
    BY <1>13, <2>1, <2>2, <2>3, <2>4, <2>5, <2>6, <2>7, <2>8 DEF TypeInv,
       TypeOK, HandlersInHand, HandlerPcs, JobPcs, ReportPcs, EditPcs, Issued,
       ReportSiteSave, Goto
  <2>12. AgentsInHand'
    BY <2>1 DEF TypeInv, AgentsInHand, Issued
  <2>13. QED
    BY <2>9, <2>10, <2>11, <2>12 DEF TypeInv
<1>14. ASSUME NEW h \in Handlers, ReportOpRead(h)
      PROVE  TypeInv'
  <2>1. UNCHANGED <<status, kind, nextJob, ops, nextOp, site, apc, work,
     calls, queued, outcomes, wins, orphaned>>
    BY <1>14 DEF ReportOpRead, Goto, jobVars, opVars, agentVars, histVars
  <2>2. local[h] \in Locals
    BY DEF TypeInv, TypeOK
  <2>3. LatestOp(kind[local[h].job], {"running"}) \in MaybeJob
    BY LatestOpTyped
  <2>4. [local[h] EXCEPT !.op = LatestOp(kind[local[h].job], {"running"})]
     \in Locals
    BY <2>2, <2>3 DEF Locals
  <2>5. local' \in [Handlers -> Locals]
    BY <1>14, <2>1, <2>4 DEF TypeInv, TypeOK, ReportOpRead, Goto
  <2>6. TypeOK'
    BY <1>14, <2>1, <2>2, <2>3, <2>4, <2>5 DEF TypeInv, TypeOK, HandlerPcs,
       AgentPcs, ReportOpRead, Goto
  <2>7. RowsIssued'
    BY <2>1 DEF TypeInv, RowsIssued, Issued
  <2>8. HandlersInHand'
    BY <1>14, <2>1, <2>2, <2>3, <2>4, <2>5 DEF TypeInv, TypeOK,
       HandlersInHand, HandlerPcs, JobPcs, ReportPcs, EditPcs, Issued, ReportOpRead,
       Goto
  <2>9. AgentsInHand'
    BY <2>1 DEF TypeInv, AgentsInHand, Issued
  <2>10. QED
    BY <2>6, <2>7, <2>8, <2>9 DEF TypeInv
<1>15. ASSUME NEW h \in Handlers, ReportOpSave(h)
      PROVE  TypeInv'
  <2>1. UNCHANGED <<status, kind, nextJob, nextOp, site, local, apc, work,
     calls, queued, outcomes, wins, orphaned>>
    BY <1>15 DEF ReportOpSave, Goto, jobVars, agentVars, histVars
  <2>2. local[h].job \in Issued /\ local[h].res \in Outcomes
    BY <1>15 DEF TypeInv, HandlersInHand, HandlerPcs, JobPcs, ReportPcs,
       ReportOpSave, Goto
  <2>3. TypeOK'
    BY ZenonT(40), <1>15, <2>1, <2>2 DEF TypeInv, TypeOK, HandlerPcs, AgentPcs,
       ReportOpSave, Goto, OpRows, Statuses
  <2>4. RowsIssued'
    BY <2>1 DEF TypeInv, RowsIssued, Issued
  <2>5. HandlersInHand'
    BY <1>15, <2>1, <2>2 DEF TypeInv, TypeOK, HandlersInHand, HandlerPcs,
       JobPcs, ReportPcs, EditPcs, Issued, ReportOpSave, Goto
  <2>6. AgentsInHand'
    BY <2>1 DEF TypeInv, AgentsInHand, Issued
  <2>7. QED
    BY <2>3, <2>4, <2>5, <2>6 DEF TypeInv
<1>16. ASSUME NEW h \in Handlers, ReportReply(h)
      PROVE  TypeInv'
  <2>1. UNCHANGED <<status, kind, nextJob, ops, nextOp, site, calls, queued,
     outcomes, wins, orphaned>>
    BY <1>16 DEF ReportReply, End, jobVars, opVars, agentVars, histVars
  <2>2. local' \in [Handlers -> Locals]
    BY <1>16, <2>1, NoLocalsTyped DEF TypeInv, TypeOK, ReportReply, End
  <2>3. work' \in [Agents -> Works]
    BY <1>16, <2>1, NoWorkTyped DEF TypeInv, TypeOK, ReportReply, End,
       agentVars
  <2>4. TypeOK'
    BY <1>16, <2>1, <2>2, <2>3 DEF TypeInv, TypeOK, HandlerPcs, AgentPcs,
       ReportReply, End, agentVars
  <2>5. RowsIssued'
    BY <2>1 DEF TypeInv, RowsIssued, Issued
  <2>6. HandlersInHand'
    BY <1>16, <2>1, <2>2, <2>3 DEF TypeInv, TypeOK, HandlersInHand,
       HandlerPcs, JobPcs, ReportPcs, EditPcs, Issued, ReportReply, End, agentVars
  <2>7. AgentsInHand'
    BY <1>16, <2>1, <2>2, <2>3 DEF TypeInv, TypeOK, AgentsInHand, Issued,
       ReportReply, End, agentVars, NoWork, NoJob
  <2>8. QED
    BY <2>4, <2>5, <2>6, <2>7 DEF TypeInv
<1>17. ASSUME NEW h \in Handlers, CancelSave(h)
      PROVE  TypeInv'
  <2>1. UNCHANGED <<kind, nextJob, ops, nextOp, site, apc, work, calls,
     queued, outcomes, wins, orphaned>>
    BY <1>17 DEF CancelSave, End, opVars, agentVars, histVars
  <2>2. local[h].job \in Issued
    BY <1>17 DEF TypeInv, HandlersInHand, HandlerPcs, JobPcs, CancelSave, End
  <2>3. local' \in [Handlers -> Locals]
    BY <1>17, <2>1, NoLocalsTyped DEF TypeInv, TypeOK, CancelSave, End
  <2>4. TypeOK'
    BY <1>17, <2>1, <2>2, <2>3 DEF TypeInv, TypeOK, HandlerPcs, AgentPcs,
       CancelSave, End, Statuses
  <2>5. RowsIssued'
    BY <1>17, <2>1, <2>2, <2>3 DEF TypeInv, TypeOK, RowsIssued, Issued,
       CancelSave, End
  <2>6. HandlersInHand'
    BY <1>17, <2>1, <2>2, <2>3 DEF TypeInv, TypeOK, HandlersInHand,
       HandlerPcs, JobPcs, ReportPcs, EditPcs, Issued, CancelSave, End
  <2>7. AgentsInHand'
    BY <2>1 DEF TypeInv, AgentsInHand, Issued
  <2>8. QED
    BY <2>4, <2>5, <2>6, <2>7 DEF TypeInv
<1>18. ASSUME NEW h \in Handlers, RetrySave(h)
      PROVE  TypeInv'
  <2>1. UNCHANGED <<kind, nextJob, ops, nextOp, site, local, apc, work,
     calls, outcomes, wins>> /\ orphaned' \subseteq orphaned
    BY <1>18 DEF RetrySave, Goto, opVars, agentVars
  <2>2. local[h].job \in Issued
    BY <1>18 DEF TypeInv, HandlersInHand, HandlerPcs, JobPcs, RetrySave, Goto
  <2>3. TypeOK'
    BY <1>18, <2>1, <2>2 DEF TypeInv, TypeOK, HandlerPcs, AgentPcs,
       RetrySave, Goto, Statuses, Open
  <2>4. RowsIssued'
    BY <1>18, <2>1, <2>2 DEF TypeInv, TypeOK, RowsIssued, Issued, RetrySave,
       Goto
  <2>5. HandlersInHand'
    BY <1>18, <2>1, <2>2 DEF TypeInv, TypeOK, HandlersInHand, HandlerPcs,
       JobPcs, ReportPcs, EditPcs, Issued, RetrySave, Goto
  <2>6. AgentsInHand'
    BY <2>1 DEF TypeInv, AgentsInHand, Issued
  <2>7. QED
    BY <2>3, <2>4, <2>5, <2>6 DEF TypeInv
<1>19. ASSUME NEW h \in Handlers, RetryOpRead(h)
      PROVE  TypeInv'
  <2>1. UNCHANGED <<status, kind, nextJob, ops, nextOp, site, apc, work,
     calls, queued, outcomes, wins, orphaned>>
    BY <1>19 DEF RetryOpRead, Goto, End, jobVars, opVars, agentVars, histVars
  <2>2. local[h] \in Locals
    BY DEF TypeInv, TypeOK
  <2>3. LatestOp(kind[local[h].job], {"running", "failed"}) \in MaybeJob
    BY LatestOpTyped
  <2>4. [local[h] EXCEPT !.op = LatestOp(kind[local[h].job], {"running",
     "failed"})] \in Locals
    BY <2>2, <2>3 DEF Locals
  <2>5. local' \in [Handlers -> Locals]
    BY <1>19, <2>1, <2>4, NoLocalsTyped DEF TypeInv, TypeOK, RetryOpRead,
       Goto, End
  <2>6. TypeOK'
    BY <1>19, <2>1, <2>2, <2>3, <2>4, <2>5 DEF TypeInv, TypeOK, HandlerPcs,
       AgentPcs, RetryOpRead, Goto, End
  <2>7. RowsIssued'
    BY <2>1 DEF TypeInv, RowsIssued, Issued
  <2>8. HandlersInHand'
    <3>1. PICK pc \in {"idle", "retry_op_save"}, l \in Locals :
              /\ hpc[h] = "retry_op_read" /\ (pc = "retry_op_save" => l.job = local[h].job)
              /\ hpc' = [hpc EXCEPT ![h] = pc]
              /\ local' = [local EXCEPT ![h] = l]
      BY <1>19, <2>2, <2>4, NoLocalsTyped DEF TypeInv, TypeOK, RetryOpRead, Goto, End, Locals
    <3>2. QED
      BY <2>1, <3>1 DEF TypeInv, TypeOK, HandlersInHand, HandlerPcs, JobPcs, ReportPcs, EditPcs, Issued
  <2>9. AgentsInHand'
    BY <2>1 DEF TypeInv, AgentsInHand, Issued
  <2>10. QED
    BY <2>6, <2>7, <2>8, <2>9 DEF TypeInv
<1>20. ASSUME NEW h \in Handlers, RetryOpSave(h)
      PROVE  TypeInv'
  <2>1. UNCHANGED <<status, kind, nextJob, nextOp, site, apc, work, calls,
     queued, outcomes, wins, orphaned>>
    BY <1>20 DEF RetryOpSave, End, jobVars, agentVars, histVars
  <2>2. local' \in [Handlers -> Locals]
    BY <1>20, <2>1, NoLocalsTyped DEF TypeInv, TypeOK, RetryOpSave, End
  <2>3. TypeOK'
    BY ZenonT(40), <1>20, <2>1, <2>2 DEF TypeInv, TypeOK, HandlerPcs, AgentPcs,
       RetryOpSave, End, OpRows, Statuses, Open
  <2>4. RowsIssued'
    BY <2>1 DEF TypeInv, RowsIssued, Issued
  <2>5. HandlersInHand'
    BY <1>20, <2>1, <2>2 DEF TypeInv, TypeOK, HandlersInHand, HandlerPcs,
       JobPcs, ReportPcs, EditPcs, Issued, RetryOpSave, End
  <2>6. AgentsInHand'
    BY <2>1 DEF TypeInv, AgentsInHand, Issued
  <2>7. QED
    BY <2>3, <2>4, <2>5, <2>6 DEF TypeInv
<1>21. ASSUME NEW h \in Handlers, DispatchClear(h)
      PROVE  TypeInv'
  <2>1. UNCHANGED <<status, kind, nextJob, ops, nextOp, local, apc, work,
     calls, queued, outcomes, wins, orphaned>>
    BY <1>21 DEF DispatchClear, Goto, jobVars, opVars, agentVars, histVars
  <2>2. local[h] \in Locals
    BY DEF TypeInv, TypeOK
  <2>3. local[h].kind \in Kinds
    BY <1>21 DEF TypeInv, HandlersInHand, DispatchClear, Goto
  <2>4. local[h].row \in SiteRows
    BY <2>2 DEF Locals
  <2>5. [local[h].row EXCEPT !.account = NoJob] \in SiteRows
    BY <2>4 DEF SiteRows, SiteIds, MaybeJob
  <2>6. site' \in [Sites -> SiteRows]
    BY <1>21, <2>5 DEF TypeInv, TypeOK, DispatchClear, Goto
  <2>7. TypeOK'
    BY <1>21, <2>1, <2>2, <2>3, <2>4, <2>5, <2>6 DEF TypeInv, TypeOK,
       HandlerPcs, AgentPcs, DispatchClear, Goto
  <2>8. RowsIssued'
    BY <2>1 DEF TypeInv, RowsIssued, Issued
  <2>9. HandlersInHand'
    BY <1>21, <2>1, <2>2, <2>3, <2>4, <2>5, <2>6 DEF TypeInv, TypeOK,
       HandlersInHand, HandlerPcs, JobPcs, ReportPcs, EditPcs, Issued, DispatchClear,
       Goto
  <2>10. AgentsInHand'
    BY <2>1 DEF TypeInv, AgentsInHand, Issued
  <2>11. QED
    BY <2>7, <2>8, <2>9, <2>10 DEF TypeInv
<1>22. ASSUME NEW h \in Handlers, DispatchJob(h)
      PROVE  TypeInv'
  <2>1. UNCHANGED <<ops, nextOp, site, apc, work, calls, outcomes, wins,
     orphaned>>
    BY <1>22 DEF DispatchJob, Goto, opVars, agentVars
  <2>2. local[h] \in Locals
    BY DEF TypeInv, TypeOK
  <2>3. local[h].kind \in Kinds
    BY <1>22 DEF TypeInv, HandlersInHand, DispatchJob, Goto
  <2>4. nextJob \in JobIds /\ nextJob \in Nat /\ nextJob' = nextJob + 1
    BY <1>22, BoundsAssumption DEF TypeInv, TypeOK, DispatchJob, Goto
  <2>5. Issued' = Issued \cup {nextJob} /\ nextJob' \in 1..(MaxJobs + 1)
    BY <2>4, BoundsAssumption DEF Issued, JobIds
  <2>6. [local[h] EXCEPT !.job = nextJob] \in Locals
    BY <2>2, <2>4 DEF Locals, MaybeJob
  <2>7. local' \in [Handlers -> Locals]
    BY <1>22, <2>1, <2>6 DEF TypeInv, TypeOK, DispatchJob, Goto
  <2>8. TypeOK'
    BY <1>22, <2>1, <2>2, <2>3, <2>4, <2>5, <2>6, <2>7 DEF TypeInv, TypeOK,
       HandlerPcs, AgentPcs, DispatchJob, Goto, Statuses, Open
  <2>9. RowsIssued'
    BY <1>22, <2>1, <2>2, <2>3, <2>4, <2>5, <2>6, <2>7 DEF TypeInv, TypeOK,
       RowsIssued, DispatchJob, Goto
  <2>10. HandlersInHand'
    BY <1>22, <2>1, <2>2, <2>3, <2>4, <2>5, <2>6, <2>7 DEF TypeInv, TypeOK,
       HandlersInHand, HandlerPcs, JobPcs, ReportPcs, EditPcs, DispatchJob, Goto
  <2>11. AgentsInHand'
    BY <1>22, <2>1, <2>2, <2>3, <2>4, <2>5, <2>6, <2>7 DEF TypeInv, TypeOK,
       AgentsInHand, DispatchJob, Goto
  <2>12. QED
    BY <2>8, <2>9, <2>10, <2>11 DEF TypeInv
<1>23. ASSUME NEW h \in Handlers, DispatchOp(h)
      PROVE  TypeInv'
  <2>1. UNCHANGED <<status, kind, nextJob, site, apc, work, calls, queued,
     outcomes, wins, orphaned>>
    BY <1>23 DEF DispatchOp, Goto, End, jobVars, agentVars, histVars
  <2>2. local[h].kind \in Kinds
    BY <1>23 DEF TypeInv, HandlersInHand, DispatchOp, Goto, End
  <2>3. [kind |-> local[h].kind, status |-> "running"] \in OpRows
    BY <2>2 DEF OpRows, Statuses, Open
  <2>4. nextOp' \in 1..(MaxJobs + 1)
    BY <1>23, BoundsAssumption DEF JobIds, TypeInv, TypeOK, DispatchOp, Goto,
       End
  <2>5. local' \in [Handlers -> Locals]
    BY <1>23, <2>1, NoLocalsTyped DEF TypeInv, TypeOK, DispatchOp, Goto, End
  <2>6. TypeOK'
    BY <1>23, <2>1, <2>2, <2>3, <2>4, <2>5 DEF TypeInv, TypeOK, HandlerPcs,
       AgentPcs, DispatchOp, Goto, End
  <2>7. RowsIssued'
    BY <2>1 DEF TypeInv, RowsIssued, Issued
  <2>8. HandlersInHand'
    BY <1>23, <2>1, <2>2, <2>3, <2>4, <2>5 DEF TypeInv, TypeOK,
       HandlersInHand, HandlerPcs, JobPcs, ReportPcs, EditPcs, Issued, DispatchOp,
       Goto, End
  <2>9. AgentsInHand'
    BY <2>1 DEF TypeInv, AgentsInHand, Issued
  <2>10. QED
    BY <2>6, <2>7, <2>8, <2>9 DEF TypeInv
<1>24. ASSUME NEW h \in Handlers, ExecSave(h)
      PROVE  TypeInv'
  <2>1. UNCHANGED <<kind, nextJob, ops, nextOp, site, local, apc, work,
     calls, queued, outcomes, wins, orphaned>>
    BY <1>24 DEF ExecSave, Goto, opVars, agentVars, histVars
  <2>2. local[h].job \in Issued
    BY <1>24 DEF TypeInv, HandlersInHand, HandlerPcs, JobPcs, ExecSave, Goto
  <2>3. TypeOK'
    BY <1>24, <2>1, <2>2 DEF TypeInv, TypeOK, HandlerPcs, AgentPcs, ExecSave,
       Goto, Statuses, Open
  <2>4. RowsIssued'
    BY <1>24, <2>1, <2>2 DEF TypeInv, TypeOK, RowsIssued, Issued, ExecSave,
       Goto
  <2>5. HandlersInHand'
    BY <1>24, <2>1, <2>2 DEF TypeInv, TypeOK, HandlersInHand, HandlerPcs,
       JobPcs, ReportPcs, EditPcs, Issued, ExecSave, Goto
  <2>6. AgentsInHand'
    BY <2>1 DEF TypeInv, AgentsInHand, Issued
  <2>7. QED
    BY <2>3, <2>4, <2>5, <2>6 DEF TypeInv
<1>25. ASSUME NEW h \in Handlers, ExecRun(h)
      PROVE  TypeInv'
  <2>1. UNCHANGED <<status, kind, nextJob, ops, nextOp, site, apc, work,
     calls, queued, outcomes, wins, orphaned>>
    BY <1>25 DEF ExecRun, Goto, jobVars, opVars, agentVars, histVars
  <2>2. local[h] \in Locals
    BY DEF TypeInv, TypeOK
  <2>3. \A r \in Outcomes : [local[h] EXCEPT !.res = r] \in Locals
    BY <2>2 DEF Locals
  <2>4. local' \in [Handlers -> Locals]
    BY <1>25, <2>1, <2>3 DEF TypeInv, TypeOK, ExecRun, Goto
  <2>5. TypeOK'
    BY <1>25, <2>1, <2>2, <2>3, <2>4 DEF TypeInv, TypeOK, HandlerPcs,
       AgentPcs, ExecRun, Goto
  <2>6. RowsIssued'
    BY <2>1 DEF TypeInv, RowsIssued, Issued
  <2>7. HandlersInHand'
    BY <1>25, <2>1, <2>2, <2>3, <2>4 DEF TypeInv, TypeOK, HandlersInHand,
       HandlerPcs, JobPcs, ReportPcs, EditPcs, Issued, ExecRun, Goto
  <2>8. AgentsInHand'
    BY <2>1 DEF TypeInv, AgentsInHand, Issued
  <2>9. QED
    BY <2>5, <2>6, <2>7, <2>8 DEF TypeInv
<1>eu. ASSUME NEW h \in Handlers, ExecUnavailable(h)
      PROVE  TypeInv'
  <2>1. UNCHANGED <<status, kind, nextJob, ops, nextOp, site, apc, work,
     calls, queued, outcomes, wins>>
    BY <1>eu DEF ExecUnavailable, jobVars, opVars, agentVars, histVars
  <2>2. local[h].job \in MaybeJob
    BY DEF TypeInv, TypeOK, Locals
  <2>3. local' \in [Handlers -> Locals]
    BY <1>eu, NoLocalsTyped DEF TypeInv, TypeOK, ExecUnavailable, End
  <2>4. orphaned' \in SUBSET JobIds
    BY <1>eu, <2>2 DEF TypeInv, TypeOK, ExecUnavailable, Orphan, MaybeJob, NoJob
  <2>5. TypeOK'
    BY <1>eu, <2>1, <2>3, <2>4 DEF TypeInv, TypeOK, HandlerPcs, AgentPcs,
       ExecUnavailable, End
  <2>6. RowsIssued'
    BY <2>1 DEF TypeInv, RowsIssued, Issued
  <2>7. HandlersInHand'
    BY <1>eu, <2>1, <2>3 DEF TypeInv, TypeOK, HandlersInHand,
       HandlerPcs, JobPcs, ReportPcs, EditPcs, Issued, ExecUnavailable, End
  <2>8. AgentsInHand'
    BY <2>1 DEF TypeInv, AgentsInHand, Issued
  <2>9. QED
    BY <2>5, <2>6, <2>7, <2>8 DEF TypeInv
<1>er. ASSUME NEW h \in Handlers, NEW s \in Sites, NEW to \in EditPcs, EditRead(h, s, to)
      PROVE  TypeInv'
  <2>1. UNCHANGED <<status, kind, nextJob, ops, nextOp, site, apc, work,
     queued, outcomes, wins, orphaned>>
    BY <1>er DEF EditRead, jobVars, opVars, agentVars, histVars
  <2>2. site[s] \in SiteRows
    BY DEF TypeInv, TypeOK
  <2>3. [NoLocals EXCEPT !.site = s, !.row = site[s]] \in Locals
    BY <2>2, NoLocalsTyped DEF Locals
  <2>4. local' \in [Handlers -> Locals]
    BY <1>er, <2>3 DEF TypeInv, TypeOK, EditRead
  <2>5. TypeOK'
    BY <1>er, <2>1, <2>4 DEF TypeInv, TypeOK, HandlerPcs, AgentPcs, EditRead, EditPcs, Goto, Count
  <2>6. RowsIssued'
    BY <2>1 DEF TypeInv, RowsIssued, Issued
  <2>7. HandlersInHand'
    BY <1>er, <2>1, <2>3, <2>4 DEF TypeInv, TypeOK, HandlersInHand,
       HandlerPcs, JobPcs, ReportPcs, EditPcs, Issued, EditRead, Goto, NoLocals
  <2>8. AgentsInHand'
    BY <2>1 DEF TypeInv, AgentsInHand, Issued
  <2>9. QED
    BY <2>5, <2>6, <2>7, <2>8 DEF TypeInv
<1>es. ASSUME NEW h \in Handlers, NEW row \in SiteRows, NEW from \in EditPcs, EditSave(h, from, row)
      PROVE  TypeInv'
  <2>1. UNCHANGED <<status, kind, nextJob, ops, nextOp, apc, work, calls,
     queued, outcomes, wins, orphaned>>
    BY <1>es DEF EditSave, jobVars, opVars, agentVars, histVars
  <2>2. local' \in [Handlers -> Locals]
    BY <1>es, NoLocalsTyped DEF TypeInv, TypeOK, EditSave, End
  <2>3. site' \in [Sites -> SiteRows]
    BY <1>es DEF TypeInv, TypeOK, EditSave
  <2>4. TypeOK'
    BY <1>es, <2>1, <2>2, <2>3 DEF TypeInv, TypeOK, HandlerPcs, AgentPcs, EditSave, End
  <2>5. RowsIssued'
    BY <2>1 DEF TypeInv, RowsIssued, Issued
  <2>6. HandlersInHand'
    BY <1>es, <2>1, <2>2 DEF TypeInv, TypeOK, HandlersInHand,
       HandlerPcs, JobPcs, ReportPcs, EditPcs, Issued, EditSave, End
  <2>7. AgentsInHand'
    BY <2>1 DEF TypeInv, AgentsInHand, Issued
  <2>8. QED
    BY <2>4, <2>5, <2>6, <2>7 DEF TypeInv
<1>ea. ASSUME NEW h \in Handlers, UpdateSave(h) \/ AssignSave(h)
      PROVE  TypeInv'
  BY <1>ea, <1>es, EditRows DEF TypeInv, HandlersInHand
<1>26. ASSUME NEW h \in Handlers, HandlerError(h)
      PROVE  TypeInv'
  <2>1. UNCHANGED <<status, kind, nextJob, ops, nextOp, site, queued,
     outcomes, wins>>
    BY <1>26 DEF HandlerError, End, Count, jobVars, opVars, agentVars,
       histVars
  <2>2. \A b \in Agents : work[b].job \in MaybeJob
    BY DEF TypeInv, TypeOK, Works
  <2>3. OwnedBy(h) \in MaybeJob
    BY DEF TypeInv, TypeOK, OwnedBy, Locals, MaybeJob, NoJob
  <2>4. local' \in [Handlers -> Locals]
    BY <1>26, <2>1, NoLocalsTyped DEF TypeInv, TypeOK, HandlerError, End,
       Count
  <2>5. work' \in [Agents -> Works]
    BY <1>26, <2>1, NoWorkTyped DEF TypeInv, TypeOK, HandlerError, End,
       Count, agentVars
  <2>6. TypeOK'
    <3>1. orphaned' \in SUBSET JobIds
      <4>1. local[h].agent # NoAgent => local[h].agent \in Agents
        BY DEF TypeInv, TypeOK, Locals
      <4>2. PICK j \in MaybeJob : Orphan(j)
        BY <1>26, <2>2, <2>3, <4>1 DEF HandlerError
      <4>3. QED
        BY <4>2 DEF TypeInv, TypeOK, Orphan, MaybeJob, NoJob
    <3>2. hpc' \in [Handlers -> HandlerPcs] /\ apc' \in [Agents -> AgentPcs]
      BY <1>26 DEF TypeInv, TypeOK, HandlerError, End, agentVars, HandlerPcs, AgentPcs
    <3>3. calls' \in [{"retry", "cancel", "edit", "fault"} -> Nat]
      BY <1>26 DEF TypeInv, TypeOK, HandlerError, Count
    <3>4. QED
      BY <2>1, <2>4, <2>5, <3>1, <3>2, <3>3 DEF TypeInv, TypeOK
  <2>7. RowsIssued'
    BY <2>1 DEF TypeInv, RowsIssued, Issued
  <2>8. HandlersInHand'
    BY <1>26, <2>1, <2>2, <2>3, <2>4, <2>5 DEF TypeInv, TypeOK,
       HandlersInHand, HandlerPcs, JobPcs, ReportPcs, EditPcs, Issued, HandlerError,
       End, Count, agentVars
  <2>9. AgentsInHand'
    BY <1>26, <2>1, <2>2, <2>3, <2>4, <2>5 DEF TypeInv, TypeOK, AgentsInHand,
       Issued, HandlerError, End, Count, agentVars, NoWork, NoJob
  <2>10. QED
    BY <2>6, <2>7, <2>8, <2>9 DEF TypeInv
<1>27. ASSUME NEW h \in Handlers, NEW j \in JobIds, CancelRead(h, j)
      PROVE  TypeInv'
  <2>1. UNCHANGED <<status, kind, nextJob, ops, nextOp, site, apc, work,
     queued, outcomes, wins, orphaned>>
    BY <1>27 DEF CancelRead, Goto, Count, jobVars, opVars, agentVars,
       histVars
  <2>2. j \in Issued
    BY <1>27 DEF TypeInv, RowsIssued, Open, CancelRead, Goto, Count
  <2>3. [NoLocals EXCEPT !.job = j] \in Locals
    BY <2>2, NoLocalsTyped, IssuedIsJobs DEF TypeInv, Locals
  <2>4. local' \in [Handlers -> Locals]
    BY <1>27, <2>1, <2>3 DEF TypeInv, TypeOK, CancelRead, Goto, Count
  <2>5. TypeOK'
    BY <1>27, <2>1, <2>2, <2>3, <2>4 DEF TypeInv, TypeOK, HandlerPcs,
       AgentPcs, CancelRead, Goto, Count
  <2>6. RowsIssued'
    BY <2>1 DEF TypeInv, RowsIssued, Issued
  <2>7. HandlersInHand'
    BY <1>27, <2>1, <2>2, <2>3, <2>4 DEF TypeInv, TypeOK, HandlersInHand,
       HandlerPcs, JobPcs, ReportPcs, EditPcs, Issued, CancelRead, Goto, Count,
       NoLocals
  <2>8. AgentsInHand'
    BY <2>1 DEF TypeInv, AgentsInHand, Issued
  <2>9. QED
    BY <2>5, <2>6, <2>7, <2>8 DEF TypeInv
<1>28. ASSUME NEW h \in Handlers, NEW j \in JobIds, RetryRead(h, j)
      PROVE  TypeInv'
  <2>1. UNCHANGED <<status, kind, nextJob, ops, nextOp, site, apc, work,
     queued, outcomes, wins, orphaned>>
    BY <1>28 DEF RetryRead, Goto, Count, jobVars, opVars, agentVars, histVars
  <2>2. j \in Issued
    BY <1>28 DEF TypeInv, RowsIssued, RetryRead, Goto, Count
  <2>3. [NoLocals EXCEPT !.job = j] \in Locals
    BY <2>2, NoLocalsTyped, IssuedIsJobs DEF TypeInv, Locals
  <2>4. local' \in [Handlers -> Locals]
    BY <1>28, <2>1, <2>3 DEF TypeInv, TypeOK, RetryRead, Goto, Count
  <2>5. TypeOK'
    BY <1>28, <2>1, <2>2, <2>3, <2>4 DEF TypeInv, TypeOK, HandlerPcs,
       AgentPcs, RetryRead, Goto, Count
  <2>6. RowsIssued'
    BY <2>1 DEF TypeInv, RowsIssued, Issued
  <2>7. HandlersInHand'
    BY <1>28, <2>1, <2>2, <2>3, <2>4 DEF TypeInv, TypeOK, HandlersInHand,
       HandlerPcs, JobPcs, ReportPcs, EditPcs, Issued, RetryRead, Goto, Count,
       NoLocals
  <2>8. AgentsInHand'
    BY <2>1 DEF TypeInv, AgentsInHand, Issued
  <2>9. QED
    BY <2>5, <2>6, <2>7, <2>8 DEF TypeInv
<1>29. ASSUME NEW h \in Handlers, NEW k \in Kinds, NEW now \in BOOLEAN, DispatchRead(h, k, now)
      PROVE  TypeInv'
  <2>1. UNCHANGED <<status, kind, nextJob, ops, nextOp, site, apc, work,
     calls, queued, outcomes, wins, orphaned>>
    BY <1>29 DEF DispatchRead, Goto, jobVars, opVars, agentVars, histVars
  <2>2. site[k.site] \in SiteRows
    BY DEF TypeInv, TypeOK, Kinds
  <2>3. [NoLocals EXCEPT !.kind = k, !.now = now, !.row = site[k.site]] \in
     Locals
    BY <2>2, NoLocalsTyped DEF Locals
  <2>4. local' \in [Handlers -> Locals]
    BY <1>29, <2>1, <2>3 DEF TypeInv, TypeOK, DispatchRead, Goto
  <2>5. TypeOK'
    BY <1>29, <2>1, <2>2, <2>3, <2>4 DEF TypeInv, TypeOK, HandlerPcs,
       AgentPcs, DispatchRead, Goto
  <2>6. RowsIssued'
    BY <2>1 DEF TypeInv, RowsIssued, Issued
  <2>7. HandlersInHand'
    BY <1>29, <2>1, <2>2, <2>3, <2>4 DEF TypeInv, TypeOK, HandlersInHand,
       HandlerPcs, JobPcs, ReportPcs, EditPcs, Issued, DispatchRead, Goto, NoLocals
  <2>8. AgentsInHand'
    BY <2>1 DEF TypeInv, AgentsInHand, Issued
  <2>9. QED
    BY <2>5, <2>6, <2>7, <2>8 DEF TypeInv
<1>30. CASE ServerRestart
  <2>1. UNCHANGED <<status, kind, nextJob, nextOp, site, apc, work, queued,
     outcomes, wins>>
    BY <1>30 DEF ServerRestart, Count, jobVars, agentVars, histVars
  <2>2. \A g \in Handlers : OwnedBy(g) \in MaybeJob
    BY DEF TypeInv, TypeOK, OwnedBy, Locals, MaybeJob, NoJob
  <2>3. local' \in [Handlers -> Locals]
    BY <1>30, <2>1, NoLocalsTyped DEF TypeInv, TypeOK, ServerRestart, Count
  <2>4. ops' \in [JobIds -> OpRows]
    BY <1>30 DEF TypeInv, TypeOK, OpRows, Statuses, Outcomes, ServerRestart,
       Count
  <2>5. TypeOK'
    BY <1>30, <2>1, <2>2, <2>3, <2>4 DEF TypeInv, TypeOK, HandlerPcs,
       AgentPcs, ServerRestart, Count, MaybeJob, NoJob
  <2>6. RowsIssued'
    BY <2>1 DEF TypeInv, RowsIssued, Issued
  <2>7. HandlersInHand'
    BY <1>30, <2>1, <2>2, <2>3, <2>4 DEF TypeInv, TypeOK, HandlersInHand,
       HandlerPcs, JobPcs, ReportPcs, EditPcs, Issued, ServerRestart, Count
  <2>8. AgentsInHand'
    BY <2>1 DEF TypeInv, AgentsInHand, Issued
  <2>9. QED
    BY <2>5, <2>6, <2>7, <2>8 DEF TypeInv
<1>31. ASSUME NEW s \in Sites, DeleteSiteJobs(s)
      PROVE  TypeInv'
  <2>1. UNCHANGED <<kind, nextJob, ops, nextOp, site, hpc, local, apc, work,
     calls, queued, outcomes, wins, orphaned>>
    BY <1>31 DEF DeleteSiteJobs, opVars, serverVars, agentVars, histVars
  <2>2. TypeOK'
    BY <1>31, <2>1 DEF TypeInv, TypeOK, HandlerPcs, AgentPcs, DeleteSiteJobs,
       Statuses
  <2>3. RowsIssued'
    BY <1>31, <2>1 DEF TypeInv, TypeOK, RowsIssued, Issued, DeleteSiteJobs
  <2>4. HandlersInHand'
    BY <2>1 DEF TypeInv, HandlersInHand, Issued
  <2>5. AgentsInHand'
    BY <2>1 DEF TypeInv, AgentsInHand, Issued
  <2>6. QED
    BY <2>2, <2>3, <2>4, <2>5 DEF TypeInv
<1>32. CASE UNCHANGED vars
  BY <1>32 DEF vars, jobVars, opVars, serverVars, agentVars, histVars, TypeInv, TypeOK,
       RowsIssued, HandlersInHand, AgentsInHand, Issued
<1>33. QED
  BY <1>1, <1>2, <1>3, <1>4, <1>5, <1>6, <1>7, <1>8, <1>9, <1>10, <1>11,
     <1>12, <1>13, <1>14, <1>15, <1>16, <1>17, <1>18, <1>19, <1>20, <1>21,
     <1>22, <1>23, <1>24, <1>25, <1>26, <1>27, <1>28, <1>29, <1>30, <1>31,
     <1>32, <1>eu, <1>er, <1>ea
     DEF Next, HandlerStep, OperatorStep, AgentStep, Fault, UpdateRead, AssignRead, EditPcs


\* Every variable always has its type.
THEOREM TypeCorrect == Spec => []TypeOK
<1>1. TypeInv => TypeOK
  BY DEF TypeInv
<1>2. QED
  BY <1>1, TypeInvInit, TypeInvStep, PTL DEF Spec

-----------------------------------------------------------------------------
(* Claims are exclusive.  The history variable turn says which queueing of  *)
(* a job its holder claimed.  A job in the queue has, by definition, a       *)
(* queueing that nobody claimed yet, so whoever wins the compare-and-set     *)
(* holds a turn that no earlier winner holds.                                *)

\* A handler that won a job and has not passed it on.
Carries(h) == hpc[h] = "claim_reply" /\ local[h].job # NoJob

\* Turn t of job j was claimed: a newer queueing exists if j waits in the queue.
Claimable(j, t) == t <= queued[j] /\ (status[j] = "pending" => t < queued[j])

ClaimInv ==
    /\ \A a \in Agents : work[a].job # NoJob => Claimable(work[a].job, work[a].turn)
    /\ \A h \in Handlers : Carries(h) => Claimable(local[h].job, local[h].turn)
    /\ ClaimExclusive
    /\ \A a \in Agents, h \in Handlers :
          Carries(h) /\ work[a].job = local[h].job => work[a].turn # local[h].turn
    /\ \A g, h \in Handlers :
          Carries(g) /\ Carries(h) /\ local[g].job = local[h].job
              /\ local[g].turn = local[h].turn => g = h

\* No step but a claim's adds a holder of a job.
NoNewHolder ==
    /\ \A a \in Agents : work'[a].job # NoJob =>
          work'[a].job = work[a].job /\ work'[a].turn = work[a].turn
    /\ \A h \in Handlers : Carries(h)' =>
          Carries(h) /\ local'[h].job = local[h].job /\ local'[h].turn = local[h].turn

\* And jobs leave the queue, or are queued once more.
QueueGrows ==
    \A j \in Issued : /\ queued[j] <= queued'[j]
                      /\ status'[j] = "pending" =>
                            status[j] = "pending" \/ queued[j] < queued'[j]

\* A step that adds no holder of a job and queues jobs only anew preserves
\* the exclusiveness of claims.
LEMMA NoNewHolderKeepsClaims ==
    TypeInv /\ TypeInv' /\ ClaimInv /\ NoNewHolder /\ QueueGrows => ClaimInv'
<1> SUFFICES ASSUME TypeInv, TypeInv', ClaimInv, NoNewHolder, QueueGrows PROVE ClaimInv'
  OBVIOUS
<1>1. ASSUME NEW j \in Issued, NEW t \in Nat, Claimable(j, t) PROVE Claimable(j, t)'
  <2>1. queued[j] \in Nat /\ queued'[j] \in Nat
    BY IssuedIsJobs DEF TypeInv, TypeOK
  <2>2. queued[j] <= queued'[j]
        /\ (status'[j] = "pending" => status[j] = "pending" \/ queued[j] < queued'[j])
    BY DEF QueueGrows
  <2>3. QED
    BY <1>1, <2>1, <2>2 DEF Claimable
<1>2. ASSUME NEW a \in Agents, work'[a].job # NoJob
      PROVE  Claimable(work[a].job, work[a].turn)'
  <2>1. work[a].job \in Issued /\ work[a].turn \in Nat
    BY <1>2 DEF NoNewHolder, TypeInv, TypeOK, AgentsInHand, Works
  <2>2. Claimable(work[a].job, work[a].turn)
    BY <1>2 DEF NoNewHolder, ClaimInv
  <2>3. QED
    BY <1>1, <1>2, <2>1, <2>2 DEF NoNewHolder, Claimable
<1>3. ASSUME NEW h \in Handlers, Carries(h)'
      PROVE  Claimable(local[h].job, local[h].turn)'
  <2>1. local[h].job \in Issued /\ local[h].turn \in Nat
    BY <1>3 DEF NoNewHolder, TypeInv, TypeOK, HandlersInHand, Locals, Carries
  <2>2. Claimable(local[h].job, local[h].turn)
    BY <1>3 DEF NoNewHolder, ClaimInv
  <2>3. QED
    BY <1>1, <1>3, <2>1, <2>2 DEF NoNewHolder, Claimable
<1>4. ClaimExclusive'
  BY DEF NoNewHolder, ClaimInv, ClaimExclusive
<1>5. \A a \in Agents, h \in Handlers :
          Carries(h)' /\ work'[a].job = local'[h].job => work'[a].turn # local'[h].turn
  BY DEF NoNewHolder, ClaimInv, Carries
<1>6. \A g, h \in Handlers :
          Carries(g)' /\ Carries(h)' /\ local'[g].job = local'[h].job
              /\ local'[g].turn = local'[h].turn => g = h
  BY DEF NoNewHolder, ClaimInv
<1>7. QED
  BY <1>2, <1>3, <1>4, <1>5, <1>6 DEF ClaimInv

\* A step that leaves the table alone leaves the queue as it is.
LEMMA QueueKept == TypeInv /\ UNCHANGED <<status, queued>> => QueueGrows
BY IssuedIsJobs DEF TypeInv, TypeOK, QueueGrows

\* Every action but the two that move a claim is such a step.
LEMMA OtherStepsKeepClaims ==
    ASSUME TypeInv, [Next]_vars,
           ~ \E h \in Handlers : ClaimCas(h) \/ ClaimReply(h)
    PROVE  NoNewHolder /\ QueueGrows
<1>1. ASSUME NEW a \in Agents, NEW h \in Handlers, ClaimRequest(a, h)
      PROVE  NoNewHolder /\ QueueGrows
  <2>1. NoNewHolder
    BY <1>1 DEF ClaimRequest, TypeInv, TypeOK, NoNewHolder, Carries, NoWork
  <2>2. QueueGrows
    BY <1>1, QueueKept DEF ClaimRequest, jobVars, histVars
  <2>3. QED
    BY <2>1, <2>2
<1>2. ASSUME NEW a \in Agents, NEW h \in Handlers, ReportRequest(a, h)
      PROVE  NoNewHolder /\ QueueGrows
  <2>1. NoNewHolder
    BY <1>2 DEF ReportRequest, TypeInv, TypeOK, NoNewHolder, Carries
  <2>2. QueueGrows
    BY <1>2, QueueKept DEF ReportRequest, jobVars, histVars
  <2>3. QED
    BY <2>1, <2>2
<1>3. ASSUME NEW a \in Agents, Execute(a)
      PROVE  NoNewHolder /\ QueueGrows
  <2>1. NoNewHolder
    BY <1>3 DEF Execute, serverVars, TypeInv, TypeOK, NoNewHolder, Carries
  <2>2. QueueGrows
    BY <1>3, QueueKept DEF Execute, jobVars, histVars
  <2>3. QED
    BY <2>1, <2>2
<1>4. ASSUME NEW a \in Agents, ConnectionLost(a)
      PROVE  NoNewHolder /\ QueueGrows
  <2>1. NoNewHolder
    BY <1>4 DEF ConnectionLost, Abandon, serverVars, TypeInv, TypeOK, NoNewHolder,
       Carries, NoWork
  <2>2. QueueGrows
    BY <1>4, QueueKept DEF ConnectionLost, Abandon, jobVars, histVars
  <2>3. QED
    BY <2>1, <2>2
<1>5. ASSUME NEW a \in Agents, Timeout(a)
      PROVE  NoNewHolder /\ QueueGrows
  <2>1. NoNewHolder
    BY <1>5 DEF Timeout, Abandon, serverVars, TypeInv, TypeOK, NoNewHolder,
       Carries, NoWork
  <2>2. QueueGrows
    BY <1>5, QueueKept DEF Timeout, Abandon, jobVars, histVars
  <2>3. QED
    BY <2>1, <2>2
<1>6. ASSUME NEW a \in Agents, AgentCrash(a)
      PROVE  NoNewHolder /\ QueueGrows
  <2>1. NoNewHolder
    BY <1>6 DEF AgentCrash, serverVars, TypeInv, TypeOK, NoNewHolder, Carries,
       NoWork
  <2>2. QueueGrows
    BY <1>6, QueueKept DEF AgentCrash, jobVars, histVars
  <2>3. QED
    BY <2>1, <2>2
<1>7. ASSUME NEW h \in Handlers, ClaimRead(h)
      PROVE  NoNewHolder /\ QueueGrows
  <2>1. NoNewHolder
    BY <1>7 DEF ClaimRead, Goto, agentVars, TypeInv, TypeOK, NoNewHolder, Carries,
       HandlersInHand
  <2>2. QueueGrows
    BY <1>7, QueueKept DEF ClaimRead, jobVars, histVars
  <2>3. QED
    BY <2>1, <2>2
<1>8. ASSUME NEW h \in Handlers, ReportRead(h)
      PROVE  NoNewHolder /\ QueueGrows
  <2>1. NoNewHolder
    BY <1>8 DEF ReportRead, Goto, agentVars, TypeInv, TypeOK, NoNewHolder, Carries
  <2>2. QueueGrows
    BY <1>8, QueueKept DEF ReportRead, jobVars, histVars
  <2>3. QED
    BY <2>1, <2>2
<1>9. ASSUME NEW h \in Handlers, ReportCas(h)
      PROVE  NoNewHolder /\ QueueGrows
  <2>1. NoNewHolder
    BY <1>9 DEF ReportCas, ReportUpdate, Goto, agentVars, TypeInv, TypeOK,
       NoNewHolder, Carries
  <2>2. QueueGrows
    BY <1>9, IssuedIsJobs DEF ReportCas, ReportUpdate, histVars, TypeInv, TypeOK,
       QueueGrows, HandlersInHand, ReportPcs, HandlerPcs, Outcomes, Goto
  <2>3. QED
    BY <2>1, <2>2
<1>10. ASSUME NEW h \in Handlers, ReportSiteRead(h)
      PROVE  NoNewHolder /\ QueueGrows
  <2>1. NoNewHolder
    BY <1>10 DEF ReportSiteRead, Goto, agentVars, TypeInv, TypeOK, NoNewHolder,
       Carries
  <2>2. QueueGrows
    BY <1>10, QueueKept DEF ReportSiteRead, jobVars, histVars
  <2>3. QED
    BY <2>1, <2>2
<1>11. ASSUME NEW h \in Handlers, ReportSiteSave(h)
      PROVE  NoNewHolder /\ QueueGrows
  <2>1. NoNewHolder
    BY <1>11 DEF ReportSiteSave, Goto, agentVars, TypeInv, TypeOK, NoNewHolder,
       Carries
  <2>2. QueueGrows
    BY <1>11, QueueKept DEF ReportSiteSave, jobVars, histVars
  <2>3. QED
    BY <2>1, <2>2
<1>12. ASSUME NEW h \in Handlers, ReportOpRead(h)
      PROVE  NoNewHolder /\ QueueGrows
  <2>1. NoNewHolder
    BY <1>12 DEF ReportOpRead, Goto, agentVars, TypeInv, TypeOK, NoNewHolder,
       Carries
  <2>2. QueueGrows
    BY <1>12, QueueKept DEF ReportOpRead, jobVars, histVars
  <2>3. QED
    BY <2>1, <2>2
<1>13. ASSUME NEW h \in Handlers, ReportOpSave(h)
      PROVE  NoNewHolder /\ QueueGrows
  <2>1. NoNewHolder
    BY <1>13 DEF ReportOpSave, Goto, agentVars, TypeInv, TypeOK, NoNewHolder,
       Carries
  <2>2. QueueGrows
    BY <1>13, QueueKept DEF ReportOpSave, jobVars, histVars
  <2>3. QED
    BY <2>1, <2>2
<1>14. ASSUME NEW h \in Handlers, ReportReply(h)
      PROVE  NoNewHolder /\ QueueGrows
  <2>1. NoNewHolder
    BY <1>14 DEF ReportReply, End, agentVars, TypeInv, TypeOK, NoNewHolder,
       Carries, NoWork
  <2>2. QueueGrows
    BY <1>14, QueueKept DEF ReportReply, jobVars, histVars
  <2>3. QED
    BY <2>1, <2>2
<1>15. ASSUME NEW h \in Handlers, CancelSave(h)
      PROVE  NoNewHolder /\ QueueGrows
  <2>1. NoNewHolder
    BY <1>15 DEF CancelSave, End, agentVars, TypeInv, TypeOK, NoNewHolder, Carries
  <2>2. QueueGrows
    BY <1>15, IssuedIsJobs DEF CancelSave, histVars, TypeInv, TypeOK, QueueGrows
  <2>3. QED
    BY <2>1, <2>2
<1>16. ASSUME NEW h \in Handlers, RetrySave(h)
      PROVE  NoNewHolder /\ QueueGrows
  <2>1. NoNewHolder
    BY <1>16 DEF RetrySave, Goto, agentVars, TypeInv, TypeOK, NoNewHolder, Carries
  <2>2. QueueGrows
    BY <1>16, IssuedIsJobs DEF RetrySave, histVars, TypeInv, TypeOK, QueueGrows
  <2>3. QED
    BY <2>1, <2>2
<1>17. ASSUME NEW h \in Handlers, RetryOpRead(h)
      PROVE  NoNewHolder /\ QueueGrows
  <2>1. NoNewHolder
    BY <1>17 DEF RetryOpRead, Goto, End, agentVars, TypeInv, TypeOK, NoNewHolder,
       Carries
  <2>2. QueueGrows
    BY <1>17, QueueKept DEF RetryOpRead, jobVars, histVars
  <2>3. QED
    BY <2>1, <2>2
<1>18. ASSUME NEW h \in Handlers, RetryOpSave(h)
      PROVE  NoNewHolder /\ QueueGrows
  <2>1. NoNewHolder
    BY <1>18 DEF RetryOpSave, End, agentVars, TypeInv, TypeOK, NoNewHolder, Carries
  <2>2. QueueGrows
    BY <1>18, QueueKept DEF RetryOpSave, jobVars, histVars
  <2>3. QED
    BY <2>1, <2>2
<1>19. ASSUME NEW h \in Handlers, DispatchClear(h)
      PROVE  NoNewHolder /\ QueueGrows
  <2>1. NoNewHolder
    BY <1>19 DEF DispatchClear, Goto, agentVars, TypeInv, TypeOK, NoNewHolder,
       Carries
  <2>2. QueueGrows
    BY <1>19, QueueKept DEF DispatchClear, jobVars, histVars
  <2>3. QED
    BY <2>1, <2>2
<1>20. ASSUME NEW h \in Handlers, DispatchJob(h)
      PROVE  NoNewHolder /\ QueueGrows
  <2>1. NoNewHolder
    BY <1>20 DEF DispatchJob, Goto, agentVars, TypeInv, TypeOK, NoNewHolder,
       Carries, HandlersInHand
  <2>2. QueueGrows
    <3>1. nextJob \notin Issued
      BY BoundsAssumption DEF TypeInv, TypeOK, Issued
    <3>2. QED
      BY <1>20, <3>1, IssuedIsJobs DEF DispatchJob, TypeInv, TypeOK, QueueGrows
  <2>3. QED
    BY <2>1, <2>2
<1>21. ASSUME NEW h \in Handlers, DispatchOp(h)
      PROVE  NoNewHolder /\ QueueGrows
  <2>1. NoNewHolder
    BY <1>21 DEF DispatchOp, Goto, End, agentVars, TypeInv, TypeOK, NoNewHolder,
       Carries
  <2>2. QueueGrows
    BY <1>21, QueueKept DEF DispatchOp, jobVars, histVars
  <2>3. QED
    BY <2>1, <2>2
<1>22. ASSUME NEW h \in Handlers, ExecSave(h)
      PROVE  NoNewHolder /\ QueueGrows
  <2>1. NoNewHolder
    BY <1>22 DEF ExecSave, Goto, agentVars, TypeInv, TypeOK, NoNewHolder, Carries
  <2>2. QueueGrows
    BY <1>22, IssuedIsJobs DEF ExecSave, histVars, TypeInv, TypeOK, QueueGrows
  <2>3. QED
    BY <2>1, <2>2
<1>23. ASSUME NEW h \in Handlers, ExecRun(h)
      PROVE  NoNewHolder /\ QueueGrows
  <2>1. NoNewHolder
    BY <1>23 DEF ExecRun, Goto, agentVars, TypeInv, TypeOK, NoNewHolder, Carries
  <2>2. QueueGrows
    BY <1>23, QueueKept DEF ExecRun, jobVars, histVars
  <2>3. QED
    BY <2>1, <2>2
<1>eu. ASSUME NEW h \in Handlers, ExecUnavailable(h)
      PROVE  NoNewHolder /\ QueueGrows
  <2>1. NoNewHolder
    BY <1>eu DEF ExecUnavailable, End, agentVars, TypeInv, TypeOK, NoNewHolder, Carries
  <2>2. QueueGrows
    BY <1>eu, QueueKept DEF ExecUnavailable, jobVars, histVars
  <2>3. QED
    BY <2>1, <2>2
<1>er. ASSUME NEW h \in Handlers, NEW s \in Sites, UpdateRead(h, s) \/ AssignRead(h, s)
      PROVE  NoNewHolder /\ QueueGrows
  <2>1. NoNewHolder
    BY <1>er DEF UpdateRead, AssignRead, EditRead, Goto, agentVars, TypeInv, TypeOK, NoNewHolder, Carries
  <2>2. QueueGrows
    BY <1>er, QueueKept DEF UpdateRead, AssignRead, EditRead, jobVars, histVars
  <2>3. QED
    BY <2>1, <2>2
<1>es. ASSUME NEW h \in Handlers, NEW row, NEW from, EditSave(h, from, row)
      PROVE  NoNewHolder /\ QueueGrows
  <2>1. NoNewHolder
    BY <1>es DEF EditSave, End, agentVars, TypeInv, TypeOK, NoNewHolder, Carries
  <2>2. QueueGrows
    BY <1>es, QueueKept DEF EditSave, jobVars, histVars
  <2>3. QED
    BY <2>1, <2>2
<1>24. ASSUME NEW h \in Handlers, HandlerError(h)
      PROVE  NoNewHolder /\ QueueGrows
  <2>1. NoNewHolder
    BY <1>24 DEF HandlerError, End, agentVars, TypeInv, TypeOK, NoNewHolder,
       Carries, NoWork
  <2>2. QueueGrows
    BY <1>24, QueueKept DEF HandlerError, jobVars, histVars
  <2>3. QED
    BY <2>1, <2>2
<1>25. ASSUME NEW h \in Handlers, NEW j \in JobIds, CancelRead(h, j)
      PROVE  NoNewHolder /\ QueueGrows
  <2>1. NoNewHolder
    BY <1>25 DEF CancelRead, Goto, agentVars, TypeInv, TypeOK, NoNewHolder, Carries
  <2>2. QueueGrows
    BY <1>25, QueueKept DEF CancelRead, jobVars, histVars
  <2>3. QED
    BY <2>1, <2>2
<1>26. ASSUME NEW h \in Handlers, NEW j \in JobIds, RetryRead(h, j)
      PROVE  NoNewHolder /\ QueueGrows
  <2>1. NoNewHolder
    BY <1>26 DEF RetryRead, Goto, agentVars, TypeInv, TypeOK, NoNewHolder, Carries
  <2>2. QueueGrows
    BY <1>26, QueueKept DEF RetryRead, jobVars, histVars
  <2>3. QED
    BY <2>1, <2>2
<1>27. ASSUME NEW h \in Handlers, NEW k \in Kinds, NEW now \in BOOLEAN, DispatchRead(h, k, now)
      PROVE  NoNewHolder /\ QueueGrows
  <2>1. NoNewHolder
    BY <1>27 DEF DispatchRead, Goto, agentVars, TypeInv, TypeOK, NoNewHolder,
       Carries
  <2>2. QueueGrows
    BY <1>27, QueueKept DEF DispatchRead, jobVars, histVars
  <2>3. QED
    BY <2>1, <2>2
<1>28. ASSUME ServerRestart
      PROVE  NoNewHolder /\ QueueGrows
  <2>1. NoNewHolder
    BY <1>28 DEF ServerRestart, agentVars, TypeInv, TypeOK, NoNewHolder, Carries
  <2>2. QueueGrows
    BY <1>28, QueueKept DEF ServerRestart, jobVars, histVars
  <2>3. QED
    BY <2>1, <2>2
<1>29. ASSUME NEW s \in Sites, DeleteSiteJobs(s)
      PROVE  NoNewHolder /\ QueueGrows
  <2>1. NoNewHolder
    BY <1>29 DEF DeleteSiteJobs, serverVars, agentVars, TypeInv, TypeOK,
       NoNewHolder, Carries
  <2>2. QueueGrows
    BY <1>29, IssuedIsJobs DEF DeleteSiteJobs, histVars, TypeInv, TypeOK,
       QueueGrows
  <2>3. QED
    BY <2>1, <2>2
<1>30. ASSUME UNCHANGED vars
      PROVE  NoNewHolder /\ QueueGrows
  <2>1. NoNewHolder
    BY <1>30 DEF vars, serverVars, agentVars, NoNewHolder, Carries
  <2>2. QueueGrows
    BY <1>30, QueueKept DEF vars, jobVars, histVars
  <2>3. QED
    BY <2>1, <2>2
<1>31. QED
  BY <1>1, <1>2, <1>3, <1>4, <1>5, <1>6, <1>7, <1>8, <1>9, <1>10, <1>11, <1>12,
     <1>13, <1>14, <1>15, <1>16, <1>17, <1>18, <1>19, <1>20, <1>21, <1>22, <1>23,
     <1>24, <1>25, <1>26, <1>27, <1>28, <1>29, <1>30, <1>eu, <1>er, <1>es DEF Next, HandlerStep,
     OperatorStep, AgentStep, Fault, UpdateSave, AssignSave

\* The compare-and-set of claim_next_pending_job: its winner holds a turn
\* that nobody else holds, because the job was pending.
LEMMA ClaimCasKeepsClaims ==
    ASSUME TypeInv, TypeInv', ClaimInv, NEW h \in Handlers, ClaimCas(h)
    PROVE  ClaimInv'
<1> DEFINE j == local[h].job
<1>1. j \in Issued /\ j \in JobIds /\ queued[j] \in Nat /\ j # NoJob
  BY IssuedIsJobs DEF ClaimCas, Goto, TypeInv, TypeOK, HandlersInHand, HandlerPcs, JobPcs,
     JobIds, NoJob
<1>2. UNCHANGED <<apc, work, queued, nextJob>>
  BY DEF ClaimCas, agentVars, histVars
<1>3. hpc[h] = "claim_cas" /\ hpc' = [hpc EXCEPT ![h] = "claim_reply"]
  BY DEF ClaimCas, Goto
<1>4. CASE status[j] # "pending"
  <2>1. status' = status /\ local' = [local EXCEPT ![h].job = NoJob]
    BY <1>4 DEF ClaimCas
  <2>2. NoNewHolder
    BY <1>2, <1>3, <2>1 DEF TypeInv, TypeOK, NoNewHolder, Carries, Locals
  <2>3. QueueGrows
    BY <1>2, <2>1, QueueKept
  <2>4. QED
    BY <2>2, <2>3, NoNewHolderKeepsClaims
<1>5. CASE status[j] = "pending"
  <2>1. /\ status' = [status EXCEPT ![j] = "running"]
        /\ local' = [local EXCEPT ![h].turn = queued[j]]
    BY <1>5 DEF ClaimCas
  <2>2. local'[h].job = j /\ local'[h].turn = queued[j]
    BY <2>1 DEF TypeInv, TypeOK, Locals
  <2>3. \A g \in Handlers \ {h} : local'[g] = local[g] /\ (Carries(g)' <=> Carries(g))
    BY <1>3, <2>1 DEF TypeInv, TypeOK, Carries
  <2>4. \A i \in Issued, t \in Nat : Claimable(i, t) => Claimable(i, t)'
    BY <1>1, <1>2, <2>1, IssuedIsJobs DEF TypeInv, TypeOK, Claimable
  <2>5. \A a \in Agents : work[a].job \in Issued \cup {NoJob} /\ work[a].turn \in Nat
    BY DEF TypeInv, TypeOK, AgentsInHand, Works
  <2>6. \A g \in Handlers : local[g].turn \in Nat /\ (Carries(g) => local[g].job \in Issued)
    BY DEF TypeInv, TypeOK, HandlersInHand, Locals, Carries
  <2>7. \A a \in Agents : work[a].job = j => work[a].turn < queued[j]
    BY <1>1, <1>5 DEF ClaimInv, Claimable
  <2>8. \A g \in Handlers \ {h} : Carries(g) /\ local[g].job = j => local[g].turn < queued[j]
    BY <1>5 DEF ClaimInv, Claimable
  <2>9. \A a \in Agents : work'[a].job # NoJob => Claimable(work[a].job, work[a].turn)'
    BY <1>2, <2>4, <2>5 DEF ClaimInv, Claimable
  <2>10. ASSUME NEW g \in Handlers, Carries(g)' PROVE Claimable(local[g].job, local[g].turn)'
    <3>1. CASE g = h
      BY <1>1, <1>2, <2>1, <2>2, <3>1 DEF TypeInv, TypeOK, Claimable
    <3>2. CASE g # h
      BY <2>3, <2>4, <2>6, <2>10, <3>2 DEF ClaimInv, Claimable
    <3>3. QED
      BY <3>1, <3>2
  <2>11. ClaimExclusive'
    BY <1>2 DEF ClaimInv, ClaimExclusive
  <2>12. ASSUME NEW a \in Agents, NEW g \in Handlers, Carries(g)', work'[a].job = local'[g].job
         PROVE  work'[a].turn # local'[g].turn
    <3>1. CASE g = h
      BY <1>1, <1>2, <2>2, <2>5, <2>7, <2>12, <3>1
    <3>2. CASE g # h
      BY <1>2, <2>3, <2>12, <3>2 DEF ClaimInv
    <3>3. QED
      BY <3>1, <3>2
  <2>13. ASSUME NEW f \in Handlers, NEW g \in Handlers, Carries(f)', Carries(g)',
                local'[f].job = local'[g].job, local'[f].turn = local'[g].turn
         PROVE  f = g
    <3>1. CASE f # h /\ g # h
      BY <2>3, <2>13, <3>1 DEF ClaimInv
    <3>2. CASE f = h /\ g # h
      BY <1>1, <2>2, <2>3, <2>6, <2>8, <2>13, <3>2
    <3>3. CASE f # h /\ g = h
      BY <1>1, <2>2, <2>3, <2>6, <2>8, <2>13, <3>3
    <3>4. QED
      BY <3>1, <3>2, <3>3
  <2>14. QED
    BY <2>9, <2>10, <2>11, <2>12, <2>13 DEF ClaimInv
<1>6. QED
  BY <1>4, <1>5

\* The answer of a claim moves a holding from the handler to the agent.
LEMMA ClaimReplyKeepsClaims ==
    ASSUME TypeInv, TypeInv', ClaimInv, NEW h \in Handlers, ClaimReply(h)
    PROVE  ClaimInv'
<1> DEFINE a == local[h].agent
<1>1. UNCHANGED <<status, queued, nextJob>>
  BY DEF ClaimReply, jobVars, histVars
<1>2. /\ hpc[h] = "claim_reply" /\ hpc' = [hpc EXCEPT ![h] = "idle"]
      /\ local' = [local EXCEPT ![h] = NoLocals]
  BY DEF ClaimReply, End
<1>3. \A g \in Handlers : Carries(g)' => g # h /\ Carries(g) /\ local'[g] = local[g]
  BY <1>2 DEF TypeInv, TypeOK, Carries
<1> DEFINE w == [NoWork EXCEPT !.job = local[h].job, !.turn = local[h].turn]
<1>4. w.job = local[h].job /\ w.turn = local[h].turn
  BY DEF NoWork
<1>5. IF Waits(a, h) THEN work' = [work EXCEPT ![a] = w] ELSE work' = work
  BY DEF ClaimReply, agentVars
<1> HIDE DEF w
<1>6. CASE ~Waits(a, h) \/ a \notin Agents \/ local[h].job = NoJob
  <2>1. \A b \in Agents : work'[b].job # NoJob => work'[b] = work[b]
    BY <1>6, <1>4, <1>5 DEF TypeInv, TypeOK
  <2>2. NoNewHolder
    BY <1>3, <2>1 DEF NoNewHolder
  <2>3. QED
    BY <1>1, <2>2, QueueKept, NoNewHolderKeepsClaims
<1>7. CASE Waits(a, h) /\ a \in Agents /\ local[h].job # NoJob
  <2>1. work'[a].job = local[h].job /\ work'[a].turn = local[h].turn
    BY <1>7, <1>4, <1>5 DEF TypeInv, TypeOK
  <2>2. \A b \in Agents \ {a} : work'[b] = work[b]
    BY <1>7, <1>5 DEF TypeInv, TypeOK
  <2>3. Carries(h)
    BY <1>2, <1>7 DEF Carries
  <2>4. \A i, t : Claimable(i, t) <=> Claimable(i, t)'
    BY <1>1 DEF Claimable
  <2>5. \A b \in Agents : work'[b].job # NoJob => Claimable(work[b].job, work[b].turn)'
    BY <1>1, <2>1, <2>2, <2>3 DEF ClaimInv, Claimable
  <2>6. \A g \in Handlers : Carries(g)' => Claimable(local[g].job, local[g].turn)'
    BY <1>1, <1>3 DEF ClaimInv, Claimable
  <2>7. ClaimExclusive'
    BY <2>1, <2>2, <2>3 DEF ClaimInv, ClaimExclusive
  <2>8. \A b \in Agents, g \in Handlers :
            Carries(g)' /\ work'[b].job = local'[g].job => work'[b].turn # local'[g].turn
    BY <1>3, <2>1, <2>2, <2>3 DEF ClaimInv
  <2>9. \A f, g \in Handlers :
            Carries(f)' /\ Carries(g)' /\ local'[f].job = local'[g].job
                /\ local'[f].turn = local'[g].turn => f = g
    BY <1>3 DEF ClaimInv
  <2>10. QED
    BY <2>5, <2>6, <2>7, <2>8, <2>9 DEF ClaimInv
<1>8. QED
  BY <1>6, <1>7

\* Nobody holds a job at first.
LEMMA ClaimInvInit == Init => ClaimInv
BY DEF Init, ClaimInv, ClaimExclusive, Carries, NoWork, NoJob

\* ClaimInv is inductive relative to the type invariant.
LEMMA ClaimInvStep == TypeInv /\ TypeInv' /\ ClaimInv /\ [Next]_vars => ClaimInv'
<1> SUFFICES ASSUME TypeInv, TypeInv', ClaimInv, [Next]_vars PROVE ClaimInv'
  OBVIOUS
<1>1. CASE \E h \in Handlers : ClaimCas(h) \/ ClaimReply(h)
  BY <1>1, ClaimCasKeepsClaims, ClaimReplyKeepsClaims
<1>2. CASE ~ \E h \in Handlers : ClaimCas(h) \/ ClaimReply(h)
  BY <1>2, OtherStepsKeepClaims, NoNewHolderKeepsClaims
<1>3. QED
  BY <1>1, <1>2

\* Two agents never work on the same queueing of a job.
THEOREM ClaimsAreExclusive == Spec => []ClaimExclusive
<1>1. TypeInv /\ ClaimInv => ClaimExclusive
  BY DEF ClaimInv
<1>2. TypeInv /\ ClaimInv /\ [Next]_vars => (TypeInv /\ ClaimInv)'
  BY TypeInvStep, ClaimInvStep
<1>3. QED
  BY <1>1, <1>2, TypeInvInit, ClaimInvInit, PTL DEF Spec

-----------------------------------------------------------------------------
(* Outcomes.  The service implements the ledger as long as nobody uses the   *)
(* server's own executor: _execute_job_sync marks a job running without a    *)
(* condition, so a job that an agent settled meanwhile would be open again.  *)

NowInv ==
    \A h \in Handlers : ~local[h].now /\ hpc[h] \notin {"exec_save", "exec_run"}

\* Where execute_now is not used, the fallback never starts.
LEMMA NowInvStep ==
    ASSUME ~ExecuteNow, TypeInv, NowInv, [Next]_vars PROVE NowInv'
<1>1. ASSUME NEW a \in Agents, NEW h \in Handlers, ClaimRequest(a, h)
      PROVE  NowInv'
  BY <1>1 DEF ClaimRequest, NoLocals, TypeInv, TypeOK, NowInv, Locals
<1>2. ASSUME NEW a \in Agents, NEW h \in Handlers, ReportRequest(a, h)
      PROVE  NowInv'
  BY <1>2 DEF ReportRequest, NoLocals, TypeInv, TypeOK, NowInv, Locals
<1>3. ASSUME NEW h \in Handlers, ClaimRead(h)
      PROVE  NowInv'
  BY <1>3 DEF ClaimRead, Goto, TypeInv, TypeOK, NowInv, Locals
<1>4. ASSUME NEW h \in Handlers, ReportRead(h)
      PROVE  NowInv'
  BY <1>4 DEF ReportRead, Goto, TypeInv, TypeOK, NowInv, Locals
<1>5. ASSUME NEW h \in Handlers, ReportCas(h)
      PROVE  NowInv'
  BY <1>5 DEF ReportCas, ReportUpdate, Goto, TypeInv, TypeOK, NowInv, Locals
<1>6. ASSUME NEW h \in Handlers, ReportSiteRead(h)
      PROVE  NowInv'
  BY <1>6 DEF ReportSiteRead, Goto, TypeInv, TypeOK, NowInv, Locals
<1>7. ASSUME NEW h \in Handlers, ReportSiteSave(h)
      PROVE  NowInv'
  BY <1>7 DEF ReportSiteSave, Goto, TypeInv, TypeOK, NowInv, Locals
<1>8. ASSUME NEW h \in Handlers, ReportOpRead(h)
      PROVE  NowInv'
  BY <1>8 DEF ReportOpRead, Goto, TypeInv, TypeOK, NowInv, Locals
<1>9. ASSUME NEW h \in Handlers, ReportOpSave(h)
      PROVE  NowInv'
  BY <1>9 DEF ReportOpSave, Goto, TypeInv, TypeOK, NowInv, Locals
<1>10. ASSUME NEW h \in Handlers, ReportReply(h)
      PROVE  NowInv'
  BY <1>10 DEF ReportReply, End, NoLocals, TypeInv, TypeOK, NowInv, Locals
<1>11. ASSUME NEW h \in Handlers, CancelSave(h)
      PROVE  NowInv'
  BY <1>11 DEF CancelSave, End, NoLocals, TypeInv, TypeOK, NowInv, Locals
<1>12. ASSUME NEW h \in Handlers, RetrySave(h)
      PROVE  NowInv'
  BY <1>12 DEF RetrySave, Goto, TypeInv, TypeOK, NowInv, Locals
<1>13. ASSUME NEW h \in Handlers, RetryOpRead(h)
      PROVE  NowInv'
  BY <1>13 DEF RetryOpRead, Goto, End, NoLocals, TypeInv, TypeOK, NowInv, Locals
<1>14. ASSUME NEW h \in Handlers, RetryOpSave(h)
      PROVE  NowInv'
  BY <1>14 DEF RetryOpSave, End, NoLocals, TypeInv, TypeOK, NowInv, Locals
<1>15. ASSUME NEW h \in Handlers, DispatchClear(h)
      PROVE  NowInv'
  BY <1>15 DEF DispatchClear, Goto, TypeInv, TypeOK, NowInv, Locals
<1>16. ASSUME NEW h \in Handlers, DispatchJob(h)
      PROVE  NowInv'
  BY <1>16 DEF DispatchJob, Goto, TypeInv, TypeOK, NowInv, Locals
<1>17. ASSUME NEW h \in Handlers, DispatchOp(h)
      PROVE  NowInv'
  BY <1>17 DEF DispatchOp, Goto, End, NoLocals, TypeInv, TypeOK, NowInv, Locals
<1>18. ASSUME NEW h \in Handlers, ExecSave(h)
      PROVE  NowInv'
  BY <1>18 DEF ExecSave, Goto, TypeInv, TypeOK, NowInv, Locals
<1>19. ASSUME NEW h \in Handlers, ExecRun(h)
      PROVE  NowInv'
  BY <1>19 DEF ExecRun, Goto, TypeInv, TypeOK, NowInv, Locals
<1>eu. ASSUME NEW h \in Handlers, ExecUnavailable(h)
      PROVE  NowInv'
  BY <1>eu DEF ExecUnavailable, End, NoLocals, TypeInv, TypeOK, NowInv, Locals
<1>er. ASSUME NEW h \in Handlers, NEW s \in Sites, UpdateRead(h, s) \/ AssignRead(h, s)
      PROVE  NowInv'
  <2>1. PICK to \in EditPcs : EditRead(h, s, to)
    BY <1>er DEF UpdateRead, AssignRead, EditPcs
  <2>2. /\ local' = [local EXCEPT ![h] = [NoLocals EXCEPT !.site = s, !.row = site[s]]]
        /\ hpc' = [hpc EXCEPT ![h] = to]
    BY <2>1 DEF EditRead, Goto
  <2>3. [NoLocals EXCEPT !.site = s, !.row = site[s]].now = FALSE
    BY DEF NoLocals
  <2>4. QED
    BY <2>2, <2>3 DEF TypeInv, TypeOK, NowInv, EditPcs
<1>es. ASSUME NEW h \in Handlers, NEW row, NEW from, EditSave(h, from, row)
      PROVE  NowInv'
  BY <1>es DEF EditSave, End, NoLocals, TypeInv, TypeOK, NowInv, Locals
<1>20. ASSUME NEW h \in Handlers, HandlerError(h)
      PROVE  NowInv'
  BY <1>20 DEF HandlerError, End, NoLocals, TypeInv, TypeOK, NowInv, Locals
<1>21. ASSUME NEW h \in Handlers, NEW j \in JobIds, CancelRead(h, j)
      PROVE  NowInv'
  BY <1>21 DEF CancelRead, Goto, NoLocals, TypeInv, TypeOK, NowInv, Locals
<1>22. ASSUME NEW h \in Handlers, NEW j \in JobIds, RetryRead(h, j)
      PROVE  NowInv'
  BY <1>22 DEF RetryRead, Goto, NoLocals, TypeInv, TypeOK, NowInv, Locals
<1>23. ASSUME NEW h \in Handlers, NEW k \in Kinds, NEW now \in BOOLEAN, DispatchRead(h, k, now)
      PROVE  NowInv'
  BY <1>23 DEF DispatchRead, Goto, NoLocals, TypeInv, TypeOK, NowInv, Locals
<1>24. ASSUME ServerRestart
      PROVE  NowInv'
  BY <1>24 DEF ServerRestart, NoLocals, TypeInv, TypeOK, NowInv, Locals
<1>25. ASSUME NEW h \in Handlers, ClaimCas(h)
      PROVE  NowInv'
  BY <1>25 DEF ClaimCas, Goto, TypeInv, TypeOK, NowInv, Locals
<1>26. ASSUME NEW h \in Handlers, ClaimReply(h)
      PROVE  NowInv'
  BY <1>26 DEF ClaimReply, End, NoLocals, TypeInv, TypeOK, NowInv, Locals
<1>27. ASSUME UNCHANGED <<hpc, local>>
      PROVE  NowInv'
  BY <1>27 DEF NowInv
<1>28. QED
  BY <1>1, <1>2, <1>3, <1>4, <1>5, <1>6, <1>7, <1>8, <1>9, <1>10, <1>11, <1>12,
     <1>13, <1>14, <1>15, <1>16, <1>17, <1>18, <1>19, <1>20, <1>21, <1>22, <1>23,
     <1>24, <1>25, <1>26, <1>27, <1>eu, <1>er, <1>es
     DEF Next, HandlerStep, OperatorStep, AgentStep, UpdateSave, AssignSave, Fault, vars, serverVars, Execute, ConnectionLost, Timeout, AgentCrash,
     DeleteSiteJobs

\* A job id that was not handed out yet was never queued.
FreshIds == \A j \in JobIds \ Issued : queued[j] = 0

\* The phase that a status stands for.
PhaseOf(s) == IF s \in Outcomes THEN "closed" ELSE s

\* The invariant of the abstract ledger is inductive.
LEMMA LedgerInvStep ==
    ASSUME TypeInv, TypeInv', Ledger!LedgerInv, [Ledger!LedgerNext]_(Ledger!ledgerVars)
    PROVE  Ledger!LedgerInv'
<1> DEFINE ph(j) == PhaseOf(status[j])
           Ok(j) == outcomes[j] <= queued[j] /\ (ph(j) \in Open => outcomes[j] < queued[j])
<1>1. \A j \in JobIds : queued[j] \in Nat /\ outcomes[j] \in Nat
  BY DEF TypeInv, TypeOK
<1>2. Ledger!LedgerInv <=> \A j \in JobIds : Ok(j)
  BY DEF Ledger!LedgerInv, PhaseOf, Open
<1>3. Ledger!LedgerInv' <=> \A j \in JobIds : Ok(j)'
  BY DEF Ledger!LedgerInv, PhaseOf, Open
<1>4. ASSUME NEW i \in JobIds, Ledger!Queue(i) PROVE \A j \in JobIds : Ok(j)'
  <2>1. /\ outcomes' = outcomes /\ queued' = [queued EXCEPT ![i] = @ + 1]
        /\ \A j \in JobIds \ {i} : ph(j)' = ph(j)
    BY <1>4 DEF Ledger!Queue, PhaseOf
  <2>2. QED
    BY <1>1, <1>2, <2>1 DEF TypeInv, TypeOK
<1>5. ASSUME NEW i \in JobIds, Ledger!Take(i) PROVE \A j \in JobIds : Ok(j)'
  <2>1. /\ outcomes' = outcomes /\ queued' = queued /\ ph(i) \in Open
        /\ \A j \in JobIds \ {i} : ph(j)' = ph(j)
    BY <1>5 DEF Ledger!Take, PhaseOf, Open
  <2>2. QED
    BY <1>2, <2>1
<1>6. ASSUME NEW i \in JobIds, Ledger!Close(i) PROVE \A j \in JobIds : Ok(j)'
  <2>1. /\ outcomes' = [outcomes EXCEPT ![i] = @ + 1] /\ queued' = queued
        /\ outcomes[i] < queued[i] /\ ph(i)' \notin Open
        /\ \A j \in JobIds \ {i} : ph(j)' = ph(j)
    BY <1>6 DEF Ledger!Close, PhaseOf, Open
  <2>2. QED
    BY <1>1, <1>2, <2>1 DEF TypeInv, TypeOK
<1>7. ASSUME NEW i \in JobIds, Ledger!Withdraw(i) PROVE \A j \in JobIds : Ok(j)'
  <2>1. /\ outcomes' = outcomes /\ queued' = queued /\ ph(i)' \notin Open
        /\ \A j \in JobIds \ {i} : ph(j)' = ph(j)
    BY <1>7 DEF Ledger!Withdraw, PhaseOf, Open
  <2>2. QED
    BY <1>2, <2>1
<1>8. ASSUME NEW S \in SUBSET JobIds, Ledger!Forget(S) PROVE \A j \in JobIds : Ok(j)'
  <2>1. /\ outcomes' = outcomes /\ queued' = queued
        /\ \A j \in JobIds : ph(j)' = ph(j) \/ ph(j)' \notin Open
    BY <1>8 DEF Ledger!Forget, PhaseOf, Open
  <2>2. QED
    BY <1>2, <2>1
<1>9. ASSUME UNCHANGED (Ledger!ledgerVars) PROVE Ledger!LedgerInv'
  BY <1>9 DEF Ledger!LedgerInv, Ledger!ledgerVars
<1>10. QED
  BY <1>3, <1>4, <1>5, <1>6, <1>7, <1>8, <1>9 DEF Ledger!LedgerNext

\* The steps that touch the job table, and no others.
TableStep ==
    \/ \E h \in Handlers : \/ ClaimCas(h) \/ ReportCas(h) \/ CancelSave(h) \/ RetrySave(h)
                           \/ DispatchJob(h) \/ ExecSave(h)
    \/ \E s \in Sites : DeleteSiteJobs(s)

\* All other steps leave the job table and its history alone.
LEMMA OtherStepsKeepTable ==
    ASSUME [Next]_vars, ~TableStep
    PROVE  UNCHANGED <<status, queued, outcomes, nextJob>>
<1>1. ASSUME NEW h \in Handlers, HandlerStep(h)
      PROVE  UNCHANGED <<status, queued, outcomes, nextJob>>
  BY <1>1 DEF TableStep, HandlerStep, ClaimRead, ClaimReply, ReportRead, ReportSiteRead,
     ReportSiteSave, ReportOpRead, ReportOpSave, ReportReply, RetryOpRead, RetryOpSave,
     DispatchClear, DispatchOp, ExecRun, ExecUnavailable, UpdateSave, AssignSave, EditSave, jobVars, histVars
<1>2. ASSUME NEW h \in Handlers, OperatorStep(h)
      PROVE  UNCHANGED <<status, queued, outcomes, nextJob>>
  BY <1>2 DEF OperatorStep, CancelRead, RetryRead, DispatchRead, UpdateRead, AssignRead, EditRead,
     jobVars, histVars
<1>3. ASSUME NEW a \in Agents, AgentStep(a)
      PROVE  UNCHANGED <<status, queued, outcomes, nextJob>>
  BY <1>3 DEF AgentStep, ClaimRequest, ReportRequest, Execute, ConnectionLost, jobVars, histVars
<1>4. ASSUME Fault PROVE UNCHANGED <<status, queued, outcomes, nextJob>>
  BY <1>4 DEF Fault, Timeout, AgentCrash, HandlerError, ServerRestart, jobVars, histVars
<1>5. ASSUME UNCHANGED vars PROVE UNCHANGED <<status, queued, outcomes, nextJob>>
  BY <1>5 DEF vars, jobVars, histVars
<1>6. QED
  BY <1>1, <1>2, <1>3, <1>4, <1>5 DEF Next, TableStep

\* Ids not handed out yet stay unused.
LEMMA FreshIdsStep ==
    ASSUME TypeInv, TypeInv', FreshIds, [Next]_vars PROVE FreshIds'
<1>1. CASE ~TableStep
  BY <1>1, OtherStepsKeepTable DEF FreshIds, Issued
<1>2. ASSUME NEW h \in Handlers, DispatchJob(h) PROVE FreshIds'
  <2>1. nextJob \in Nat /\ nextJob' = nextJob + 1 /\ queued' = [queued EXCEPT ![nextJob] = 1]
    BY <1>2, BoundsAssumption DEF DispatchJob, TypeInv, TypeOK
  <2>2. Issued' = Issued \cup {nextJob}
    BY <2>1, BoundsAssumption DEF Issued, TypeInv, TypeOK
  <2>3. QED
    BY <2>1, <2>2 DEF FreshIds, TypeInv, TypeOK
<1>3. ASSUME NEW h \in Handlers, RetrySave(h) PROVE FreshIds'
  <2>1. local[h].job \in Issued /\ nextJob' = nextJob
    BY <1>3 DEF RetrySave, Goto, TypeInv, HandlersInHand, HandlerPcs, JobPcs
  <2>2. \A j \in JobIds \ {local[h].job} : queued'[j] = queued[j]
    BY <1>3 DEF RetrySave, TypeInv, TypeOK
  <2>3. QED
    BY <2>1, <2>2 DEF FreshIds, Issued
<1>4. ASSUME NEW h \in Handlers,
             ClaimCas(h) \/ ReportCas(h) \/ CancelSave(h) \/ ExecSave(h)
      PROVE  FreshIds'
  BY <1>4 DEF ClaimCas, ReportCas, ReportUpdate, CancelSave, ExecSave, histVars, FreshIds, Issued
<1>5. ASSUME NEW s \in Sites, DeleteSiteJobs(s) PROVE FreshIds'
  BY <1>5 DEF DeleteSiteJobs, histVars, FreshIds, Issued
<1>6. QED
  BY <1>1, <1>2, <1>3, <1>4, <1>5 DEF TableStep

Phase == [j \in JobIds |-> IF status[j] \in Outcomes THEN "closed" ELSE status[j]]

\* How an update of one status column shows in the ledger.
LEMMA PhaseUpdate ==
    ASSUME TypeInv, NEW i \in JobIds, NEW s, status' = [status EXCEPT ![i] = s]
    PROVE  Phase' = [Phase EXCEPT ![i] = IF s \in Outcomes THEN "closed" ELSE s]
BY DEF Phase, TypeInv, TypeOK

\* The actions of the ledger, applied to the mapped variables, are its steps.
LEMMA LedgerSteps ==
    /\ \A j \in JobIds : Ledger!Queue(j) \/ Ledger!Take(j) \/ Ledger!Close(j) \/ Ledger!Withdraw(j)
          => [Ledger!LedgerNext]_(Ledger!ledgerVars)
    /\ \A S \in SUBSET JobIds : Ledger!Forget(S) => [Ledger!LedgerNext]_(Ledger!ledgerVars)
BY DEF Ledger!LedgerNext

\* Step simulation: every action of the service is a step of the ledger, or
\* stutters.
LEMMA StepIsLedgerStep ==
    ASSUME TypeInv, NowInv, FreshIds, Ledger!LedgerInv, [Next]_vars
    PROVE  [Ledger!LedgerNext]_(Ledger!ledgerVars)
<1>1. ASSUME UNCHANGED <<status, queued, outcomes>>
      PROVE  [Ledger!LedgerNext]_(Ledger!ledgerVars)
  BY <1>1 DEF Ledger!ledgerVars
<1>2. ASSUME NEW h \in Handlers, ClaimCas(h)
      PROVE  [Ledger!LedgerNext]_(Ledger!ledgerVars)
  <2>1. PICK j \in JobIds : j = local[h].job
    BY <1>2, IssuedIsJobs DEF ClaimCas, Goto, TypeInv, HandlersInHand, HandlerPcs, JobPcs
  <2>2. CASE status[j] = "pending"
    <3>1. Phase' = [Phase EXCEPT ![j] = "running"]
      BY <1>2, <2>1, <2>2, PhaseUpdate DEF ClaimCas, Outcomes
    <3>2. Ledger!Take(j)
      BY <1>2, <2>1, <2>2, <3>1 DEF ClaimCas, histVars, Ledger!Take, Phase, Outcomes
    <3>3. QED
      BY <3>2, LedgerSteps
  <2>3. CASE status[j] # "pending"
    BY <1>1, <1>2, <2>1, <2>3 DEF ClaimCas, histVars
  <2>4. QED
    BY <2>2, <2>3
<1>3. ASSUME NEW h \in Handlers, ReportCas(h)
      PROVE  [Ledger!LedgerNext]_(Ledger!ledgerVars)
  <2>1. PICK j \in JobIds : j = local[h].job /\ local[h].res \in Outcomes
    BY <1>3, IssuedIsJobs DEF ReportCas, ReportUpdate, TypeInv, HandlersInHand, HandlerPcs,
       JobPcs, ReportPcs
  <2>2. CASE status[j] \in Open
    <3>1. outcomes[j] < queued[j]
      BY <2>1, <2>2 DEF Ledger!LedgerInv, Open, Outcomes
    <3>2. Phase' = [Phase EXCEPT ![j] = "closed"]
      BY <1>3, <2>1, <2>2, PhaseUpdate DEF ReportCas, ReportUpdate
    <3>3. Ledger!Close(j)
      BY <1>3, <2>1, <2>2, <3>1, <3>2
      DEF ReportCas, ReportUpdate, Ledger!Close, Phase, Open, Outcomes
    <3>4. QED
      BY <3>3, LedgerSteps
  <2>3. CASE status[j] \notin Open
    BY <1>1, <1>3, <2>1, <2>3 DEF ReportCas, ReportUpdate
  <2>4. QED
    BY <2>2, <2>3
<1>4. ASSUME NEW h \in Handlers, CancelSave(h)
      PROVE  [Ledger!LedgerNext]_(Ledger!ledgerVars)
  <2>1. PICK j \in JobIds : j = local[h].job
    BY <1>4, IssuedIsJobs DEF CancelSave, TypeInv, HandlersInHand, HandlerPcs, JobPcs
  <2>2. CASE status[j] # "absent"
    <3>1. Phase' = [Phase EXCEPT ![j] = "cancelled"]
      BY <1>4, <2>1, <2>2, PhaseUpdate DEF CancelSave, Outcomes
    <3>2. Ledger!Withdraw(j)
      BY <1>4, <2>1, <2>2, <3>1 DEF CancelSave, histVars, Ledger!Withdraw, Phase
    <3>3. QED
      BY <3>2, LedgerSteps
  <2>3. CASE status[j] = "absent"
    BY <1>1, <1>4, <2>1, <2>3 DEF CancelSave, histVars
  <2>4. QED
    BY <2>2, <2>3
<1>5. ASSUME NEW h \in Handlers, RetrySave(h)
      PROVE  [Ledger!LedgerNext]_(Ledger!ledgerVars)
  <2>1. PICK j \in JobIds : j = local[h].job
    BY <1>5, IssuedIsJobs DEF RetrySave, Goto, TypeInv, HandlersInHand, HandlerPcs, JobPcs
  <2>2. CASE status[j] # "absent"
    <3>1. Phase' = [Phase EXCEPT ![j] = "pending"]
      BY <1>5, <2>1, <2>2, PhaseUpdate DEF RetrySave, Outcomes
    <3>2. Ledger!Queue(j)
      BY <1>5, <2>1, <2>2, <3>1 DEF RetrySave, Ledger!Queue, Phase
    <3>3. QED
      BY <3>2, LedgerSteps
  <2>3. CASE status[j] = "absent"
    BY <1>1, <1>5, <2>1, <2>3 DEF RetrySave
  <2>4. QED
    BY <2>2, <2>3
<1>6. ASSUME NEW h \in Handlers, DispatchJob(h)
      PROVE  [Ledger!LedgerNext]_(Ledger!ledgerVars)
  <2>1. PICK j \in JobIds : j = nextJob /\ j \notin Issued /\ queued[j] = 0
    BY <1>6, BoundsAssumption DEF DispatchJob, TypeInv, TypeOK, FreshIds, Issued
  <2>2. Phase' = [Phase EXCEPT ![j] = "pending"]
    BY <1>6, <2>1, PhaseUpdate DEF DispatchJob, Outcomes
  <2>3. queued' = [queued EXCEPT ![j] = @ + 1]
    BY <1>6, <2>1 DEF DispatchJob
  <2>4. Ledger!Queue(j)
    BY <1>6, <2>1, <2>2, <2>3 DEF DispatchJob, Ledger!Queue, Phase
  <2>5. QED
    BY <2>4, LedgerSteps
<1>7. ASSUME NEW s \in Sites, DeleteSiteJobs(s)
      PROVE  [Ledger!LedgerNext]_(Ledger!ledgerVars)
  <2>0. PICK S \in SUBSET JobIds : S = {j \in JobIds : kind[j].site = s}
    OBVIOUS
  <2>1. Phase' = [j \in JobIds |-> IF j \in S THEN "absent" ELSE Phase[j]]
    BY <1>7, <2>0 DEF DeleteSiteJobs, Phase, Outcomes
  <2>2. Ledger!Forget(S)
    BY <1>7, <2>1 DEF DeleteSiteJobs, histVars, Ledger!Forget, Phase
  <2>3. QED
    BY <2>2, LedgerSteps
<1>8. ASSUME NEW h \in Handlers PROVE ~ExecSave(h)
  BY DEF ExecSave, Goto, NowInv
<1>9. QED
  BY <1>1, <1>2, <1>3, <1>4, <1>5, <1>6, <1>7, <1>8, OtherStepsKeepTable DEF TableStep

LedgerContext == TypeInv /\ NowInv /\ FreshIds /\ Ledger!LedgerInv

\* Initial states map to initial states of the ledger.
LEMMA LedgerContextInit == Init => LedgerContext /\ Ledger!LedgerInit
<1> SUFFICES ASSUME Init PROVE LedgerContext /\ Ledger!LedgerInit
  OBVIOUS
<1>1. NowInv /\ FreshIds
  BY DEF Init, NowInv, NoLocals, FreshIds
<1>2. Ledger!LedgerInit /\ Ledger!LedgerInv
  BY DEF Init, Ledger!LedgerInit, Ledger!LedgerInv, Outcomes
<1>3. QED
  BY <1>1, <1>2, TypeInvInit DEF LedgerContext

\* The step simulation together with the invariants it needs.
LEMMA LedgerContextStep ==
    ASSUME ~ExecuteNow, LedgerContext, [Next]_vars
    PROVE  LedgerContext' /\ [Ledger!LedgerNext]_(Ledger!ledgerVars)
BY TypeInvStep, NowInvStep, FreshIdsStep, LedgerInvStep, StepIsLedgerStep DEF LedgerContext

\* Without the server fallback the service implements the ledger of jobs.
THEOREM ServiceImplementsLedger == ASSUME ~ExecuteNow PROVE Spec => ImplementsLedger
<1>1. Init => LedgerContext /\ Ledger!LedgerInit
  BY LedgerContextInit
<1>2. LedgerContext /\ [Next]_vars => LedgerContext' /\ [Ledger!LedgerNext]_(Ledger!ledgerVars)
  BY LedgerContextStep
<1>3. QED
  BY <1>1, <1>2, PTL DEF Spec, ImplementsLedger, Ledger!LedgerSpec

\* And every queueing of a job is given at most one outcome, however often
\* and however late its reports arrive.
THEOREM OutcomesAreSingle == ASSUME ~ExecuteNow PROVE Spec => []OutcomeOncePerQueueing
<1>1. LedgerContext => OutcomeOncePerQueueing
  BY DEF LedgerContext, Ledger!LedgerInv, OutcomeOncePerQueueing, Open, Outcomes
<1>2. LedgerContext /\ [Next]_vars => LedgerContext'
  BY LedgerContextStep
<1>3. QED
  BY <1>1, <1>2, LedgerContextInit, PTL DEF Spec

\* A settled job is left alone by everything but a retry, a cancel and the
\* deletion of its site.
THEOREM SettledStays == ASSUME ~ExecuteNow PROVE Spec => SettledUntilRetried
<1> DEFINE Settled == \A j \in JobIds :
              status[j] \in Outcomes \cup {"cancelled"} /\ status'[j] # status[j] =>
                  queued'[j] > queued[j] \/ status'[j] \in {"cancelled", "absent"}
<1>1. ASSUME LedgerContext, [Next]_vars PROVE Settled
  <2>1. CASE ~TableStep
    BY <1>1, <2>1, OtherStepsKeepTable
  <2>2. ASSUME NEW h \in Handlers, ClaimCas(h) PROVE Settled
    BY <2>2, <1>1 DEF ClaimCas, LedgerContext, TypeInv, TypeOK, Outcomes
  <2>3. ASSUME NEW h \in Handlers, ReportCas(h) PROVE Settled
    BY <2>3, <1>1 DEF ReportCas, ReportUpdate, LedgerContext, TypeInv, TypeOK, Outcomes, Open
  <2>4. ASSUME NEW h \in Handlers, CancelSave(h) PROVE Settled
    BY <2>4, <1>1 DEF CancelSave, LedgerContext, TypeInv, TypeOK
  <2>5. ASSUME NEW h \in Handlers, RetrySave(h) PROVE Settled
    BY <2>5, <1>1 DEF RetrySave, LedgerContext, TypeInv, TypeOK
  <2>6. ASSUME NEW h \in Handlers, DispatchJob(h) PROVE Settled
    <3>1. status[nextJob] = "absent"
      BY <1>1, <2>6, BoundsAssumption
      DEF DispatchJob, LedgerContext, TypeInv, TypeOK, RowsIssued, Issued
    <3>2. QED
      BY <1>1, <2>6, <3>1 DEF DispatchJob, LedgerContext, TypeInv, TypeOK, Outcomes
  <2>7. ASSUME NEW s \in Sites, DeleteSiteJobs(s) PROVE Settled
    BY <2>7 DEF DeleteSiteJobs
  <2>8. ASSUME NEW h \in Handlers PROVE ~ExecSave(h)
    BY <1>1 DEF ExecSave, Goto, LedgerContext, NowInv
  <2>9. QED
    BY <2>1, <2>2, <2>3, <2>4, <2>5, <2>6, <2>7, <2>8 DEF TableStep
<1>2. LedgerContext /\ [Next]_vars => LedgerContext' /\ Settled
  BY <1>1, LedgerContextStep
<1>3. LedgerContext /\ [Next]_vars => [Settled]_vars
  BY <1>2
<1>4. QED
  BY <1>2, <1>3, LedgerContextInit, PTL DEF Spec, SettledUntilRetried

-----------------------------------------------------------------------------
(* What a site shows.  A report saves the whole row it read, so a row in a   *)
(* handler's hand must be as well backed as the table's: an id, once a       *)
(* success supplied it, stays backed because wins only grow and a job's kind *)
(* is never changed, and that is all another handler can have overwritten.   *)

\* The jobs dispatched for site s as type t that have succeeded.
Made(s, t) == {j \in Issued : wins[j] > 0 /\ kind[j] = [site |-> s, type |-> t]}

\* The rows a site may show: ids made for it, its own by hand, or none.
Backed == [s \in Sites |->
              {row \in SiteRows : /\ row.env \in Made(s, "create_env") \cup {NoJob, s}
                                  /\ row.account \in Made(s, "create_account") \cup {NoJob, s}}]

\* The statements between the acceptance of a report and the save of its site.
SiteSyncing == {"report_site_read", "report_site_save"}
\* The statements of a handler that holds a Site row, or the success for one.
RowPcs == SiteSyncing \cup {"dispatch_clear"} \cup EditPcs

SitesInv ==
    /\ \A s \in Sites : site[s] \in Backed[s]
    /\ \A h \in Handlers :
          /\ hpc[h] \in SiteSyncing /\ local[h].res = "success" => wins[local[h].job] > 0
          /\ hpc[h] = "report_site_save" => local[h].row \in Backed[kind[local[h].job].site]
          /\ hpc[h] = "dispatch_clear" => local[h].row \in Backed[local[h].kind.site]
          /\ hpc[h] \in EditPcs => local[h].row \in Backed[local[h].site]

\* What was dispatched stays so, and a success is not taken back.
WinsGrow == \A j \in Issued : j \in Issued' /\ wins'[j] >= wins[j] /\ kind'[j] = kind[j]

\* Every step lets wins grow.
LEMMA WinsOnlyGrow ==
    ASSUME TypeInv, [Next]_vars PROVE WinsGrow
<1> USE DEF jobVars, histVars
<1>0. /\ nextJob \in 1..(MaxJobs + 1) /\ MaxJobs \in Nat
      /\ kind \in [JobIds -> Kinds \cup {NoKind}] /\ wins \in [JobIds -> Nat]
      /\ Issued \in SUBSET JobIds
  BY BoundsAssumption, IssuedIsJobs DEF TypeInv, TypeOK
<1>1. CASE UNCHANGED <<kind, nextJob, wins>>
  BY <1>0, <1>1 DEF WinsGrow, Issued
<1>2. ASSUME NEW h \in Handlers, ReportCas(h) PROVE WinsGrow
  BY <1>0, <1>2 DEF ReportCas, ReportUpdate, WinsGrow, Issued
<1>3. ASSUME NEW h \in Handlers, DispatchJob(h) PROVE WinsGrow
  <2>1. nextJob \in JobIds /\ nextJob \notin Issued /\ nextJob' = nextJob + 1
    BY <1>0, <1>3 DEF DispatchJob, Issued
  <2>2. Issued \subseteq Issued'
    BY <1>0, <2>1 DEF Issued
  <2>3. \A j \in Issued : kind'[j] = kind[j] /\ wins'[j] = wins[j]
    BY <1>0, <1>3, <2>1 DEF DispatchJob
  <2>4. QED
    BY <1>0, <2>2, <2>3 DEF WinsGrow
<1>4. ASSUME NEW h \in Handlers, HandlerStep(h), ~ReportCas(h), ~DispatchJob(h)
      PROVE  UNCHANGED <<kind, nextJob, wins>>
  BY <1>4 DEF HandlerStep, ClaimRead, ClaimCas, ClaimReply, ReportRead, ReportSiteRead, ReportSiteSave,
     ReportOpRead, ReportOpSave, ReportReply, CancelSave, RetrySave, RetryOpRead, RetryOpSave,
     DispatchClear, DispatchOp, ExecSave, ExecRun, ExecUnavailable, UpdateSave, AssignSave, EditSave
<1>5. ASSUME NEW h \in Handlers, OperatorStep(h) PROVE UNCHANGED <<kind, nextJob, wins>>
  BY <1>5 DEF OperatorStep, CancelRead, RetryRead, DispatchRead, UpdateRead, AssignRead, EditRead
<1>6. ASSUME NEW a \in Agents, AgentStep(a) PROVE UNCHANGED <<kind, nextJob, wins>>
  BY <1>6 DEF AgentStep, ClaimRequest, ReportRequest, Execute, ConnectionLost
<1>7. CASE Fault \/ (\E s \in Sites : DeleteSiteJobs(s)) \/ UNCHANGED vars
  BY <1>1, <1>7 DEF Fault, Timeout, AgentCrash, HandlerError, ServerRestart, DeleteSiteJobs, vars
<1>8. QED
  BY <1>1, <1>2, <1>3, <1>4, <1>5, <1>6, <1>7 DEF Next

\* So a row that is backed stays backed.
LEMMA BackedStays ==
    ASSUME TypeInv, TypeInv', WinsGrow PROVE \A s \in Sites : Backed[s] \subseteq Backed'[s]
<1>1. \A s \in Sites, t \in JobTypes \cup HubJobTypes : Made(s, t) \subseteq Made(s, t)'
  <2>1. \A j \in Issued : wins[j] \in Nat /\ wins'[j] \in Nat
    BY IssuedIsJobs DEF TypeInv, TypeOK
  <2>2. QED
    BY <2>1 DEF Made, WinsGrow
<1>2. {"create_env", "create_account"} \subseteq HubJobTypes
  BY DEF HubJobTypes
<1>3. QED
  BY <1>1, <1>2 DEF Backed

\* A step that saves no site and takes no row to save keeps SitesInv.
LEMMA NoSiteSaved ==
    ASSUME TypeInv, TypeInv', WinsGrow, SitesInv, site' = site,
           \A h \in Handlers : hpc'[h] \in RowPcs =>
               hpc'[h] = hpc[h] /\ local'[h] = local[h]
    PROVE  SitesInv'
<1>1. \A s \in Sites : site'[s] \in Backed'[s]
  BY BackedStays DEF SitesInv
<1>2. ASSUME NEW h \in Handlers, hpc'[h] = "dispatch_clear"
      PROVE  local'[h].row \in Backed'[local'[h].kind.site]
  <2>1. hpc[h] = "dispatch_clear" /\ local'[h] = local[h]
    BY <1>2 DEF RowPcs
  <2>2. local[h].kind.site \in Sites
    BY <2>1 DEF TypeInv, HandlersInHand, Kinds
  <2>3. QED
    BY <2>1, <2>2, BackedStays DEF SitesInv
<1>3. ASSUME NEW h \in Handlers, hpc'[h] \in SiteSyncing
      PROVE  /\ local'[h].res = "success" => wins'[local'[h].job] > 0
             /\ hpc'[h] = "report_site_save" => local'[h].row \in Backed'[kind'[local'[h].job].site]
  <2>1. hpc'[h] = hpc[h] /\ local'[h] = local[h]
    BY <1>3 DEF RowPcs
  <2>2. local[h].job \in Issued /\ local[h].job \in JobIds
    BY <1>3, <2>1, IssuedIsJobs DEF TypeInv, HandlersInHand, SiteSyncing, JobPcs, HandlerPcs
  <2>3. /\ kind[local[h].job] \in Kinds /\ kind'[local[h].job] = kind[local[h].job]
        /\ wins[local[h].job] \in Nat /\ wins'[local[h].job] \in Nat
        /\ wins'[local[h].job] >= wins[local[h].job]
    BY <2>2 DEF TypeInv, TypeOK, RowsIssued, WinsGrow
  <2>4. local'[h].res = "success" => wins'[local'[h].job] > 0
    BY <1>3, <2>1, <2>3 DEF SitesInv
  <2>5. kind[local[h].job].site \in Sites
    BY <2>3 DEF Kinds
  <2>6. QED
    BY <1>3, <2>1, <2>3, <2>4, <2>5, BackedStays DEF SitesInv
<1>4. ASSUME NEW h \in Handlers, hpc'[h] \in EditPcs
      PROVE  local'[h].row \in Backed'[local'[h].site]
  <2>1. hpc[h] \in EditPcs /\ local'[h] = local[h]
    BY <1>4 DEF RowPcs
  <2>2. local[h].site \in Sites
    BY <2>1 DEF TypeInv, HandlersInHand
  <2>3. QED
    BY <2>1, <2>2, BackedStays DEF SitesInv
<1>5. QED
  BY <1>1, <1>2, <1>3, <1>4 DEF SitesInv, SiteSyncing

\* The steps that save a site, or take a row or a success towards one.
SiteStep ==
    \E h \in Handlers :
        \/ ReportCas(h) \/ ReportSiteRead(h) \/ ReportSiteSave(h) \/ DispatchClear(h)
        \/ \E k \in Kinds, now \in BOOLEAN : DispatchRead(h, k, now)
        \/ \E s \in Sites : UpdateRead(h, s) \/ AssignRead(h, s)
        \/ UpdateSave(h) \/ AssignSave(h)

\* No other step does.
LEMMA OtherStepsSaveNoSite ==
    ASSUME TypeInv, [Next]_vars, ~SiteStep
    PROVE  /\ site' = site
           /\ \A h \in Handlers : hpc'[h] \in RowPcs =>
                 hpc'[h] = hpc[h] /\ local'[h] = local[h]
<1> USE DEF SiteSyncing, RowPcs, EditPcs, Goto, End, serverVars
<1>0. /\ hpc \in [Handlers -> HandlerPcs]
      /\ local \in [Handlers -> Locals]
  BY DEF TypeInv, TypeOK
<1>1. ASSUME NEW h \in Handlers, HandlerStep(h)
      PROVE  site' = site
  BY <1>1 DEF SiteStep, HandlerStep, ClaimRead, ClaimCas, ClaimReply, ReportRead, ReportOpRead, ReportOpSave,
     ReportReply, CancelSave, RetrySave, RetryOpRead, RetryOpSave, DispatchJob, DispatchOp, ExecSave, ExecRun,
     ExecUnavailable
<1>2. ASSUME NEW h \in Handlers, ClaimRead(h) \/ ClaimCas(h) \/ ClaimReply(h)
      PROVE  \A g \in Handlers : hpc'[g] \in RowPcs =>
                 hpc'[g] = hpc[g] /\ local'[g] = local[g]
  BY <1>0, <1>2 DEF ClaimRead, ClaimCas, ClaimReply
<1>3. ASSUME NEW h \in Handlers, ReportRead(h) \/ ReportOpRead(h) \/ ReportOpSave(h) \/ ReportReply(h)
      PROVE  \A g \in Handlers : hpc'[g] \in RowPcs =>
                 hpc'[g] = hpc[g] /\ local'[g] = local[g]
  BY <1>0, <1>3 DEF ReportRead, ReportOpRead, ReportOpSave, ReportReply
<1>4. ASSUME NEW h \in Handlers, CancelSave(h) \/ RetrySave(h) \/ RetryOpRead(h) \/ RetryOpSave(h)
      PROVE  \A g \in Handlers : hpc'[g] \in RowPcs =>
                 hpc'[g] = hpc[g] /\ local'[g] = local[g]
  BY <1>0, <1>4 DEF CancelSave, RetrySave, RetryOpRead, RetryOpSave
<1>5. ASSUME NEW h \in Handlers, DispatchJob(h) \/ DispatchOp(h) \/ ExecSave(h) \/ ExecRun(h) \/ ExecUnavailable(h)
      PROVE  \A g \in Handlers : hpc'[g] \in RowPcs =>
                 hpc'[g] = hpc[g] /\ local'[g] = local[g]
  BY <1>0, <1>5 DEF DispatchJob, DispatchOp, ExecSave, ExecRun, ExecUnavailable
<1>6. ASSUME NEW h \in Handlers, NEW j \in JobIds, CancelRead(h, j) \/ RetryRead(h, j)
      PROVE  /\ site' = site
             /\ \A g \in Handlers : hpc'[g] \in RowPcs =>
                 hpc'[g] = hpc[g] /\ local'[g] = local[g]
  BY <1>0, <1>6 DEF CancelRead, RetryRead
<1>7. ASSUME NEW a \in Agents, NEW h \in Handlers, ClaimRequest(a, h) \/ ReportRequest(a, h)
      PROVE  /\ site' = site
             /\ \A g \in Handlers : hpc'[g] \in RowPcs =>
                 hpc'[g] = hpc[g] /\ local'[g] = local[g]
  BY <1>0, <1>7 DEF ClaimRequest, ReportRequest
<1>8. ASSUME NEW a \in Agents, Execute(a) \/ ConnectionLost(a) \/ Timeout(a) \/ AgentCrash(a)
      PROVE  UNCHANGED <<site, hpc, local>>
  BY <1>8 DEF Execute, ConnectionLost, Timeout, AgentCrash
<1>9. ASSUME NEW h \in Handlers, HandlerError(h)
      PROVE  /\ site' = site
             /\ \A g \in Handlers : hpc'[g] \in RowPcs =>
                 hpc'[g] = hpc[g] /\ local'[g] = local[g]
  BY <1>0, <1>9 DEF HandlerError
<1>10. CASE ServerRestart
  BY <1>0, <1>10 DEF ServerRestart
<1>11. CASE (\E s \in Sites : DeleteSiteJobs(s)) \/ UNCHANGED vars
  BY <1>11 DEF DeleteSiteJobs, vars
<1>12. QED
  BY <1>1, <1>2, <1>3, <1>4, <1>5, <1>6, <1>7, <1>8, <1>9, <1>10, <1>11
     DEF Next, HandlerStep, OperatorStep, AgentStep, Fault, SiteStep

\* What a save writes to a site it may show.
LEMMA SyncedBacked ==
    ASSUME TypeInv, NEW j \in Issued, NEW r \in Outcomes, r = "success" => wins[j] > 0,
           NEW row \in Backed[kind[j].site]
    PROVE  Synced(row, kind[j].type, r, j) \in Backed[kind[j].site]
<1> DEFINE s == kind[j].site
           new == Synced(row, kind[j].type, r, j)
<1>1. kind[j] \in Kinds /\ s \in Sites /\ kind[j].type \in JobTypes /\ j \in MaybeJob
  BY IssuedIsJobs DEF TypeInv, RowsIssued, Kinds
<1>2. kind[j] = [site |-> s, type |-> kind[j].type]
  BY <1>1 DEF Kinds
<1>3. row \in SiteRows /\ row.env \in Made(s, "create_env") \cup {NoJob, s}
      /\ row.account \in Made(s, "create_account") \cup {NoJob, s}
  BY <1>1 DEF Backed
<1>4. new \in SiteRows
  BY <1>1, <1>3, SyncedTyped
<1>5. new.env \in Made(s, "create_env") \cup {NoJob, s}
  BY <1>1, <1>2, <1>3 DEF Synced, SiteRows, Made
<1>6. new.account \in Made(s, "create_account") \cup {NoJob, s}
  BY <1>1, <1>2, <1>3 DEF Synced, SiteRows, Made
<1>7. QED
  BY <1>1, <1>4, <1>5, <1>6 DEF Backed

\* SitesInv is inductive relative to the type invariant.
LEMMA SitesInvStep == TypeInv /\ TypeInv' /\ SitesInv /\ [Next]_vars => SitesInv'
<1> SUFFICES ASSUME TypeInv, TypeInv', SitesInv, [Next]_vars PROVE SitesInv'
  OBVIOUS
<1> USE DEF Goto, jobVars, histVars
<1>0. /\ hpc \in [Handlers -> HandlerPcs] /\ local \in [Handlers -> Locals]
      /\ site \in [Sites -> SiteRows] /\ wins \in [JobIds -> Nat]
      /\ WinsGrow /\ \A s \in Sites : Backed[s] \subseteq Backed'[s]
  BY WinsOnlyGrow, BackedStays DEF TypeInv, TypeOK
<1>1. CASE ~SiteStep
  BY <1>0, <1>1, OtherStepsSaveNoSite, NoSiteSaved
\* A save of a row the site may show, at the end of a statement that holds one.
<1>2. ASSUME NEW h \in Handlers, NEW s \in Sites, NEW row \in Backed[s],
             site' = [site EXCEPT ![s] = row],
             UNCHANGED <<jobVars, histVars>>, NEW to \in HandlerPcs \ RowPcs,
             \A g \in Handlers \ {h} : local'[g] = local[g],
             hpc' = [hpc EXCEPT ![h] = to]
      PROVE  SitesInv'
  <2>1. Backed' = Backed
    BY <1>2 DEF Backed, Made, Issued
  <2>2. \A g \in Handlers : hpc'[g] \in RowPcs => hpc'[g] = hpc[g] /\ local'[g] = local[g]
    BY <1>0, <1>2
  <2>3. \A q \in Sites : site'[q] \in Backed[q]
    BY <1>0, <1>2 DEF SitesInv
  <2>4. QED
    BY <1>2, <2>1, <2>2, <2>3 DEF SitesInv, SiteSyncing, RowPcs, EditPcs
<1>3. ASSUME NEW h \in Handlers, ReportSiteSave(h) PROVE SitesInv'
  <2> DEFINE j == local[h].job
  <2>1. hpc[h] = "report_site_save" /\ j \in Issued /\ local[h].res \in Outcomes
    BY <1>3 DEF ReportSiteSave, TypeInv, HandlersInHand, JobPcs, HandlerPcs, ReportPcs
  <2>2. kind[j] \in Kinds /\ kind[j].site \in Sites
    BY <2>1 DEF TypeInv, RowsIssued, Kinds
  <2>3. Synced(local[h].row, kind[j].type, local[h].res, j) \in Backed[kind[j].site]
    BY <2>1, SyncedBacked DEF SitesInv, SiteSyncing, RowPcs, EditPcs
  <2>4. QED
    BY <1>2, <1>3, <2>2, <2>3 DEF ReportSiteSave, HandlerPcs, SiteSyncing, RowPcs, EditPcs
<1>4. ASSUME NEW h \in Handlers, DispatchClear(h) PROVE SitesInv'
  <2> DEFINE s == local[h].kind.site
             row == [local[h].row EXCEPT !.account = NoJob]
  <2>1. s \in Sites /\ local[h].row \in Backed[s]
    BY <1>4 DEF DispatchClear, SitesInv, TypeInv, HandlersInHand, Kinds
  <2>2. row \in Backed[s]
    BY <2>1 DEF Backed, SiteRows, SiteIds, MaybeJob
  <2>3. QED
    BY <1>2, <1>4, <2>1, <2>2 DEF DispatchClear, HandlerPcs, SiteSyncing, RowPcs, EditPcs
<1>5. ASSUME NEW h \in Handlers, site' = site, UNCHANGED <<jobVars, histVars>>,
             \A g \in Handlers \ {h} : hpc'[g] = hpc[g] /\ local'[g] = local[g],
             hpc'[h] \notin SiteSyncing,
             hpc'[h] = "dispatch_clear" => local'[h].row \in Backed[local'[h].kind.site],
             hpc'[h] \in EditPcs => local'[h].row \in Backed[local'[h].site]
      PROVE  SitesInv'
  <2>1. Backed' = Backed
    BY <1>5 DEF Backed, Made, Issued
  <2>2. QED
    BY <1>5, <2>1 DEF SitesInv, SiteSyncing, RowPcs, EditPcs
<1>6. ASSUME NEW h \in Handlers, NEW k \in Kinds, NEW now \in BOOLEAN, DispatchRead(h, k, now) PROVE SitesInv'
  <2>1. hpc'[h] \in {"dispatch_clear", "dispatch_job"}
    BY <1>0, <1>6 DEF DispatchRead
  <2>2. local' = [local EXCEPT ![h] = [NoLocals EXCEPT !.kind = k, !.now = now, !.row = site[k.site]]]
    BY <1>6 DEF DispatchRead
  <2>3. local'[h].row = site[k.site] /\ local'[h].kind = k /\ k.site \in Sites
    BY <1>0, <2>2 DEF NoLocals, Kinds
  <2>4. site[k.site] \in Backed[k.site]
    BY <2>3 DEF SitesInv
  <2>5. \A g \in Handlers \ {h} : hpc'[g] = hpc[g] /\ local'[g] = local[g]
    BY <1>0, <1>6 DEF DispatchRead
  <2>6. QED
    BY <1>5, <1>6, <2>1, <2>3, <2>4, <2>5 DEF DispatchRead, SiteSyncing, EditPcs
<1>7. ASSUME NEW h \in Handlers, ReportSiteRead(h) PROVE SitesInv'
  <2> DEFINE j == local[h].job
  <2>1. hpc[h] = "report_site_read" /\ j \in Issued
    BY <1>7 DEF ReportSiteRead, TypeInv, HandlersInHand, JobPcs, HandlerPcs
  <2>2. kind[j].site \in Sites
    BY <2>1 DEF TypeInv, RowsIssued, Kinds
  <2>3. /\ hpc'[h] = "report_site_save" /\ local'[h].row \in Backed[kind[j].site]
        /\ local'[h].job = j /\ local'[h].res = local[h].res
    BY <1>0, <1>7, <2>2 DEF ReportSiteRead, SitesInv, Locals
  <2>4. \A g \in Handlers \ {h} : hpc'[g] = hpc[g] /\ local'[g] = local[g]
    BY <1>0, <1>7 DEF ReportSiteRead
  <2>5. site' = site /\ kind' = kind /\ wins' = wins /\ Backed' = Backed
    BY <1>7 DEF ReportSiteRead, Backed, Made, Issued
  <2>6. local[h].res = "success" => wins[j] > 0
    BY <2>1 DEF SitesInv, SiteSyncing, RowPcs, EditPcs
  <2>7. QED
    BY <2>3, <2>4, <2>5, <2>6 DEF SitesInv, SiteSyncing, RowPcs, EditPcs
<1>8. ASSUME NEW h \in Handlers, ReportCas(h) PROVE SitesInv'
  <2> DEFINE j == local[h].job
  <2>1. hpc[h] = "report_cas" /\ j \in Issued /\ j \in JobIds
    BY <1>8, IssuedIsJobs DEF ReportCas, ReportUpdate, TypeInv, HandlersInHand, JobPcs, HandlerPcs
  <2>2. CASE hpc'[h] = "report_reply"
    <3>1. \A g \in Handlers : hpc'[g] \in RowPcs =>
              hpc'[g] = hpc[g] /\ local'[g] = local[g]
      BY <1>0, <1>8, <2>2 DEF ReportCas, ReportUpdate, SiteSyncing, RowPcs, EditPcs
    <3>2. QED
      BY <1>0, <1>8, <3>1, NoSiteSaved DEF ReportCas, ReportUpdate
  <2>3. CASE hpc'[h] = "report_site_read"
    <3>1. /\ site' = site /\ kind' = kind /\ local' = local
          /\ \A g \in Handlers \ {h} : hpc'[g] = hpc[g]
      BY <1>0, <1>8 DEF ReportCas, ReportUpdate
    <3>2. local[h].res = "success" => wins'[j] > 0
      BY <1>0, <1>8, <2>1, <2>3 DEF ReportCas, ReportUpdate
    <3>3. \A g \in Handlers \ {h} : hpc[g] \in SiteSyncing /\ local[g].res = "success" => wins'[local[g].job] > 0
      <4>1. ASSUME NEW g \in Handlers, hpc[g] \in SiteSyncing PROVE local[g].job \in Issued
        BY <4>1 DEF TypeInv, HandlersInHand, SiteSyncing, JobPcs, HandlerPcs
      <4>2. \A i \in Issued : wins[i] \in Nat /\ wins'[i] \in Nat /\ wins'[i] >= wins[i]
        BY <1>0, IssuedIsJobs DEF WinsGrow, TypeInv, TypeOK
      <4>3. QED
        BY <4>1, <4>2 DEF SitesInv
    <3>4. ASSUME NEW g \in Handlers, hpc[g] = "report_site_save" PROVE kind[local[g].job].site \in Sites
      BY <3>4 DEF TypeInv, HandlersInHand, RowsIssued, JobPcs, HandlerPcs, Kinds
    <3>5. ASSUME NEW g \in Handlers, hpc[g] = "dispatch_clear" PROVE local[g].kind.site \in Sites
      BY <3>5 DEF TypeInv, HandlersInHand, Kinds
    <3>6. ASSUME NEW g \in Handlers, hpc[g] \in EditPcs PROVE local[g].site \in Sites
      BY <3>6 DEF TypeInv, HandlersInHand
    <3>7. QED
      BY <1>0, <2>3, <3>1, <3>2, <3>3, <3>4, <3>5, <3>6 DEF SitesInv, SiteSyncing, RowPcs, EditPcs
  <2>4. QED
    BY <1>0, <1>8, <2>2, <2>3 DEF ReportCas, ReportUpdate
<1>9. ASSUME NEW h \in Handlers, NEW s \in Sites, UpdateRead(h, s) \/ AssignRead(h, s) PROVE SitesInv'
  <2>1. PICK to \in EditPcs : EditRead(h, s, to)
    BY <1>9 DEF UpdateRead, AssignRead, EditPcs
  <2>2. local'[h] = [NoLocals EXCEPT !.site = s, !.row = site[s]] /\ hpc'[h] = to
    BY <1>0, <2>1 DEF EditRead
  <2>3. local'[h].row = site[s] /\ local'[h].site = s
    BY <2>2 DEF NoLocals
  <2>4. site[s] \in Backed[s]
    BY DEF SitesInv
  <2>5. \A g \in Handlers \ {h} : hpc'[g] = hpc[g] /\ local'[g] = local[g]
    BY <1>0, <2>1 DEF EditRead
  <2>6. site' = site /\ UNCHANGED <<jobVars, histVars>>
    BY <2>1 DEF EditRead
  <2>7. hpc'[h] \notin SiteSyncing /\ hpc'[h] # "dispatch_clear"
    BY <2>2 DEF SiteSyncing, EditPcs
  <2>8. QED
    BY <1>5, <2>3, <2>4, <2>5, <2>6, <2>7
<1>10. ASSUME NEW h \in Handlers, UpdateSave(h) \/ AssignSave(h) PROVE SitesInv'
  <2> DEFINE s == local[h].site
  <2>1. hpc[h] \in EditPcs /\ s \in Sites /\ local[h].row \in Backed[s]
    BY <1>10 DEF UpdateSave, AssignSave, EditSave, EditPcs, SitesInv, TypeInv, HandlersInHand
  <2>2. Updates(s, local[h].row) \subseteq Backed[s]
    BY <2>1 DEF Updates, Backed, SiteRows, SiteIds, MaybeJob
  <2>3. [local[h].row EXCEPT !.env = s] \in Backed[s]
    BY <2>1 DEF Backed, SiteRows, SiteIds
  <2>4. PICK from \in EditPcs, row \in Backed[s] : EditSave(h, from, row)
    BY <1>10, <2>2, <2>3 DEF UpdateSave, AssignSave, EditPcs
  <2>5. /\ site' = [site EXCEPT ![s] = row] /\ UNCHANGED <<jobVars, histVars>>
        /\ hpc' = [hpc EXCEPT ![h] = "idle"]
        /\ \A g \in Handlers \ {h} : local'[g] = local[g]
    BY <1>0, <2>4 DEF EditSave, End
  <2>6. "idle" \in HandlerPcs \ RowPcs
    BY DEF HandlerPcs, RowPcs, SiteSyncing, EditPcs
  <2>7. QED
    BY <1>2, <2>1, <2>5, <2>6
<1>11. QED
  BY <1>1, <1>3, <1>4, <1>6, <1>7, <1>8, <1>9, <1>10 DEF SiteStep

\* Whatever whole-row saves overwrite each other, an environment or account id a site
\* shows is that of a job of this site and type that was reported a success, or was
\* entered or assigned for this site by hand (_sync_site_from_job, dispatch_for_site,
\* /site/update, batch_assign_env_to_sites).
THEOREM SiteIdsAreBacked == Spec => []SiteIdsBacked
<1>1. Init => SitesInv
  <2> SUFFICES ASSUME Init PROVE SitesInv
    OBVIOUS
  <2>1. \A s \in Sites : EmptySite \in Backed[s]
    BY DEF Backed, EmptySite, SiteRows, SiteIds, MaybeJob
  <2>2. QED
    BY <2>1 DEF Init, SitesInv, SiteSyncing, EditPcs
<1>2. TypeInv /\ SitesInv /\ [Next]_vars => (TypeInv /\ SitesInv)'
  BY TypeInvStep, SitesInvStep
<1>3. TypeInv /\ SitesInv => SiteIdsBacked
  <2> SUFFICES ASSUME TypeInv, SitesInv, NEW s \in Sites
               PROVE  /\ site[s].env \in Sites => site[s].env = s
                      /\ site[s].account \in Sites => site[s].account = s
                      /\ Backs(site[s].env, s, "create_env")
                      /\ Backs(site[s].account, s, "create_account")
    BY DEF SiteIdsBacked
  <2>1. /\ site[s].env \in Made(s, "create_env") \cup {NoJob, s}
        /\ site[s].account \in Made(s, "create_account") \cup {NoJob, s}
    BY DEF SitesInv, Backed
  <2>2. \A id \in JobIds \cup {NoJob} : id \notin Sites
    BY SitesAssumption DEF MaybeJob
  <2>3. Issued \subseteq JobIds
    BY IssuedIsJobs DEF TypeInv
  <2>4. NoJob \notin JobIds /\ s \notin JobIds
    BY <2>2 DEF NoJob, JobIds
  <2>5. ASSUME NEW t, NEW id \in Made(s, t) \cup {NoJob, s}
        PROVE  (id \in Sites => id = s) /\ Backs(id, s, t)
    BY <2>2, <2>3, <2>4, <2>5 DEF Made, Backs
  <2>6. QED
    BY <2>1, <2>5
<1>4. QED
  BY <1>1, <1>2, <1>3, TypeInvInit, PTL DEF Spec

-----------------------------------------------------------------------------
(* What the task centre shows as success.  A report that was accepted may    *)
(* turn one OperationJob of its site and action to success, which it picks   *)
(* and saves in two statements while other reports do the same.  So the      *)
(* reports on their way are counted with the successes shown: each of them   *)
(* was paid for by the success it was accepted with, and the row it picked   *)
(* is one of the right site and action when it is saved.                     *)

Accepted == {"report_site_read", "report_site_save", "report_op_read", "report_op_save"}
OpSaves  == {"report_op_save", "retry_op_save"}

\* The reports of success that still have their OperationJob to close.
Owing(k) == {h \in Handlers : hpc[h] \in Accepted /\ local[h].res = "success" /\ kind[local[h].job] = k}

\* Rows shown and rows owed are no more than successes.
Paid(shown, owed, won) ==
    /\ IsFiniteSet(shown) /\ IsFiniteSet(owed) /\ IsFiniteSet(won)
    /\ Cardinality(shown) + Cardinality(owed) <= Cardinality(won)

\* Rows have ids that were handed out, and a handler saves one of them, a report
\* one of its site and action.
OpRowsInv ==
    /\ \A o \in JobIds : ops[o].status # "absent" => o < nextOp
    /\ \A j \in JobIds \ Issued : wins[j] = 0
    /\ \A h \in Handlers :
          /\ hpc[h] \in OpSaves => local[h].op \in 1..(nextOp - 1)
          /\ hpc[h] = "report_op_save" => ops[local[h].op].kind = kind[local[h].job]

PaidInv == \A k \in Kinds : Paid(OpsOf(k, {"success"}), Owing(k), Won(k))

\* Fewer rows are paid for too; so is one that is shown instead of owed, and
\* one that is owed for one more success.
LEMMA PaidLess ==
    ASSUME NEW C, NEW O, NEW W, Paid(C, O, W), NEW D \in SUBSET C, NEW P \in SUBSET O
    PROVE  Paid(D, P, W)
<1>1. /\ IsFiniteSet(D) /\ Cardinality(D) <= Cardinality(C)
      /\ IsFiniteSet(P) /\ Cardinality(P) <= Cardinality(O)
  BY FS_Subset DEF Paid
<1>2. /\ Cardinality(C) \in Nat /\ Cardinality(D) \in Nat /\ Cardinality(O) \in Nat
      /\ Cardinality(P) \in Nat /\ Cardinality(W) \in Nat
  BY <1>1, FS_CardinalityType DEF Paid
<1>3. Cardinality(C) + Cardinality(O) <= Cardinality(W)
  BY DEF Paid
<1>4. Cardinality(D) + Cardinality(P) <= Cardinality(W)
  BY <1>1, <1>2, <1>3
<1>5. QED
  BY <1>1, <1>4 DEF Paid

LEMMA PaidShown ==
    ASSUME NEW C, NEW O, NEW W, Paid(C, O, W), NEW h \in O, NEW o
    PROVE  Paid(C \cup {o}, O \ {h}, W)
<1>1. /\ IsFiniteSet(C \cup {o})
      /\ Cardinality(C \cup {o}) = Cardinality(C) \/ Cardinality(C \cup {o}) = Cardinality(C) + 1
  BY FS_AddElement DEF Paid
<1>2. IsFiniteSet(O \ {h}) /\ Cardinality(O \ {h}) = Cardinality(O) - 1
  BY FS_RemoveElement DEF Paid
<1>3. Cardinality(C) \in Nat /\ Cardinality(O) \in Nat /\ Cardinality(W) \in Nat
  BY FS_CardinalityType DEF Paid
<1>4. Cardinality(C) + Cardinality(O) <= Cardinality(W)
  BY DEF Paid
<1>5. Cardinality(C \cup {o}) + Cardinality(O \ {h}) <= Cardinality(W)
  BY <1>1, <1>2, <1>3, <1>4
<1>6. QED
  BY <1>1, <1>2, <1>5 DEF Paid

LEMMA PaidOwed ==
    ASSUME NEW C, NEW O, NEW W, Paid(C, O, W), NEW h, NEW w, w \notin W
    PROVE  Paid(C, O \cup {h}, W \cup {w})
<1>1. /\ IsFiniteSet(O \cup {h})
      /\ Cardinality(O \cup {h}) = Cardinality(O) \/ Cardinality(O \cup {h}) = Cardinality(O) + 1
  BY FS_AddElement DEF Paid
<1>2. IsFiniteSet(W \cup {w}) /\ Cardinality(W \cup {w}) = Cardinality(W) + 1
  BY FS_AddElement DEF Paid
<1>3. Cardinality(C) \in Nat /\ Cardinality(O) \in Nat /\ Cardinality(W) \in Nat
  BY FS_CardinalityType DEF Paid
<1>4. Cardinality(C) + Cardinality(O) <= Cardinality(W)
  BY DEF Paid
<1>5. Cardinality(C) + Cardinality(O \cup {h}) <= Cardinality(W \cup {w})
  BY <1>1, <1>2, <1>3, <1>4
<1>6. QED
  BY <1>1, <1>2, <1>5 DEF Paid

\* No handler comes to owe a row, or to hold one it will save.
NobodyOwes ==
    \A h \in Handlers : hpc'[h] \in Accepted =>
        hpc[h] \in Accepted /\ local'[h].job = local[h].job /\ local'[h].res = local[h].res
NobodyTakes ==
    \A h \in Handlers : hpc'[h] \in OpSaves => hpc'[h] = hpc[h] /\ local'[h] = local[h]

\* Then no more rows are owed than before.
LEMMA OwedLess ==
    ASSUME TypeInv, WinsGrow, NobodyOwes, NEW k
    PROVE  Owing(k)' \subseteq Owing(k)
<1>1. ASSUME NEW h \in Handlers, hpc'[h] \in Accepted PROVE kind'[local'[h].job] = kind[local[h].job]
  <2>1. hpc[h] \in Accepted /\ local'[h].job = local[h].job
    BY <1>1 DEF NobodyOwes
  <2>2. local[h].job \in Issued
    BY <2>1 DEF Accepted, TypeInv, HandlersInHand, JobPcs, HandlerPcs
  <2>3. QED
    BY <2>1, <2>2 DEF WinsGrow
<1>2. QED
  BY <1>1 DEF Owing, NobodyOwes

\* The rows handed out keep their site and action, and so do the handlers theirs.
LEMMA OpRowsKept ==
    ASSUME TypeInv, TypeInv', WinsGrow, OpRowsInv, NobodyTakes,
           nextOp' >= nextOp, \A o \in 1..(nextOp - 1) : ops'[o].kind = ops[o].kind,
           \A o \in JobIds : ops'[o].status # "absent" => o < nextOp',
           \A j \in JobIds \ Issued' : wins'[j] = 0
    PROVE  OpRowsInv'
<1>1. nextOp \in Nat /\ nextOp' \in Nat
  BY BoundsAssumption DEF TypeInv, TypeOK
<1>2. ASSUME NEW h \in Handlers, hpc'[h] \in OpSaves
      PROVE  /\ local'[h].op \in 1..(nextOp' - 1)
             /\ hpc'[h] = "report_op_save" => ops'[local'[h].op].kind = kind'[local'[h].job]
  <2>1. hpc'[h] = hpc[h] /\ local'[h] = local[h]
    BY <1>2 DEF NobodyTakes
  <2>2. local[h].op \in 1..(nextOp - 1)
    BY <1>2, <2>1 DEF OpRowsInv
  <2>3. local[h].job \in Issued
    BY <1>2, <2>1 DEF OpSaves, TypeInv, HandlersInHand, JobPcs, HandlerPcs
  <2>4. kind'[local[h].job] = kind[local[h].job] /\ ops'[local[h].op].kind = ops[local[h].op].kind
    BY <2>2, <2>3 DEF WinsGrow
  <2>5. hpc[h] = "report_op_save" => ops[local[h].op].kind = kind[local[h].job]
    BY DEF OpRowsInv
  <2>6. QED
    BY <1>1, <2>1, <2>2, <2>4, <2>5
<1>3. QED
  BY <1>2 DEF OpRowsInv, OpSaves

\* The steps that write or pick an OperationJob, make a success or a job's kind.
OpStep ==
    \/ \E h \in Handlers :
          \/ ReportCas(h) \/ ReportOpRead(h) \/ ReportOpSave(h) \/ RetryOpRead(h) \/ RetryOpSave(h)
          \/ DispatchJob(h) \/ DispatchOp(h)
    \/ ServerRestart

\* No other step does.
LEMMA OtherStepsTakeNoOp ==
    ASSUME TypeInv, [Next]_vars, ~OpStep
    PROVE  UNCHANGED <<kind, nextJob, opVars, wins>> /\ NobodyOwes /\ NobodyTakes
<1> USE DEF Goto, End, serverVars, jobVars, histVars
<1> DEFINE Quietly == UNCHANGED <<kind, nextJob, opVars, wins>>
           Still   == \A g \in Handlers : /\ hpc'[g] \in Accepted => /\ hpc[g] \in Accepted
                                                                     /\ local'[g].job = local[g].job
                                                                     /\ local'[g].res = local[g].res
                                          /\ hpc'[g] \in OpSaves => hpc'[g] = hpc[g] /\ local'[g] = local[g]
<1>0. /\ hpc \in [Handlers -> HandlerPcs]
      /\ local \in [Handlers -> Locals]
  BY DEF TypeInv, TypeOK
<1>1. ASSUME NEW h \in Handlers, ClaimRead(h) \/ ClaimCas(h) \/ ClaimReply(h)
      PROVE  Quietly /\ Still
  BY <1>0, <1>1 DEF ClaimRead, ClaimCas, ClaimReply, Accepted, OpSaves
<1>2. ASSUME NEW h \in Handlers, ReportRead(h) \/ ReportSiteSave(h) \/ ReportReply(h)
      PROVE  Quietly /\ Still
  BY <1>0, <1>2 DEF ReportRead, ReportSiteSave, ReportReply, Accepted, OpSaves
<1>3. ASSUME NEW h \in Handlers, ReportSiteRead(h)
      PROVE  Quietly /\ Still
  <2>1. local' = [local EXCEPT ![h].row = site[kind[local[h].job].site]]
    BY <1>3 DEF ReportSiteRead
  <2>2. \A g \in Handlers : local'[g].job = local[g].job /\ local'[g].res = local[g].res
    BY <1>0, <2>1 DEF Locals
  <2>3. \A g \in Handlers \ {h} : hpc'[g] = hpc[g] /\ local'[g] = local[g]
    BY <1>0, <1>3 DEF ReportSiteRead
  <2>4. hpc[h] = "report_site_read" /\ hpc'[h] = "report_site_save"
    BY <1>0, <1>3 DEF ReportSiteRead
  <2>5. Quietly
    BY <1>3 DEF ReportSiteRead
  <2>6. QED
    BY <2>2, <2>3, <2>4, <2>5 DEF Accepted, OpSaves
<1>4. ASSUME NEW h \in Handlers, CancelSave(h) \/ RetrySave(h) \/ DispatchClear(h) \/ ExecSave(h) \/ ExecRun(h)
      PROVE  Quietly /\ Still
  BY <1>0, <1>4 DEF CancelSave, RetrySave, DispatchClear, ExecSave, ExecRun, Accepted, OpSaves
<1>e. ASSUME NEW h \in Handlers, ExecUnavailable(h) \/ UpdateSave(h) \/ AssignSave(h)
      PROVE  Quietly /\ Still
  BY <1>0, <1>e DEF ExecUnavailable, UpdateSave, AssignSave, EditSave, Accepted, OpSaves
<1>r. ASSUME NEW h \in Handlers, NEW s \in Sites, UpdateRead(h, s) \/ AssignRead(h, s)
      PROVE  Quietly /\ Still
  BY <1>0, <1>r DEF UpdateRead, AssignRead, EditRead, Accepted, OpSaves
<1>5. ASSUME NEW h \in Handlers, NEW j \in JobIds, CancelRead(h, j) \/ RetryRead(h, j)
      PROVE  Quietly /\ Still
  BY <1>0, <1>5 DEF CancelRead, RetryRead, Accepted, OpSaves
<1>6. ASSUME NEW h \in Handlers, NEW k \in Kinds, NEW now \in BOOLEAN, DispatchRead(h, k, now)
      PROVE  Quietly /\ Still
  BY <1>0, <1>6 DEF DispatchRead, Accepted, OpSaves
<1>7. ASSUME NEW a \in Agents, NEW h \in Handlers, ClaimRequest(a, h) \/ ReportRequest(a, h)
      PROVE  Quietly /\ Still
  BY <1>0, <1>7 DEF ClaimRequest, ReportRequest, Accepted, OpSaves
<1>8. ASSUME NEW a \in Agents, Execute(a) \/ ConnectionLost(a) \/ Timeout(a) \/ AgentCrash(a)
      PROVE  Quietly /\ UNCHANGED <<hpc, local>>
  BY <1>8 DEF Execute, ConnectionLost, Timeout, AgentCrash
<1>9. ASSUME NEW h \in Handlers, HandlerError(h)
      PROVE  Quietly /\ Still
  BY <1>0, <1>9 DEF HandlerError, Accepted, OpSaves
<1>10. CASE (\E s \in Sites : DeleteSiteJobs(s)) \/ UNCHANGED vars
  BY <1>10 DEF DeleteSiteJobs, vars, NobodyOwes, NobodyTakes
<1>11. Quietly /\ Still
  BY <1>1, <1>2, <1>3, <1>4, <1>5, <1>6, <1>7, <1>8, <1>9, <1>10, <1>e, <1>r
     DEF Next, HandlerStep, OperatorStep, AgentStep, Fault, OpStep, NobodyOwes, NobodyTakes
<1>12. QED
  BY <1>11 DEF NobodyOwes, NobodyTakes

\* The rows that handlers have picked stay theirs.
LEMMA OpRowsInvStep == TypeInv /\ TypeInv' /\ OpRowsInv /\ [Next]_vars => OpRowsInv'
<1> SUFFICES ASSUME TypeInv, TypeInv', OpRowsInv, [Next]_vars PROVE OpRowsInv'
  OBVIOUS
<1> USE DEF Goto, End, jobVars, opVars, histVars
<1>0. /\ hpc \in [Handlers -> HandlerPcs] /\ local \in [Handlers -> Locals]
      /\ ops \in [JobIds -> OpRows] /\ wins \in [JobIds -> Nat] /\ nextOp \in 1..(MaxJobs + 1)
      /\ nextJob \in 1..(MaxJobs + 1) /\ MaxJobs \in Nat /\ WinsGrow
  BY WinsOnlyGrow, BoundsAssumption DEF TypeInv, TypeOK
<1>1. CASE ~OpStep
  <2>1. UNCHANGED <<kind, nextJob, opVars, wins>> /\ NobodyTakes
    BY <1>1, OtherStepsTakeNoOp
  <2>2. Issued' = Issued
    BY <2>1 DEF Issued
  <2>3. QED
    BY <1>0, <2>1, <2>2, OpRowsKept DEF OpRowsInv
\* A step that changes what rows say, but not what they are of.
<1>2. ASSUME UNCHANGED <<kind, nextJob, nextOp, wins>>, NobodyTakes,
             \A o \in JobIds : ops'[o].kind = ops[o].kind /\ (ops[o].status = "absent" => ops'[o].status = "absent" \/ o < nextOp)
      PROVE  OpRowsInv'
  <2>1. Issued' = Issued /\ 1..(nextOp - 1) \subseteq JobIds
    BY <1>0, <1>2 DEF Issued, JobIds
  <2>2. QED
    BY <1>0, <1>2, <2>1, OpRowsKept DEF OpRowsInv
<1>3. ASSUME NEW h \in Handlers, ReportOpSave(h) \/ RetryOpSave(h) PROVE OpRowsInv'
  <2> DEFINE o == local[h].op
  <2>1. PICK st \in Statuses : ops' = [ops EXCEPT ![o].status = st]
    BY <1>3 DEF ReportOpSave, RetryOpSave, TypeInv, HandlersInHand, ReportPcs, Statuses, Open
  <2>2. o \in 1..(nextOp - 1)
    BY <1>3 DEF ReportOpSave, RetryOpSave, OpRowsInv, OpSaves
  <2>3. \A p \in JobIds : ops'[p].kind = ops[p].kind /\ (p # o => ops'[p] = ops[p])
    BY <1>0, <2>1 DEF OpRows
  <2>4. NobodyTakes /\ UNCHANGED <<kind, nextJob, nextOp, wins>>
    BY <1>0, <1>3 DEF ReportOpSave, RetryOpSave, NobodyTakes, OpSaves
  <2>5. o < nextOp
    BY <1>0, <2>2
  <2>6. QED
    BY <1>2, <2>3, <2>4, <2>5
<1>4. CASE ServerRestart
  <2>1. NobodyTakes /\ UNCHANGED <<kind, nextJob, nextOp, wins>>
    BY <1>4 DEF ServerRestart, NobodyTakes, OpSaves
  <2>2. \A p \in JobIds : ops'[p].kind = ops[p].kind /\ (ops[p].status = "absent" => ops'[p].status = "absent")
    BY <1>0, <1>4 DEF ServerRestart, OpRows, Open
  <2>3. QED
    BY <1>2, <2>1, <2>2
<1>5. ASSUME NEW h \in Handlers, DispatchOp(h) PROVE OpRowsInv'
  <2>1. ops' = [ops EXCEPT ![nextOp] = [kind |-> local[h].kind, status |-> "running"]] /\ nextOp' = nextOp + 1
    BY <1>5 DEF DispatchOp
  <2>2. NobodyTakes /\ UNCHANGED <<kind, nextJob, wins>>
    BY <1>0, <1>5 DEF DispatchOp, NobodyTakes, OpSaves
  <2>3. \A p \in JobIds \ {nextOp} : ops'[p] = ops[p]
    BY <1>0, <2>1
  <2>4. 1..(nextOp - 1) \subseteq JobIds \ {nextOp} /\ nextOp' > nextOp
    BY <1>0, <2>1 DEF JobIds
  <2>5. \A p \in JobIds : ops'[p].status # "absent" => p < nextOp'
    BY <1>0, <2>1, <2>3 DEF OpRowsInv, JobIds
  <2>6. \A j \in JobIds \ Issued' : wins'[j] = 0
    BY <2>2 DEF Issued, OpRowsInv
  <2>7. \A p \in 1..(nextOp - 1) : ops'[p].kind = ops[p].kind
    BY <2>3, <2>4
  <2>8. nextOp' >= nextOp
    BY <1>0, <2>1
  <2>9. QED
    BY <1>0, <2>2, <2>5, <2>6, <2>7, <2>8, OpRowsKept
<1>6. ASSUME NEW h \in Handlers, DispatchJob(h) PROVE OpRowsInv'
  <2>1. NobodyTakes /\ UNCHANGED <<opVars, wins>>
    BY <1>0, <1>6 DEF DispatchJob, NobodyTakes, OpSaves
  <2>2. Issued \subseteq Issued'
    BY <1>0, <1>6 DEF DispatchJob, Issued
  <2>3. QED
    BY <1>0, <2>1, <2>2, OpRowsKept DEF OpRowsInv
<1>7. ASSUME NEW h \in Handlers, ReportCas(h) PROVE OpRowsInv'
  <2>1. NobodyTakes /\ UNCHANGED <<opVars, kind, nextJob>>
    BY <1>0, <1>7 DEF ReportCas, ReportUpdate, NobodyTakes, OpSaves
  <2>2. local[h].job \in Issued /\ Issued' = Issued
    BY <1>7, <2>1 DEF ReportCas, ReportUpdate, TypeInv, HandlersInHand, JobPcs, HandlerPcs, Issued
  <2>3. \A j \in JobIds \ Issued : wins'[j] = wins[j]
    BY <1>0, <1>7, <2>2 DEF ReportCas, ReportUpdate
  <2>4. QED
    BY <1>0, <2>1, <2>2, <2>3, OpRowsKept DEF OpRowsInv
\* A handler that has found a row of site and action k holds it, if it saves it.
<1>8. ASSUME NEW h \in Handlers, NEW S \in SUBSET (Statuses \ {"absent"}), UNCHANGED <<jobVars, opVars, wins>>,
             \A g \in Handlers \ {h} : hpc'[g] = hpc[g] /\ local'[g] = local[g],
             hpc'[h] \in OpSaves => /\ local'[h].op \in OpsOf(kind[local[h].job], S)
                                    /\ local'[h].job = local[h].job
      PROVE  OpRowsInv'
  <2>1. \A o \in JobIds : ops[o].status \in S => o \in 1..(nextOp - 1)
    BY <1>0, <1>8 DEF OpRowsInv, JobIds
  <2>2. hpc'[h] \in OpSaves => local'[h].op \in 1..(nextOp - 1) /\ ops[local'[h].op].kind = kind[local'[h].job]
    BY <1>8, <2>1 DEF OpsOf
  <2>3. Issued' = Issued
    BY <1>8 DEF Issued
  <2>4. QED
    BY <1>8, <2>2, <2>3 DEF OpRowsInv, OpSaves
<1>9. ASSUME NEW S \in SUBSET Statuses, NEW k, LatestOp(k, S) # NoJob PROVE LatestOp(k, S) \in OpsOf(k, S)
  <2>1. OpsOf(k, S) # {} /\ OpsOf(k, S) \in SUBSET JobIds /\ LatestOp(k, S) = Max(OpsOf(k, S))
    BY <1>9 DEF LatestOp, OpsOf
  <2>2. QED
    BY <2>1, MaxIsMember
<1>10. ASSUME NEW h \in Handlers, ReportOpRead(h) PROVE OpRowsInv'
  <2> DEFINE o == LatestOp(kind[local[h].job], {"running"})
  <2>1. local' = [local EXCEPT ![h].op = o] /\ hpc' = [hpc EXCEPT ![h] = IF o = NoJob THEN "report_reply" ELSE "report_op_save"]
    BY <1>10 DEF ReportOpRead
  <2>2. {"running"} \in SUBSET (Statuses \ {"absent"})
    BY DEF Statuses, Open
  <2>3. o # NoJob => o \in OpsOf(kind[local[h].job], {"running"})
    BY <1>9, <2>2
  <2> HIDE DEF o
  <2>4. local'[h].op = o /\ local'[h].job = local[h].job /\ (hpc'[h] \in OpSaves => o # NoJob)
    BY <1>0, <2>1 DEF Locals, OpSaves
  <2>5. \A g \in Handlers \ {h} : hpc'[g] = hpc[g] /\ local'[g] = local[g]
    BY <1>0, <2>1
  <2>6. UNCHANGED <<jobVars, opVars, wins>>
    BY <1>10 DEF ReportOpRead
  <2>7. QED
    BY <1>8, <2>2, <2>3, <2>4, <2>5, <2>6
<1>11. ASSUME NEW h \in Handlers, RetryOpRead(h) PROVE OpRowsInv'
  <2> DEFINE o == LatestOp(kind[local[h].job], {"running", "failed"})
  <2>1. {"running", "failed"} \in SUBSET (Statuses \ {"absent"})
    BY DEF Statuses, Open, Outcomes
  <2>2. o # NoJob => o \in OpsOf(kind[local[h].job], {"running", "failed"})
    BY <1>9, <2>1
  <2>3. IF o = NoJob THEN End(h) ELSE Goto(h, "retry_op_read", "retry_op_save") /\ local' = [local EXCEPT ![h].op = o]
    BY <1>11 DEF RetryOpRead
  <2> HIDE DEF o
  <2>4. \A g \in Handlers \ {h} : hpc'[g] = hpc[g] /\ local'[g] = local[g]
    BY <1>0, <2>3
  <2>5. hpc'[h] \in OpSaves => o # NoJob /\ local'[h].op = o /\ local'[h].job = local[h].job
    BY <1>0, <2>3 DEF OpSaves, Locals
  <2>6. UNCHANGED <<jobVars, opVars, wins>>
    BY <1>11 DEF RetryOpRead
  <2>7. QED
    BY <1>8, <2>1, <2>2, <2>4, <2>5, <2>6
<1>12. QED
  BY <1>1, <1>3, <1>4, <1>5, <1>6, <1>7, <1>10, <1>11 DEF OpStep

\* The successes of site and action k are counted once each.
LEMMA WonTurns ==
    ASSUME NEW k, NEW j, NEW n PROVE <<j, n>> \in Won(k) <=> j \in JobIds /\ kind[j] = k /\ n \in 1..wins[j]
BY DEF Won

\* A step that accepts no success leaves them as they are.
LEMMA WonSame ==
    ASSUME TypeInv, [Next]_vars, OpRowsInv, wins' = wins, NEW k \in Kinds
    PROVE  Won(k)' = Won(k)
<1>1. WinsGrow
  BY WinsOnlyGrow
<1>2. \A j \in JobIds : kind'[j] = kind[j] \/ wins[j] = 0
  BY <1>1 DEF WinsGrow, OpRowsInv
<1>3. \A j \in JobIds : wins[j] = 0 => {j} \X (1..wins[j]) = {}
  OBVIOUS
<1>4. \A j \in JobIds : kind'[j] # kind[j] => {j} \X (1..wins[j]) = {}
  BY <1>2, <1>3
<1>5. QED
  BY <1>4 DEF Won

\* PaidInv is inductive relative to the type invariant and the rows picked.
LEMMA PaidInvStep == TypeInv /\ TypeInv' /\ OpRowsInv /\ PaidInv /\ [Next]_vars => PaidInv'
<1> SUFFICES ASSUME TypeInv, TypeInv', OpRowsInv, PaidInv, [Next]_vars, NEW k \in Kinds
             PROVE  Paid(OpsOf(k, {"success"}), Owing(k), Won(k))'
  BY DEF PaidInv
<1> USE DEF Goto, End, jobVars, opVars, histVars
<1>0. /\ hpc \in [Handlers -> HandlerPcs] /\ local \in [Handlers -> Locals]
      /\ ops \in [JobIds -> OpRows] /\ wins \in [JobIds -> Nat] /\ nextOp \in 1..(MaxJobs + 1)
      /\ WinsGrow
  BY WinsOnlyGrow DEF TypeInv, TypeOK
<1> DEFINE C == OpsOf(k, {"success"})
           O == Owing(k)
           W == Won(k)
<1>1. Paid(C, O, W)
  BY DEF PaidInv
<1>2. ASSUME C' \subseteq C, NobodyOwes, wins' = wins PROVE Paid(C', O', W')
  <2>1. O' \subseteq O
    BY <1>0, <1>2, OwedLess
  <2>2. W' = W
    BY <1>2, WonSame
  <2> HIDE DEF C, O, W
  <2>3. Paid(C', O', W)
    BY <1>1, <1>2, <2>1, PaidLess
  <2>4. QED
    BY <2>2, <2>3
<1>3. CASE ~OpStep
  <2>1. UNCHANGED opVars /\ UNCHANGED wins /\ NobodyOwes
    BY <1>3, OtherStepsTakeNoOp
  <2>2. C' = C
    BY <2>1 DEF OpsOf
  <2>3. QED
    BY <1>2, <2>1, <2>2
<1>4. ASSUME NEW h \in Handlers, ReportOpRead(h) \/ RetryOpRead(h) \/ DispatchJob(h) PROVE Paid(C', O', W')
  <2>1. UNCHANGED opVars /\ UNCHANGED wins
    BY <1>4 DEF ReportOpRead, RetryOpRead, DispatchJob
  <2>2. CASE ReportOpRead(h) \/ RetryOpRead(h)
    <3>1. /\ \A g \in Handlers : g # h => local'[g] = local[g] /\ hpc'[g] = hpc[g]
          /\ hpc'[h] \in Accepted => hpc[h] = "report_op_read" /\ local'[h].job = local[h].job /\ local'[h].res = local[h].res
      BY <1>0, <2>2 DEF ReportOpRead, RetryOpRead, Locals, Accepted
    <3>2. QED
      BY <1>2, <2>1, <3>1 DEF NobodyOwes, Accepted, OpsOf
  <2>3. CASE DispatchJob(h)
    <3>1. NobodyOwes
      BY <1>0, <2>3 DEF DispatchJob, NobodyOwes, Accepted
    <3>2. QED
      BY <1>2, <2>1, <3>1 DEF OpsOf
  <2>4. QED
    BY <1>4, <2>2, <2>3
<1>5. ASSUME NEW h \in Handlers, RetryOpSave(h) \/ DispatchOp(h) PROVE Paid(C', O', W')
  <2>1. NobodyOwes /\ wins' = wins
    BY <1>0, <1>5 DEF RetryOpSave, DispatchOp, NobodyOwes, Accepted
  <2>2. \A o \in JobIds : ops'[o].status = "success" => ops'[o] = ops[o]
    BY <1>0, <1>5 DEF RetryOpSave, DispatchOp, OpRows
  <2>3. C' \subseteq C
    BY <2>2 DEF OpsOf
  <2>4. QED
    BY <1>2, <2>1, <2>3
<1>6. CASE ServerRestart
  <2>1. NobodyOwes /\ wins' = wins
    BY <1>6 DEF ServerRestart, NobodyOwes, Accepted
  <2>2. \A o \in JobIds : ops'[o].status = "success" => ops'[o] = ops[o]
    BY <1>0, <1>6 DEF ServerRestart, OpRows
  <2>3. C' \subseteq C
    BY <2>2 DEF OpsOf
  <2>4. QED
    BY <1>2, <2>1, <2>3
<1>7. ASSUME NEW h \in Handlers, ReportOpSave(h) PROVE Paid(C', O', W')
  <2> DEFINE o == local[h].op
  <2>1. /\ hpc[h] = "report_op_save" /\ local[h].res \in Outcomes
        /\ o \in 1..(nextOp - 1) /\ ops[o].kind = kind[local[h].job]
    BY <1>7 DEF ReportOpSave, TypeInv, HandlersInHand, ReportPcs, OpRowsInv, OpSaves
  <2>2. ops' = [ops EXCEPT ![o].status = local[h].res] /\ UNCHANGED <<kind, wins, local>>
    BY <1>7 DEF ReportOpSave
  <2>3. /\ \A p \in JobIds : ops'[p].kind = ops[p].kind /\ (p # o => ops'[p] = ops[p])
        /\ ops'[o].status = local[h].res
    <3>1. o \in JobIds
      BY <1>0, <2>1, BoundsAssumption DEF JobIds
    <3>2. QED
      BY <1>0, <2>2, <3>1 DEF OpRows
  <2>4. \A g \in Handlers : hpc'[g] = IF g = h THEN "report_reply" ELSE hpc[g]
    BY <1>0, <1>7 DEF ReportOpSave
  <2>5. NobodyOwes
    BY <2>2, <2>4 DEF NobodyOwes, Accepted
  <2>6. CASE local[h].res = "success" /\ kind[local[h].job] = k
    <3>1. h \in O
      BY <2>1, <2>6 DEF Owing, Accepted
    <3>2. O' \subseteq O \ {h}
      BY <2>2, <2>4 DEF Owing, Accepted
    <3>3. C' \subseteq C \cup {o}
      BY <2>3 DEF OpsOf
    <3>4. W' = W
      BY <2>2, WonSame
    <3> HIDE DEF C, O, W
    <3>5. Paid(C \cup {o}, O \ {h}, W)
      BY <1>1, <3>1, PaidShown
    <3>6. Paid(C', O', W)
      BY <3>2, <3>3, <3>5, PaidLess
    <3>7. QED
      BY <3>4, <3>6
  <2>7. CASE local[h].res # "success" \/ kind[local[h].job] # k
    <3>1. C' \subseteq C
      BY <2>1, <2>3, <2>7 DEF OpsOf
    <3>2. QED
      BY <1>2, <2>2, <2>5, <3>1
  <2>8. QED
    BY <2>6, <2>7
<1>8. ASSUME NEW h \in Handlers, ReportCas(h) PROVE Paid(C', O', W')
  <2> DEFINE j == local[h].job
             w == <<j, wins[j] + 1>>
  <2>1. hpc[h] = "report_cas" /\ j \in JobIds /\ wins[j] \in Nat
    BY <1>0, <1>8, IssuedIsJobs DEF ReportCas, ReportUpdate, TypeInv, HandlersInHand, JobPcs, HandlerPcs
  <2>2. UNCHANGED <<kind, ops, local>> /\ \A g \in Handlers : g # h => hpc'[g] = hpc[g]
    BY <1>0, <1>8 DEF ReportCas, ReportUpdate
  <2>3. C' = C
    BY <2>2 DEF OpsOf
  <2>4. CASE local[h].res = "success" /\ hpc'[h] \in Accepted /\ kind[j] = k
    <3>1. wins' = [wins EXCEPT ![j] = wins[j] + 1]
      BY <1>0, <1>8, <2>4 DEF ReportCas, ReportUpdate, Accepted
    <3>2. O' \subseteq O \cup {h}
      BY <2>2 DEF Owing
    <3>3. w \notin W
      BY <2>1, WonTurns
    <3>4. W' = W \cup {w}
      <4>1. \A i \in JobIds : wins'[i] = IF i = j THEN wins[j] + 1 ELSE wins[i]
        BY <1>0, <3>1
      <4>2. 1..(wins[j] + 1) = (1..wins[j]) \cup {wins[j] + 1}
        BY <2>1
      <4>3. \A i \in JobIds : {i} \X (1..wins'[i]) = IF i = j THEN ({i} \X (1..wins[i])) \cup {w} ELSE {i} \X (1..wins[i])
        BY <4>1, <4>2
      <4>4. QED
        BY <2>1, <2>2, <2>4, <4>3 DEF Won
    <3> HIDE DEF C, O, W, w
    <3>5. Paid(C, O \cup {h}, W \cup {w})
      BY <1>1, <3>3, PaidOwed
    <3>6. Paid(C, O', W \cup {w})
      BY <3>2, <3>5, PaidLess
    <3>7. QED
      BY <2>3, <3>4, <3>6
  <2>5. CASE ~(local[h].res = "success" /\ hpc'[h] \in Accepted /\ kind[j] = k)
    <3>1. O' \subseteq O
      BY <2>2, <2>5 DEF Owing
    <3>2. W' = W
      <4>1. CASE kind[j] = k
        <5>1. wins' = wins
          BY <1>0, <1>8, <2>5, <4>1 DEF ReportCas, ReportUpdate, Accepted
        <5>2. QED
          BY <5>1, WonSame
      <4>2. CASE kind[j] # k
        <5>1. \A i \in JobIds : i # j => wins'[i] = wins[i]
          BY <1>0, <1>8 DEF ReportCas, ReportUpdate
        <5>2. QED
          BY <2>2, <4>2, <5>1 DEF Won
      <4>3. QED
        BY <4>1, <4>2
    <3> HIDE DEF C, O, W
    <3>3. Paid(C, O', W)
      BY <1>1, <3>1, PaidLess
    <3>4. QED
      BY <2>3, <3>2, <3>3
  <2>6. QED
    BY <2>4, <2>5
<1>9. QED
  BY <1>3, <1>4, <1>5, <1>6, <1>7, <1>8 DEF OpStep

\* The task centre never shows more successes of a site and action than were
\* reported, in whatever order reports pick their OperationJob and save it
\* (_sync_operation_job).
THEOREM OpSuccessesAreBacked == Spec => []OpSuccessBacked
<1>1. Init => OpRowsInv /\ PaidInv
  <2> SUFFICES ASSUME Init PROVE OpRowsInv /\ PaidInv
    OBVIOUS
  <2>1. OpRowsInv
    BY DEF Init, OpRowsInv, OpSaves
  <2>2. ASSUME NEW k \in Kinds PROVE OpsOf(k, {"success"}) = {} /\ Owing(k) = {} /\ Won(k) = {}
    <3>1. \A j \in JobIds : 1..wins[j] = {}
      BY DEF Init
    <3>2. \A j \in JobIds : {j} \X (1..wins[j]) = {}
      BY <3>1
    <3>3. Won(k) = {}
      BY <3>2 DEF Won
    <3>4. QED
      BY <3>3 DEF Init, OpsOf, Owing, Accepted
  <2>3. Paid({}, {}, {})
    BY FS_EmptySet DEF Paid
  <2>4. QED
    BY <2>1, <2>2, <2>3 DEF PaidInv
<1>2. TypeInv /\ OpRowsInv /\ PaidInv /\ [Next]_vars => (TypeInv /\ OpRowsInv /\ PaidInv)'
  BY TypeInvStep, OpRowsInvStep, PaidInvStep
<1>3. PaidInv => OpSuccessBacked
  <2> SUFFICES ASSUME PaidInv, NEW k \in Kinds PROVE Cardinality(OpsOf(k, {"success"})) <= Cardinality(Won(k))
    BY DEF OpSuccessBacked
  <2>1. Paid(OpsOf(k, {"success"}), Owing(k), Won(k))
    BY DEF PaidInv
  <2>2. /\ Cardinality(OpsOf(k, {"success"})) \in Nat /\ Cardinality(Owing(k)) \in Nat
        /\ Cardinality(Won(k)) \in Nat
    BY <2>1, FS_CardinalityType DEF Paid
  <2>3. QED
    BY <2>1, <2>2 DEF Paid
<1>4. QED
  BY <1>1, <1>2, <1>3, TypeInvInit, PTL DEF Spec

-----------------------------------------------------------------------------
(* No job is forgotten.  Who claimed a job's current queueing works on it    *)
(* until an answer to its report reaches it, and such an answer is only      *)
(* given once the job is no longer running; what the server's own executor   *)
(* sets running, that handler reports, or gives up when it has no executor.  *)

ClaimPcs  == {"claim_read", "claim_cas", "claim_reply"}
AnswerPcs == {"report_site_read", "report_site_save", "report_op_read", "report_op_save", "report_reply"}

\* Handler h answers the request agent a is waiting on.
Serves(h, a) == Waits(a, h) /\ local[h].agent = a

\* Who waits, waits for a claim with nothing in hand, or for the report of the
\* job it has.
Pairing ==
    /\ \A a \in Agents : apc[a] \in {"poll", "await_claim"} => work[a].job = NoJob
    /\ \A h \in Handlers :
          /\ hpc[h] \in ClaimPcs => local[h].agent \in Agents
          /\ hpc[h] \notin ClaimPcs \cup ReportPcs \cup {"report_reply"} => local[h].agent = NoAgent
    /\ \A a \in Agents, h \in Handlers : Serves(h, a) =>
          \/ apc[a] = "await_claim" /\ hpc[h] \in ClaimPcs
          \/ apc[a] = "await_report" /\ hpc[h] \notin ClaimPcs /\ local[h].job = work[a].job

\* An agent whose report is not settled yet owns the queueing it claimed.
AgentOwns(a, j) ==
    /\ work[a].job = j /\ work[a].turn = queued[j]
    /\ \A h \in Handlers : Serves(h, a) => hpc[h] \notin AnswerPcs

HandlerOwns(h, j) == OwnedBy(h) = j /\ (hpc[h] = "claim_reply" => local[h].turn = queued[j])

Owned(j) == (\E a \in Agents : AgentOwns(a, j)) \/ (\E h \in Handlers : HandlerOwns(h, j))

Owners == \A j \in JobIds : status[j] = "running" /\ j \notin orphaned => Owned(j)

\* Pairing is inductive relative to the type invariant.
LEMMA PairingStep ==
    ASSUME TypeInv, Pairing, [Next]_vars PROVE Pairing'
<1> USE DEF ClaimPcs, ReportPcs, Serves, Waits, Goto, End, agentVars, serverVars
<1>0. /\ hpc \in [Handlers -> HandlerPcs] /\ local \in [Handlers -> Locals]
      /\ apc \in [Agents -> AgentPcs] /\ work \in [Agents -> Works]
      /\ NoAgent \notin Agents
  BY NobodyAssumption DEF TypeInv, TypeOK
<1>end. ASSUME NEW h \in Handlers, End(h),
             \A a \in Agents : \/ apc'[a] = apc[a] /\ work'[a] = work[a]
                               \/ apc'[a] = "poll" /\ work'[a].job = NoJob
                               \/ apc'[a] = "exec"
      PROVE  Pairing'
  BY <1>0, <1>end DEF Pairing, NoLocals
<1>1. ASSUME NEW h \in Handlers, ClaimRead(h) PROVE Pairing'
  <2>1. hpc[h] = "claim_read" /\ hpc'[h] \in {"claim_reply", "claim_cas"} /\ local'[h].agent = local[h].agent
    BY <1>0, <1>1 DEF ClaimRead, Locals
  <2>2. \A g \in Handlers \ {h} : hpc'[g] = hpc[g] /\ local'[g] = local[g]
    BY <1>0, <1>1 DEF ClaimRead
  <2>3. apc' = apc /\ work' = work
    BY <1>1 DEF ClaimRead
  <2>4. QED
    BY <2>1, <2>2, <2>3 DEF Pairing
<1>2. ASSUME NEW h \in Handlers, ClaimCas(h) PROVE Pairing'
  BY <1>0, <1>2 DEF Pairing, ClaimCas, Locals, Works, NoLocals, NoWork
<1>3. ASSUME NEW h \in Handlers, ClaimReply(h) PROVE Pairing'
  <2>1. \A a \in Agents : \/ apc'[a] = apc[a] /\ work'[a] = work[a]
                          \/ apc'[a] = "poll" /\ work'[a].job = NoJob
                          \/ apc'[a] = "exec"
    <3>1. [NoWork EXCEPT !.job = local[h].job, !.turn = local[h].turn].job = local[h].job
      BY DEF NoWork
    <3>2. CASE UNCHANGED <<apc, work>>
      BY <3>2
    <3>3. CASE apc' = [apc EXCEPT ![local[h].agent] = IF local[h].job = NoJob THEN "poll" ELSE "exec"]
               /\ work' = [work EXCEPT ![local[h].agent] = [NoWork EXCEPT !.job = local[h].job,
                                                                        !.turn = local[h].turn]]
      BY <1>0, <3>1, <3>3
    <3>4. QED
      BY <1>3, <3>2, <3>3 DEF ClaimReply
  <2>2. QED
    BY <1>end, <1>3, <2>1 DEF ClaimReply
<1>4. ASSUME NEW h \in Handlers, ReportRead(h) PROVE Pairing'
  BY <1>0, <1>4 DEF Pairing, ReportRead, Locals, Works, NoLocals, NoWork
<1>5. ASSUME NEW h \in Handlers, ReportCas(h) PROVE Pairing'
  BY <1>0, <1>5 DEF Pairing, ReportCas, ReportUpdate, Locals, Works, NoLocals, NoWork
<1>6. ASSUME NEW h \in Handlers, ReportSiteRead(h) PROVE Pairing'
  BY <1>0, <1>6 DEF Pairing, ReportSiteRead, Locals, Works, NoLocals, NoWork
<1>7. ASSUME NEW h \in Handlers, ReportSiteSave(h) PROVE Pairing'
  BY <1>0, <1>7 DEF Pairing, ReportSiteSave, Locals, Works, NoLocals, NoWork
<1>8. ASSUME NEW h \in Handlers, ReportOpRead(h) PROVE Pairing'
  BY <1>0, <1>8 DEF Pairing, ReportOpRead, Locals, Works, NoLocals, NoWork
<1>9. ASSUME NEW h \in Handlers, ReportOpSave(h) PROVE Pairing'
  BY <1>0, <1>9 DEF Pairing, ReportOpSave, Locals, Works, NoLocals, NoWork
<1>10. ASSUME NEW h \in Handlers, ReportReply(h) PROVE Pairing'
  <2>1. \A a \in Agents : \/ apc'[a] = apc[a] /\ work'[a] = work[a]
                          \/ apc'[a] = "poll" /\ work'[a].job = NoJob
                          \/ apc'[a] = "exec"
    BY <1>0, <1>10 DEF ReportReply, NoWork
  <2>2. QED
    BY <1>end, <1>10, <2>1 DEF ReportReply
<1>11. ASSUME NEW h \in Handlers, CancelSave(h) PROVE Pairing'
  BY <1>0, <1>11 DEF Pairing, CancelSave, Locals, Works, NoLocals, NoWork
<1>12. ASSUME NEW h \in Handlers, RetrySave(h) PROVE Pairing'
  BY <1>0, <1>12 DEF Pairing, RetrySave, Locals, Works, NoLocals, NoWork
<1>13. ASSUME NEW h \in Handlers, RetryOpRead(h) PROVE Pairing'
  BY <1>0, <1>13 DEF Pairing, RetryOpRead, Locals, Works, NoLocals, NoWork
<1>14. ASSUME NEW h \in Handlers, RetryOpSave(h) PROVE Pairing'
  BY <1>0, <1>14 DEF Pairing, RetryOpSave, Locals, Works, NoLocals, NoWork
<1>15. ASSUME NEW h \in Handlers, DispatchClear(h) PROVE Pairing'
  BY <1>0, <1>15 DEF Pairing, DispatchClear, Locals, Works, NoLocals, NoWork
<1>16. ASSUME NEW h \in Handlers, DispatchJob(h) PROVE Pairing'
  BY <1>0, <1>16 DEF Pairing, DispatchJob, Locals, Works, NoLocals, NoWork
<1>17. ASSUME NEW h \in Handlers, DispatchOp(h) PROVE Pairing'
  BY <1>0, <1>17 DEF Pairing, DispatchOp, Locals, Works, NoLocals, NoWork
<1>18. ASSUME NEW h \in Handlers, ExecSave(h) PROVE Pairing'
  BY <1>0, <1>18 DEF Pairing, ExecSave, Locals, Works, NoLocals, NoWork
<1>19. ASSUME NEW h \in Handlers, ExecRun(h) PROVE Pairing'
  BY <1>0, <1>19 DEF Pairing, ExecRun, Locals, Works, NoLocals, NoWork
<1>e. ASSUME NEW h \in Handlers, ExecUnavailable(h) \/ UpdateSave(h) \/ AssignSave(h) PROVE Pairing'
  BY <1>end, <1>e DEF ExecUnavailable, UpdateSave, AssignSave, EditSave
<1>20. ASSUME NEW h \in Handlers, HandlerError(h) PROVE Pairing'
  <2>1. \A a \in Agents : \/ apc'[a] = apc[a] /\ work'[a] = work[a]
                          \/ apc'[a] = "poll" /\ work'[a].job = NoJob
                          \/ apc'[a] = "exec"
    BY <1>0, <1>20 DEF HandlerError, NoWork
  <2>2. QED
    BY <1>end, <1>20, <2>1 DEF HandlerError
<1>21. ASSUME NEW h \in Handlers, NEW j \in JobIds, CancelRead(h, j) PROVE Pairing'
  BY <1>0, <1>21 DEF Pairing, CancelRead, Locals, Works, NoLocals, NoWork
<1>22. ASSUME NEW h \in Handlers, NEW j \in JobIds, RetryRead(h, j) PROVE Pairing'
  BY <1>0, <1>22 DEF Pairing, RetryRead, Locals, Works, NoLocals, NoWork
<1>23. ASSUME NEW h \in Handlers, NEW k \in Kinds, NEW now \in BOOLEAN, DispatchRead(h, k, now) PROVE Pairing'
  BY <1>0, <1>23 DEF Pairing, DispatchRead, Locals, Works, NoLocals, NoWork
<1>r. ASSUME NEW h \in Handlers, NEW s \in Sites, UpdateRead(h, s) \/ AssignRead(h, s) PROVE Pairing'
  <2>1. PICK to \in EditPcs : EditRead(h, s, to)
    BY <1>r DEF UpdateRead, AssignRead, EditPcs
  <2>2. to \notin ClaimPcs /\ to \notin ReportPcs /\ to # "report_reply"
    BY DEF EditPcs
  <2>3. hpc[h] = "idle" /\ hpc'[h] = to /\ local'[h].agent = NoAgent /\ apc' = apc /\ work' = work
    BY <1>0, <2>1 DEF EditRead, NoLocals
  <2>4. \A g \in Handlers \ {h} : hpc'[g] = hpc[g] /\ local'[g] = local[g]
    BY <1>0, <2>1 DEF EditRead
  <2>5. QED
    BY <1>0, <2>2, <2>3, <2>4 DEF Pairing
<1>24. ASSUME NEW a \in Agents, NEW h \in Handlers, ClaimRequest(a, h) PROVE Pairing'
  BY <1>0, <1>24 DEF Pairing, ClaimRequest, Locals, Works, NoLocals, NoWork
<1>25. ASSUME NEW a \in Agents, NEW h \in Handlers, ReportRequest(a, h) PROVE Pairing'
  BY <1>0, <1>25 DEF Pairing, ReportRequest, Locals, Works, NoLocals, NoWork
<1>26. ASSUME NEW a \in Agents, Execute(a) PROVE Pairing'
  BY <1>0, <1>26 DEF Pairing, Execute, Locals, Works, NoLocals, NoWork
<1>27. ASSUME NEW a \in Agents, ConnectionLost(a) PROVE Pairing'
  BY <1>0, <1>27 DEF Pairing, ConnectionLost, Abandon, GivesUpReport, Locals, Works, NoLocals, NoWork
<1>28. ASSUME NEW a \in Agents, Timeout(a) PROVE Pairing'
  BY <1>0, <1>28 DEF Pairing, Timeout, Abandon, GivesUpReport, Locals, Works, NoLocals, NoWork
<1>29. ASSUME NEW a \in Agents, AgentCrash(a) PROVE Pairing'
  BY <1>0, <1>29 DEF Pairing, AgentCrash, Locals, Works, NoLocals, NoWork
<1>30. ASSUME ServerRestart PROVE Pairing'
  BY <1>0, <1>30 DEF Pairing, ServerRestart, Locals, Works, NoLocals, NoWork
<1>31. ASSUME NEW s \in Sites, DeleteSiteJobs(s) PROVE Pairing'
  BY <1>0, <1>31 DEF Pairing, DeleteSiteJobs, Locals, Works, NoLocals, NoWork
<1>32. ASSUME UNCHANGED vars PROVE Pairing'
  BY <1>0, <1>32 DEF Pairing, vars, Locals, Works, NoLocals, NoWork
<1>33. QED
  BY <1>1, <1>2, <1>3, <1>4, <1>5, <1>6, <1>7, <1>8, <1>9, <1>10, <1>11, <1>12, <1>13, <1>14, <1>15, <1>16, <1>17, <1>18, <1>19, <1>20, <1>21, <1>22, <1>23, <1>24, <1>25, <1>26, <1>27, <1>28, <1>29, <1>30, <1>31, <1>32, <1>e, <1>r
     DEF Next, HandlerStep, OperatorStep, AgentStep, Fault

\* A step of one handler, while no agent moves, keeps owners: what it sets running
\* it owns, it answers a report of a job that is no longer running, and gives up
\* what it owns only with it.
LEMMA HandlerKeepsOwners ==
    ASSUME TypeInv, Pairing, Owners, NEW h \in Handlers, UNCHANGED agentVars,
           \A g \in Handlers \ {h} : hpc'[g] = hpc[g] /\ local'[g] = local[g],
           \A j \in JobIds : j \in orphaned /\ j \notin orphaned' => status'[j] # "running",
           \A j \in JobIds : status'[j] = "running" =>
               (status[j] = "running" /\ queued'[j] = queued[j]) \/ HandlerOwns(h, j)',
           local'[h].agent \in {local[h].agent, NoAgent},
           hpc'[h] \in AnswerPcs =>
               \/ hpc[h] \in AnswerPcs
               \/ hpc[h] \notin ClaimPcs /\ status'[local[h].job] # "running",
           \A j \in JobIds : HandlerOwns(h, j) /\ status'[j] = "running" /\ j \notin orphaned' =>
               HandlerOwns(h, j)'
    PROVE  Owners'
<1> SUFFICES ASSUME NEW j \in JobIds, status'[j] = "running", j \notin orphaned' PROVE Owned(j)'
  BY DEF Owners
<1>1. CASE HandlerOwns(h, j)'
  BY <1>1 DEF Owned
<1>2. ASSUME status[j] = "running", queued'[j] = queued[j], NEW a \in Agents, AgentOwns(a, j) PROVE Owned(j)'
  <2>1. \A g \in Handlers : Serves(g, a)' => Serves(g, a) /\ apc[a] # "poll"
    BY NobodyAssumption DEF Serves, Waits, agentVars
  <2>2. ASSUME Serves(h, a), hpc'[h] \in AnswerPcs PROVE FALSE
    <3>1. hpc[h] \notin ClaimPcs /\ status'[local[h].job] # "running"
      BY <1>2, <2>2 DEF AgentOwns
    <3>2. local[h].job = work[a].job
      BY <2>2, <3>1 DEF Pairing
    <3>3. QED
      BY <1>2, <3>1, <3>2 DEF AgentOwns
  <2>3. \A g \in Handlers : Serves(g, a)' => hpc'[g] \notin AnswerPcs
    BY <1>2, <2>1, <2>2 DEF AgentOwns
  <2>4. AgentOwns(a, j)'
    BY <1>2, <2>3 DEF AgentOwns, agentVars
  <2>5. QED
    BY <2>4 DEF Owned
<1>3. ASSUME status[j] = "running", queued'[j] = queued[j], NEW g \in Handlers, HandlerOwns(g, j) PROVE Owned(j)'
  <2>1. CASE g = h
    BY <1>3, <2>1 DEF Owned
  <2>2. CASE g # h
    <3>1. HandlerOwns(g, j)'
      BY <1>3, <2>2 DEF HandlerOwns, OwnedBy
    <3>2. QED
      BY <3>1 DEF Owned
  <2>3. QED
    BY <2>1, <2>2
<1>4. QED
  BY <1>1, <1>2, <1>3 DEF Owners, Owned

\* A step of one agent, and of the handler it meets, keeps owners when each job the
\* two owned is owned after it.
LEMMA MeetingKeepsOwners ==
    ASSUME TypeInv, Owners, NEW a \in Agents, NEW h \in Handlers,
           \A b \in Agents \ {a} : apc'[b] = apc[b] /\ work'[b] = work[b],
           \A g \in Handlers \ {h} : hpc'[g] = hpc[g] /\ local'[g] = local[g],
           status' = status, queued' = queued, orphaned \subseteq orphaned',
           \A b \in Agents \ {a} : Serves(h, b)' => hpc'[h] \notin AnswerPcs,
           \A j \in JobIds : AgentOwns(a, j) /\ j \notin orphaned' => Owned(j)',
           \A j \in JobIds : HandlerOwns(h, j) /\ j \notin orphaned' => Owned(j)'
    PROVE  Owners'
<1> SUFFICES ASSUME NEW j \in JobIds, status[j] = "running", j \notin orphaned' PROVE Owned(j)'
  BY DEF Owners
<1>1. ASSUME NEW b \in Agents \ {a}, AgentOwns(b, j) PROVE Owned(j)'
  <2>1. \A g \in Handlers \ {h} : Serves(g, b)' => hpc'[g] \notin AnswerPcs
    BY <1>1 DEF AgentOwns, Serves, Waits
  <2>2. AgentOwns(b, j)'
    BY <1>1, <2>1 DEF AgentOwns
  <2>3. QED
    BY <2>2 DEF Owned
<1>2. ASSUME NEW g \in Handlers \ {h}, HandlerOwns(g, j) PROVE Owned(j)'
  <2>1. HandlerOwns(g, j)'
    BY <1>2 DEF HandlerOwns, OwnedBy
  <2>2. QED
    BY <2>1 DEF Owned
<1>3. QED
  BY <1>1, <1>2 DEF Owners, Owned

\* The statements of a handler.
LEMMA OwnersHandlerStep ==
    ASSUME TypeInv, Pairing, Owners, NEW h \in Handlers, HandlerStep(h), ~ClaimReply(h), ~ReportReply(h)
    PROVE  Owners'
<1> USE DEF AnswerPcs, ClaimPcs, Goto, End, agentVars, HandlerOwns, OwnedBy, NoJob, jobVars, histVars
<1>0. /\ hpc \in [Handlers -> HandlerPcs] /\ local \in [Handlers -> Locals]
      /\ status \in [JobIds -> Statuses] /\ queued \in [JobIds -> Nat]
      /\ \A j \in JobIds : j # 0
  BY DEF TypeInv, TypeOK, JobIds
<1>1. hpc[h] \in JobPcs => local[h].job \in JobIds
  BY IssuedIsJobs DEF TypeInv, HandlersInHand
<1> HIDE DEF HandlerOwns, OwnedBy
<1>2. CASE ClaimRead(h)
  <2>1. /\ UNCHANGED agentVars /\ orphaned' = orphaned
        /\ \A g \in Handlers \ {h} : hpc'[g] = hpc[g] /\ local'[g] = local[g]
        /\ local'[h].agent \in {local[h].agent, NoAgent}
    BY <1>0, <1>2 DEF ClaimRead, Locals, NoLocals
  <2>2. \A j \in JobIds : status'[j] = "running" =>
            (status[j] = "running" /\ queued'[j] = queued[j]) \/ HandlerOwns(h, j)'
    BY <1>0, <1>1, <1>2 DEF ClaimRead, HandlerOwns, OwnedBy, JobPcs, HandlerPcs, Locals
  <2>3. hpc'[h] \in AnswerPcs =>
            hpc[h] \in AnswerPcs \/ (hpc[h] \notin ClaimPcs /\ status'[local[h].job] # "running")
    BY <1>0, <1>1, <1>2 DEF ClaimRead, JobPcs, HandlerPcs, Open, Outcomes
  <2>4. \A j \in JobIds : HandlerOwns(h, j) /\ status'[j] = "running" /\ j \notin orphaned' =>
            HandlerOwns(h, j)'
    BY <1>0, <1>1, <1>2 DEF ClaimRead, HandlerOwns, OwnedBy, JobPcs, HandlerPcs, Open, Outcomes, Locals
  <2>5. QED
    BY <2>1, <2>2, <2>3, <2>4, HandlerKeepsOwners
<1>3. CASE ClaimCas(h)
  <2>1. /\ UNCHANGED agentVars /\ orphaned' = orphaned
        /\ \A g \in Handlers \ {h} : hpc'[g] = hpc[g] /\ local'[g] = local[g]
        /\ local'[h].agent \in {local[h].agent, NoAgent}
    BY <1>0, <1>3 DEF ClaimCas, Locals, NoLocals
  <2>2. \A j \in JobIds : status'[j] = "running" =>
            (status[j] = "running" /\ queued'[j] = queued[j]) \/ HandlerOwns(h, j)'
    BY <1>0, <1>1, <1>3 DEF ClaimCas, HandlerOwns, OwnedBy, JobPcs, HandlerPcs, Locals
  <2>3. hpc'[h] \in AnswerPcs =>
            hpc[h] \in AnswerPcs \/ (hpc[h] \notin ClaimPcs /\ status'[local[h].job] # "running")
    BY <1>0, <1>1, <1>3 DEF ClaimCas, JobPcs, HandlerPcs, Open, Outcomes
  <2>4. \A j \in JobIds : HandlerOwns(h, j) /\ status'[j] = "running" /\ j \notin orphaned' =>
            HandlerOwns(h, j)'
    BY <1>0, <1>1, <1>3 DEF ClaimCas, HandlerOwns, OwnedBy, JobPcs, HandlerPcs, Open, Outcomes, Locals
  <2>5. QED
    BY <2>1, <2>2, <2>3, <2>4, HandlerKeepsOwners
<1>4. CASE ReportRead(h)
  <2>1. /\ UNCHANGED agentVars /\ orphaned' = orphaned
        /\ \A g \in Handlers \ {h} : hpc'[g] = hpc[g] /\ local'[g] = local[g]
        /\ local'[h].agent \in {local[h].agent, NoAgent}
    BY <1>0, <1>4 DEF ReportRead, Locals, NoLocals
  <2>2. \A j \in JobIds : status'[j] = "running" =>
            (status[j] = "running" /\ queued'[j] = queued[j]) \/ HandlerOwns(h, j)'
    BY <1>0, <1>1, <1>4 DEF ReportRead, HandlerOwns, OwnedBy, JobPcs, HandlerPcs, Locals
  <2>3. hpc'[h] \in AnswerPcs =>
            hpc[h] \in AnswerPcs \/ (hpc[h] \notin ClaimPcs /\ status'[local[h].job] # "running")
    BY <1>0, <1>1, <1>4 DEF ReportRead, JobPcs, HandlerPcs, Open, Outcomes
  <2>4. \A j \in JobIds : HandlerOwns(h, j) /\ status'[j] = "running" /\ j \notin orphaned' =>
            HandlerOwns(h, j)'
    BY <1>0, <1>1, <1>4 DEF ReportRead, HandlerOwns, OwnedBy, JobPcs, HandlerPcs, Open, Outcomes, Locals
  <2>5. QED
    BY <2>1, <2>2, <2>3, <2>4, HandlerKeepsOwners
<1>5. CASE ReportCas(h)
  <2>1. /\ UNCHANGED agentVars /\ orphaned' = orphaned
        /\ \A g \in Handlers \ {h} : hpc'[g] = hpc[g] /\ local'[g] = local[g]
        /\ local'[h].agent \in {local[h].agent, NoAgent}
    BY <1>0, <1>5 DEF ReportCas, ReportUpdate, Locals, NoLocals
  <2>2. \A j \in JobIds : status'[j] = "running" =>
            (status[j] = "running" /\ queued'[j] = queued[j]) \/ HandlerOwns(h, j)'
    <3>1. local[h].res \in Outcomes /\ local[h].job \in JobIds
      BY <1>1, <1>5 DEF ReportCas, ReportUpdate, TypeInv, HandlersInHand, ReportPcs, JobPcs, HandlerPcs
    <3>2. QED
      BY <1>0, <1>5, <3>1 DEF ReportCas, ReportUpdate, Outcomes
  <2>3. hpc'[h] \in AnswerPcs =>
            hpc[h] \in AnswerPcs \/ (hpc[h] \notin ClaimPcs /\ status'[local[h].job] # "running")
    <3>1. local[h].res \in Outcomes /\ local[h].job \in JobIds /\ hpc[h] = "report_cas"
      BY <1>1, <1>5 DEF ReportCas, ReportUpdate, TypeInv, HandlersInHand, ReportPcs, JobPcs, HandlerPcs
    <3>2. status'[local[h].job] # "running"
      BY <1>0, <1>5, <3>1 DEF ReportCas, ReportUpdate, Outcomes, Open
    <3>3. QED
      BY <3>1, <3>2
  <2>4. \A j \in JobIds : HandlerOwns(h, j) /\ status'[j] = "running" /\ j \notin orphaned' =>
            HandlerOwns(h, j)'
    BY <1>0, <1>1, <1>5 DEF ReportCas, ReportUpdate, HandlerOwns, OwnedBy, JobPcs, HandlerPcs, Open, Outcomes, Locals
  <2>5. QED
    BY <2>1, <2>2, <2>3, <2>4, HandlerKeepsOwners
<1>6. CASE ReportSiteRead(h)
  <2>1. /\ UNCHANGED agentVars /\ orphaned' = orphaned
        /\ \A g \in Handlers \ {h} : hpc'[g] = hpc[g] /\ local'[g] = local[g]
        /\ local'[h].agent \in {local[h].agent, NoAgent}
    BY <1>0, <1>6 DEF ReportSiteRead, Locals, NoLocals
  <2>2. \A j \in JobIds : status'[j] = "running" =>
            (status[j] = "running" /\ queued'[j] = queued[j]) \/ HandlerOwns(h, j)'
    BY <1>0, <1>1, <1>6 DEF ReportSiteRead, HandlerOwns, OwnedBy, JobPcs, HandlerPcs, Locals
  <2>3. hpc'[h] \in AnswerPcs =>
            hpc[h] \in AnswerPcs \/ (hpc[h] \notin ClaimPcs /\ status'[local[h].job] # "running")
    BY <1>6 DEF ReportSiteRead
  <2>4. \A j \in JobIds : HandlerOwns(h, j) /\ status'[j] = "running" /\ j \notin orphaned' =>
            HandlerOwns(h, j)'
    BY <1>0, <1>1, <1>6 DEF ReportSiteRead, HandlerOwns, OwnedBy, JobPcs, HandlerPcs, Open, Outcomes, Locals
  <2>5. QED
    BY <2>1, <2>2, <2>3, <2>4, HandlerKeepsOwners
<1>7. CASE ReportSiteSave(h)
  <2>1. /\ UNCHANGED agentVars /\ orphaned' = orphaned
        /\ \A g \in Handlers \ {h} : hpc'[g] = hpc[g] /\ local'[g] = local[g]
        /\ local'[h].agent \in {local[h].agent, NoAgent}
    BY <1>0, <1>7 DEF ReportSiteSave, Locals, NoLocals
  <2>2. \A j \in JobIds : status'[j] = "running" =>
            (status[j] = "running" /\ queued'[j] = queued[j]) \/ HandlerOwns(h, j)'
    BY <1>0, <1>1, <1>7 DEF ReportSiteSave, HandlerOwns, OwnedBy, JobPcs, HandlerPcs, Locals
  <2>3. hpc'[h] \in AnswerPcs =>
            hpc[h] \in AnswerPcs \/ (hpc[h] \notin ClaimPcs /\ status'[local[h].job] # "running")
    BY <1>7 DEF ReportSiteSave
  <2>4. \A j \in JobIds : HandlerOwns(h, j) /\ status'[j] = "running" /\ j \notin orphaned' =>
            HandlerOwns(h, j)'
    BY <1>0, <1>1, <1>7 DEF ReportSiteSave, HandlerOwns, OwnedBy, JobPcs, HandlerPcs, Open, Outcomes, Locals
  <2>5. QED
    BY <2>1, <2>2, <2>3, <2>4, HandlerKeepsOwners
<1>8. CASE ReportOpRead(h)
  <2>1. /\ UNCHANGED agentVars /\ orphaned' = orphaned
        /\ \A g \in Handlers \ {h} : hpc'[g] = hpc[g] /\ local'[g] = local[g]
        /\ local'[h].agent \in {local[h].agent, NoAgent}
    BY <1>0, <1>8 DEF ReportOpRead, Locals, NoLocals
  <2>2. \A j \in JobIds : status'[j] = "running" =>
            (status[j] = "running" /\ queued'[j] = queued[j]) \/ HandlerOwns(h, j)'
    BY <1>0, <1>1, <1>8 DEF ReportOpRead, HandlerOwns, OwnedBy, JobPcs, HandlerPcs, Locals
  <2>3. hpc'[h] \in AnswerPcs =>
            hpc[h] \in AnswerPcs \/ (hpc[h] \notin ClaimPcs /\ status'[local[h].job] # "running")
    BY <1>8 DEF ReportOpRead
  <2>4. \A j \in JobIds : HandlerOwns(h, j) /\ status'[j] = "running" /\ j \notin orphaned' =>
            HandlerOwns(h, j)'
    BY <1>0, <1>1, <1>8 DEF ReportOpRead, HandlerOwns, OwnedBy, JobPcs, HandlerPcs, Open, Outcomes, Locals
  <2>5. QED
    BY <2>1, <2>2, <2>3, <2>4, HandlerKeepsOwners
<1>9. CASE ReportOpSave(h)
  <2>1. /\ UNCHANGED agentVars /\ orphaned' = orphaned
        /\ \A g \in Handlers \ {h} : hpc'[g] = hpc[g] /\ local'[g] = local[g]
        /\ local'[h].agent \in {local[h].agent, NoAgent}
    BY <1>0, <1>9 DEF ReportOpSave, Locals, NoLocals
  <2>2. \A j \in JobIds : status'[j] = "running" =>
            (status[j] = "running" /\ queued'[j] = queued[j]) \/ HandlerOwns(h, j)'
    BY <1>0, <1>1, <1>9 DEF ReportOpSave, HandlerOwns, OwnedBy, JobPcs, HandlerPcs, Locals
  <2>3. hpc'[h] \in AnswerPcs =>
            hpc[h] \in AnswerPcs \/ (hpc[h] \notin ClaimPcs /\ status'[local[h].job] # "running")
    BY <1>9 DEF ReportOpSave
  <2>4. \A j \in JobIds : HandlerOwns(h, j) /\ status'[j] = "running" /\ j \notin orphaned' =>
            HandlerOwns(h, j)'
    BY <1>0, <1>1, <1>9 DEF ReportOpSave, HandlerOwns, OwnedBy, JobPcs, HandlerPcs, Open, Outcomes, Locals
  <2>5. QED
    BY <2>1, <2>2, <2>3, <2>4, HandlerKeepsOwners
<1>10. CASE CancelSave(h)
  <2>1. /\ UNCHANGED agentVars /\ orphaned' = orphaned
        /\ \A g \in Handlers \ {h} : hpc'[g] = hpc[g] /\ local'[g] = local[g]
        /\ local'[h].agent \in {local[h].agent, NoAgent}
    BY <1>0, <1>10 DEF CancelSave, Locals, NoLocals
  <2>2. \A j \in JobIds : status'[j] = "running" =>
            (status[j] = "running" /\ queued'[j] = queued[j]) \/ HandlerOwns(h, j)'
    BY <1>0, <1>1, <1>10 DEF CancelSave, HandlerOwns, OwnedBy, JobPcs, HandlerPcs, Locals
  <2>3. hpc'[h] \in AnswerPcs =>
            hpc[h] \in AnswerPcs \/ (hpc[h] \notin ClaimPcs /\ status'[local[h].job] # "running")
    BY <1>0, <1>1, <1>10 DEF CancelSave, JobPcs, HandlerPcs, Open, Outcomes
  <2>4. \A j \in JobIds : HandlerOwns(h, j) /\ status'[j] = "running" /\ j \notin orphaned' =>
            HandlerOwns(h, j)'
    BY <1>0, <1>1, <1>10 DEF CancelSave, HandlerOwns, OwnedBy, JobPcs, HandlerPcs, Open, Outcomes, Locals
  <2>5. QED
    BY <2>1, <2>2, <2>3, <2>4, HandlerKeepsOwners
<1>11. CASE RetrySave(h)
  <2>1. /\ UNCHANGED agentVars
        /\ \A g \in Handlers \ {h} : hpc'[g] = hpc[g] /\ local'[g] = local[g]
        /\ local'[h].agent \in {local[h].agent, NoAgent}
    BY <1>0, <1>11 DEF RetrySave, Locals, NoLocals
  <2>o. \A j \in JobIds : j \in orphaned /\ j \notin orphaned' => status'[j] # "running"
    BY <1>0, <1>1, <1>11 DEF RetrySave, JobPcs, HandlerPcs
  <2>2. \A j \in JobIds : status'[j] = "running" =>
            (status[j] = "running" /\ queued'[j] = queued[j]) \/ HandlerOwns(h, j)'
    BY <1>0, <1>1, <1>11 DEF RetrySave, HandlerOwns, OwnedBy, JobPcs, HandlerPcs, Locals
  <2>3. hpc'[h] \in AnswerPcs =>
            hpc[h] \in AnswerPcs \/ (hpc[h] \notin ClaimPcs /\ status'[local[h].job] # "running")
    BY <1>0, <1>1, <1>11 DEF RetrySave, JobPcs, HandlerPcs, Open, Outcomes
  <2>4. \A j \in JobIds : HandlerOwns(h, j) /\ status'[j] = "running" /\ j \notin orphaned' =>
            HandlerOwns(h, j)'
    BY <1>0, <1>1, <1>11 DEF RetrySave, HandlerOwns, OwnedBy, JobPcs, HandlerPcs, Open, Outcomes, Locals
  <2>5. QED
    BY <2>1, <2>o, <2>2, <2>3, <2>4, HandlerKeepsOwners
<1>12. CASE RetryOpRead(h)
  <2>1. /\ UNCHANGED agentVars /\ orphaned' = orphaned
        /\ \A g \in Handlers \ {h} : hpc'[g] = hpc[g] /\ local'[g] = local[g]
        /\ local'[h].agent \in {local[h].agent, NoAgent}
    BY <1>0, <1>12 DEF RetryOpRead, Locals, NoLocals
  <2>2. \A j \in JobIds : status'[j] = "running" =>
            (status[j] = "running" /\ queued'[j] = queued[j]) \/ HandlerOwns(h, j)'
    BY <1>0, <1>1, <1>12 DEF RetryOpRead, HandlerOwns, OwnedBy, JobPcs, HandlerPcs, Locals
  <2>3. hpc'[h] \in AnswerPcs =>
            hpc[h] \in AnswerPcs \/ (hpc[h] \notin ClaimPcs /\ status'[local[h].job] # "running")
    BY <1>0, <1>1, <1>12 DEF RetryOpRead, JobPcs, HandlerPcs, Open, Outcomes
  <2>4. \A j \in JobIds : HandlerOwns(h, j) /\ status'[j] = "running" /\ j \notin orphaned' =>
            HandlerOwns(h, j)'
    BY <1>0, <1>1, <1>12 DEF RetryOpRead, HandlerOwns, OwnedBy, JobPcs, HandlerPcs, Open, Outcomes, Locals
  <2>5. QED
    BY <2>1, <2>2, <2>3, <2>4, HandlerKeepsOwners
<1>13. CASE RetryOpSave(h)
  <2>1. /\ UNCHANGED agentVars /\ orphaned' = orphaned
        /\ \A g \in Handlers \ {h} : hpc'[g] = hpc[g] /\ local'[g] = local[g]
        /\ local'[h].agent \in {local[h].agent, NoAgent}
    BY <1>0, <1>13 DEF RetryOpSave, Locals, NoLocals
  <2>2. \A j \in JobIds : status'[j] = "running" =>
            (status[j] = "running" /\ queued'[j] = queued[j]) \/ HandlerOwns(h, j)'
    BY <1>0, <1>1, <1>13 DEF RetryOpSave, HandlerOwns, OwnedBy, JobPcs, HandlerPcs, Locals
  <2>3. hpc'[h] \in AnswerPcs =>
            hpc[h] \in AnswerPcs \/ (hpc[h] \notin ClaimPcs /\ status'[local[h].job] # "running")
    BY <1>0, <1>1, <1>13 DEF RetryOpSave, JobPcs, HandlerPcs, Open, Outcomes
  <2>4. \A j \in JobIds : HandlerOwns(h, j) /\ status'[j] = "running" /\ j \notin orphaned' =>
            HandlerOwns(h, j)'
    BY <1>0, <1>1, <1>13 DEF RetryOpSave, HandlerOwns, OwnedBy, JobPcs, HandlerPcs, Open, Outcomes, Locals
  <2>5. QED
    BY <2>1, <2>2, <2>3, <2>4, HandlerKeepsOwners
<1>14. CASE DispatchClear(h)
  <2>1. /\ UNCHANGED agentVars /\ orphaned' = orphaned
        /\ \A g \in Handlers \ {h} : hpc'[g] = hpc[g] /\ local'[g] = local[g]
        /\ local'[h].agent \in {local[h].agent, NoAgent}
    BY <1>0, <1>14 DEF DispatchClear, Locals, NoLocals
  <2>2. \A j \in JobIds : status'[j] = "running" =>
            (status[j] = "running" /\ queued'[j] = queued[j]) \/ HandlerOwns(h, j)'
    BY <1>0, <1>1, <1>14 DEF DispatchClear, HandlerOwns, OwnedBy, JobPcs, HandlerPcs, Locals
  <2>3. hpc'[h] \in AnswerPcs =>
            hpc[h] \in AnswerPcs \/ (hpc[h] \notin ClaimPcs /\ status'[local[h].job] # "running")
    BY <1>0, <1>1, <1>14 DEF DispatchClear, JobPcs, HandlerPcs, Open, Outcomes
  <2>4. \A j \in JobIds : HandlerOwns(h, j) /\ status'[j] = "running" /\ j \notin orphaned' =>
            HandlerOwns(h, j)'
    BY <1>0, <1>1, <1>14 DEF DispatchClear, HandlerOwns, OwnedBy, JobPcs, HandlerPcs, Open, Outcomes, Locals
  <2>5. QED
    BY <2>1, <2>2, <2>3, <2>4, HandlerKeepsOwners
<1>15. CASE DispatchJob(h)
  <2>1. /\ UNCHANGED agentVars /\ orphaned' = orphaned
        /\ \A g \in Handlers \ {h} : hpc'[g] = hpc[g] /\ local'[g] = local[g]
        /\ local'[h].agent \in {local[h].agent, NoAgent}
    BY <1>0, <1>15 DEF DispatchJob, Locals, NoLocals
  <2>2. \A j \in JobIds : status'[j] = "running" =>
            (status[j] = "running" /\ queued'[j] = queued[j]) \/ HandlerOwns(h, j)'
    BY <1>0, <1>1, <1>15 DEF DispatchJob, HandlerOwns, OwnedBy, JobPcs, HandlerPcs, Locals
  <2>3. hpc'[h] \in AnswerPcs =>
            hpc[h] \in AnswerPcs \/ (hpc[h] \notin ClaimPcs /\ status'[local[h].job] # "running")
    BY <1>0, <1>1, <1>15 DEF DispatchJob, JobPcs, HandlerPcs, Open, Outcomes
  <2>4. \A j \in JobIds : HandlerOwns(h, j) /\ status'[j] = "running" /\ j \notin orphaned' =>
            HandlerOwns(h, j)'
    BY <1>0, <1>1, <1>15 DEF DispatchJob, HandlerOwns, OwnedBy, JobPcs, HandlerPcs, Open, Outcomes, Locals
  <2>5. QED
    BY <2>1, <2>2, <2>3, <2>4, HandlerKeepsOwners
<1>16. CASE DispatchOp(h)
  <2>1. /\ UNCHANGED agentVars /\ orphaned' = orphaned
        /\ \A g \in Handlers \ {h} : hpc'[g] = hpc[g] /\ local'[g] = local[g]
        /\ local'[h].agent \in {local[h].agent, NoAgent}
    BY <1>0, <1>16 DEF DispatchOp, Locals, NoLocals
  <2>2. \A j \in JobIds : status'[j] = "running" =>
            (status[j] = "running" /\ queued'[j] = queued[j]) \/ HandlerOwns(h, j)'
    BY <1>0, <1>1, <1>16 DEF DispatchOp, HandlerOwns, OwnedBy, JobPcs, HandlerPcs, Locals
  <2>3. hpc'[h] \in AnswerPcs =>
            hpc[h] \in AnswerPcs \/ (hpc[h] \notin ClaimPcs /\ status'[local[h].job] # "running")
    BY <1>0, <1>1, <1>16 DEF DispatchOp, JobPcs, HandlerPcs, Open, Outcomes
  <2>4. \A j \in JobIds : HandlerOwns(h, j) /\ status'[j] = "running" /\ j \notin orphaned' =>
            HandlerOwns(h, j)'
    BY <1>0, <1>1, <1>16 DEF DispatchOp, HandlerOwns, OwnedBy, JobPcs, HandlerPcs, Open, Outcomes, Locals
  <2>5. QED
    BY <2>1, <2>2, <2>3, <2>4, HandlerKeepsOwners
<1>17. CASE ExecSave(h)
  <2>1. /\ UNCHANGED agentVars /\ orphaned' = orphaned
        /\ \A g \in Handlers \ {h} : hpc'[g] = hpc[g] /\ local'[g] = local[g]
        /\ local'[h].agent \in {local[h].agent, NoAgent}
    BY <1>0, <1>17 DEF ExecSave, Locals, NoLocals
  <2>2. \A j \in JobIds : status'[j] = "running" =>
            (status[j] = "running" /\ queued'[j] = queued[j]) \/ HandlerOwns(h, j)'
    BY <1>0, <1>1, <1>17 DEF ExecSave, HandlerOwns, OwnedBy, JobPcs, HandlerPcs, Locals
  <2>3. hpc'[h] \in AnswerPcs =>
            hpc[h] \in AnswerPcs \/ (hpc[h] \notin ClaimPcs /\ status'[local[h].job] # "running")
    BY <1>0, <1>1, <1>17 DEF ExecSave, JobPcs, HandlerPcs, Open, Outcomes
  <2>4. \A j \in JobIds : HandlerOwns(h, j) /\ status'[j] = "running" /\ j \notin orphaned' =>
            HandlerOwns(h, j)'
    BY <1>0, <1>1, <1>17 DEF ExecSave, HandlerOwns, OwnedBy, JobPcs, HandlerPcs, Open, Outcomes, Locals
  <2>5. QED
    BY <2>1, <2>2, <2>3, <2>4, HandlerKeepsOwners
<1>18. CASE ExecRun(h)
  <2>1. /\ UNCHANGED agentVars /\ orphaned' = orphaned
        /\ \A g \in Handlers \ {h} : hpc'[g] = hpc[g] /\ local'[g] = local[g]
        /\ local'[h].agent \in {local[h].agent, NoAgent}
    BY <1>0, <1>18 DEF ExecRun, Locals, NoLocals
  <2>2. \A j \in JobIds : status'[j] = "running" =>
            (status[j] = "running" /\ queued'[j] = queued[j]) \/ HandlerOwns(h, j)'
    BY <1>0, <1>1, <1>18 DEF ExecRun, HandlerOwns, OwnedBy, JobPcs, HandlerPcs, Locals
  <2>3. hpc'[h] \in AnswerPcs =>
            hpc[h] \in AnswerPcs \/ (hpc[h] \notin ClaimPcs /\ status'[local[h].job] # "running")
    BY <1>0, <1>1, <1>18 DEF ExecRun, JobPcs, HandlerPcs, Open, Outcomes
  <2>4. \A j \in JobIds : HandlerOwns(h, j) /\ status'[j] = "running" /\ j \notin orphaned' =>
            HandlerOwns(h, j)'
    <3>1. local[h].agent = NoAgent /\ hpc[h] = "exec_run"
      BY <1>18 DEF ExecRun, Pairing, ReportPcs
    <3>2. /\ hpc'[h] = "report_read" /\ local'[h].agent = NoAgent /\ local'[h].job = local[h].job
      BY <1>0, <1>18, <3>1 DEF ExecRun, Locals
    <3>3. QED
      BY <3>1, <3>2 DEF HandlerOwns, OwnedBy
  <2>5. QED
    BY <2>1, <2>2, <2>3, <2>4, HandlerKeepsOwners
\* A handler that ends and owns nothing any more.
<1>end. ASSUME End(h), UNCHANGED <<agentVars, status, queued>>, orphaned \subseteq orphaned',
              \A j \in JobIds : HandlerOwns(h, j) => j \in orphaned'
       PROVE  Owners'
  <2>1. /\ \A g \in Handlers \ {h} : hpc'[g] = hpc[g] /\ local'[g] = local[g]
        /\ hpc'[h] = "idle" /\ local'[h].agent = NoAgent
    BY <1>0, <1>end DEF NoLocals
  <2>2. QED
    BY <1>end, <2>1, HandlerKeepsOwners
<1>e. CASE ExecUnavailable(h)
  <2>1. hpc[h] = "exec_run" /\ local[h].job \in JobIds
    BY <1>1, <1>e DEF ExecUnavailable, JobPcs, HandlerPcs, EditPcs
  <2>2. orphaned' = orphaned \cup {local[h].job}
    BY <1>0, <1>e, <2>1 DEF ExecUnavailable, Orphan
  <2>3. \A j \in JobIds : HandlerOwns(h, j) => j \in orphaned'
    BY <2>1, <2>2 DEF HandlerOwns, OwnedBy
  <2>4. QED
    BY <1>end, <1>e, <2>2, <2>3 DEF ExecUnavailable
<1>u. CASE UpdateSave(h) \/ AssignSave(h)
  <2>1. PICK from \in EditPcs, row \in SiteRows : EditSave(h, from, row)
    BY <1>u, EditRows
  <2>2. \A j \in JobIds : ~HandlerOwns(h, j)
    BY <1>0, <2>1 DEF EditSave, EditPcs, HandlerOwns, OwnedBy
  <2>3. QED
    BY <1>end, <2>1, <2>2 DEF EditSave
<1>19. QED
  BY <1>2, <1>3, <1>4, <1>5, <1>6, <1>7, <1>8, <1>9, <1>10, <1>11, <1>12, <1>13, <1>14, <1>15, <1>16, <1>17, <1>18,
     <1>e, <1>u DEF HandlerStep

\* A handler that owns nothing has nothing to pass on.
LEMMA OwnsByPc ==
    ASSUME NEW h \in Handlers, NEW j \in JobIds, HandlerOwns(h, j)
    PROVE  /\ hpc[h] \in {"claim_reply", "exec_run", "report_read", "report_cas"}
           /\ local[h].job = j
           /\ hpc[h] = "claim_reply" => local[h].turn = queued[j]
           /\ hpc[h] \in {"report_read", "report_cas"} => local[h].agent = NoAgent
BY DEF HandlerOwns, OwnedBy, NoJob, JobIds

\* The steps in which an agent and a handler meet, or an agent is alone.
LEMMA OwnersMeetingStep ==
    ASSUME TypeInv, Pairing, Owners, NEW a \in Agents, NEW h \in Handlers,
           ClaimRequest(a, h) \/ ReportRequest(a, h)
    PROVE  Owners'
<1> USE DEF AnswerPcs, agentVars, jobVars, histVars
<1>0. /\ hpc \in [Handlers -> HandlerPcs] /\ local \in [Handlers -> Locals]
      /\ apc \in [Agents -> AgentPcs] /\ work \in [Agents -> Works]
      /\ \A j \in JobIds : j # NoJob
  BY DEF TypeInv, TypeOK, JobIds, NoJob
<1>1. /\ \A b \in Agents \ {a} : apc'[b] = apc[b] /\ work'[b] = work[b]
      /\ \A g \in Handlers \ {h} : hpc'[g] = hpc[g] /\ local'[g] = local[g]
      /\ status' = status /\ queued' = queued /\ orphaned' = orphaned
      /\ hpc[h] = "idle" /\ hpc'[h] \in {"claim_read", "report_read"}
  BY <1>0 DEF ClaimRequest, ReportRequest
<1>2. \A j \in JobIds : ~HandlerOwns(h, j)
  BY <1>1, OwnsByPc
<1>3. ASSUME NEW j \in JobIds, AgentOwns(a, j) PROVE Owned(j)'
  <2>1. work[a].job = j
    BY <1>3 DEF AgentOwns
  <2>2. ReportRequest(a, h)
    BY <1>0, <2>1 DEF ClaimRequest, Pairing
  <2>3. work'[a].job = j /\ work'[a].turn = work[a].turn /\ work'[a].call = h
    BY <1>0, <2>1, <2>2 DEF ReportRequest, Works
  <2>4. \A g \in Handlers : Serves(g, a)' => g = h
    BY <2>3 DEF Serves, Waits
  <2>5. AgentOwns(a, j)'
    BY <1>1, <1>3, <2>3, <2>4 DEF AgentOwns
  <2>6. QED
    BY <2>5 DEF Owned
<1>4. QED
  BY <1>1, <1>2, <1>3, MeetingKeepsOwners

\* A handler that ends owns nothing more, and answers nobody.
LEMMA EndedHandler ==
    ASSUME TypeInv, NEW h \in Handlers, End(h)
    PROVE  /\ hpc'[h] = "idle" /\ local'[h] = NoLocals
           /\ \A g \in Handlers \ {h} : hpc'[g] = hpc[g] /\ local'[g] = local[g]
           /\ \A a \in Agents : ~Serves(h, a)'
BY NobodyAssumption DEF TypeInv, TypeOK, End, Serves, NoLocals

\* The answer of a claim makes the agent the owner, or orphans the job.
LEMMA OwnersClaimReply ==
    ASSUME TypeInv, Pairing, Owners, NEW h \in Handlers, ClaimReply(h)
    PROVE  Owners'
<1> USE DEF jobVars, histVars, agentVars
<1>a. PICK a \in Agents : a = local[h].agent
  BY DEF ClaimReply, Pairing, ClaimPcs
<1>0. /\ apc \in [Agents -> AgentPcs] /\ work \in [Agents -> Works] /\ hpc[h] = "claim_reply"
      /\ \A j \in JobIds : j # NoJob
      /\ a = local[h].agent
  BY <1>a DEF TypeInv, TypeOK, JobIds, NoJob, ClaimReply
<1>1. /\ hpc'[h] = "idle" /\ local'[h] = NoLocals
      /\ \A g \in Handlers \ {h} : hpc'[g] = hpc[g] /\ local'[g] = local[g]
      /\ \A b \in Agents : ~Serves(h, b)'
  BY EndedHandler DEF ClaimReply
<1>2. /\ \A b \in Agents \ {a} : apc'[b] = apc[b] /\ work'[b] = work[b]
      /\ status' = status /\ queued' = queued /\ orphaned \subseteq orphaned'
  BY <1>0 DEF ClaimReply, Orphan
<1>3. CASE Waits(a, h)
  <2>1. /\ apc'[a] \in {"poll", "exec"} /\ work'[a].job = local[h].job /\ work'[a].turn = local[h].turn
    <3>1. /\ apc' = [apc EXCEPT ![a] = IF local[h].job = NoJob THEN "poll" ELSE "exec"]
          /\ work' = [work EXCEPT ![a] = [NoWork EXCEPT !.job = local[h].job, !.turn = local[h].turn]]
      BY <1>0, <1>3 DEF ClaimReply
    <3>2. work'[a] = [NoWork EXCEPT !.job = local[h].job, !.turn = local[h].turn]
      BY <1>0, <3>1
    <3>3. apc'[a] \in {"poll", "exec"}
      BY <1>0, <3>1
    <3>4. QED
      BY <3>2, <3>3 DEF NoWork
  <2>2. work[a].job = NoJob
    BY <1>0, <1>3 DEF Pairing, Serves, ClaimPcs
  <2>3. \A j \in JobIds : ~AgentOwns(a, j)
    BY <1>0, <2>2 DEF AgentOwns
  <2>4. ASSUME NEW j \in JobIds, HandlerOwns(h, j) PROVE Owned(j)'
    <3>1. local[h].job = j /\ local[h].turn = queued[j]
      BY <1>0, <2>4, OwnsByPc
    <3>2. \A g \in Handlers : ~Serves(g, a)'
      BY <2>1 DEF Serves, Waits
    <3>3. AgentOwns(a, j)'
      BY <1>2, <2>1, <3>1, <3>2 DEF AgentOwns
    <3>4. QED
      BY <1>0, <3>3 DEF Owned
  <2>5. QED
    BY <1>0, <1>1, <1>2, <2>3, <2>4, MeetingKeepsOwners
<1>4. CASE ~Waits(a, h)
  <2>1. UNCHANGED agentVars /\ orphaned' = IF local[h].job = NoJob THEN orphaned ELSE orphaned \cup {local[h].job}
    BY <1>0, <1>4 DEF ClaimReply, Orphan
  <2>2. \A j \in JobIds : HandlerOwns(h, j) => j \in orphaned'
    BY <1>0, <2>1, OwnsByPc
  <2>3. local'[h].agent = NoAgent /\ hpc'[h] \notin AnswerPcs
    BY <1>1 DEF NoLocals, AnswerPcs
  <2>4. QED
    BY <1>1, <1>2, <2>1, <2>2, <2>3, HandlerKeepsOwners
<1>5. QED
  BY <1>3, <1>4

\* The answer of a report goes to an agent whose report is settled, which owned no
\* queueing any more.
LEMMA OwnersReportReply ==
    ASSUME TypeInv, Pairing, Owners, NEW h \in Handlers, ReportReply(h)
    PROVE  Owners'
<1> USE DEF jobVars, histVars, agentVars
<1> DEFINE a == local[h].agent
<1>0. /\ apc \in [Agents -> AgentPcs] /\ work \in [Agents -> Works] /\ hpc[h] = "report_reply"
      /\ a \in Agents \cup {NoAgent}
  BY DEF TypeInv, TypeOK, ReportReply, Locals
<1>1. /\ hpc'[h] = "idle" /\ local'[h] = NoLocals
      /\ \A g \in Handlers \ {h} : hpc'[g] = hpc[g] /\ local'[g] = local[g]
      /\ \A b \in Agents : ~Serves(h, b)'
  BY EndedHandler DEF ReportReply
<1>2. status' = status /\ queued' = queued /\ orphaned' = orphaned
  BY DEF ReportReply
<1>3. \A j \in JobIds : ~HandlerOwns(h, j)
  BY <1>0, OwnsByPc
<1>4. CASE a # NoAgent /\ Waits(a, h)
  <2>1. \A b \in Agents \ {a} : apc'[b] = apc[b] /\ work'[b] = work[b]
    BY <1>0, <1>4 DEF ReportReply
  <2>2. \A j \in JobIds : ~AgentOwns(a, j)
    BY <1>0, <1>4 DEF AgentOwns, Serves, AnswerPcs
  <2>3. QED
    BY <1>0, <1>1, <1>2, <1>3, <1>4, <2>1, <2>2, MeetingKeepsOwners
<1>5. CASE ~(a # NoAgent /\ Waits(a, h))
  <2>1. UNCHANGED agentVars
    BY <1>5 DEF ReportReply
  <2>2. local'[h].agent = NoAgent /\ hpc'[h] \notin AnswerPcs
    BY <1>1 DEF NoLocals, AnswerPcs
  <2>3. QED
    BY <1>1, <1>2, <1>3, <2>1, <2>2, HandlerKeepsOwners
<1>6. QED
  BY <1>4, <1>5

\* A handler that fails orphans the job its agent had, or that it owned itself.
LEMMA OwnersHandlerError ==
    ASSUME TypeInv, Pairing, Owners, NEW h \in Handlers, HandlerError(h)
    PROVE  Owners'
<1> USE DEF jobVars, histVars, agentVars
<1> DEFINE a == local[h].agent
<1>0. /\ apc \in [Agents -> AgentPcs] /\ work \in [Agents -> Works]
      /\ a \in Agents \cup {NoAgent} /\ \A j \in JobIds : j # NoJob
  BY DEF TypeInv, TypeOK, Locals, JobIds, NoJob
<1>1. /\ hpc'[h] = "idle" /\ local'[h] = NoLocals
      /\ \A g \in Handlers \ {h} : hpc'[g] = hpc[g] /\ local'[g] = local[g]
      /\ \A b \in Agents : ~Serves(h, b)'
  BY EndedHandler DEF HandlerError
<1>2. status' = status /\ queued' = queued /\ orphaned \subseteq orphaned'
  BY DEF HandlerError, Orphan
<1>3. CASE a # NoAgent /\ Waits(a, h)
  <2>1. /\ \A b \in Agents \ {a} : apc'[b] = apc[b] /\ work'[b] = work[b]
    BY <1>0, <1>3 DEF HandlerError
  <2>2. \A j \in JobIds : AgentOwns(a, j) => j \in orphaned'
    BY <1>0, <1>3 DEF AgentOwns, HandlerError, Orphan
  <2>3. \A j \in JobIds : HandlerOwns(h, j) => j \in orphaned'
    <3>1. SUFFICES ASSUME NEW j \in JobIds, HandlerOwns(h, j) PROVE j \in orphaned'
      OBVIOUS
    <3>2. hpc[h] = "claim_reply" \/ hpc[h] = "exec_run"
      BY <1>3, <3>1, OwnsByPc
    <3>3. work[a].job = NoJob
      BY <1>0, <1>3, <3>2 DEF Pairing, Serves, ClaimPcs, ReportPcs
    <3>4. OwnedBy(h) = j
      BY <3>1 DEF HandlerOwns
    <3>5. QED
      BY <1>0, <1>3, <3>1, <3>3, <3>4 DEF HandlerError, Orphan
  <2>4. QED
    BY <1>0, <1>1, <1>2, <1>3, <2>1, <2>2, <2>3, MeetingKeepsOwners
<1>4. CASE ~(a # NoAgent /\ Waits(a, h))
  <2>1. UNCHANGED agentVars /\ orphaned' = IF OwnedBy(h) = NoJob THEN orphaned ELSE orphaned \cup {OwnedBy(h)}
    BY <1>4 DEF HandlerError, Orphan
  <2>2. \A j \in JobIds : HandlerOwns(h, j) => j \in orphaned'
    BY <1>0, <2>1 DEF HandlerOwns
  <2>3. local'[h].agent = NoAgent /\ hpc'[h] \notin AnswerPcs
    BY <1>1 DEF NoLocals, AnswerPcs
  <2>4. QED
    BY <1>1, <1>2, <2>1, <2>2, <2>3, HandlerKeepsOwners
<1>5. QED
  BY <1>3, <1>4

\* An agent that works, gives up waiting or dies keeps its job or orphans it.
LEMMA OwnersAgentStep ==
    ASSUME TypeInv, Pairing, Owners, NEW a \in Agents,
           Execute(a) \/ ConnectionLost(a) \/ Timeout(a) \/ AgentCrash(a)
    PROVE  Owners'
<1> USE DEF jobVars, histVars, serverVars
<1>0. /\ apc \in [Agents -> AgentPcs] /\ work \in [Agents -> Works]
      /\ \A j \in JobIds : j # NoJob
  BY DEF TypeInv, TypeOK, JobIds, NoJob
<1>1. /\ \A b \in Agents \ {a} : apc'[b] = apc[b] /\ work'[b] = work[b]
      /\ status' = status /\ queued' = queued /\ orphaned \subseteq orphaned'
      /\ hpc' = hpc /\ local' = local
  BY <1>0 DEF Execute, ConnectionLost, Timeout, AgentCrash, Abandon, Orphan
<1>2. ASSUME NEW j \in JobIds, AgentOwns(a, j), j \notin orphaned' PROVE AgentOwns(a, j)'
  <2>1. work[a].job = j /\ work[a].job # NoJob
    BY <1>0, <1>2 DEF AgentOwns
  <2>2. work'[a].job = work[a].job /\ work'[a].turn = work[a].turn /\ apc'[a] = "send"
    <3>1. CASE Execute(a)
      BY <1>0, <3>1 DEF Execute, Works
    <3>2. CASE ConnectionLost(a) \/ Timeout(a)
      <4>1. apc[a] = "await_report" /\ Abandon(a)
        BY <2>1, <3>2 DEF ConnectionLost, Timeout, Pairing
      <4>2. ~GivesUpReport(a)
        BY <1>2, <2>1, <4>1 DEF Abandon, Orphan
      <4>3. QED
        BY <1>0, <4>1, <4>2 DEF Abandon, Works
    <3>3. CASE AgentCrash(a)
      BY <1>2, <2>1, <3>3 DEF AgentCrash, Orphan
    <3>4. QED
      BY <3>1, <3>2, <3>3
  <2>3. \A h \in Handlers : ~Serves(h, a)'
    BY <2>2 DEF Serves, Waits
  <2>4. QED
    BY <1>1, <1>2, <2>2, <2>3 DEF AgentOwns
<1>3. ASSUME NEW j \in JobIds, NEW b \in Agents \ {a}, AgentOwns(b, j) PROVE AgentOwns(b, j)'
  BY <1>1, <1>3 DEF AgentOwns, Serves, Waits
<1>4. ASSUME NEW j \in JobIds, NEW h \in Handlers, HandlerOwns(h, j) PROVE HandlerOwns(h, j)'
  BY <1>1, <1>4 DEF HandlerOwns, OwnedBy
<1>5. ASSUME NEW j \in JobIds, status'[j] = "running", j \notin orphaned' PROVE Owned(j)'
  <2>1. Owned(j)
    BY <1>1, <1>5 DEF Owners
  <2>2. QED
    BY <1>2, <1>3, <1>4, <1>5, <2>1 DEF Owned
<1>6. QED
  BY <1>5 DEF Owners

\* A request of an operator is taken by an idle handler, which owns nothing.
LEMMA OwnersOperatorStep ==
    ASSUME TypeInv, Pairing, Owners, NEW h \in Handlers, OperatorStep(h)
    PROVE  Owners'
<1> USE DEF jobVars, histVars, agentVars, AnswerPcs
<1>0. hpc \in [Handlers -> HandlerPcs] /\ local \in [Handlers -> Locals]
  BY DEF TypeInv, TypeOK
<1>1. ASSUME hpc[h] = "idle", NEW to \in {"cancel_save", "retry_save", "dispatch_clear", "dispatch_job"} \cup EditPcs,
             NEW l, l.agent = NoAgent,
             hpc' = [hpc EXCEPT ![h] = to], local' = [local EXCEPT ![h] = l],
             UNCHANGED <<status, queued, agentVars, orphaned>>
      PROVE  Owners'
  <2>1. /\ \A g \in Handlers \ {h} : hpc'[g] = hpc[g] /\ local'[g] = local[g]
        /\ local'[h].agent = NoAgent /\ hpc'[h] = to /\ to \notin AnswerPcs
    BY <1>0, <1>1 DEF EditPcs
  <2>2. \A j \in JobIds : ~HandlerOwns(h, j)
    BY <1>1, OwnsByPc
  <2>3. QED
    BY <1>1, <2>1, <2>2, HandlerKeepsOwners
<1>2. ASSUME NEW j \in JobIds, CancelRead(h, j) \/ RetryRead(h, j) PROVE Owners'
  <2>1. [NoLocals EXCEPT !.job = j].agent = NoAgent
    BY DEF NoLocals
  <2>2. QED
    BY <1>1, <1>2, <2>1 DEF CancelRead, RetryRead, Goto
<1>3. ASSUME NEW k \in Kinds, NEW now \in BOOLEAN, DispatchRead(h, k, now) PROVE Owners'
  <2>1. [NoLocals EXCEPT !.kind = k, !.now = now, !.row = site[k.site]].agent = NoAgent
    BY DEF NoLocals
  <2>2. QED
    BY <1>1, <1>3, <2>1 DEF DispatchRead, Goto
<1>4. ASSUME NEW s \in Sites, UpdateRead(h, s) \/ AssignRead(h, s) PROVE Owners'
  <2>1. PICK to \in EditPcs : EditRead(h, s, to)
    BY <1>4 DEF UpdateRead, AssignRead, EditPcs
  <2>2. [NoLocals EXCEPT !.site = s, !.row = site[s]].agent = NoAgent
    BY DEF NoLocals
  <2>3. QED
    BY <1>1, <2>1, <2>2 DEF EditRead, Goto
<1>5. QED
  BY <1>2, <1>3, <1>4 DEF OperatorStep

\* A restart of the server orphans what its handlers owned, and leaves the agents
\* what they have.
LEMMA OwnersServerRestart ==
    ASSUME TypeInv, Owners, ServerRestart PROVE Owners'
<1> USE DEF jobVars, histVars, agentVars
<1>0. \A j \in JobIds : j # NoJob
  BY DEF JobIds, NoJob
<1> SUFFICES ASSUME NEW j \in JobIds, status'[j] = "running", j \notin orphaned' PROVE Owned(j)'
  BY DEF Owners
<1>1. status' = status /\ queued' = queued /\ work' = work /\ orphaned \subseteq orphaned'
  BY DEF ServerRestart
<1>2. \A h \in Handlers : ~HandlerOwns(h, j)
  BY <1>0 DEF ServerRestart, HandlerOwns
<1>3. PICK a \in Agents : AgentOwns(a, j)
  BY <1>1, <1>2 DEF Owners, Owned
<1>4. \A h \in Handlers : hpc'[h] \notin AnswerPcs
  BY DEF ServerRestart, AnswerPcs
<1>5. AgentOwns(a, j)'
  BY <1>1, <1>3, <1>4 DEF AgentOwns
<1>6. QED
  BY <1>5 DEF Owned

\* When a site's jobs go, the others keep their owners.
LEMMA OwnersDelete ==
    ASSUME TypeInv, Owners, (\E s \in Sites : DeleteSiteJobs(s)) \/ UNCHANGED vars
    PROVE  Owners'
<1> USE DEF jobVars, histVars, agentVars, serverVars
<1>1. /\ \A j \in JobIds : status'[j] = "running" => status[j] = "running"
      /\ queued' = queued /\ work' = work /\ apc' = apc /\ hpc' = hpc /\ local' = local /\ orphaned' = orphaned
  BY DEF DeleteSiteJobs, vars
<1>2. ASSUME NEW j \in JobIds, Owned(j) PROVE Owned(j)'
  <2>1. ASSUME NEW a \in Agents, AgentOwns(a, j) PROVE AgentOwns(a, j)'
    BY <1>1, <2>1 DEF AgentOwns, Serves, Waits
  <2>2. ASSUME NEW h \in Handlers, HandlerOwns(h, j) PROVE HandlerOwns(h, j)'
    BY <1>1, <2>2 DEF HandlerOwns, OwnedBy
  <2>3. QED
    BY <1>2, <2>1, <2>2 DEF Owned
<1>3. QED
  BY <1>1, <1>2 DEF Owners

\* Every step keeps an owner for each running job that is not orphaned.
LEMMA OwnersStep ==
    ASSUME TypeInv, Pairing, Owners, [Next]_vars PROVE Owners'
<1>1. ASSUME NEW h \in Handlers, HandlerStep(h) PROVE Owners'
  BY <1>1, OwnersHandlerStep, OwnersClaimReply, OwnersReportReply
<1>2. ASSUME NEW a \in Agents, AgentStep(a) PROVE Owners'
  BY <1>2, OwnersMeetingStep, OwnersAgentStep DEF AgentStep
<1>3. CASE Fault
  BY <1>3, OwnersAgentStep, OwnersHandlerError, OwnersServerRestart DEF Fault
<1>4. QED
  BY <1>1, <1>2, <1>3, OwnersOperatorStep, OwnersDelete DEF Next

\* No job is forgotten: whatever requests and answers are lost, repeated or late,
\* a running job is in the hands of an agent that has yet to report it or of a
\* handler that has, unless since it was last queued a fault took them or the server
\* could not import its executor (claim_next_pending_job, report_job_result,
\* retry_job, _execute_job_sync).
THEOREM RunningIsOwned == Spec => []RunningHasOwner
<1>1. Init => Pairing /\ Owners
  <2> SUFFICES ASSUME Init PROVE Pairing /\ Owners
    OBVIOUS
  <2>1. Pairing
    BY DEF Init, Pairing, ClaimPcs, ReportPcs, Serves, Waits, NoWork, NoLocals
  <2>2. Owners
    BY DEF Init, Owners
  <2>3. QED
    BY <2>1, <2>2
<1>2. TypeInv /\ Pairing /\ Owners /\ [Next]_vars => TypeInv' /\ Pairing' /\ Owners'
  BY TypeInvStep, PairingStep, OwnersStep
<1>3. Owners => RunningHasOwner
  BY DEF Owners, Owned, AgentOwns, HandlerOwns, RunningHasOwner
<1>4. QED
  BY <1>1, <1>2, <1>3, TypeInvInit, PTL DEF Spec
=============================================================================
