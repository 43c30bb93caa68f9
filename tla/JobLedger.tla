------------------------------ MODULE JobLedger ------------------------------
(***************************************************************************)
(* What the HubStudio job table promises to those who dispatch work, with  *)
(* no word of handlers, agents or messages: a job is queued, taken by      *)
(* somebody, and closed by ONE outcome; only an explicit retry queues it   *)
(* again, and no job ever gets more outcomes than it was queued.  The      *)
(* orchestration service (HubJobs) is shown to implement this.             *)
(***************************************************************************)
EXTENDS Naturals

CONSTANT JobIds          \* ids the auto-increment key may hand out

VARIABLES
    phase,               \* where each job stands
    queued,              \* how many times each job was put in the queue
    outcomes             \* how many outcomes each job was given

ledgerVars == <<phase, queued, outcomes>>

LedgerInit ==
    /\ phase = [j \in JobIds |-> "absent"]
    /\ queued = [j \in JobIds |-> 0]
    /\ outcomes = [j \in JobIds |-> 0]

\* A dispatch inserts a row, or a retry puts an existing one back.
Queue(j) ==
    /\ phase[j] = "absent" => queued[j] = 0
    /\ phase' = [phase EXCEPT ![j] = "pending"]
    /\ queued' = [queued EXCEPT ![j] = @ + 1]
    /\ UNCHANGED outcomes

Take(j) ==
    /\ phase[j] = "pending"
    /\ phase' = [phase EXCEPT ![j] = "running"]
    /\ UNCHANGED <<queued, outcomes>>

\* The only step that gives an outcome, and only to a job that is open.
Close(j) ==
    /\ phase[j] \in {"pending", "running"}
    /\ outcomes[j] < queued[j]
    /\ phase' = [phase EXCEPT ![j] = "closed"]
    /\ outcomes' = [outcomes EXCEPT ![j] = @ + 1]
    /\ UNCHANGED queued

\* The operator withdraws a job; a withdrawal that races the outcome may
\* still land on a closed one.
Withdraw(j) ==
    /\ phase[j] # "absent"
    /\ phase' = [phase EXCEPT ![j] = "cancelled"]
    /\ UNCHANGED <<queued, outcomes>>

\* Deleting a site deletes its job rows.
Forget(S) ==
    /\ phase' = [j \in JobIds |-> IF j \in S THEN "absent" ELSE phase[j]]
    /\ UNCHANGED <<queued, outcomes>>

LedgerNext ==
    \/ \E j \in JobIds : Queue(j) \/ Take(j) \/ Close(j) \/ Withdraw(j)
    \/ \E S \in SUBSET JobIds : Forget(S)

LedgerSpec == LedgerInit /\ [][LedgerNext]_ledgerVars

\* What the ledger gives its readers: at most one outcome per queueing, and an
\* open job has one still to come.
LedgerInv ==
    \A j \in JobIds :
        /\ outcomes[j] <= queued[j]
        /\ phase[j] \in {"pending", "running"} => outcomes[j] < queued[j]

=============================================================================
