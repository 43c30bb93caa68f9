-------------------------- MODULE ResourceRequests --------------------------
(***************************************************************************)
(* What the handlers of the resource pools share: the table of sites, and  *)
(* the requests.  A request is a coroutine; each of its statements is one  *)
(* action, and other requests run between two of them.  No statement is    *)
(* guarded by a lock or a transaction unless an action says so.            *)
(***************************************************************************)
EXTENDS Naturals, Sequences, FiniteSets

CONSTANTS
    Sites, Requests,
    Mixes,              \* the sets of operations users ask for in one behaviour
    MaxBatch,           \* bound: the items of one request
    MaxRequests,        \* bound: the requests of one behaviour
    Nothing             \* a null value

ASSUME RequestsAssumption == IsFiniteSet(Sites) /\ MaxBatch \in Nat /\ MaxRequests \in Nat

VARIABLES
    site,               \* the table of sites, with a history of each row: an update of it named its proxy
    req,                \* the requests under way
    mix,                \* the operations of this behaviour
    started,            \* the bound's counter
    raced               \* history: two requests have overlapped, or one has broken off

asking == <<req, mix, started, raced>>

NoProxy == 0

Idle == [op |-> "none", at |-> "idle", todo |-> <<>>, arg |-> Nothing, row |-> Nothing, site |-> Nothing]

RequestsInit ==
    /\ site = [s \in Sites |-> [deleted |-> FALSE, proxy |-> NoProxy, env |-> FALSE, byHand |-> FALSE]]
    /\ req = [r \in Requests |-> Idle] /\ mix \in Mixes /\ started = 0 /\ raced = FALSE

Free(r)       == req[r] = Idle
Here(r)       == Head(req[r].todo)
Has(r, op, at) == req[r].op = op /\ req[r].at = at

Batches(S) == UNION {[1..n -> S] : n \in 1..MaxBatch}

Begin(r, op, at, todo, arg, row) ==
    /\ Free(r) /\ op \in mix /\ started < MaxRequests
    /\ started' = started + 1 /\ UNCHANGED mix
    /\ raced' = (raced \/ \E q \in Requests : ~Free(q))
    /\ req' = [req EXCEPT ![r] = [Idle EXCEPT !.op = op, !.at = at, !.todo = todo, !.arg = arg, !.row = row]]

Becomes(r, q) == req' = [req EXCEPT ![r] = q] /\ UNCHANGED <<mix, started, raced>>
Goto(r, at)   == Becomes(r, [req[r] EXCEPT !.at = at])
Done(r)       == Becomes(r, Idle)

\* One item is done with; the next begins at the step `first'.
NextItem(r, first) ==
    IF Len(req[r].todo) = 1 THEN Done(r)
    ELSE Becomes(r, [req[r] EXCEPT !.at = first, !.todo = Tail(@), !.row = Nothing, !.site = Nothing])

\* A statement raises, or the process ends: what was written stays.
BreakOff(r) ==
    /\ ~Free(r) /\ "fail" \in mix /\ req' = [req EXCEPT ![r] = Idle] /\ raced' = TRUE
    /\ UNCHANGED <<site, mix, started>>
=============================================================================
