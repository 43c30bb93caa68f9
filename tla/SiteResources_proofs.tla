------------------------ MODULE SiteResources_proofs ------------------------
(***************************************************************************)
(* Proofs about SiteResources, for any number of sites, rows and requests. *)
(* A request holds what it has read; a table says what is so as long as    *)
(* everything that may still be saved into it does.                        *)
(*   AskingInv  the requests and the counters are what they seem;          *)
(*   RegInv     every row of a registration, in the table or held, shows   *)
(*              its own code and its own Outlook account's identity;       *)
(*   PoolInv    what is held of the pools and of sites is a row;           *)
(*   ApartInv   until requests overlap or break off, sites that the batch  *)
(*              under way has done with have proxies of their own, but for *)
(*              those that got theirs by hand, and the proxies that it has *)
(*              left are nobody's.                                         *)
(***************************************************************************)
EXTENDS SiteResources, FiniteSetTheorems, SequenceTheorems, TLAPS

\* A request has the fields of an idle one.
IsRequest(q) == q \in [op : {q.op}, at : {q.at}, todo : {q.todo}, arg : {q.arg}, row : {q.row}, site : {q.site}]

AskingInv ==
    /\ req = [r \in Requests |-> req[r]] /\ \A r \in Requests : IsRequest(req[r])
    /\ \A r \in Requests : Free(r) \/ req[r].op \in mix
    /\ started \in 0..MaxRequests /\ raced \in BOOLEAN

Filled(S) == Seq(S) \ {<<>>}

ProxyRest  == {"import_proxies", "edit_proxy", "delete_proxies", "check_proxies", "unassign_proxies"}
ProxyOps   == ProxyRest \cup {"assign_proxies", "edit_site"}
AccountOps == {"assign", "auto_assign", "unassign", "set_health", "delete_accounts"}
DeleteOps  == {"delete_site", "recycle"}
\* The requests that read a registration's row and save it whole.
RowOps     == {"create", "assign_outlook", "batch_outlook", "remove_regs", "get_phone", "wait_sms", "confirm_sms",
               "report_env"}
RegRest    == RowOps \cup {"restore", "set_status", "fetch"}
RegOps     == RegRest \cup {"assign_env"}

GiveNext(r) == AssignProxies(r) \/ OccupiedProxies(r) \/ AvailableProxies(r) \/ GiveProxy(r)
ByHandNext(r) == EditSite(r) \/ SaveEditedSite(r)
EnvNext(r)  == AssignEnvs(r) \/ ReadCompleted(r) \/ ReadEnvSite(r) \/ CheckGmail(r) \/ SaveEnv(r)

\* A registration's row that shows its own code and its own account's identity.
RegGood(row) ==
    /\ row \in RegRows /\ row.code \in {Nothing, row.request}
    /\ row.outlook # Nothing => row.identity = row.outlook

RowPlaces == {"account", "holder", "save", "buy", "poll", "tell"}

RegHeld(op, at, todo, arg, row) ==
    /\ op \in RowOps => todo \in Filled(Sites) /\ (at \in RowPlaces => RegGood(row))
    /\ op \in {"create", "assign_outlook"} => arg \in Outlooks \cup {Nothing}
    /\ op = "get_phone" /\ at = "buy" => row.request = Nothing
    /\ op = "batch_outlook" /\ at \in {"read", "save"} => arg \subseteq Outlooks
    /\ op = "set_status" => arg \in {"pending", "failed"}
    /\ op = "confirm_sms" => arg \in {"used", "close"}

RegHolds(q) == RegHeld(q.op, q.at, q.todo, q.arg, q.row)

RegTables(t, o, n) ==
    /\ t \in [Sites -> RegRows] /\ \A d \in Sites : RegGood(t[d])
    /\ o \in [Outlooks -> [deleted : BOOLEAN, ok : BOOLEAN]]
    /\ n \in Seq({"open", "used", "close"}) /\ Len(n) <= MaxNumbers

RegInv == RegTables(reg, outlook, number) /\ \A r \in Requests : RegHolds(req[r])

\* The state of one request is replaced; without a race it is alone.
Turn(r, q) ==
    /\ IsRequest(q) /\ req' = [req EXCEPT ![r] = q]
    /\ mix' = mix /\ started' \in 0..MaxRequests /\ raced' \in BOOLEAN
    /\ ~raced' => ~raced /\ (Free(r) => \A u \in Requests : Free(u))

------------------------------------------------------------------------------
(* Sequences.                                                               *)

LEMMA FilledSeq ==
    ASSUME NEW S, NEW s \in Filled(S)
    PROVE  /\ Len(s) \in Nat \ {0} /\ Head(s) \in S /\ s[1] = Head(s) /\ DOMAIN s = 1..Len(s)
           /\ Tail(s) \in Seq(S) /\ (Len(s) # 1 => Tail(s) \in Filled(S))
<1>1. s \in Seq(S) /\ s # <<>>
  BY DEF Filled
<1>2. Head(s) \in S /\ Tail(s) \in Seq(S) /\ Len(s) \in Nat
  BY <1>1, HeadTailProperties
<1>3. Len(s) # 0
  BY <1>1, EmptySeq
<1>4. Len(Tail(s)) = Len(s) - 1
  BY <1>1, HeadTailProperties
<1>5. Len(s) # 1 => Tail(s) # <<>>
  BY <1>2, <1>3, <1>4, EmptySeq
<1>6. QED
  BY <1>1, <1>2, <1>3, <1>5 DEF Filled

LEMMA BatchFilled ==
    ASSUME NEW S, NEW b \in Batches(S)
    PROVE  b \in Filled(S)
<1>1. PICK n \in 1..MaxBatch : b \in [1..n -> S]
  BY DEF Batches
<1>2. n \in Nat \ {0}
  BY <1>1, RequestsAssumption
<1>3. b \in Seq(S) /\ Len(b) = n
  BY <1>1, <1>2
<1>4. QED
  BY <1>2, <1>3 DEF Filled

------------------------------------------------------------------------------
(* Requests.                                                                *)

LEMMA IdleFields ==
    /\ IsRequest(Idle) /\ Idle.op = "none" /\ Idle.at = "idle" /\ Idle.todo = <<>>
    /\ Idle.arg = Nothing /\ Idle.row = Nothing /\ Idle.site = Nothing
BY DEF Idle, IsRequest

LEMMA Begins ==
    ASSUME AskingInv, NEW r \in Requests, NEW op, NEW at, NEW todo, NEW arg, NEW row, Begin(r, op, at, todo, arg, row)
    PROVE  \E q : /\ Turn(r, q) /\ q.op = op /\ q.at = at /\ q.todo = todo /\ q.arg = arg /\ q.row = row
                  /\ q.op \in mix
<1> DEFINE q == [Idle EXCEPT !.op = op, !.at = at, !.todo = todo, !.arg = arg, !.row = row]
<1>1. q.op = op /\ q.at = at /\ q.todo = todo /\ q.arg = arg /\ q.row = row
  BY DEF Idle
<1>2. IsRequest(q)
  BY DEF Idle, IsRequest
<1>3. req' = [req EXCEPT ![r] = q] /\ op \in mix /\ mix' = mix
  BY DEF Begin
<1>4. started' \in 0..MaxRequests /\ raced' \in BOOLEAN /\ (~raced' => ~raced /\ \A u \in Requests : Free(u))
  <2>1. started' \in 0..MaxRequests
    BY RequestsAssumption DEF Begin, AskingInv
  <2>2. raced' = (raced \/ \E u \in Requests : ~Free(u)) /\ raced \in BOOLEAN
    BY DEF Begin, AskingInv
  <2>3. CASE raced \/ \E u \in Requests : ~Free(u)
    BY <2>1, <2>2, <2>3
  <2>4. CASE ~raced /\ \A u \in Requests : Free(u)
    BY <2>1, <2>2, <2>4
  <2>5. QED
    BY <2>3, <2>4
<1> HIDE DEF q
<1>5. QED
  BY <1>1, <1>2, <1>3, <1>4 DEF Turn

\* A request under way is replaced.
LEMMA BecomesTurn ==
    ASSUME AskingInv, NEW r \in Requests, req[r].op # "none", NEW q, IsRequest(q), Becomes(r, q)
    PROVE  Turn(r, q)
BY IdleFields DEF AskingInv, Becomes, Turn, Free

LEMMA GoesOn ==
    ASSUME AskingInv, NEW r \in Requests, req[r].op # "none", NEW at, Goto(r, at)
    PROVE  \E q : /\ Turn(r, q) /\ q.at = at /\ q.op = req[r].op /\ q.todo = req[r].todo /\ q.arg = req[r].arg
                  /\ q.row = req[r].row /\ q.site = req[r].site
<1> DEFINE k == req[r]
           q == [k EXCEPT !.at = at]
<1>1. IsRequest(k)
  BY DEF AskingInv
<1>2. q.at = at /\ q.op = k.op /\ q.todo = k.todo /\ q.arg = k.arg /\ q.row = k.row /\ q.site = k.site
  BY <1>1 DEF IsRequest
<1>3. IsRequest(q)
  BY <1>1 DEF IsRequest
<1>4. Becomes(r, q)
  BY DEF Goto
<1> HIDE DEF q
<1>5. QED
  BY <1>2, <1>3, <1>4, BecomesTurn

LEMMA Ends ==
    ASSUME AskingInv, NEW r \in Requests, req[r].op # "none", Done(r)
    PROVE  Turn(r, Idle)
BY IdleFields, BecomesTurn DEF Done

LEMMA Advances ==
    ASSUME AskingInv, NEW r \in Requests, req[r].op # "none", NEW first, NextItem(r, first)
    PROVE  \/ Turn(r, Idle)
           \/ \E q : /\ Turn(r, q) /\ q.at = first /\ q.op = req[r].op /\ q.todo = Tail(req[r].todo)
                     /\ q.arg = req[r].arg /\ Len(req[r].todo) # 1
<1>1. CASE Len(req[r].todo) = 1
  BY <1>1, Ends DEF NextItem
<1>2. CASE Len(req[r].todo) # 1
  <2> DEFINE k == req[r]
             q == [k EXCEPT !.at = first, !.todo = Tail(k.todo), !.row = Nothing, !.site = Nothing]
  <2>1. IsRequest(k)
    BY DEF AskingInv
  <2>2. q.at = first /\ q.op = k.op /\ q.todo = Tail(k.todo) /\ q.arg = k.arg
    BY <2>1 DEF IsRequest
  <2>3. IsRequest(q)
    BY <2>1 DEF IsRequest
  <2>4. Becomes(r, q)
    BY <1>2 DEF NextItem
  <2> HIDE DEF q
  <2>5. QED
    BY <1>2, <2>2, <2>3, <2>4, BecomesTurn
<1>3. QED
  BY <1>1, <1>2

\* What is held is replaced, with a place or without.
LEMMA HoldsRow ==
    ASSUME AskingInv, NEW r \in Requests, req[r].op # "none", NEW at, NEW row, Holds(r, at, row)
    PROVE  \E q : /\ Turn(r, q) /\ q.at = at /\ q.op = req[r].op /\ q.todo = req[r].todo /\ q.arg = req[r].arg
                  /\ q.row = row
<1> DEFINE k == req[r]
           q == [k EXCEPT !.at = at, !.row = row]
<1>1. IsRequest(k)
  BY DEF AskingInv
<1>2. q.at = at /\ q.op = k.op /\ q.todo = k.todo /\ q.arg = k.arg /\ q.row = row
  BY <1>1 DEF IsRequest
<1>3. IsRequest(q)
  BY <1>1 DEF IsRequest
<1>4. Becomes(r, q)
  BY DEF Holds
<1> HIDE DEF q
<1>5. QED
  BY <1>2, <1>3, <1>4, BecomesTurn

\* A turn changes the one request.
LEMMA TurnTaken ==
    ASSUME AskingInv, NEW r \in Requests, NEW q, Turn(r, q)
    PROVE  /\ req' = [u \in Requests |-> req'[u]] /\ \A u \in Requests : IsRequest(req'[u])
           /\ \A u \in Requests : req'[u] = IF u = r THEN q ELSE req[u]
<1>1. \A u \in Requests : req'[u] = IF u = r THEN q ELSE req[u]
  BY DEF AskingInv, Turn
<1>2. req' = [u \in Requests |-> req'[u]]
  BY DEF AskingInv, Turn
<1>3. QED
  BY <1>1, <1>2 DEF AskingInv, Turn

\* Some operation of these goes on, or the request is over.
Goes(r, ops) ==
    /\ Free(r) \/ req[r].op \in ops
    /\ \E q : Turn(r, q) /\ (q = Idle \/ (q.op \in ops /\ q.op \in mix))

LEMMA SameOp ==
    ASSUME AskingInv, NEW r \in Requests, NEW ops, "none" \notin ops, req[r].op \in ops,
           NEW q, Turn(r, q), q = Idle \/ q.op = req[r].op
    PROVE  Goes(r, ops)
<1>1. req[r] # Idle
  BY IdleFields
<1>2. req[r].op \in mix
  BY <1>1 DEF AskingInv, Free
<1>3. QED
  BY <1>2 DEF Goes

\* The ways in which a request under way goes on.
LEMMA OpGoesOn ==
    ASSUME AskingInv, NEW r \in Requests, NEW ops, "none" \notin ops, req[r].op \in ops,
           Done(r) \/ \E at : Goto(r, at) \/ NextItem(r, at) \/ \E row : Holds(r, at, row)
    PROVE  Goes(r, ops)
<1>1. CASE Done(r)
  BY <1>1, Ends, SameOp
<1>2. ASSUME NEW at, Goto(r, at) PROVE Goes(r, ops)
  BY <1>2, GoesOn, SameOp
<1>3. ASSUME NEW at, NextItem(r, at) PROVE Goes(r, ops)
  BY <1>3, Advances, SameOp
<1>4. ASSUME NEW at, NEW row, Holds(r, at, row) PROVE Goes(r, ops)
  BY <1>4, HoldsRow, SameOp
<1>5. QED
  BY <1>1, <1>2, <1>3, <1>4

LEMMA OpEdited ==
    ASSUME AskingInv, NEW r \in Requests, NEW ops, "none" \notin ops, req[r].op \in ops,
           NEW q, Becomes(r, q), IsRequest(q), q.op = req[r].op
    PROVE  Goes(r, ops)
BY SameOp, BecomesTurn

LEMMA OpChanges ==
    ASSUME AskingInv, NEW r \in Requests, NEW ops, "none" \notin ops, req[r].op \in ops,
           NEW at, NEW todo, NEW arg, NEW row, NEW s,
           \/ Becomes(r, [req[r] EXCEPT !.at = at, !.arg = arg])
           \/ Becomes(r, [req[r] EXCEPT !.todo = todo, !.arg = arg])
           \/ Becomes(r, [req[r] EXCEPT !.arg = arg, !.todo = todo])
           \/ Becomes(r, [req[r] EXCEPT !.arg = arg])
           \/ Becomes(r, [req[r] EXCEPT !.todo = todo])
           \/ Becomes(r, [req[r] EXCEPT !.at = at, !.todo = todo])
           \/ Becomes(r, [req[r] EXCEPT !.at = at, !.row = row])
           \/ Becomes(r, [req[r] EXCEPT !.at = at, !.row = row, !.arg = arg])
           \/ Becomes(r, [req[r] EXCEPT !.at = at, !.arg = arg, !.row = row])
           \/ Becomes(r, [req[r] EXCEPT !.at = at, !.site = s])
    PROVE  Goes(r, ops)
<1> DEFINE k == req[r]
<1>0. IsRequest(k)
  BY DEF AskingInv
<1>1. ASSUME NEW q, Becomes(r, q), IsRequest(q), q.op = k.op PROVE Goes(r, ops)
  BY <1>1, OpEdited
<1>2. CASE Becomes(r, [k EXCEPT !.at = at, !.arg = arg])
  <2>1. IsRequest([k EXCEPT !.at = at, !.arg = arg]) /\ [k EXCEPT !.at = at, !.arg = arg].op = k.op
    BY <1>0 DEF IsRequest
  <2>2. QED
    BY <1>1, <1>2, <2>1
<1>3. CASE Becomes(r, [k EXCEPT !.todo = todo, !.arg = arg])
  <2>1. IsRequest([k EXCEPT !.todo = todo, !.arg = arg]) /\ [k EXCEPT !.todo = todo, !.arg = arg].op = k.op
    BY <1>0 DEF IsRequest
  <2>2. QED
    BY <1>1, <1>3, <2>1
<1>4. CASE Becomes(r, [k EXCEPT !.arg = arg, !.todo = todo])
  <2>1. IsRequest([k EXCEPT !.arg = arg, !.todo = todo]) /\ [k EXCEPT !.arg = arg, !.todo = todo].op = k.op
    BY <1>0 DEF IsRequest
  <2>2. QED
    BY <1>1, <1>4, <2>1
<1>5. CASE Becomes(r, [k EXCEPT !.arg = arg])
  <2>1. IsRequest([k EXCEPT !.arg = arg]) /\ [k EXCEPT !.arg = arg].op = k.op
    BY <1>0 DEF IsRequest
  <2>2. QED
    BY <1>1, <1>5, <2>1
<1>6. CASE Becomes(r, [k EXCEPT !.todo = todo])
  <2>1. IsRequest([k EXCEPT !.todo = todo]) /\ [k EXCEPT !.todo = todo].op = k.op
    BY <1>0 DEF IsRequest
  <2>2. QED
    BY <1>1, <1>6, <2>1
<1>7. CASE Becomes(r, [k EXCEPT !.at = at, !.todo = todo])
  <2>1. IsRequest([k EXCEPT !.at = at, !.todo = todo]) /\ [k EXCEPT !.at = at, !.todo = todo].op = k.op
    BY <1>0 DEF IsRequest
  <2>2. QED
    BY <1>1, <1>7, <2>1
<1>8. CASE Becomes(r, [k EXCEPT !.at = at, !.row = row])
  <2>1. IsRequest([k EXCEPT !.at = at, !.row = row]) /\ [k EXCEPT !.at = at, !.row = row].op = k.op
    BY <1>0 DEF IsRequest
  <2>2. QED
    BY <1>1, <1>8, <2>1
<1>9. CASE Becomes(r, [k EXCEPT !.at = at, !.row = row, !.arg = arg])
  <2>1. IsRequest([k EXCEPT !.at = at, !.row = row, !.arg = arg]) /\ [k EXCEPT !.at = at, !.row = row, !.arg = arg].op = k.op
    BY <1>0 DEF IsRequest
  <2>2. QED
    BY <1>1, <1>9, <2>1
<1>10. CASE Becomes(r, [k EXCEPT !.at = at, !.arg = arg, !.row = row])
  <2>1. IsRequest([k EXCEPT !.at = at, !.arg = arg, !.row = row]) /\ [k EXCEPT !.at = at, !.arg = arg, !.row = row].op = k.op
    BY <1>0 DEF IsRequest
  <2>2. QED
    BY <1>1, <1>10, <2>1
<1>11. CASE Becomes(r, [k EXCEPT !.at = at, !.site = s])
  <2>1. IsRequest([k EXCEPT !.at = at, !.site = s]) /\ [k EXCEPT !.at = at, !.site = s].op = k.op
    BY <1>0 DEF IsRequest
  <2>2. QED
    BY <1>1, <1>11, <2>1
<1>12. QED
  BY <1>2, <1>3, <1>4, <1>5, <1>6, <1>7, <1>8, <1>9, <1>10, <1>11

LEMMA OpBegins ==
    ASSUME AskingInv, NEW r \in Requests, NEW ops, NEW op \in ops,
           \E at, todo, arg, row : Begin(r, op, at, todo, arg, row)
    PROVE  Goes(r, ops)
<1>1. PICK at, todo, arg, row : Begin(r, op, at, todo, arg, row)
  OBVIOUS
<1>2. PICK q : Turn(r, q) /\ q.op = op /\ q.op \in mix
  BY <1>1, Begins
<1>3. QED
  BY <1>1, <1>2 DEF Goes, Begin

LEMMA ProxiesGo ==
    ASSUME AskingInv, NEW r \in Requests, ProxyNext(r), ~GiveNext(r), ~ByHandNext(r)
    PROVE  Goes(r, ProxyRest)
<1> DEFINE k == req[r]
<1>0. IsRequest(k) /\ "none" \notin ProxyRest
  BY DEF AskingInv, ProxyRest
<1>1. ASSUME NEW op \in ProxyRest, \E at, todo, arg, row : Begin(r, op, at, todo, arg, row) PROVE Goes(r, ProxyRest)
  BY <1>1, OpBegins
<1>2. ASSUME k.op \in ProxyRest, Done(r) \/ \E at : Goto(r, at) \/ NextItem(r, at) PROVE Goes(r, ProxyRest)
  BY <1>0, <1>2, OpGoesOn
<1>3. ASSUME k.op \in ProxyRest, NEW todo, NEW arg,
             Becomes(r, [k EXCEPT !.arg = arg, !.todo = todo]) \/ Becomes(r, [k EXCEPT !.arg = arg])
      PROVE  Goes(r, ProxyRest)
  BY <1>0, <1>3, OpChanges
<1>4. CASE ImportProxies(r) \/ EditProxy(r)
  BY <1>1, <1>4 DEF ImportProxies, EditProxy, ProxyRest
<1>5. CASE DeleteProxies(r) \/ CheckProxies(r) \/ UnassignProxies(r)
  BY <1>1, <1>5 DEF DeleteProxies, CheckProxies, UnassignProxies, ProxyRest
<1>6. CASE LookUpAddress(r) \/ CreateProxy(r) \/ LookUpNewAddress(r) \/ SaveProxy(r)
  BY <1>2, <1>6 DEF LookUpAddress, CreateProxy, LookUpNewAddress, SaveProxy, Has, ProxyRest
<1>7. CASE DeleteListed(r) \/ MarkTesting(r) \/ ClearProxy(r)
  BY <1>2, <1>7 DEF DeleteListed, MarkTesting, ClearProxy, Has, ProxyRest
<1>8. CASE CheckNextGroup(r) \/ ProxyAnswers(r)
  BY <1>2, <1>3, <1>8 DEF CheckNextGroup, ProxyAnswers, Has, ProxyRest
<1>9. QED
  BY <1>4, <1>5, <1>6, <1>7, <1>8 DEF ProxyNext, GiveNext, ByHandNext

LEMMA GivesGo ==
    ASSUME AskingInv, NEW r \in Requests, GiveNext(r)
    PROVE  Goes(r, {"assign_proxies"})
<1> DEFINE k == req[r]
<1>1. CASE AssignProxies(r)
  BY <1>1, OpBegins DEF AssignProxies
<1>2. ASSUME k.op = "assign_proxies", Done(r) PROVE Goes(r, {"assign_proxies"})
  BY <1>2, OpGoesOn
<1>3. ASSUME k.op = "assign_proxies", NEW at, NEW todo, NEW arg,
             Becomes(r, [k EXCEPT !.at = at, !.arg = arg]) \/ Becomes(r, [k EXCEPT !.todo = todo, !.arg = arg])
      PROVE  Goes(r, {"assign_proxies"})
  BY <1>3, OpChanges
<1>4. CASE OccupiedProxies(r)
  BY <1>3, <1>4 DEF OccupiedProxies, Has
<1>5. CASE AvailableProxies(r) \/ GiveProxy(r)
  BY <1>2, <1>3, <1>5 DEF AvailableProxies, GiveProxy, Has
<1>6. QED
  BY <1>1, <1>4, <1>5 DEF GiveNext

LEMMA ByHandGoes ==
    ASSUME AskingInv, NEW r \in Requests, ByHandNext(r)
    PROVE  Goes(r, {"edit_site"})
<1>1. CASE EditSite(r)
  BY <1>1, OpBegins DEF EditSite
<1>2. CASE SaveEditedSite(r)
  BY <1>2, OpGoesOn DEF SaveEditedSite, Has
<1>3. QED
  BY <1>1, <1>2 DEF ByHandNext

LEMMA ProxyGoes ==
    ASSUME AskingInv, NEW r \in Requests, ProxyNext(r)
    PROVE  Goes(r, ProxyOps)
BY ProxiesGo, GivesGo, ByHandGoes DEF Goes, ProxyOps

LEMMA AccountGoes ==
    ASSUME AskingInv, NEW r \in Requests, AccountNext(r)
    PROVE  Goes(r, AccountOps)
<1> DEFINE k == req[r]
<1>0. IsRequest(k) /\ "none" \notin AccountOps
  BY DEF AskingInv, AccountOps
<1>1. ASSUME NEW op \in AccountOps, \E at, todo, arg, row : Begin(r, op, at, todo, arg, row) PROVE Goes(r, AccountOps)
  BY <1>1, OpBegins
<1>2. ASSUME k.op \in AccountOps, Done(r) \/ \E at : Goto(r, at) \/ NextItem(r, at) \/ \E row : Holds(r, at, row) PROVE Goes(r, AccountOps)
  BY <1>0, <1>2, OpGoesOn
<1>3. ASSUME k.op \in AccountOps, NEW at, NEW todo, NEW arg, NEW row, NEW s,
             \/ Becomes(r, [k EXCEPT !.at = at, !.row = row])
             \/ Becomes(r, [k EXCEPT !.at = at, !.site = s])
      PROVE  Goes(r, AccountOps)
  BY <1>0, <1>3, OpChanges
<1>4. CASE AssignAccounts(r) \/ AutoAssign(r)
  BY <1>1, <1>4 DEF AssignAccounts, AutoAssign, AccountOps
<1>5. CASE Unassign(r) \/ SetHealth(r) \/ DeleteAccounts(r)
  BY <1>1, <1>5 DEF Unassign, SetHealth, DeleteAccounts, AccountOps
<1>6. CASE SkipServed(r)
  BY <1>2, <1>6 DEF SkipServed, Has, AccountOps
<1>7. CASE SaveAccount(r) \/ SaveSite(r)
  BY <1>2, <1>7 DEF SaveAccount, SaveSite, Assigning, AccountOps
<1>8. CASE LogUnassigned(r) \/ SaveUnassigned(r)
  BY <1>2, <1>8 DEF LogUnassigned, SaveUnassigned, Has, AccountOps
<1>9. CASE SaveHealth(r) \/ RemoveAccount(r)
  BY <1>2, <1>9 DEF SaveHealth, RemoveAccount, Has, AccountOps
<1>10. CASE ReadAccount(r) \/ ReadSite(r)
  BY <1>2, <1>3, <1>10 DEF ReadAccount, ReadSite, Assigning, AccountOps
<1>11. CASE ReadUnassignedSite(r)
  BY <1>2, <1>3, <1>11 DEF ReadUnassignedSite, Has, AccountOps
<1>12. CASE GetAvailable(r)
  <2>1. ASSUME NEW a, Becomes(r, [k EXCEPT !.at = "account", !.todo[1].acc = a]) PROVE Goes(r, AccountOps)
    <3> DEFINE q == [k EXCEPT !.at = "account", !.todo[1].acc = a]
    <3>1. IsRequest(q) /\ q.op = k.op
      BY <1>0 DEF IsRequest
    <3>2. k.op \in AccountOps
      BY <1>12 DEF GetAvailable, Has, AccountOps
    <3>3. QED
      BY <1>0, <2>1, <3>1, <3>2, OpEdited
  <2>2. QED
    BY <1>2, <1>12, <2>1 DEF GetAvailable, Has, AccountOps
<1>13. QED
  BY <1>4, <1>5, <1>6, <1>7, <1>8, <1>9, <1>10, <1>11, <1>12 DEF AccountNext

LEMMA DeletionGoes ==
    ASSUME AskingInv, NEW r \in Requests, DeletionNext(r)
    PROVE  Goes(r, DeleteOps)
<1> DEFINE k == req[r]
<1>0. IsRequest(k) /\ "none" \notin DeleteOps
  BY DEF AskingInv, DeleteOps
<1>1. ASSUME NEW op \in DeleteOps, \E at, todo, arg, row : Begin(r, op, at, todo, arg, row) PROVE Goes(r, DeleteOps)
  BY <1>1, OpBegins
<1>2. ASSUME k.op \in DeleteOps, Done(r) \/ \E at : Goto(r, at) \/ NextItem(r, at) \/ \E row : Holds(r, at, row) PROVE Goes(r, DeleteOps)
  BY <1>0, <1>2, OpGoesOn
<1>3. ASSUME k.op \in DeleteOps, NEW at, NEW todo, NEW arg, NEW row, NEW s,
             \/ Becomes(r, [k EXCEPT !.at = at, !.arg = arg])
             \/ Becomes(r, [k EXCEPT !.arg = arg])
      PROVE  Goes(r, DeleteOps)
  BY <1>0, <1>3, OpChanges
<1>4. CASE DeleteSite(r)
  BY <1>1, <1>4 DEF DeleteSite, DeleteOps
<1>5. CASE RestoreRow(r)
  BY <1>1, <1>5 DEF RestoreRow, DeleteOps
<1>6. CASE ReadRegistration(r) \/ RemoveRegistration(r) \/ DeleteProxyOfSite(r)
  BY <1>2, <1>6 DEF ReadRegistration, RemoveRegistration, DeleteProxyOfSite, Has, DeleteOps
<1>7. CASE SiteRestored(r) \/ ProxyRestored(r) \/ AccountRestored(r)
  BY <1>2, <1>7 DEF SiteRestored, ProxyRestored, AccountRestored, Has, DeleteOps
<1>8. CASE ReadGmails(r)
  BY <1>2, <1>3, <1>8 DEF ReadGmails, Has, DeleteOps
<1>9. CASE RemoveGmail(r)
  BY <1>2, <1>3, <1>9 DEF RemoveGmail, Has, DeleteOps
<1>10. CASE ReadProxyOfSite(r)
  BY <1>2, <1>3, <1>10 DEF ReadProxyOfSite, Has, DeleteOps
<1>11. QED
  BY <1>4, <1>5, <1>6, <1>7, <1>8, <1>9, <1>10 DEF DeletionNext

LEMMA RowsGo ==
    ASSUME AskingInv, NEW r \in Requests, RegistrationNext(r), ~EnvNext(r)
    PROVE  Goes(r, RegRest)
<1> DEFINE k == req[r]
<1>0. IsRequest(k) /\ "none" \notin RegRest
  BY DEF AskingInv, RegRest, RowOps
<1>1. ASSUME NEW op \in RegRest, \E at, todo, arg, row : Begin(r, op, at, todo, arg, row) PROVE Goes(r, RegRest)
  BY <1>1, OpBegins
<1>2. ASSUME k.op \in RegRest, Done(r) \/ \E at : Goto(r, at) \/ NextItem(r, at) \/ \E row : Holds(r, at, row) PROVE Goes(r, RegRest)
  BY <1>0, <1>2, OpGoesOn
<1>3. ASSUME k.op \in RegRest, NEW at, NEW todo, NEW arg, NEW row, NEW s,
             \/ Becomes(r, [k EXCEPT !.at = at, !.arg = arg])
             \/ Becomes(r, [k EXCEPT !.at = at, !.row = row, !.arg = arg])
             \/ Becomes(r, [k EXCEPT !.at = at, !.todo = todo])
             \/ Becomes(r, [k EXCEPT !.at = at, !.arg = arg, !.row = row])
             \/ Becomes(r, [k EXCEPT !.todo = todo])
             \/ Becomes(r, [k EXCEPT !.at = at, !.site = s])
      PROVE  Goes(r, RegRest)
  BY <1>0, <1>3, OpChanges
<1>4. CASE CreateReg(r) \/ AssignOutlook(r)
  BY <1>1, <1>4 DEF CreateReg, AssignOutlook, RegRest, RowOps
<1>5. CASE BatchAssignOutlook(r) \/ RemoveRegs(r)
  BY <1>1, <1>5 DEF BatchAssignOutlook, RemoveRegs, RegRest, RowOps
<1>6. CASE RestoreReg(r) \/ RestoreOutlook(r) \/ SetStatus(r)
  BY <1>1, <1>6 DEF RestoreReg, RestoreOutlook, SetStatus, RegRest, RowOps
<1>7. CASE GetPhone(r) \/ WaitForSms(r) \/ ConfirmSms(r)
  BY <1>1, <1>7 DEF GetPhone, WaitForSms, ConfirmSms, RegRest, RowOps
<1>8. CASE FetchSites(r) \/ ReportEnv(r)
  BY <1>1, <1>8 DEF FetchSites, ReportEnv, RegRest, RowOps
<1>9. CASE InsertReg(r)
  BY <1>2, <1>9 DEF InsertReg, Has, RegRest, RowOps
<1>10. CASE ReadForOutlook(r) \/ ReadOutlook(r)
  BY <1>2, <1>10 DEF ReadForOutlook, ReadOutlook, Assigns, RegRest, RowOps
<1>11. CASE LookForHolder(r) \/ SaveOutlook(r)
  BY <1>2, <1>11 DEF LookForHolder, SaveOutlook, Assigns, RegRest, RowOps
<1>12. CASE SaveBatch(r)
  BY <1>2, <1>12 DEF SaveBatch, Has, RegRest, RowOps
<1>13. CASE ReadRemoved(r) \/ SaveRemoved(r)
  BY <1>2, <1>13 DEF ReadRemoved, SaveRemoved, Has, RegRest, RowOps
<1>14. CASE Restored(r) \/ SaveStatus(r)
  BY <1>2, <1>14 DEF Restored, SaveStatus, Has, RegRest, RowOps
<1>15. CASE BuyNumber(r) \/ SaveNumber(r)
  BY <1>2, <1>15 DEF BuyNumber, SaveNumber, Has, RegRest, RowOps
<1>16. CASE PollSms(r) \/ SaveCode(r)
  BY <1>2, <1>16 DEF PollSms, SaveCode, Has, RegRest, RowOps
<1>17. CASE TellSmsMan(r) \/ SaveConfirmed(r)
  BY <1>2, <1>17 DEF TellSmsMan, SaveConfirmed, Has, RegRest, RowOps
<1>19. CASE SaveReported(r)
  BY <1>2, <1>19 DEF SaveReported, Has, RegRest, RowOps
<1>20. CASE ReadFreeOutlooks(r)
  BY <1>2, <1>3, <1>20 DEF ReadFreeOutlooks, Has, RegRest, RowOps
<1>21. CASE ReadForBatch(r)
  BY <1>2, <1>3, <1>21 DEF ReadForBatch, Has, RegRest, RowOps
<1>22. CASE ReadSites(r) \/ ReadRegs(r)
  BY <1>2, <1>3, <1>22 DEF ReadSites, ReadRegs, Has, RegRest, RowOps
<1>23. CASE FetchSite(r)
  BY <1>2, <1>3, <1>23 DEF FetchSite, Has, RegRest, RowOps
<1>25. QED
  BY <1>4, <1>5, <1>6, <1>7, <1>8, <1>9, <1>10, <1>11, <1>12, <1>13, <1>14, <1>15, <1>16, <1>17, <1>19, <1>20, <1>21, <1>22, <1>23 DEF RegistrationNext, EnvNext

LEMMA EnvGoes ==
    ASSUME AskingInv, NEW r \in Requests, EnvNext(r)
    PROVE  Goes(r, {"assign_env"})
<1> DEFINE k == req[r]
<1>1. CASE AssignEnvs(r)
  BY <1>1, OpBegins DEF AssignEnvs
<1>2. ASSUME k.op = "assign_env", Done(r) \/ \E at : Goto(r, at) \/ NextItem(r, at) PROVE Goes(r, {"assign_env"})
  BY <1>2, OpGoesOn
<1>3. ASSUME k.op = "assign_env", NEW s, Becomes(r, [k EXCEPT !.at = "gmail", !.site = s]) PROVE Goes(r, {"assign_env"})
  BY <1>3, OpChanges
<1>4. CASE ReadCompleted(r) \/ CheckGmail(r) \/ SaveEnv(r)
  BY <1>2, <1>4 DEF ReadCompleted, CheckGmail, SaveEnv, Has
<1>5. CASE ReadEnvSite(r)
  BY <1>2, <1>3, <1>5 DEF ReadEnvSite, Has
<1>6. QED
  BY <1>1, <1>4, <1>5 DEF EnvNext

LEMMA RegistrationGoes ==
    ASSUME AskingInv, NEW r \in Requests, RegistrationNext(r)
    PROVE  Goes(r, RegOps)
BY RowsGo, EnvGoes DEF Goes, RegOps

LEMMA BreakOffGoes ==
    ASSUME AskingInv, NEW r \in Requests, BreakOff(r)
    PROVE  Turn(r, Idle)
BY IdleFields DEF AskingInv, BreakOff, Turn

Ops == ProxyOps \cup AccountOps \cup DeleteOps \cup RegOps

LEMMA SomeGoes ==
    ASSUME AskingInv, [Next]_vars
    PROVE  UNCHANGED asking \/ \E r \in Requests : Goes(r, Ops) \/ Turn(r, Idle)
<1>1. ASSUME NEW r \in Requests, NEW ops, ops \subseteq Ops, Goes(r, ops) PROVE Goes(r, Ops)
  BY <1>1 DEF Goes
<1>2. CASE UNCHANGED vars
  BY <1>2 DEF vars
<1>3. QED
  BY <1>1, <1>2, ProxyGoes, AccountGoes, DeletionGoes, RegistrationGoes, BreakOffGoes DEF Next, Ops

LEMMA AskingInvInit == Init => AskingInv
<1> SUFFICES ASSUME Init PROVE AskingInv
  OBVIOUS
<1>1. req = [r \in Requests |-> Idle] /\ started = 0 /\ raced = FALSE
  BY DEF Init, RequestsInit
<1>2. \A r \in Requests : req[r] = Idle
  BY <1>1
<1>3. req = [r \in Requests |-> req[r]]
  BY <1>1
<1>4. started \in 0..MaxRequests
  BY <1>1, RequestsAssumption
<1>5. raced \in BOOLEAN
  BY <1>1
<1>6. QED
  BY <1>2, <1>3, <1>4, <1>5, IdleFields DEF AskingInv, Free

LEMMA AskingInvStep == AskingInv /\ [Next]_vars => AskingInv'
<1> SUFFICES ASSUME AskingInv, [Next]_vars PROVE AskingInv'
  OBVIOUS
<1>1. CASE UNCHANGED asking
  BY <1>1 DEF AskingInv, asking, Free
<1>2. ASSUME NEW r \in Requests, Goes(r, Ops) \/ Turn(r, Idle) PROVE AskingInv'
  <2>1. PICK q : Turn(r, q) /\ (q = Idle \/ q.op \in mix)
    BY <1>2 DEF Goes
  <2>2. /\ req' = [u \in Requests |-> req'[u]] /\ \A u \in Requests : IsRequest(req'[u])
        /\ \A u \in Requests : req'[u] = IF u = r THEN q ELSE req[u]
    BY <2>1, TurnTaken
  <2>3. QED
    BY <2>1, <2>2 DEF AskingInv, Turn, Free
<1>3. QED
  BY <1>1, <1>2, SomeGoes

------------------------------------------------------------------------------
(* Registrations.                                                           *)

\* A step of one request.
LEMMA RegTurn ==
    ASSUME AskingInv, RegInv, NEW r \in Requests, NEW q, Turn(r, q), RegHolds(q), RegTables(reg', outlook', number')
    PROVE  RegInv'
<1>1. \A u \in Requests : req'[u] = IF u = r THEN q ELSE req[u]
  BY TurnTaken
<1>2. \A u \in Requests : RegHolds(req'[u])
  BY <1>1 DEF RegInv
<1>3. QED
  BY <1>2 DEF RegInv, RegHolds, RegHeld, RegGood

LEMMA IdleHeld == RegHolds(Idle)
BY IdleFields DEF RegHolds, RegHeld, RowOps

\* A request that reads no registration, and the tables as they were.
LEMMA OtherTurn ==
    ASSUME AskingInv, RegInv, NEW r \in Requests, NEW ops, Goes(r, ops),
           ops \cap (RowOps \cup {"set_status"}) = {}, RegTables(reg', outlook', number')
    PROVE  RegInv'
<1>1. PICK q : Turn(r, q) /\ (q = Idle \/ q.op \in ops)
  BY DEF Goes
<1>2. RegHolds(q)
  BY <1>1, IdleHeld DEF RegHolds, RegHeld, RowOps
<1>3. QED
  BY <1>1, <1>2, RegTurn

\* One row replaced by a good one.
LEMMA GoodSaved ==
    ASSUME RegInv, NEW d, NEW row, RegGood(row), reg' = [reg EXCEPT ![d] = row], outlook' = outlook, number' = number
    PROVE  RegTables(reg', outlook', number')
BY DEF RegInv, RegTables, RegGood

LEMMA GoodRows ==
    /\ RegGood(Pending) /\ RegGood(NoReg) /\ RegGood(Entered(Given))
    /\ \A row, o : RegGood(row) /\ o \in Outlooks \cup {Nothing} => RegGood(ApplyIdentity(row, o))
    /\ \A row, b : RegGood(row) /\ b \in BOOLEAN => RegGood([row EXCEPT !.deleted = b])
    /\ \A row, st : RegGood(row) /\ st \in RegStatus => RegGood([row EXCEPT !.status = st])
    /\ \A row : RegGood(row) => RegGood([row EXCEPT !.env = TRUE, !.status = "env_created"])
<1>1. RegGood(NoReg) /\ RegGood(Pending) /\ RegGood(Entered(Given))
  BY DEF RegGood, RegRows, RegStatus, NoReg, Pending, Entered
<1>2. ASSUME NEW row, RegGood(row), NEW o \in Outlooks \cup {Nothing} PROVE RegGood(ApplyIdentity(row, o))
  BY <1>2 DEF RegGood, RegRows, ApplyIdentity
<1>3. ASSUME NEW row, RegGood(row), NEW b \in BOOLEAN PROVE RegGood([row EXCEPT !.deleted = b])
  BY <1>3 DEF RegGood, RegRows
<1>4. ASSUME NEW row, RegGood(row), NEW st \in RegStatus PROVE RegGood([row EXCEPT !.status = st])
  BY <1>4 DEF RegGood, RegRows
<1>5. ASSUME NEW row, RegGood(row) PROVE RegGood([row EXCEPT !.env = TRUE, !.status = "env_created"])
  BY <1>5 DEF RegGood, RegRows, RegStatus
<1>6. QED
  BY <1>1, <1>2, <1>3, <1>4, <1>5

\* Deletions, and the requests that write columns of a registration alone.
LEMMA RegElsewhere ==
    ASSUME AskingInv, RegInv, NEW r \in Requests,
           \/ (ProxyNext(r) \/ AccountNext(r)) /\ UNCHANGED registering
           \/ BreakOff(r) /\ UNCHANGED registering
           \/ DeletionNext(r)
    PROVE  RegInv'
<1>1. RegTables(reg, outlook, number)
  BY DEF RegInv
<1>2. CASE ProxyNext(r) /\ UNCHANGED registering
  BY <1>1, <1>2, ProxyGoes, OtherTurn DEF registering, ProxyOps, ProxyRest, RowOps
<1>3. CASE AccountNext(r) /\ UNCHANGED registering
  BY <1>1, <1>3, AccountGoes, OtherTurn DEF registering, AccountOps, RowOps
<1>4. CASE BreakOff(r) /\ UNCHANGED registering
  BY <1>1, <1>4, BreakOffGoes, IdleHeld, RegTurn DEF registering
<1>5. CASE DeletionNext(r)
  <2>1. ASSUME RemoveRegistration(r) PROVE RegTables(reg', outlook', number')
    <3>1. reg' = [reg EXCEPT ![Here(r)].deleted = TRUE] /\ outlook' = outlook /\ number' = number
      BY <2>1 DEF RemoveRegistration
    <3>2. CASE Here(r) \in Sites
      <4>1. RegGood([reg[Here(r)] EXCEPT !.deleted = TRUE])
        BY <1>1, <3>2, GoodRows DEF RegTables
      <4>2. reg' = [reg EXCEPT ![Here(r)] = [reg[Here(r)] EXCEPT !.deleted = TRUE]]
        BY <3>1
      <4>3. QED
        BY <3>1, <4>1, <4>2, GoodSaved
    <3>3. CASE Here(r) \notin Sites
      BY <1>1, <3>1, <3>3 DEF RegTables
    <3>4. QED
      BY <3>2, <3>3
  <2>2. ASSUME ~RemoveRegistration(r) PROVE RegTables(reg', outlook', number')
    BY <1>1, <1>5, <2>2 DEF DeletionNext, DeleteSite, ReadGmails, RemoveGmail, ReadRegistration, ReadProxyOfSite,
      DeleteProxyOfSite, RestoreRow, SiteRestored, ProxyRestored, AccountRestored, registering
  <2>3. RegTables(reg', outlook', number')
    BY <2>1, <2>2
  <2>4. QED
    BY <1>5, <2>3, DeletionGoes, OtherTurn DEF DeleteOps, RowOps
<1>6. QED
  BY <1>2, <1>3, <1>4, <1>5

\* The ways in which a request of the registrations begins and goes on.
LEMMA RegBegins ==
    ASSUME AskingInv, RegInv, NEW r \in Requests, NEW op, NEW at, NEW todo, NEW arg, NEW row,
           Begin(r, op, at, todo, arg, row), RegHeld(op, at, todo, arg, row), RegTables(reg', outlook', number')
    PROVE  RegInv'
<1>1. PICK q : Turn(r, q) /\ q.op = op /\ q.at = at /\ q.todo = todo /\ q.arg = arg /\ q.row = row
  BY Begins
<1>2. RegHolds(q)
  BY <1>1 DEF RegHolds
<1>3. QED
  BY <1>1, <1>2, RegTurn

LEMMA RegEnds ==
    ASSUME AskingInv, RegInv, NEW r \in Requests, req[r].op # "none", Done(r), RegTables(reg', outlook', number')
    PROVE  RegInv'
BY Ends, IdleHeld, RegTurn

LEMMA RegAdvances ==
    ASSUME AskingInv, RegInv, NEW r \in Requests, req[r].op # "none", NEW first \in {"read", "reg"}, NextItem(r, first),
           req[r].op = "batch_outlook" => req[r].at \in {"read", "save"}, RegTables(reg', outlook', number')
    PROVE  RegInv'
<1>1. CASE Turn(r, Idle)
  BY <1>1, IdleHeld, RegTurn
<1>2. ASSUME NEW q, Turn(r, q), q.at = first, q.op = req[r].op, q.todo = Tail(req[r].todo), q.arg = req[r].arg,
             Len(req[r].todo) # 1
      PROVE  RegInv'
  <2>1. RegHeld(req[r].op, req[r].at, req[r].todo, req[r].arg, req[r].row)
    BY DEF RegInv, RegHolds
  <2>2. q.op \in RowOps => q.todo \in Filled(Sites)
    BY <1>2, <2>1, FilledSeq DEF RegHeld
  <2>3. RegHolds(q)
    BY <1>2, <2>1, <2>2 DEF RegHolds, RegHeld, RowPlaces
  <2>4. QED
    BY <1>2, <2>3, RegTurn
<1>3. QED
  BY <1>1, <1>2, Advances

LEMMA RegGoesTo ==
    ASSUME AskingInv, RegInv, NEW r \in Requests, req[r].op # "none", NEW at, Goto(r, at),
           RegHeld(req[r].op, at, req[r].todo, req[r].arg, req[r].row), RegTables(reg', outlook', number')
    PROVE  RegInv'
<1>1. PICK q : /\ Turn(r, q) /\ q.at = at /\ q.op = req[r].op /\ q.todo = req[r].todo /\ q.arg = req[r].arg
               /\ q.row = req[r].row
  BY GoesOn
<1>2. RegHolds(q)
  BY <1>1 DEF RegHolds
<1>3. QED
  BY <1>1, <1>2, RegTurn

LEMMA RegHoldsRow ==
    ASSUME AskingInv, RegInv, NEW r \in Requests, req[r].op # "none", NEW at, NEW row, Holds(r, at, row),
           RegHeld(req[r].op, at, req[r].todo, req[r].arg, row), RegTables(reg', outlook', number')
    PROVE  RegInv'
<1>1. PICK q : /\ Turn(r, q) /\ q.at = at /\ q.op = req[r].op /\ q.todo = req[r].todo /\ q.arg = req[r].arg
               /\ q.row = row
  BY HoldsRow
<1>2. RegHolds(q)
  BY <1>1 DEF RegHolds
<1>3. QED
  BY <1>1, <1>2, RegTurn

\* What is known of a request that holds a registration's row.
LEMMA RowKnown ==
    ASSUME RegInv, NEW r \in Requests, req[r].op \in RowOps
    PROVE  /\ req[r].todo \in Filled(Sites) /\ Here(r) \in Sites
           /\ RegHeld(req[r].op, req[r].at, req[r].todo, req[r].arg, req[r].row)
           /\ RegGood(reg[Here(r)]) /\ RegTables(reg, outlook, number)
           /\ req[r].at \in RowPlaces => RegGood(req[r].row)
BY FilledSeq DEF RegInv, RegHolds, RegHeld, RegTables, Here

\* The requests that begin.
LEMMA RegStarts ==
    ASSUME AskingInv, RegInv, NEW r \in Requests,
           \/ CreateReg(r) \/ AssignOutlook(r) \/ BatchAssignOutlook(r) \/ RemoveRegs(r) \/ RestoreReg(r)
           \/ RestoreOutlook(r) \/ SetStatus(r) \/ GetPhone(r) \/ WaitForSms(r) \/ ConfirmSms(r) \/ FetchSites(r)
           \/ AssignEnvs(r) \/ ReportEnv(r)
    PROVE  RegInv'
<1>0. RegTables(reg, outlook, number) /\ \A d \in Sites : <<d>> \in Filled(Sites) /\ RegGood(reg[d])
  BY DEF RegInv, RegTables, Filled
<1>1. ASSUME Idles, NEW op, NEW at, NEW todo, NEW arg, NEW row,
             Begin(r, op, at, todo, arg, row), RegHeld(op, at, todo, arg, row)
      PROVE  RegInv'
  BY <1>0, <1>1, RegBegins DEF Idles
<1>2. CASE CreateReg(r) \/ AssignOutlook(r)
  <2>1. PICK op \in {"create", "assign_outlook"}, at \in {"insert", "read"}, d \in Sites, o \in Outlooks \cup {Nothing} :
           Begin(r, op, at, <<d>>, o, Nothing) /\ Idles
    BY <1>2 DEF CreateReg, AssignOutlook
  <2>2. RegHeld(op, at, <<d>>, o, Nothing)
    BY <1>0 DEF RegHeld, RowPlaces
  <2>3. QED
    BY <1>1, <2>1, <2>2
<1>3. CASE BatchAssignOutlook(r)
  <2>1. PICK ds \in Batches(Sites) :
           Begin(r, "batch_outlook", "free", ds, {o \in Outlooks : Holders(o) # {}}, Nothing) /\ Idles
    BY <1>3 DEF BatchAssignOutlook
  <2>2. RegHeld("batch_outlook", "free", ds, {o \in Outlooks : Holders(o) # {}}, Nothing)
    BY <2>1, BatchFilled DEF RegHeld, RowPlaces
  <2>3. QED
    BY <1>1, <2>1, <2>2
<1>3a. CASE RemoveRegs(r)
  <2>1. PICK ds \in Batches(Sites) : Begin(r, "remove_regs", "read", ds, Nothing, Nothing) /\ Idles
    BY <1>3a DEF RemoveRegs
  <2>2. RegHeld("remove_regs", "read", ds, Nothing, Nothing)
    BY <2>1, BatchFilled DEF RegHeld, RowPlaces
  <2>3. QED
    BY <1>1, <2>1, <2>2
<1>4. CASE RestoreReg(r) \/ RestoreOutlook(r) \/ FetchSites(r) \/ AssignEnvs(r)
  <2>0. PICK op \in {"restore", "fetch", "assign_env"} : \E at, todo, arg, row : Begin(r, op, at, todo, arg, row) /\ Idles
    BY <1>4 DEF RestoreReg, RestoreOutlook, FetchSites, AssignEnvs
  <2>1. PICK at, todo, arg, row : Begin(r, op, at, todo, arg, row) /\ Idles
    BY <2>0
  <2>2. RegHeld(op, at, todo, arg, row)
    BY DEF RegHeld, RowOps
  <2>3. QED
    BY <1>1, <2>1, <2>2
<1>5. CASE SetStatus(r)
  <2>1. PICK d \in Sites, st \in {"pending", "failed"} : Begin(r, "set_status", "save", <<d>>, st, Nothing) /\ Idles
    BY <1>5 DEF SetStatus
  <2>2. RegHeld("set_status", "save", <<d>>, st, Nothing)
    BY DEF RegHeld, RowOps
  <2>3. QED
    BY <1>1, <2>1, <2>2
<1>6. CASE GetPhone(r)
  <2>1. PICK d \in Sites : reg[d].request = Nothing /\ Begin(r, "get_phone", "buy", <<d>>, Nothing, reg[d]) /\ Idles
    BY <1>6 DEF GetPhone
  <2>2. RegHeld("get_phone", "buy", <<d>>, Nothing, reg[d])
    BY <1>0, <2>1 DEF RegHeld
  <2>3. QED
    BY <1>1, <2>1, <2>2
<1>7. CASE WaitForSms(r)
  <2>1. PICK d \in Sites : Begin(r, "wait_sms", "poll", <<d>>, Nothing, reg[d]) /\ Idles
    BY <1>7 DEF WaitForSms
  <2>2. RegHeld("wait_sms", "poll", <<d>>, Nothing, reg[d])
    BY <1>0 DEF RegHeld
  <2>3. QED
    BY <1>1, <2>1, <2>2
<1>8. CASE ConfirmSms(r)
  <2>1. PICK d \in Sites, st \in {"used", "close"} : Begin(r, "confirm_sms", "tell", <<d>>, st, reg[d]) /\ Idles
    BY <1>8 DEF ConfirmSms
  <2>2. RegHeld("confirm_sms", "tell", <<d>>, st, reg[d])
    BY <1>0 DEF RegHeld
  <2>3. QED
    BY <1>1, <2>1, <2>2
<1>9. CASE ReportEnv(r)
  <2>1. PICK d \in Sites :
           Begin(r, "report_env", "save", <<d>>, Nothing, [reg[d] EXCEPT !.env = TRUE, !.status = "env_created"]) /\ Idles
    BY <1>9 DEF ReportEnv
  <2>2. RegHeld("report_env", "save", <<d>>, Nothing, [reg[d] EXCEPT !.env = TRUE, !.status = "env_created"])
    BY <1>0, GoodRows DEF RegHeld
  <2>3. QED
    BY <1>1, <2>1, <2>2
<1>10. QED
  BY <1>2, <1>3, <1>3a, <1>4, <1>5, <1>6, <1>7, <1>8, <1>9

LEMMA RegBecomes ==
    ASSUME AskingInv, RegInv, NEW r \in Requests, req[r].op # "none", NEW q, IsRequest(q), Becomes(r, q), RegHolds(q),
           RegTables(reg', outlook', number')
    PROVE  RegInv'
BY BecomesTurn, RegTurn

\* create, assign_outlook, batch_assign_outlook.
LEMMA RegOutlooks ==
    ASSUME AskingInv, RegInv, NEW r \in Requests,
           \/ InsertReg(r) \/ ReadForOutlook(r) \/ ReadOutlook(r) \/ LookForHolder(r) \/ SaveOutlook(r)
           \/ ReadFreeOutlooks(r) \/ ReadForBatch(r) \/ SaveBatch(r)
    PROVE  RegInv'
<1> DEFINE k == req[r]
<1>0. k.op \in RowOps /\ k.op # "none" /\ k.op \in {"create", "assign_outlook", "batch_outlook"}
  BY DEF InsertReg, ReadForOutlook, ReadOutlook, LookForHolder, SaveOutlook, ReadFreeOutlooks, ReadForBatch,
    SaveBatch, Assigns, Has, RowOps
<1>1. /\ k.todo \in Filled(Sites) /\ Here(r) \in Sites /\ RegHeld(k.op, k.at, k.todo, k.arg, k.row)
      /\ RegGood(reg[Here(r)]) /\ RegTables(reg, outlook, number)
      /\ k.at \in RowPlaces => RegGood(k.row)
  BY <1>0, RowKnown
<1>2. Idles => RegTables(reg', outlook', number')
  BY <1>1 DEF Idles
<1>3. ASSUME k.op \in {"create", "assign_outlook"}, NEW at, NEW row, at \in RowPlaces => RegGood(row)
      PROVE  RegHeld(k.op, at, k.todo, k.arg, row)
  BY <1>1, <1>3 DEF RegHeld
<1>4. ASSUME Saves, SaveReg(r), k.at = "save" PROVE RegTables(reg', outlook', number')
  BY <1>1, <1>4, GoodSaved DEF Saves, SaveReg, RowPlaces
<1>5. CASE InsertReg(r)
  <2>1. CASE reg[Here(r)].here
    <3>1. Done(r) /\ reg' = reg /\ Saves
      BY <1>5, <2>1 DEF InsertReg
    <3>2. QED
      BY <1>0, <1>1, <3>1, RegEnds DEF Saves
  <2>2. CASE ~reg[Here(r)].here
    <3>1. PICK row \in {Pending, Entered(Given)} : reg' = [reg EXCEPT ![Here(r)] = row]
      BY <1>5, <2>2 DEF InsertReg
    <3>2. RegTables(reg', outlook', number')
      BY <1>5, <3>1, GoodRows, GoodSaved DEF InsertReg, Saves
    <3>3. Done(r) \/ Goto(r, "read")
      BY <1>5, <2>2 DEF InsertReg
    <3>4. RegHeld(k.op, "read", k.todo, k.arg, k.row)
      BY <1>3, <1>5 DEF InsertReg, Has, RowPlaces
    <3>5. QED
      BY <1>0, <3>2, <3>3, <3>4, RegEnds, RegGoesTo
  <2>3. QED
    BY <2>1, <2>2
<1>6. CASE ReadForOutlook(r)
  <2>1. RegGood(ApplyIdentity(reg[Here(r)], Nothing))
    BY <1>1, GoodRows
  <2>2. \/ Done(r) \/ Holds(r, "save", ApplyIdentity(reg[Here(r)], Nothing)) \/ Holds(r, "account", reg[Here(r)])
    BY <1>6 DEF ReadForOutlook
  <2>3. RegTables(reg', outlook', number') /\ k.op \in {"create", "assign_outlook"}
    BY <1>2, <1>6 DEF ReadForOutlook, Assigns
  <2>4. /\ RegHeld(k.op, "save", k.todo, k.arg, ApplyIdentity(reg[Here(r)], Nothing))
        /\ RegHeld(k.op, "account", k.todo, k.arg, reg[Here(r)])
    BY <1>1, <1>3, <2>1, <2>3
  <2>5. QED
    BY <1>0, <2>2, <2>3, <2>4, RegEnds, RegHoldsRow
<1>7. CASE ReadOutlook(r)
  <2>1. Goto(r, "holder") \/ Done(r)
    BY <1>7 DEF ReadOutlook
  <2>2. RegTables(reg', outlook', number') /\ k.op \in {"create", "assign_outlook"} /\ RegGood(k.row)
    BY <1>1, <1>2, <1>7 DEF ReadOutlook, Assigns, RowPlaces
  <2>3. RegHeld(k.op, "holder", k.todo, k.arg, k.row)
    BY <1>3, <2>2
  <2>4. QED
    BY <1>0, <2>1, <2>2, <2>3, RegEnds, RegGoesTo
<1>8. CASE LookForHolder(r)
  <2>1. Holds(r, "save", ApplyIdentity(k.row, k.arg)) \/ Done(r)
    BY <1>8 DEF LookForHolder
  <2>2. RegTables(reg', outlook', number') /\ k.op \in {"create", "assign_outlook"} /\ RegGood(k.row)
    BY <1>1, <1>2, <1>8 DEF LookForHolder, Assigns, RowPlaces
  <2>3. RegGood(ApplyIdentity(k.row, k.arg))
    BY <1>1, <2>2, GoodRows DEF RegHeld
  <2>4. RegHeld(k.op, "save", k.todo, k.arg, ApplyIdentity(k.row, k.arg))
    BY <1>3, <2>2, <2>3
  <2>5. QED
    BY <1>0, <2>1, <2>2, <2>4, RegEnds, RegHoldsRow
<1>9. CASE SaveOutlook(r)
  BY <1>0, <1>4, <1>9, RegEnds DEF SaveOutlook, Assigns
<1>10. CASE ReadFreeOutlooks(r)
  <2> DEFINE q == [k EXCEPT !.at = "read", !.arg = {o \in Outlooks : Good(o)} \ k.arg]
  <2>1. Becomes(r, q) /\ k.op = "batch_outlook" /\ Idles
    BY <1>10 DEF ReadFreeOutlooks, Has
  <2>2. IsRequest(k)
    BY DEF AskingInv
  <2>3. IsRequest(q) /\ q.op = k.op /\ q.at = "read" /\ q.todo = k.todo /\ q.arg = {o \in Outlooks : Good(o)} \ k.arg
    BY <2>2 DEF IsRequest
  <2> HIDE DEF q
  <2>4. RegHolds(q)
    BY <1>1, <2>1, <2>3 DEF RegHolds, RegHeld, RowPlaces
  <2>5. QED
    BY <1>0, <1>2, <2>1, <2>3, <2>4, RegBecomes
<1>11. CASE ReadForBatch(r)
  <2>0. k.op = "batch_outlook" /\ k.at = "read" /\ Idles /\ RegTables(reg', outlook', number')
    BY <1>2, <1>11 DEF ReadForBatch, Has
  <2>1. CASE NextItem(r, "read")
    BY <1>0, <2>0, <2>1, RegAdvances
  <2>2. ASSUME NEW o \in k.arg,
               Becomes(r, [k EXCEPT !.at = "save", !.row = ApplyIdentity(reg[Here(r)], o), !.arg = k.arg \ {o}])
        PROVE  RegInv'
    <3> DEFINE row == ApplyIdentity(reg[Here(r)], o)
               q == [k EXCEPT !.at = "save", !.row = row, !.arg = k.arg \ {o}]
    <3>1. k.arg \subseteq Outlooks
      BY <1>1, <2>0 DEF RegHeld
    <3>2. RegGood(row)
      BY <1>1, <3>1, GoodRows
    <3>3. IsRequest(k) /\ Becomes(r, q)
      BY <2>2 DEF AskingInv
    <3> HIDE DEF row
    <3>4. IsRequest(q) /\ q.op = k.op /\ q.at = "save" /\ q.todo = k.todo /\ q.arg = k.arg \ {o} /\ q.row = row
      BY <3>3 DEF IsRequest
    <3> HIDE DEF q
    <3>5. RegHolds(q)
      BY <1>1, <2>0, <3>1, <3>2, <3>4 DEF RegHolds, RegHeld
    <3>6. QED
      BY <1>0, <2>0, <3>3, <3>4, <3>5, RegBecomes
  <2>3. QED
    BY <1>11, <2>1, <2>2 DEF ReadForBatch
<1>12. CASE SaveBatch(r)
  <2>1. k.op = "batch_outlook" /\ k.at = "save" /\ NextItem(r, "read") /\ Saves /\ SaveReg(r)
    BY <1>12 DEF SaveBatch, Has
  <2>2. QED
    BY <1>0, <1>4, <2>1, RegAdvances
<1>13. QED
  BY <1>5, <1>6, <1>7, <1>8, <1>9, <1>10, <1>11, <1>12

LEMMA SeqExcept ==
    ASSUME NEW S, NEW s \in Seq(S), NEW i, NEW e \in S
    PROVE  [s EXCEPT ![i] = e] \in Seq(S) /\ Len([s EXCEPT ![i] = e]) = Len(s)
<1>1. s \in [1..Len(s) -> S] /\ Len(s) \in Nat
  OBVIOUS
<1>2. [s EXCEPT ![i] = e] \in [1..Len(s) -> S]
  BY <1>1
<1>3. QED
  BY <1>1, <1>2

\* remove, the telephone number and its code, the report of an environment.
LEMMA RegNumbers ==
    ASSUME AskingInv, RegInv, NEW r \in Requests,
           \/ ReadRemoved(r) \/ SaveRemoved(r) \/ BuyNumber(r) \/ SaveNumber(r) \/ PollSms(r) \/ SaveCode(r)
           \/ TellSmsMan(r) \/ SaveConfirmed(r) \/ SaveReported(r)
    PROVE  RegInv'
<1> DEFINE k == req[r]
<1>0. k.op \in RowOps /\ k.op # "none" /\ k.op \in {"remove_regs", "get_phone", "wait_sms", "confirm_sms", "report_env"}
  BY DEF ReadRemoved, SaveRemoved, BuyNumber, SaveNumber, PollSms, SaveCode, TellSmsMan, SaveConfirmed, SaveReported,
    Has, RowOps
<1>1. /\ k.todo \in Filled(Sites) /\ Here(r) \in Sites /\ RegHeld(k.op, k.at, k.todo, k.arg, k.row)
      /\ RegGood(reg[Here(r)]) /\ RegTables(reg, outlook, number)
      /\ k.at \in RowPlaces => RegGood(k.row)
  BY <1>0, RowKnown
<1>2. Idles => RegTables(reg', outlook', number')
  BY <1>1 DEF Idles
<1>3. ASSUME NEW row, RegGood(row) PROVE RegHeld(k.op, "save", k.todo, k.arg, row)
  BY <1>0, <1>1, <1>3 DEF RegHeld
<1>4. ASSUME Saves, SaveReg(r), k.at = "save" PROVE RegTables(reg', outlook', number')
  BY <1>1, <1>4, GoodSaved DEF Saves, SaveReg, RowPlaces
<1>5. CASE ReadRemoved(r)
  <2>1. RegGood([reg[Here(r)] EXCEPT !.deleted = TRUE])
    BY <1>1, GoodRows
  <2>2. RegTables(reg', outlook', number') /\ k.op = "remove_regs"
    BY <1>2, <1>5 DEF ReadRemoved, Has
  <2>3. Holds(r, "save", [reg[Here(r)] EXCEPT !.deleted = TRUE]) \/ NextItem(r, "read")
    BY <1>5 DEF ReadRemoved
  <2>4. RegHeld(k.op, "save", k.todo, k.arg, [reg[Here(r)] EXCEPT !.deleted = TRUE])
    BY <1>3, <2>1
  <2>5. QED
    BY <1>0, <2>2, <2>3, <2>4, RegHoldsRow, RegAdvances
<1>6. CASE SaveRemoved(r)
  <2>1. k.op = "remove_regs" /\ NextItem(r, "read") /\ RegGood(k.row)
    BY <1>1, <1>6 DEF SaveRemoved, Has, RowPlaces
  <2>2. reg' = [reg EXCEPT ![Here(r)] = k.row] /\ number' = number
    BY <1>6 DEF SaveRemoved, SaveReg
  <2>3. RegTables(reg', outlook, number)
    BY <1>1, <2>1, <2>2 DEF RegTables, RegGood
  <2>4. outlook' = outlook \/ outlook' = [outlook EXCEPT ![k.row.outlook].deleted = TRUE]
    BY <1>6 DEF SaveRemoved
  <2>5. outlook' \in [Outlooks -> [deleted : BOOLEAN, ok : BOOLEAN]]
    BY <1>1, <2>4 DEF RegTables
  <2>6. RegTables(reg', outlook', number')
    BY <2>2, <2>3, <2>5 DEF RegTables
  <2>7. QED
    BY <1>0, <2>1, <2>6, RegAdvances
<1>7. CASE BuyNumber(r)
  <2>0. k.op = "get_phone" /\ k.at = "buy" /\ RegGood(k.row) /\ k.row.request = Nothing /\ reg' = reg /\ outlook' = outlook
    BY <1>1, <1>7 DEF BuyNumber, Has, RegHeld, RowPlaces
  <2>1. CASE number' = number /\ Goto(r, "save")
    BY <1>0, <1>1, <1>3, <2>0, <2>1, RegGoesTo
  <2>2. ASSUME NEW n \in 1..2, Len(number) + n <= MaxNumbers, number' = number \o [i \in 1..n |-> "open"],
               Holds(r, "save", [k.row EXCEPT !.request = Len(number) + n, !.status = "registering"])
        PROVE  RegInv'
    <3>1. number \in Seq({"open", "used", "close"}) /\ Len(number) \in Nat
      BY <1>1 DEF RegTables
    <3>2. Len(number) + n \in Numbers
      BY <2>2, <3>1, RegistrationAssumption DEF Numbers
    <3>3. RegGood([k.row EXCEPT !.request = Len(number) + n, !.status = "registering"])
      BY <2>0, <3>2 DEF RegGood, RegRows, RegStatus
    <3>4. [i \in 1..n |-> "open"] \in Seq({"open", "used", "close"}) /\ Len([i \in 1..n |-> "open"]) = n
      OBVIOUS
    <3>5. number' \in Seq({"open", "used", "close"}) /\ Len(number') <= MaxNumbers
      BY <2>2, <3>1, <3>4
    <3>6. RegTables(reg', outlook', number')
      BY <1>1, <2>0, <3>5 DEF RegTables
    <3>7. RegHeld(k.op, "save", k.todo, k.arg, [k.row EXCEPT !.request = Len(number) + n, !.status = "registering"])
      BY <1>3, <3>3
    <3>8. QED
      BY <1>0, <2>2, <3>6, <3>7, RegHoldsRow
  <2>3. QED
    BY <1>7, <2>1, <2>2 DEF BuyNumber
<1>8. CASE PollSms(r)
  <2>1. RegGood(k.row) /\ RegTables(reg', outlook', number')
    BY <1>1, <1>2, <1>8 DEF PollSms, Has, RowPlaces
  <2>2. RegGood([k.row EXCEPT !.code = k.row.request])
    BY <2>1 DEF RegGood, RegRows
  <2>3. Goto(r, "save") \/ Holds(r, "save", [k.row EXCEPT !.code = k.row.request])
    BY <1>8 DEF PollSms
  <2>4. RegHeld(k.op, "save", k.todo, k.arg, k.row) /\ RegHeld(k.op, "save", k.todo, k.arg, [k.row EXCEPT !.code = k.row.request])
    BY <1>3, <2>1, <2>2
  <2>5. QED
    BY <1>0, <2>1, <2>3, <2>4, RegGoesTo, RegHoldsRow
<1>9. CASE TellSmsMan(r)
  <2>1. RegGood(k.row) /\ reg' = reg /\ outlook' = outlook /\ k.arg \in {"used", "close"}
    BY <1>1, <1>9 DEF TellSmsMan, Has, RowPlaces, RegHeld
  <2>2. RegGood([k.row EXCEPT !.status = "completed"])
    BY <2>1, GoodRows DEF RegStatus
  <2>3. \/ Goto(r, "save") /\ number' = number
        \/ Holds(r, "save", [k.row EXCEPT !.status = "completed"]) /\ number' = [number EXCEPT ![k.row.request] = k.arg]
    BY <1>9 DEF TellSmsMan
  <2>4. number' \in Seq({"open", "used", "close"}) /\ Len(number') <= MaxNumbers
    BY <1>1, <2>1, <2>3, SeqExcept DEF RegTables
  <2>5. RegTables(reg', outlook', number')
    BY <1>1, <2>1, <2>4 DEF RegTables
  <2>6. RegHeld(k.op, "save", k.todo, k.arg, k.row) /\ RegHeld(k.op, "save", k.todo, k.arg, [k.row EXCEPT !.status = "completed"])
    BY <1>3, <2>1, <2>2
  <2>7. QED
    BY <1>0, <2>3, <2>5, <2>6, RegGoesTo, RegHoldsRow
<1>10. CASE SaveNumber(r) \/ SaveCode(r) \/ SaveConfirmed(r) \/ SaveReported(r)
  <2>1. k.at = "save" /\ SaveReg(r) /\ Done(r) /\ Saves
    BY <1>10 DEF SaveNumber, SaveCode, SaveConfirmed, SaveReported, Has
  <2>2. QED
    BY <1>0, <1>4, <2>1, RegEnds
<1>11. QED
  BY <1>5, <1>6, <1>7, <1>8, <1>9, <1>10

\* The recycle bin, set_status, batch_fetch_pending_sites, batch_assign_env_to_sites.
LEMMA RegOthers ==
    ASSUME AskingInv, RegInv, NEW r \in Requests,
           \/ Restored(r) \/ SaveStatus(r) \/ ReadSites(r) \/ ReadRegs(r) \/ FetchSite(r) \/ ReadCompleted(r)
           \/ ReadEnvSite(r) \/ CheckGmail(r) \/ SaveEnv(r)
    PROVE  RegInv'
<1> DEFINE k == req[r]
           others == {"restore", "fetch", "assign_env"}
<1>0. RegTables(reg, outlook, number) /\ "none" \notin others /\ others \cap (RowOps \cup {"set_status"}) = {}
  BY DEF RegInv, RowOps
<1> HIDE DEF others
<1>1. ASSUME Goes(r, others), RegTables(reg', outlook', number') PROVE RegInv'
  BY <1>0, <1>1, OtherTurn
<1>2. Idles => RegTables(reg', outlook', number')
  BY <1>0 DEF Idles
<1>3. ASSUME NEW d, NEW row, RegGood(row), Saves, reg' = [reg EXCEPT ![d] = row] PROVE RegTables(reg', outlook', number')
  BY <1>3, GoodSaved DEF Saves
<1>4. ASSUME k.op \in others, Done(r) \/ \E at : Goto(r, at) \/ NextItem(r, at) PROVE Goes(r, others)
  BY <1>0, <1>4, OpGoesOn
<1>5. ASSUME k.op \in others, NEW at, NEW todo, NEW arg, NEW row, NEW s,
             \/ Becomes(r, [k EXCEPT !.at = at, !.todo = todo])
             \/ Becomes(r, [k EXCEPT !.at = at, !.arg = arg, !.row = row])
             \/ Becomes(r, [k EXCEPT !.todo = todo])
             \/ Becomes(r, [k EXCEPT !.at = at, !.site = s])
      PROVE  Goes(r, others)
  BY <1>0, <1>5, OpChanges
<1>6. ASSUME NEW d, d \in Sites PROVE RegGood(reg[d])
  BY <1>0, <1>6 DEF RegTables
<1>7. ASSUME NEW d, NEW row, d \in Sites => RegGood(row), reg' = [reg EXCEPT ![d] = row],
             outlook' = outlook, number' = number
      PROVE  RegTables(reg', outlook', number')
  <2>1. CASE d \in Sites
    BY <1>6, <1>7, <2>1, GoodSaved
  <2>2. CASE d \notin Sites
    BY <1>0, <1>7, <2>2 DEF RegTables
  <2>3. QED
    BY <2>1, <2>2
<1>8. CASE Restored(r)
  <2>1. k.op \in others /\ Done(r) /\ number' = number
    BY <1>8 DEF Restored, others
  <2>2. CASE reg' = [reg EXCEPT ![Here(r)].deleted = FALSE] /\ outlook' = outlook
    <3> DEFINE row == [reg[Here(r)] EXCEPT !.deleted = FALSE]
    <3>1. (Here(r) \in Sites => RegGood(row)) /\ reg' = [reg EXCEPT ![Here(r)] = row]
      BY <1>6, <2>2, GoodRows
    <3> HIDE DEF row
    <3>2. RegTables(reg', outlook', number')
      BY <1>7, <2>1, <2>2, <3>1
    <3>3. QED
      BY <1>1, <1>4, <2>1, <3>2
  <2>3. CASE reg' = reg /\ outlook' = [outlook EXCEPT ![Here(r)].deleted = FALSE]
    <3>1. outlook' \in [Outlooks -> [deleted : BOOLEAN, ok : BOOLEAN]]
      BY <1>0, <2>3 DEF RegTables
    <3>2. RegTables(reg', outlook', number')
      BY <1>0, <2>1, <2>3, <3>1 DEF RegTables
    <3>3. QED
      BY <1>1, <1>4, <2>1, <3>2
  <2>4. QED
    BY <1>8, <2>2, <2>3 DEF Restored
<1>9. CASE SaveStatus(r)
  <2>1. k.op = "set_status" /\ Done(r) /\ Saves /\ reg' = [reg EXCEPT ![Here(r)].status = k.arg]
    BY <1>9 DEF SaveStatus, Has
  <2>2. k.arg \in RegStatus
    BY <2>1 DEF RegInv, RegHolds, RegHeld, RegStatus
  <2> DEFINE row == [reg[Here(r)] EXCEPT !.status = k.arg]
  <2>3. (Here(r) \in Sites => RegGood(row)) /\ reg' = [reg EXCEPT ![Here(r)] = row]
    BY <1>6, <2>1, <2>2, GoodRows
  <2> HIDE DEF row
  <2>4. RegTables(reg', outlook', number')
    BY <1>7, <2>1, <2>3 DEF Saves
  <2>5. QED
    BY <2>1, <2>4, RegEnds
<1>10. CASE ReadSites(r) \/ ReadRegs(r)
  BY <1>1, <1>2, <1>4, <1>5, <1>10 DEF ReadSites, ReadRegs, Has, others
<1>11. CASE FetchSite(r)
  <2>1. Goes(r, others) /\ Saves
    BY <1>4, <1>5, <1>11 DEF FetchSite, Has, others
  <2>2. reg' = reg \/ reg' = [reg EXCEPT ![Here(r)] = Pending]
    BY <1>11 DEF FetchSite, Revived
  <2>3. RegTables(reg', outlook', number')
    BY <1>0, <1>3, <2>1, <2>2, GoodRows DEF Saves
  <2>4. QED
    BY <1>1, <2>1, <2>3
<1>12. CASE ReadCompleted(r) \/ ReadEnvSite(r) \/ CheckGmail(r)
  BY <1>1, <1>2, <1>4, <1>5, <1>12 DEF ReadCompleted, ReadEnvSite, CheckGmail, Has, others
<1>13. CASE SaveEnv(r)
  BY <1>0, <1>1, <1>4, <1>13 DEF SaveEnv, Has, others, registering
<1>14. QED
  BY <1>8, <1>9, <1>10, <1>11, <1>12, <1>13

LEMMA RegInvStep == AskingInv /\ RegInv /\ [Next]_vars => RegInv'
<1> SUFFICES ASSUME AskingInv, RegInv, [Next]_vars PROVE RegInv'
  OBVIOUS
<1>1. CASE UNCHANGED vars
  BY <1>1 DEF vars, asking, registering, RegInv, RegTables, RegHolds, RegHeld, RegGood
<1>2. ASSUME NEW r \in Requests, RegistrationNext(r) PROVE RegInv'
  BY <1>2, RegStarts, RegOutlooks, RegNumbers, RegOthers DEF RegistrationNext
<1>3. ASSUME NEW r \in Requests, ProxyNext(r) \/ AccountNext(r) \/ BreakOff(r), UNCHANGED registering PROVE RegInv'
  BY <1>3, RegElsewhere
<1>4. ASSUME NEW r \in Requests, DeletionNext(r) PROVE RegInv'
  BY <1>4, RegElsewhere
<1>5. QED
  BY <1>1, <1>2, <1>3, <1>4 DEF Next, registering

LEMMA RegInvInit == Init => RegInv
<1> SUFFICES ASSUME Init PROVE RegInv
  OBVIOUS
<1>1. \A r \in Requests : req[r] = Idle
  BY DEF Init, RequestsInit
<1>2. PICK row \in {NoReg, Pending, Entered(Given)} : reg = [d \in Sites |-> row]
  BY DEF Init, RegistrationInit
<1>3. RegGood(row)
  BY GoodRows
<1>4. reg \in [Sites -> RegRows] /\ \A d \in Sites : RegGood(reg[d])
  BY <1>2, <1>3 DEF RegGood
<1>5. outlook \in [Outlooks -> [deleted : BOOLEAN, ok : BOOLEAN]] /\ number = <<>>
  BY DEF Init, RegistrationInit
<1>6. <<>> \in Seq({"open", "used", "close"}) /\ Len(<<>>) = 0 /\ 0 <= MaxNumbers
  BY RegistrationAssumption
<1>7. RegTables(reg, outlook, number)
  BY <1>4, <1>5, <1>6 DEF RegTables
<1>8. QED
  BY <1>1, <1>7, IdleHeld DEF RegInv

LEMMA RegInvariant == Spec => [](AskingInv /\ RegInv)
BY AskingInvInit, AskingInvStep, RegInvInit, RegInvStep, PTL DEF Spec

\* A registration shows the code that was sent to the number it shows, though the
\* handler that waits for it saves the whole row minutes after it read it: a wait
\* and a purchase read rows that the other cannot have changed into one that lies.
THEOREM CodeIsOfItsNumber == Spec => []CodeOfItsNumber
<1>1. RegInv => CodeOfItsNumber
  BY DEF RegInv, RegTables, RegGood, CodeOfItsNumber
<1>2. QED
  BY <1>1, RegInvariant, PTL

\* A registration that names an Outlook account has that account's identity,
\* whatever is assigned, removed and revived while a handler holds the row.
THEOREM IdentityIsItsOutlooks == Spec => []IdentityOfItsOutlook
<1>1. RegInv => IdentityOfItsOutlook
  BY DEF RegInv, RegTables, RegGood, IdentityOfItsOutlook
<1>2. QED
  BY <1>1, RegInvariant, PTL

------------------------------------------------------------------------------
(* Sites, accounts and proxies.                                             *)

SiteRow == [deleted : BOOLEAN, proxy : Proxies \cup {NoProxy}, env : BOOLEAN, byHand : BOOLEAN]
Pairs   == [acc : Accounts, to : Sites]

PoolHeld(op, at, todo, arg, row, s) ==
    /\ op \in {"assign", "unassign"} => todo \in Filled(Pairs)
    /\ op = "auto_assign" => todo \in Filled([acc : Accounts \cup {Nothing}, to : Sites])
    /\ op = "auto_assign" /\ at \in {"account", "site", "save", "log"} => Head(todo).acc \in Accounts
    /\ op \in {"assign", "auto_assign"} /\ at \in {"site", "save"} => row \in AccountRows
    /\ op \in {"unassign", "set_health"} => row \in AccountRows
    /\ op \in {"assign", "auto_assign"} /\ at \in {"save", "log"} => s \in SiteRow
    /\ op = "unassign" /\ at = "log" => s \in SiteRow
    /\ op = "assign_env" => todo \in Filled(Sites) /\ (at \in {"gmail", "save"} => s \in SiteRow)
    /\ op = "assign_proxies" => todo \in Filled(Sites) /\ (at = "give" => arg \in Seq(Proxies) /\ Len(todo) <= Len(arg))
    /\ op = "edit_proxy" => row \in ProxyRows
    /\ op = "import_proxies" => todo \in Filled(Addresses)
    /\ op = "edit_site" => todo \in Filled(Sites) /\ row \in SiteRow

PoolHolds(q) == PoolHeld(q.op, q.at, q.todo, q.arg, q.row, q.site)
PoolOps == {"assign", "auto_assign", "unassign", "set_health", "assign_env", "assign_proxies", "edit_proxy", "import_proxies",
            "edit_site"}

PoolTables(t, a, p) ==
    /\ t \in [Sites -> SiteRow] /\ a \in [Accounts -> AccountRows] /\ p \in [Proxies -> ProxyRows]

PoolInv == PoolTables(site, account, proxy) /\ \A r \in Requests : PoolHolds(req[r])

LEMMA PoolTurn ==
    ASSUME AskingInv, PoolInv, NEW r \in Requests, NEW q, Turn(r, q), PoolHolds(q), PoolTables(site', account', proxy')
    PROVE  PoolInv'
<1>1. \A u \in Requests : req'[u] = IF u = r THEN q ELSE req[u]
  BY TurnTaken
<1>2. \A u \in Requests : PoolHolds(req'[u])
  BY <1>1 DEF PoolInv
<1>3. QED
  BY <1>2 DEF PoolInv, PoolHolds, PoolHeld

LEMMA PoolOther ==
    ASSUME AskingInv, PoolInv, NEW r \in Requests, NEW ops, Goes(r, ops), ops \cap PoolOps = {},
           PoolTables(site', account', proxy')
    PROVE  PoolInv'
<1>1. PICK q : Turn(r, q) /\ (q = Idle \/ q.op \in ops)
  BY DEF Goes
<1>2. q.op \notin PoolOps
  BY <1>1, IdleFields DEF PoolOps
<1>3. PoolHolds(q)
  BY <1>2 DEF PoolHolds, PoolHeld, PoolOps
<1>4. QED
  BY <1>1, <1>3, PoolTurn

LEMMA PoolBegins ==
    ASSUME AskingInv, PoolInv, NEW r \in Requests, NEW op, NEW at, NEW todo, NEW arg, NEW row,
           Begin(r, op, at, todo, arg, row), \A s : PoolHeld(op, at, todo, arg, row, s), PoolTables(site', account', proxy')
    PROVE  PoolInv'
<1>1. PICK q : Turn(r, q) /\ q.op = op /\ q.at = at /\ q.todo = todo /\ q.arg = arg /\ q.row = row
  BY Begins
<1>2. PoolHolds(q)
  BY <1>1 DEF PoolHolds
<1>3. QED
  BY <1>1, <1>2, PoolTurn

LEMMA IdlePool == PoolHolds(Idle)
BY IdleFields DEF PoolHolds, PoolHeld

LEMMA PoolEnds ==
    ASSUME AskingInv, PoolInv, NEW r \in Requests, req[r].op # "none", Done(r), PoolTables(site', account', proxy')
    PROVE  PoolInv'
BY Ends, IdlePool, PoolTurn

LEMMA PoolGoesTo ==
    ASSUME AskingInv, PoolInv, NEW r \in Requests, req[r].op # "none", NEW at, Goto(r, at),
           PoolHeld(req[r].op, at, req[r].todo, req[r].arg, req[r].row, req[r].site), PoolTables(site', account', proxy')
    PROVE  PoolInv'
<1>1. PICK q : /\ Turn(r, q) /\ q.at = at /\ q.op = req[r].op /\ q.todo = req[r].todo /\ q.arg = req[r].arg
               /\ q.row = req[r].row /\ q.site = req[r].site
  BY GoesOn
<1>2. PoolHolds(q)
  BY <1>1 DEF PoolHolds
<1>3. QED
  BY <1>1, <1>2, PoolTurn

LEMMA PoolBecomes ==
    ASSUME AskingInv, PoolInv, NEW r \in Requests, req[r].op # "none", NEW q, IsRequest(q), Becomes(r, q), PoolHolds(q),
           PoolTables(site', account', proxy')
    PROVE  PoolInv'
BY BecomesTurn, PoolTurn

\* Only these begin an item with nothing held.
LEMMA PoolAdvances ==
    ASSUME AskingInv, PoolInv, NEW r \in Requests, req[r].op \notin {"none", "unassign", "set_health", "assign_proxies", "edit_proxy",
                                                              "edit_site"},
           NEW first, NextItem(r, first), PoolTables(site', account', proxy'),
           req[r].op = "assign" => first = "account", req[r].op = "auto_assign" => first = "served",
           req[r].op = "assign_env" => first = "reg"
    PROVE  PoolInv'
<1>1. CASE Turn(r, Idle)
  BY <1>1, IdlePool, PoolTurn
<1>2. ASSUME NEW q, Turn(r, q), q.at = first, q.op = req[r].op, q.todo = Tail(req[r].todo), q.arg = req[r].arg,
             Len(req[r].todo) # 1
      PROVE  PoolInv'
  <2>0. PoolHeld(req[r].op, req[r].at, req[r].todo, req[r].arg, req[r].row, req[r].site)
    BY DEF PoolInv, PoolHolds
  <2>1. ASSUME NEW S, req[r].todo \in Filled(S) PROVE q.todo \in Filled(S)
    BY <1>2, <2>1, FilledSeq
  <2>2. PoolHolds(q)
    BY <1>2, <2>0, <2>1 DEF PoolHolds, PoolHeld
  <2>3. QED
    BY <1>2, <2>2, PoolTurn
<1>3. QED
  BY <1>1, <1>2, Advances

LEMMA KnownProxies ==
    ASSUME NEW S \in SUBSET Proxies
    PROVE  Cardinality(S) \in Nat /\ \A ps \in ById(S) : ps \in Seq(Proxies) /\ Len(ps) = Cardinality(S)
<1>1. Cardinality(S) \in Nat
  BY ProxyAssumption, FS_Subset, FS_CardinalityType
<1>2. ASSUME NEW ps \in ById(S) PROVE ps \in Seq(Proxies) /\ Len(ps) = Cardinality(S)
  BY <1>1, <1>2 DEF ById
<1>3. QED
  BY <1>1, <1>2

LEMMA ProxyTyped ==
    ASSUME AskingInv, PoolInv, NEW r \in Requests, ProxyNext(r), UNCHANGED <<account, registering>>
    PROVE  PoolInv'
<1> DEFINE k == req[r]
           others == {"delete_proxies", "check_proxies", "unassign_proxies"}
<1>0. /\ PoolHeld(k.op, k.at, k.todo, k.arg, k.row, k.site) /\ IsRequest(k) /\ account' = account
      /\ site \in [Sites -> SiteRow] /\ account \in [Accounts -> AccountRows] /\ proxy \in [Proxies -> ProxyRows]
  BY DEF PoolInv, PoolHolds, AskingInv, PoolTables
<1>1. ASSUME site' = site, proxy' = proxy PROVE PoolTables(site', account', proxy')
  BY <1>0, <1>1 DEF PoolTables
<1>2. ASSUME NEW p, NEW row \in ProxyRows, proxy' = [proxy EXCEPT ![p] = row], site' = site
      PROVE  PoolTables(site', account', proxy')
  BY <1>0, <1>2 DEF PoolTables
<1>3. ASSUME NEW op \in others, NEW at, NEW todo, NEW arg, NEW row, Begin(r, op, at, todo, arg, row), site' = site, proxy' = proxy
      PROVE  PoolInv'
  BY <1>1, <1>3, PoolBegins DEF PoolHeld
<1>4. ASSUME k.op \in others, Done(r) \/ \E at : Goto(r, at) \/ NextItem(r, at), PoolTables(site', account', proxy')
      PROVE  PoolInv'
  <2>1. Goes(r, others)
    BY <1>4, OpGoesOn
  <2>2. QED
    BY <1>4, <2>1, PoolOther DEF PoolOps
<1>5. ASSUME k.op \in others, NEW todo, NEW arg, PoolTables(site', account', proxy'),
             Becomes(r, [k EXCEPT !.arg = arg, !.todo = todo]) \/ Becomes(r, [k EXCEPT !.arg = arg])
      PROVE  PoolInv'
  <2>1. Goes(r, others)
    BY <1>5, OpChanges
  <2>2. QED
    BY <1>5, <2>1, PoolOther DEF PoolOps
<1> HIDE DEF others
<1>6. CASE ImportProxies(r)
  <2>1. PICK as \in Batches(Addresses) : Begin(r, "import_proxies", "lookup", as, Nothing, Nothing)
    BY <1>6 DEF ImportProxies
  <2>2. \A s : PoolHeld("import_proxies", "lookup", as, Nothing, Nothing, s)
    BY <2>1, BatchFilled DEF PoolHeld
  <2>3. QED
    BY <1>1, <1>6, <2>1, <2>2, PoolBegins DEF ImportProxies
<1>7. CASE LookUpAddress(r)
  <2>1. k.op = "import_proxies" /\ (NextItem(r, "lookup") \/ Goto(r, "create")) /\ PoolTables(site', account', proxy')
    BY <1>1, <1>7 DEF LookUpAddress, Has
  <2>2. PoolHeld(k.op, "create", k.todo, k.arg, k.row, k.site)
    BY <1>0, <2>1 DEF PoolHeld
  <2>3. QED
    BY <2>1, <2>2, PoolAdvances, PoolGoesTo
<1>8. CASE CreateProxy(r)
  <2>1. k.op = "import_proxies" /\ NextItem(r, "lookup") /\ site' = site
    BY <1>8 DEF CreateProxy, Has
  <2>2. Here(r) \in Addresses
    BY <1>0, <2>1, FilledSeq DEF PoolHeld, Here
  <2>3. NewProxy(Here(r)) \in ProxyRows
    BY <2>2 DEF NewProxy, ProxyRows
  <2>4. PoolTables(site', account', proxy')
    BY <1>1, <1>2, <1>8, <2>1, <2>3 DEF CreateProxy
  <2>5. QED
    BY <2>1, <2>4, PoolAdvances
<1>9. CASE AssignProxies(r)
  <2>1. PICK ss \in Batches(Sites) : Begin(r, "assign_proxies", "occupied", ss, Nothing, Nothing)
    BY <1>9 DEF AssignProxies
  <2>2. \A s : PoolHeld("assign_proxies", "occupied", ss, Nothing, Nothing, s)
    BY <2>1, BatchFilled DEF PoolHeld
  <2>3. QED
    BY <1>1, <1>9, <2>1, <2>2, PoolBegins DEF AssignProxies
<1>10. CASE OccupiedProxies(r)
  <2> DEFINE occupied == {site[s].proxy : s \in Sites \ Range(k.todo)} \ {NoProxy}
             q == [k EXCEPT !.at = "available", !.arg = occupied]
  <2>1. Becomes(r, q) /\ k.op = "assign_proxies" /\ PoolTables(site', account', proxy')
    BY <1>1, <1>10 DEF OccupiedProxies, Has
  <2> HIDE DEF occupied
  <2>2. IsRequest(q) /\ q.op = k.op /\ q.at = "available" /\ q.todo = k.todo
    BY <1>0 DEF IsRequest
  <2> HIDE DEF q
  <2>3. PoolHolds(q)
    BY <1>0, <2>1, <2>2 DEF PoolHolds, PoolHeld
  <2>4. QED
    BY <2>1, <2>2, <2>3, PoolBecomes
<1>11. CASE AvailableProxies(r)
  <2> DEFINE free == {p \in Known : proxy[p].status = "active"} \ k.arg
  <2>0. k.op = "assign_proxies" /\ PoolTables(site', account', proxy') /\ k.todo \in Filled(Sites)
    BY <1>0, <1>1, <1>11 DEF AvailableProxies, Has, PoolHeld
  <2>1. CASE Done(r)
    BY <2>0, <2>1, PoolEnds
  <2>2. ASSUME ~(Cardinality(free) < Len(k.todo)), NEW ps \in ById(free), Becomes(r, [k EXCEPT !.at = "give", !.arg = ps])
        PROVE  PoolInv'
    <3> DEFINE q == [k EXCEPT !.at = "give", !.arg = ps]
    <3>1. ps \in Seq(Proxies) /\ Len(ps) = Cardinality(free) /\ Cardinality(free) \in Nat
      BY KnownProxies DEF Known
    <3>2. Len(k.todo) \in Nat
      BY <2>0, FilledSeq
    <3>3. Len(k.todo) <= Len(ps)
      BY <2>2, <3>1, <3>2
    <3>4. IsRequest(q) /\ q.op = k.op /\ q.at = "give" /\ q.todo = k.todo /\ q.arg = ps
      BY <1>0 DEF IsRequest
    <3>5. Becomes(r, q)
      BY <2>2
    <3> HIDE DEF q
    <3>6. PoolHolds(q)
      BY <2>0, <3>1, <3>3, <3>4 DEF PoolHolds, PoolHeld
    <3>7. QED
      BY <2>0, <3>4, <3>5, <3>6, PoolBecomes
  <2>3. QED
    BY <1>11, <2>1, <2>2 DEF AvailableProxies
<1>12. CASE GiveProxy(r)
  <2>0. /\ k.op = "assign_proxies" /\ k.todo \in Filled(Sites) /\ k.arg \in Seq(Proxies) /\ Len(k.todo) <= Len(k.arg)
        /\ site' = [site EXCEPT ![Here(r)] = [site[Here(r)] EXCEPT !.proxy = Head(k.arg), !.byHand = FALSE]] /\ proxy' = proxy /\ k.at = "give"
    BY <1>0, <1>12 DEF GiveProxy, Has, PoolHeld
  <2>1. /\ Here(r) \in Sites /\ Len(k.todo) \in Nat \ {0} /\ Tail(k.todo) \in Seq(Sites) /\ Len(Tail(k.todo)) = Len(k.todo) - 1
        /\ Len(k.todo) # 1 => Tail(k.todo) \in Filled(Sites)
    <3>1. k.todo \in Seq(Sites) /\ k.todo # <<>>
      BY <2>0 DEF Filled
    <3>2. QED
      BY <2>0, <3>1, FilledSeq, HeadTailProperties DEF Here
  <2>2. Len(k.arg) \in Nat /\ k.arg # <<>>
    BY <2>0, <2>1
  <2>3. Head(k.arg) \in Proxies /\ Tail(k.arg) \in Seq(Proxies) /\ Len(Tail(k.arg)) = Len(k.arg) - 1
    BY <2>0, <2>2, HeadTailProperties
  <2>4. PoolTables(site', account', proxy')
    BY <1>0, <2>0, <2>1, <2>3 DEF PoolTables, SiteRow
  <2>5. CASE Done(r)
    BY <2>0, <2>4, <2>5, PoolEnds
  <2>6. CASE Len(k.todo) # 1 /\ Becomes(r, [k EXCEPT !.todo = Tail(k.todo), !.arg = Tail(k.arg)])
    <3> DEFINE q == [k EXCEPT !.todo = Tail(k.todo), !.arg = Tail(k.arg)]
    <3>1. IsRequest(q) /\ q.op = k.op /\ q.at = k.at /\ q.todo = Tail(k.todo) /\ q.arg = Tail(k.arg)
      BY <1>0 DEF IsRequest
    <3>2. Len(Tail(k.todo)) <= Len(Tail(k.arg))
      BY <2>0, <2>1, <2>2, <2>3
    <3>3. Becomes(r, q)
      BY <2>6
    <3> HIDE DEF q
    <3>4. PoolHolds(q)
      BY <2>0, <2>1, <2>3, <2>6, <3>1, <3>2 DEF PoolHolds, PoolHeld
    <3>5. QED
      BY <2>0, <2>4, <3>1, <3>3, <3>4, PoolBecomes
  <2>7. QED
    BY <1>12, <2>5, <2>6 DEF GiveProxy
<1>13. CASE EditProxy(r)
  <2>1. PICK p \in Known, a \in Addresses, st \in {"active", "disabled"} :
           Begin(r, "edit_proxy", IF a = proxy[p].addr THEN "save" ELSE "lookup", <<p>>, Nothing,
                 [proxy[p] EXCEPT !.addr = a, !.status = st])
    BY <1>13 DEF EditProxy
  <2>2. [proxy[p] EXCEPT !.addr = a, !.status = st] \in ProxyRows
    BY <1>0 DEF Known, ProxyRows
  <2>3. \A at, s : PoolHeld("edit_proxy", at, <<p>>, Nothing, [proxy[p] EXCEPT !.addr = a, !.status = st], s)
    BY <2>2 DEF PoolHeld
  <2>4. PoolTables(site', account', proxy')
    BY <1>1, <1>13 DEF EditProxy
  <2>5. QED
    BY <2>1, <2>3, <2>4, PoolBegins
<1>14. CASE LookUpNewAddress(r)
  <2>1. k.op = "edit_proxy" /\ (Done(r) \/ Goto(r, "save")) /\ PoolTables(site', account', proxy')
    BY <1>1, <1>14 DEF LookUpNewAddress, Has
  <2>2. PoolHeld(k.op, "save", k.todo, k.arg, k.row, k.site)
    BY <1>0, <2>1 DEF PoolHeld
  <2>3. QED
    BY <2>1, <2>2, PoolEnds, PoolGoesTo
<1>15. CASE SaveProxy(r)
  <2>1. k.op = "edit_proxy" /\ Done(r) /\ k.row \in ProxyRows /\ site' = site /\ proxy' = [proxy EXCEPT ![Here(r)] = k.row]
    BY <1>0, <1>15 DEF SaveProxy, Has, PoolHeld
  <2>2. QED
    BY <1>2, <2>1, PoolEnds
<1>16. CASE DeleteProxies(r) \/ CheckProxies(r) \/ UnassignProxies(r)
  BY <1>3, <1>16 DEF DeleteProxies, CheckProxies, UnassignProxies, others
<1>17. CASE DeleteListed(r)
  <2>1. \A p \in Proxies : [proxy[p] EXCEPT !.deleted = @ \/ p \in k.arg] \in ProxyRows
    BY <1>0 DEF ProxyRows
  <2>2. PoolTables(site', account', proxy')
    BY <1>0, <1>17, <2>1 DEF DeleteListed, PoolTables
  <2>3. QED
    BY <1>4, <1>17, <2>2 DEF DeleteListed, Has, others
<1>18. CASE MarkTesting(r)
  <2>1. \A p \in Proxies : [proxy[p] EXCEPT !.status = "testing"] \in ProxyRows
    BY <1>0 DEF ProxyRows
  <2>2. PoolTables(site', account', proxy')
    BY <1>0, <1>18, <2>1 DEF MarkTesting, PoolTables
  <2>3. QED
    BY <1>4, <1>18, <2>2 DEF MarkTesting, Has, others
<1>19. CASE CheckNextGroup(r)
  BY <1>1, <1>4, <1>5, <1>19 DEF CheckNextGroup, Has, others
<1>20. CASE ProxyAnswers(r)
  <2>1. PICK p \in k.arg, st \in {"active", "disabled"} :
           proxy' = [proxy EXCEPT ![p].status = st] /\ Becomes(r, [k EXCEPT !.arg = k.arg \ {p}])
    BY <1>20 DEF ProxyAnswers
  <2>2. PoolTables(site', account', proxy')
    BY ZenonT(40), <1>0, <1>20, <2>1 DEF ProxyAnswers, PoolTables, ProxyRows
  <2>3. QED
    BY <1>5, <1>20, <2>1, <2>2 DEF ProxyAnswers, Has, others
<1>21. CASE ClearProxy(r)
  <2>1. \A s \in Sites : [site[s] EXCEPT !.proxy = NoProxy] \in SiteRow
    BY <1>0 DEF SiteRow
  <2>2. PoolTables(site', account', proxy')
    BY <1>0, <1>21, <2>1 DEF ClearProxy, PoolTables
  <2>3. QED
    BY <1>4, <1>21, <2>2 DEF ClearProxy, Has, others
<1>22. CASE EditSite(r)
  <2>1. PICK d \in Sites, p \in Proxies \cup {NoProxy} :
          Begin(r, "edit_site", "save", <<d>>, Nothing,
                IF p = site[d].proxy THEN site[d] ELSE [site[d] EXCEPT !.proxy = p, !.byHand = TRUE])
    BY <1>22 DEF EditSite
  <2> DEFINE row == IF p = site[d].proxy THEN site[d] ELSE [site[d] EXCEPT !.proxy = p, !.byHand = TRUE]
  <2>2. row \in SiteRow
    BY <1>0 DEF SiteRow
  <2>3. <<d>> \in Filled(Sites)
    BY DEF Filled
  <2> HIDE DEF row
  <2>4. \A s : PoolHeld("edit_site", "save", <<d>>, Nothing, row, s)
    BY <2>2, <2>3 DEF PoolHeld
  <2>5. Begin(r, "edit_site", "save", <<d>>, Nothing, row) /\ PoolTables(site', account', proxy')
    BY <1>1, <1>22, <2>1 DEF row, EditSite
  <2>6. QED
    BY <2>4, <2>5, PoolBegins
<1>23. CASE SaveEditedSite(r)
  <2>1. k.op = "edit_site" /\ k.row \in SiteRow /\ site' = [site EXCEPT ![Here(r)] = k.row] /\ proxy' = proxy
    BY <1>0, <1>23 DEF SaveEditedSite, Has, PoolHeld
  <2>2. PoolTables(site', account', proxy')
    BY <1>0, <2>1 DEF PoolTables
  <2>3. QED
    BY <1>23, <2>1, <2>2, PoolEnds DEF SaveEditedSite
<1>24. QED
  BY <1>6, <1>7, <1>8, <1>9, <1>10, <1>11, <1>12, <1>13, <1>14, <1>15, <1>16, <1>17, <1>18, <1>19, <1>20, <1>21, <1>22,
     <1>23 DEF ProxyNext

\* A batch with something made of each of its items.
LEMMA MadeOfBatch ==
    ASSUME NEW S, NEW T, NEW b \in Batches(S), NEW e, DOMAIN e = DOMAIN b, e = [i \in DOMAIN e |-> e[i]],
           \A i \in DOMAIN b : e[i] \in T
    PROVE  e \in Filled(T)
<1>1. PICK n \in 1..MaxBatch : b \in [1..n -> S]
  BY DEF Batches
<1>2. n \in Nat \ {0}
  BY <1>1, RequestsAssumption
<1>3. e \in Seq(T) /\ Len(e) = n
  BY <1>1, <1>2
<1>4. QED
  BY <1>2, <1>3 DEF Filled

LEMMA FilledWider ==
    ASSUME NEW S, NEW T, S \subseteq T, NEW s \in Filled(S)
    PROVE  s \in Filled(T)
<1>1. s \in Seq(S) /\ s # <<>>
  BY DEF Filled
<1>2. s \in Seq(T)
  BY <1>1
<1>3. QED
  BY <1>1, <1>2 DEF Filled

LEMMA AccountTyped ==
    ASSUME AskingInv, PoolInv, NEW r \in Requests, AccountNext(r), UNCHANGED <<registering, proxy>>
    PROVE  PoolInv'
<1> DEFINE k == req[r]
           assigns == {"assign", "auto_assign"}
           Both == [acc : Accounts \cup {Nothing}, to : Sites]
<1>0. /\ PoolHeld(k.op, k.at, k.todo, k.arg, k.row, k.site) /\ IsRequest(k) /\ proxy' = proxy
      /\ site \in [Sites -> SiteRow] /\ account \in [Accounts -> AccountRows] /\ proxy \in [Proxies -> ProxyRows]
  BY DEF PoolInv, PoolHolds, AskingInv, PoolTables
<1>1. ASSUME site' = site, account' = account PROVE PoolTables(site', account', proxy')
  BY <1>0, <1>1 DEF PoolTables
<1>2. ASSUME NEW a, NEW row, a \in Accounts => row \in AccountRows, account' = [account EXCEPT ![a] = row], site' = site
      PROVE  PoolTables(site', account', proxy')
  BY <1>0, <1>2 DEF PoolTables
<1>3. ASSUME NEW d, NEW row \in SiteRow, site' = [site EXCEPT ![d] = row], account' = account
      PROVE  PoolTables(site', account', proxy')
  BY <1>0, <1>3 DEF PoolTables
\* What an assignment has to do.
<1>4. k.op \in assigns => /\ k.todo \in Filled(Both) /\ Here(r).to \in Sites
                          /\ k.at \in {"account", "site", "save", "log"} => Here(r).acc \in Accounts
  <2>1. k.op = "assign" => k.todo \in Filled(Pairs) /\ Here(r) \in Pairs
    BY <1>0, FilledSeq DEF PoolHeld, Here
  <2>2. Pairs \subseteq Both
    BY DEF Pairs
  <2>3. k.op = "auto_assign" => k.todo \in Filled(Both) /\ Here(r) \in Both
    BY <1>0, FilledSeq DEF PoolHeld, Here
  <2>4. k.op = "auto_assign" /\ k.at \in {"account", "site", "save", "log"} => Here(r).acc \in Accounts
    BY <1>0 DEF PoolHeld, Here
  <2>5. k.op = "assign" => k.todo \in Filled(Both)
    <3> HIDE DEF Both
    <3>1. SUFFICES ASSUME k.op = "assign" PROVE k.todo \in Filled(Both)
      OBVIOUS
    <3>2. k.todo \in Filled(Pairs)
      BY <2>1, <3>1
    <3>3. QED
      BY <2>2, <3>2, FilledWider
  <2>6. QED
    BY <2>1, <2>3, <2>4, <2>5 DEF Pairs
<1> HIDE DEF Both
<1>5. CASE AssignAccounts(r)
  <2>1. PICK as \in Batches(Accounts), s \in Sites :
           Begin(r, "assign", "account", [i \in DOMAIN as |-> Pair(as[i], s)], Nothing, Nothing)
    BY <1>5 DEF AssignAccounts
  <2> DEFINE e == [i \in DOMAIN as |-> Pair(as[i], s)]
  <2>2. \A i \in DOMAIN as : as[i] \in Accounts
    BY DEF Batches
  <2>3. e \in Filled(Pairs)
    BY <2>2, MadeOfBatch DEF Pair, Pairs
  <2>4. \A t : PoolHeld("assign", "account", e, Nothing, Nothing, t)
    BY <2>3 DEF PoolHeld
  <2>5. QED
    BY <1>1, <1>5, <2>1, <2>4, PoolBegins DEF AssignAccounts
<1>6. CASE AutoAssign(r)
  <2>0. PoolTables(site', account', proxy')
    BY <1>1, <1>6 DEF AutoAssign
  <2>1. ASSUME NEW ss \in Batches(Sites),
               Begin(r, "auto_assign", "served", [i \in DOMAIN ss |-> Pair(Nothing, ss[i])], Nothing, Nothing)
        PROVE  PoolInv'
    <3> DEFINE e == [i \in DOMAIN ss |-> Pair(Nothing, ss[i])]
    <3>1. \A i \in DOMAIN ss : ss[i] \in Sites
      BY DEF Batches
    <3>2. e \in Filled(Both)
      BY <3>1, MadeOfBatch DEF Pair, Both
    <3>3. \A t : PoolHeld("auto_assign", "served", e, Nothing, Nothing, t)
      BY <3>2 DEF PoolHeld, Both
    <3>4. QED
      BY <2>0, <2>1, <3>3, PoolBegins
  <2>2. ASSUME NEW s \in Sites, Begin(r, "auto_assign", "available", <<Pair(Nothing, s)>>, Nothing, Nothing)
        PROVE  PoolInv'
    <3>1. <<Pair(Nothing, s)>> \in Filled(Both)
      BY DEF Pair, Both, Filled
    <3>2. \A t : PoolHeld("auto_assign", "available", <<Pair(Nothing, s)>>, Nothing, Nothing, t)
      BY <3>1 DEF PoolHeld, Both
    <3>3. QED
      BY <2>0, <2>2, <3>2, PoolBegins
  <2>3. QED
    BY <1>6, <2>1, <2>2 DEF AutoAssign
<1>7. CASE SkipServed(r)
  <2>1. k.op = "auto_assign" /\ (NextItem(r, "served") \/ Goto(r, "available")) /\ PoolTables(site', account', proxy')
    BY <1>1, <1>7 DEF SkipServed, Has
  <2>2. PoolHeld(k.op, "available", k.todo, k.arg, k.row, k.site)
    BY <1>0, <2>1 DEF PoolHeld
  <2>3. QED
    BY <2>1, <2>2, PoolAdvances, PoolGoesTo
<1>8. CASE GetAvailable(r)
  <2>0. k.op = "auto_assign" /\ PoolTables(site', account', proxy')
    BY <1>1, <1>8 DEF GetAvailable, Has
  <2>1. CASE NextItem(r, "served")
    BY <2>0, <2>1, PoolAdvances
  <2>2. ASSUME NEW a \in Available, Becomes(r, [k EXCEPT !.at = "account", !.todo[1].acc = a]) PROVE PoolInv'
    <3> DEFINE first == [k.todo[1] EXCEPT !.acc = a]
               todo == [k.todo EXCEPT ![1] = first]
               q == [k EXCEPT !.at = "account", !.todo = todo]
    <3>1. a \in Accounts /\ k.todo \in Filled(Both) /\ Here(r).to \in Sites
      BY <1>4, <2>0 DEF Available
    <3>2. k.todo[1] \in Both /\ Len(k.todo) \in Nat \ {0} /\ k.todo \in Seq(Both)
      <4>1. k.todo \in Seq(Both)
        BY <3>1 DEF Filled
      <4>2. QED
        BY <3>1, <4>1, FilledSeq
    <3>3. first \in Both /\ first.acc \in Accounts
      BY <3>1, <3>2 DEF Both
    <3> HIDE DEF first
    <3>4. todo \in Seq(Both) /\ Len(todo) = Len(k.todo)
      BY <3>2, <3>3, SeqExcept
    <3>5. todo[1] = first
      BY <3>2
    <3> HIDE DEF todo
    <3>6. todo \in Filled(Both) /\ Head(todo) = first
      BY <3>2, <3>4, <3>5 DEF Filled
    <3>7. IsRequest(q) /\ q.op = k.op /\ q.at = "account" /\ q.todo = todo
      BY <1>0 DEF IsRequest
    <3>8. Becomes(r, q)
      BY <2>2 DEF todo, first
    <3> HIDE DEF q
    <3>9. PoolHolds(q)
      BY <2>0, <3>3, <3>6, <3>7 DEF PoolHolds, PoolHeld, Both
    <3>10. QED
      BY <2>0, <3>7, <3>8, <3>9, PoolBecomes
  <2>3. QED
    BY <1>8, <2>1, <2>2 DEF GetAvailable
<1>9. CASE ReadAccount(r)
  <2> DEFINE row == [account[Here(r).acc] EXCEPT !.site = Here(r).to]
             q == [k EXCEPT !.at = "site", !.row = row]
  <2>1. Becomes(r, q) /\ k.op \in assigns /\ k.at = "account" /\ PoolTables(site', account', proxy')
    BY <1>1, <1>9 DEF ReadAccount, Assigning
  <2>2. row \in AccountRows
    BY <1>0, <1>4, <2>1 DEF AccountRows
  <2> HIDE DEF row
  <2>3. IsRequest(q) /\ q.op = k.op /\ q.at = "site" /\ q.todo = k.todo /\ q.row = row
    BY <1>0 DEF IsRequest
  <2> HIDE DEF q
  <2>4. PoolHolds(q)
    BY <1>0, <2>1, <2>2, <2>3 DEF PoolHolds, PoolHeld
  <2>5. QED
    BY <2>1, <2>3, <2>4, PoolBecomes
<1>10. CASE ReadSite(r)
  <2> DEFINE t == site[Here(r).to]
             q == [k EXCEPT !.at = "save", !.site = t]
  <2>1. Becomes(r, q) /\ k.op \in assigns /\ k.at = "site" /\ PoolTables(site', account', proxy')
    BY <1>1, <1>10 DEF ReadSite, Assigning
  <2>2. t \in SiteRow
    BY <1>0, <1>4, <2>1
  <2> HIDE DEF t
  <2>3. IsRequest(q) /\ q.op = k.op /\ q.at = "save" /\ q.todo = k.todo /\ q.row = k.row /\ q.site = t
    BY <1>0 DEF IsRequest
  <2> HIDE DEF q
  <2>4. PoolHolds(q)
    BY <1>0, <2>1, <2>2, <2>3 DEF PoolHolds, PoolHeld
  <2>5. QED
    BY <2>1, <2>3, <2>4, PoolBecomes
<1>11. CASE SaveAccount(r)
  <2>1. k.op \in assigns /\ k.at = "save" /\ Goto(r, "log") /\ site' = site /\ account' = [account EXCEPT ![Here(r).acc] = k.row]
    BY <1>11 DEF SaveAccount, Assigning
  <2>2. k.row \in AccountRows
    BY <1>0, <2>1 DEF PoolHeld
  <2>3. PoolHeld(k.op, "log", k.todo, k.arg, k.row, k.site)
    BY <1>0, <2>1 DEF PoolHeld
  <2>4. QED
    BY <1>2, <2>1, <2>2, <2>3, PoolGoesTo
<1>12. CASE SaveSite(r)
  <2>1. /\ k.op \in assigns /\ k.at = "log" /\ NextItem(r, First(r)) /\ account' = account
        /\ site' = [site EXCEPT ![Here(r).to] = k.site]
    BY <1>12 DEF SaveSite, Assigning
  <2>2. k.site \in SiteRow
    BY <1>0, <2>1 DEF PoolHeld
  <2>3. (k.op = "assign" => First(r) = "account") /\ (k.op = "auto_assign" => First(r) = "served")
    BY DEF First
  <2>4. QED
    BY <1>3, <2>1, <2>2, <2>3, PoolAdvances
<1>13. CASE Unassign(r)
  <2>1. PICK a \in Accounts : /\ account[a].site # Nothing
                              /\ Begin(r, "unassign", "site", <<Pair(a, account[a].site)>>, Nothing, [account[a] EXCEPT !.site = Nothing])
    BY <1>13 DEF Unassign
  <2>2. [account[a] EXCEPT !.site = Nothing] \in AccountRows /\ <<Pair(a, account[a].site)>> \in Filled(Pairs)
    BY <1>0, <2>1 DEF AccountRows, Pair, Pairs, Filled
  <2>3. \A t : PoolHeld("unassign", "site", <<Pair(a, account[a].site)>>, Nothing, [account[a] EXCEPT !.site = Nothing], t)
    BY <2>2 DEF PoolHeld
  <2>4. QED
    BY <1>1, <1>13, <2>1, <2>3, PoolBegins DEF Unassign
<1>14. CASE ReadUnassignedSite(r)
  <2> DEFINE t == site[Here(r).to]
             q == [k EXCEPT !.at = "log", !.site = t]
  <2>1. Becomes(r, q) /\ k.op = "unassign" /\ PoolTables(site', account', proxy')
    BY <1>1, <1>14 DEF ReadUnassignedSite, Has
  <2>2. Here(r) \in Pairs
    BY <1>0, <2>1, FilledSeq DEF PoolHeld, Here
  <2>3. t \in SiteRow
    BY <1>0, <2>2 DEF Pairs
  <2> HIDE DEF t
  <2>4. IsRequest(q) /\ q.op = k.op /\ q.at = "log" /\ q.todo = k.todo /\ q.row = k.row /\ q.site = t
    BY <1>0 DEF IsRequest
  <2> HIDE DEF q
  <2>5. PoolHolds(q)
    BY <1>0, <2>1, <2>3, <2>4 DEF PoolHolds, PoolHeld
  <2>6. QED
    BY <2>1, <2>4, <2>5, PoolBecomes
<1>15. CASE LogUnassigned(r)
  <2>1. k.op = "unassign" /\ Goto(r, "save") /\ account' = account /\ site' = [site EXCEPT ![Here(r).to] = k.site] /\ k.at = "log"
    BY <1>15 DEF LogUnassigned, Has
  <2>2. k.site \in SiteRow /\ PoolHeld(k.op, "save", k.todo, k.arg, k.row, k.site)
    BY <1>0, <2>1 DEF PoolHeld
  <2>3. QED
    BY <1>3, <2>1, <2>2, PoolGoesTo
<1>16. CASE SaveUnassigned(r) \/ SaveHealth(r)
  <2>1. k.op \in {"unassign", "set_health"} /\ Done(r) /\ site' = site /\ account' = [account EXCEPT ![Here(r).acc] = k.row]
    BY <1>16 DEF SaveUnassigned, SaveHealth, Has
  <2>2. k.row \in AccountRows
    BY <1>0, <2>1 DEF PoolHeld
  <2>3. QED
    BY <1>2, <2>1, <2>2, PoolEnds
<1>17. CASE SetHealth(r)
  <2>1. PICK a \in Accounts, h \in BOOLEAN :
           Begin(r, "set_health", "save", <<Pair(a, Nothing)>>, Nothing, [account[a] EXCEPT !.healthy = h])
    BY <1>17 DEF SetHealth
  <2>2. [account[a] EXCEPT !.healthy = h] \in AccountRows
    BY <1>0 DEF AccountRows
  <2>3. \A t : PoolHeld("set_health", "save", <<Pair(a, Nothing)>>, Nothing, [account[a] EXCEPT !.healthy = h], t)
    BY <2>2 DEF PoolHeld
  <2>4. QED
    BY <1>1, <1>17, <2>1, <2>3, PoolBegins DEF SetHealth
<1>18. CASE DeleteAccounts(r)
  <2>1. PICK as \in Batches(Accounts) :
           Begin(r, "delete_accounts", "remove", [i \in DOMAIN as |-> Pair(as[i], Nothing)], Nothing, Nothing)
    BY <1>18 DEF DeleteAccounts
  <2>2. \A e, t : PoolHeld("delete_accounts", "remove", e, Nothing, Nothing, t)
    BY DEF PoolHeld
  <2>3. QED
    BY <1>1, <1>18, <2>1, <2>2, PoolBegins DEF DeleteAccounts
<1>19. CASE RemoveAccount(r)
  <2>1. k.op = "delete_accounts" /\ NextItem(r, "remove") /\ site' = site
    BY <1>19 DEF RemoveAccount, Has
  <2>2. account' \in [Accounts -> AccountRows]
    BY <1>0, <1>19 DEF RemoveAccount, AccountRows
  <2>3. PoolTables(site', account', proxy')
    BY <1>0, <2>1, <2>2 DEF PoolTables
  <2>4. QED
    BY <2>1, <2>3, PoolAdvances
<1>20. QED
  BY <1>5, <1>6, <1>7, <1>8, <1>9, <1>10, <1>11, <1>12, <1>13, <1>14, <1>15, <1>16, <1>17, <1>18, <1>19 DEF AccountNext

LEMMA EnvTyped ==
    ASSUME AskingInv, PoolInv, NEW r \in Requests, EnvNext(r), proxy' = proxy
    PROVE  PoolInv'
<1> DEFINE k == req[r]
<1>0. /\ PoolHeld(k.op, k.at, k.todo, k.arg, k.row, k.site) /\ IsRequest(k)
      /\ site \in [Sites -> SiteRow] /\ account \in [Accounts -> AccountRows] /\ proxy \in [Proxies -> ProxyRows]
  BY DEF PoolInv, PoolHolds, AskingInv, PoolTables
<1>1. ASSUME Idles PROVE PoolTables(site', account', proxy')
  BY <1>0, <1>1 DEF PoolTables, Idles
<1>2. CASE AssignEnvs(r)
  <2>1. PICK ds \in Batches(Sites) : Begin(r, "assign_env", "reg", ds, Nothing, Nothing) /\ Idles
    BY <1>2 DEF AssignEnvs
  <2>2. \A s : PoolHeld("assign_env", "reg", ds, Nothing, Nothing, s)
    BY <2>1, BatchFilled DEF PoolHeld
  <2>3. QED
    BY <1>1, <2>1, <2>2, PoolBegins
<1>3. ASSUME k.op = "assign_env" PROVE k.todo \in Filled(Sites) /\ Here(r) \in Sites
  BY <1>0, <1>3, FilledSeq DEF PoolHeld, Here
<1>4. CASE ReadCompleted(r) \/ CheckGmail(r)
  <2>1. /\ k.op = "assign_env" /\ PoolTables(site', account', proxy')
        /\ \/ NextItem(r, "reg") \/ Goto(r, "site")
           \/ Goto(r, "save") /\ k.at = "gmail"
    BY <1>1, <1>4 DEF ReadCompleted, CheckGmail, Has
  <2>2. PoolHeld(k.op, "site", k.todo, k.arg, k.row, k.site)
    BY <1>0, <2>1 DEF PoolHeld
  <2>3. k.at = "gmail" => PoolHeld(k.op, "save", k.todo, k.arg, k.row, k.site)
    BY <1>0, <2>1 DEF PoolHeld
  <2>4. QED
    BY <2>1, <2>2, <2>3, PoolAdvances, PoolGoesTo
<1>5. CASE ReadEnvSite(r)
  <2>0. k.op = "assign_env" /\ PoolTables(site', account', proxy')
    BY <1>1, <1>5 DEF ReadEnvSite, Has
  <2>1. CASE NextItem(r, "reg")
    BY <2>0, <2>1, PoolAdvances
  <2>2. CASE Becomes(r, [k EXCEPT !.at = "gmail", !.site = site[Here(r)]])
    <3> DEFINE t == site[Here(r)]
               q == [k EXCEPT !.at = "gmail", !.site = t]
    <3>1. t \in SiteRow
      BY <1>0, <1>3, <2>0
    <3> HIDE DEF t
    <3>2. IsRequest(q) /\ q.op = k.op /\ q.at = "gmail" /\ q.todo = k.todo /\ q.site = t
      BY <1>0 DEF IsRequest
    <3>3. Becomes(r, q)
      BY <2>2 DEF t
    <3> HIDE DEF q
    <3>4. PoolHolds(q)
      BY <1>3, <2>0, <3>1, <3>2 DEF PoolHolds, PoolHeld
    <3>5. QED
      BY <2>0, <3>2, <3>3, <3>4, PoolBecomes
  <2>3. QED
    BY <1>5, <2>1, <2>2 DEF ReadEnvSite
<1>6. CASE SaveEnv(r)
  <2>1. /\ k.op = "assign_env" /\ k.at = "save" /\ NextItem(r, "reg") /\ account' = account
        /\ site' = [site EXCEPT ![Here(r)] = [k.site EXCEPT !.env = TRUE]]
    BY <1>6 DEF SaveEnv, Has
  <2>2. [k.site EXCEPT !.env = TRUE] \in SiteRow
    BY <1>0, <2>1 DEF PoolHeld, SiteRow
  <2>3. PoolTables(site', account', proxy')
    BY <1>0, <2>1, <2>2 DEF PoolTables
  <2>4. QED
    BY <2>1, <2>3, PoolAdvances
<1>7. QED
  BY <1>2, <1>4, <1>5, <1>6 DEF EnvNext

LEMMA RowsKeepPools ==
    ASSUME NEW r \in Requests, RegistrationNext(r), ~EnvNext(r)
    PROVE  UNCHANGED <<site, account>>
BY DEF RegistrationNext, EnvNext, CreateReg, InsertReg, AssignOutlook, ReadForOutlook, ReadOutlook, LookForHolder,
  SaveOutlook, BatchAssignOutlook, ReadFreeOutlooks, ReadForBatch, SaveBatch, RemoveRegs, ReadRemoved, SaveRemoved,
  RestoreReg, RestoreOutlook, Restored, SetStatus, SaveStatus, GetPhone, BuyNumber, SaveNumber, WaitForSms, PollSms,
  SaveCode, ConfirmSms, TellSmsMan, SaveConfirmed, FetchSites, ReadSites, ReadRegs, FetchSite, ReportEnv, SaveReported,
  Idles, Saves

LEMMA DeletionTyped ==
    ASSUME AskingInv, PoolInv, NEW r \in Requests, DeletionNext(r)
    PROVE  PoolInv'
<1>1. site \in [Sites -> SiteRow] /\ account \in [Accounts -> AccountRows] /\ proxy \in [Proxies -> ProxyRows]
  BY DEF PoolInv, PoolTables
<1>2. site' \in [Sites -> SiteRow]
  <2>1. ASSUME NEW s, NEW b \in BOOLEAN, site' = [site EXCEPT ![s].deleted = b] PROVE site' \in [Sites -> SiteRow]
    BY <1>1, <2>1 DEF SiteRow
  <2>2. QED
    BY <1>1, <2>1 DEF DeletionNext, DeleteSite, ReadGmails, RemoveGmail, ReadRegistration, RemoveRegistration, ReadProxyOfSite,
      DeleteProxyOfSite, RestoreRow, SiteRestored, ProxyRestored, AccountRestored
<1>3. account' \in [Accounts -> AccountRows]
  <2>1. ASSUME NEW a, NEW b \in BOOLEAN, account' = [account EXCEPT ![a].deleted = b] PROVE account' \in [Accounts -> AccountRows]
    BY <1>1, <2>1 DEF AccountRows
  <2>2. QED
    BY <1>1, <2>1 DEF DeletionNext, DeleteSite, ReadGmails, RemoveGmail, ReadRegistration, RemoveRegistration, ReadProxyOfSite,
      DeleteProxyOfSite, RestoreRow, SiteRestored, ProxyRestored, AccountRestored
<1>4. proxy' \in [Proxies -> ProxyRows]
  <2>1. ASSUME NEW p, NEW b \in BOOLEAN, proxy' = [proxy EXCEPT ![p].deleted = b] PROVE proxy' \in [Proxies -> ProxyRows]
    BY <1>1, <2>1 DEF ProxyRows
  <2>2. QED
    BY <1>1, <2>1 DEF DeletionNext, DeleteSite, ReadGmails, RemoveGmail, ReadRegistration, RemoveRegistration, ReadProxyOfSite,
      DeleteProxyOfSite, RestoreRow, SiteRestored, ProxyRestored, AccountRestored
<1>5. PoolTables(site', account', proxy')
  BY <1>2, <1>3, <1>4 DEF PoolTables
<1>6. QED
  BY <1>5, DeletionGoes, PoolOther DEF DeleteOps, PoolOps

LEMMA PoolInvStep == AskingInv /\ PoolInv /\ [Next]_vars => PoolInv'
<1> SUFFICES ASSUME AskingInv, PoolInv, [Next]_vars PROVE PoolInv'
  OBVIOUS
<1>0. PoolTables(site, account, proxy)
  BY DEF PoolInv
<1>1. CASE UNCHANGED vars
  BY <1>1 DEF vars, asking, PoolInv, PoolTables, PoolHolds, PoolHeld
<1>2. ASSUME NEW r \in Requests, ProxyNext(r), UNCHANGED <<account, registering>> PROVE PoolInv'
  BY <1>2, ProxyTyped
<1>3. ASSUME NEW r \in Requests, AccountNext(r), UNCHANGED <<registering, proxy>> PROVE PoolInv'
  BY <1>3, AccountTyped
<1>4. ASSUME NEW r \in Requests, RegistrationNext(r), proxy' = proxy PROVE PoolInv'
  <2>1. CASE EnvNext(r)
    BY <1>4, <2>1, EnvTyped
  <2>2. CASE ~EnvNext(r)
    <3>1. Goes(r, RegRest) /\ PoolTables(site', account', proxy')
      BY <1>0, <1>4, <2>2, RowsGo, RowsKeepPools
    <3>2. RegRest \cap PoolOps = {}
      BY DEF RegRest, RowOps, PoolOps
    <3>3. QED
      BY <3>1, <3>2, PoolOther
  <2>3. QED
    BY <2>1, <2>2
<1>5. ASSUME NEW r \in Requests, DeletionNext(r) PROVE PoolInv'
  BY <1>5, DeletionTyped
<1>6. ASSUME NEW r \in Requests, BreakOff(r), UNCHANGED <<account, registering, proxy>> PROVE PoolInv'
  <2>1. PoolTables(site', account', proxy')
    BY <1>0, <1>6 DEF BreakOff
  <2>2. QED
    BY <1>6, <2>1, BreakOffGoes, IdlePool, PoolTurn
<1>7. QED
  BY <1>1, <1>2, <1>3, <1>4, <1>5, <1>6 DEF Next

LEMMA PoolInvInit == Init => PoolInv
<1> SUFFICES ASSUME Init PROVE PoolInv
  OBVIOUS
<1>1. \A r \in Requests : req[r] = Idle
  BY DEF Init, RequestsInit
<1>2. site \in [Sites -> SiteRow]
  BY DEF Init, RequestsInit, SiteRow
<1>3. account \in [Accounts -> AccountRows]
  BY DEF Init, AccountInit, AccountRows
<1>4. proxy \in [Proxies -> ProxyRows]
  <2>1. PICK n \in 0..Cardinality(Proxies), a \in [Proxies -> Addresses] :
           proxy = [p \in Proxies |-> IF p <= n THEN NewProxy(a[p]) ELSE NoRow]
    BY DEF Init, ProxyInit
  <2>2. \A p \in Proxies : NewProxy(a[p]) \in ProxyRows /\ NoRow \in ProxyRows
    BY DEF NewProxy, NoRow, ProxyRows
  <2>3. QED
    BY <2>1, <2>2
<1>5. QED
  BY <1>1, <1>2, <1>3, <1>4, IdlePool DEF PoolInv, PoolTables

\* Every table keeps the columns it was made with, and every request under way is
\* one that users of this behaviour make: handlers that save a row whole save what
\* was a row when they read it, and a proxy's number is never NULL.
THEOREM ResourcesTyped == Spec => []TypeOK
<1>1. AskingInv /\ RegInv /\ PoolInv => TypeOK
  <2> SUFFICES ASSUME AskingInv, RegInv, PoolInv PROVE TypeOK
    OBVIOUS
  <2>1. site \in [Sites -> SiteRow] /\ account \in [Accounts -> AccountRows] /\ proxy \in [Proxies -> ProxyRows]
    BY DEF PoolInv, PoolTables
  <2>2. site \in [Sites -> [deleted : BOOLEAN, proxy : Proxies \cup {NoProxy}, env : BOOLEAN, byHand : BOOLEAN]]
    BY <2>1 DEF SiteRow
  <2>3. /\ reg \in [Sites -> RegRows] /\ outlook \in [Outlooks -> [deleted : BOOLEAN, ok : BOOLEAN]]
        /\ number \in Seq({"open", "used", "close"}) /\ Len(number) <= MaxNumbers
    BY DEF RegInv, RegTables
  <2>4. \A n \in DOMAIN number : number[n] \in {"open", "used", "close"}
    BY <2>3
  <2>5. QED
    BY <2>1, <2>2, <2>3, <2>4 DEF AskingInv, TypeOK
<1>2. Spec => [](AskingInv /\ PoolInv)
  BY AskingInvInit, AskingInvStep, PoolInvInit, PoolInvStep, PTL DEF Spec
<1>3. QED
  BY <1>1, <1>2, RegInvariant, PTL

------------------------------------------------------------------------------
(* Proxies, while requests come one after the other.                        *)

SiteOps == {"assign", "auto_assign", "unassign", "assign_env", "assign_proxies", "edit_site"}

\* The sites that the batch has still to give a proxy to.
Giving(q)   == IF q.op = "assign_proxies" /\ q.at = "give" THEN Range(q.todo) ELSE {}
Apart(t, S) == \A d, e \in S : d # e /\ ~t[d].byHand /\ ~t[e].byHand /\ t[d].proxy # NoProxy => t[d].proxy # t[e].proxy

\* Rows of one site that name one proxy, got in one way; and a step after which a
\* site has the proxy that it had, or none, or one by hand.
Alike(row, old) == row.proxy = old.proxy /\ row.byHand = old.byHand
KeptApart == \A s \in Sites : site'[s].proxy = NoProxy \/ site'[s].byHand \/ Alike(site'[s], site[s])

\* What a request alone knows of the sites' proxies: a row of a site that it will
\* save names the proxy that the table names, or one by hand; the batch's proxies
\* are left to it.
ApartHeld(t, q) ==
    /\ q.op = "assign_proxies" => IsInjective(q.todo)
    /\ q.op = "assign_proxies" /\ q.at = "available" =>
         \A s \in Sites \ Range(q.todo) : t[s].proxy \in q.arg \cup {NoProxy}
    /\ q.op = "assign_proxies" /\ q.at = "give" =>
         IsInjective(q.arg) /\ \A s \in Sites \ Range(q.todo) : t[s].proxy \notin Range(q.arg)
    /\ q.op \in {"assign", "auto_assign"} /\ q.at \in {"save", "log"} => Alike(q.site, t[Head(q.todo).to])
    /\ q.op = "unassign" /\ q.at = "log" => Alike(q.site, t[Head(q.todo).to])
    /\ q.op = "assign_env" /\ q.at \in {"gmail", "save"} => Alike(q.site, t[Head(q.todo)])
    /\ q.op = "edit_site" /\ q.at = "save" => q.row.byHand \/ Alike(q.row, t[Head(q.todo)])

ApartFor(t, q) == ApartHeld(t, q) /\ Apart(t, Sites \ Giving(q))

ApartInv ==
    ~raced => /\ \A q, r \in Requests : Free(q) \/ Free(r) \/ q = r
              /\ \A r \in Requests : ~Free(r) => ApartFor(site, req[r])
              /\ (\A r \in Requests : Free(r)) => Apart(site, Sites)

LEMMA Untouched == site' = site => KeptApart
BY DEF KeptApart, Alike

LEMMA IdleApart == ASSUME NEW t PROVE ApartHeld(t, Idle) /\ Giving(Idle) = {}
BY IdleFields DEF ApartHeld, Giving

\* Before a step that does not race, the request that takes it is alone.
LEMMA ApartKnown ==
    ASSUME AskingInv, ApartInv, NEW r \in Requests, NEW q, Turn(r, q), ~raced'
    PROVE  ApartFor(site, req[r]) /\ ~raced /\ \A u \in Requests \ {r} : Free(u)
<1>1. ~raced /\ (Free(r) => \A u \in Requests : Free(u))
  BY DEF Turn
<1>2. CASE Free(r)
  BY <1>1, <1>2, IdleApart DEF ApartInv, ApartFor, Free
<1>3. CASE ~Free(r)
  BY <1>1, <1>3 DEF ApartInv
<1>4. QED
  BY <1>2, <1>3

LEMMA ApartTurn ==
    ASSUME AskingInv, ApartInv, NEW r \in Requests, NEW q, Turn(r, q), ~raced' => ApartFor(site', q)
    PROVE  ApartInv'
<1>1. CASE raced'
  BY <1>1 DEF ApartInv
<1>2. CASE ~raced'
  <2>1. ~raced /\ (\A u \in Requests \ {r} : Free(u)) /\ ApartFor(site', q)
    BY <1>2, ApartKnown
  <2>2. \A u \in Requests : req'[u] = IF u = r THEN q ELSE Idle
    BY <2>1, TurnTaken DEF Free
  <2>3. \A u \in Requests : req'[u] # Idle => u = r /\ req'[u] = q
    BY <2>2
  <2>4. \A u, v \in Requests : req'[u] = Idle \/ req'[v] = Idle \/ u = v
    BY <2>3
  <2>5. \A u \in Requests : req'[u] # Idle => ApartFor(site', req'[u])
    BY <2>1, <2>3
  <2>6. (\A u \in Requests : req'[u] = Idle) => Apart(site', Sites)
    BY <2>1, <2>2, IdleApart DEF ApartFor
  <2>7. QED
    BY <2>4, <2>5, <2>6 DEF ApartInv, Free, ApartFor, ApartHeld, Apart
<1>3. QED
  BY <1>1, <1>2

\* The step of a request that gives no proxies: a site keeps its proxy or loses it.
LEMMA ApartKeeps ==
    ASSUME AskingInv, ApartInv, NEW r \in Requests, NEW q, Turn(r, q), req[r].op # "assign_proxies",
           q.op # "assign_proxies",
           ~raced' => ApartHeld(site', q) /\ KeptApart
    PROVE  ApartInv'
<1>1. ASSUME ~raced' PROVE ApartFor(site', q)
  <2>1. Apart(site, Sites)
    BY <1>1, ApartKnown DEF ApartFor, Giving
  <2>2. Apart(site', Sites)
    BY <1>1, <2>1 DEF Apart, KeptApart, Alike
  <2>3. QED
    BY <1>1, <2>2 DEF ApartFor, Giving
<1>2. QED
  BY <1>1, ApartTurn

LEMMA ApartOther ==
    ASSUME AskingInv, ApartInv, NEW r \in Requests, NEW ops, Goes(r, ops), ops \cap SiteOps = {},
           KeptApart
    PROVE  ApartInv'
<1>1. PICK q : Turn(r, q) /\ (q = Idle \/ q.op \in ops)
  BY DEF Goes
<1>2. q.op \notin SiteOps /\ req[r].op \notin SiteOps
  BY <1>1, IdleFields DEF Goes, SiteOps, Free
<1>3. ApartHeld(site', q)
  BY <1>2 DEF ApartHeld, SiteOps
<1>4. QED
  BY <1>1, <1>2, <1>3, ApartKeeps DEF SiteOps

\* A request that assigns accounts or environments, and holds no row of a site.
LEMMA ApartNothing ==
    ASSUME AskingInv, ApartInv, NEW r \in Requests, NEW q, Turn(r, q), req[r].op # "assign_proxies",
           q.op # "assign_proxies", q.at \notin {"gmail", "save", "log"} \/ q.op \notin SiteOps,
           ~raced' => KeptApart
    PROVE  ApartInv'
<1>1. ApartHeld(site', q)
  BY DEF ApartHeld, SiteOps
<1>2. QED
  BY <1>1, ApartKeeps, Untouched

LEMMA ApartBegins ==
    ASSUME AskingInv, ApartInv, NEW r \in Requests, NEW op, NEW at, NEW todo, NEW arg, NEW row,
           Begin(r, op, at, todo, arg, row), op # "assign_proxies", at \notin {"gmail", "save", "log"}, site' = site
    PROVE  ApartInv'
<1>1. PICK q : Turn(r, q) /\ q.op = op /\ q.at = at
  BY Begins
<1>2. req[r].op # "assign_proxies"
  BY IdleFields DEF Begin, Free
<1>3. QED
  BY <1>1, <1>2, ApartNothing, Untouched

LEMMA ApartAdvances ==
    ASSUME AskingInv, ApartInv, NEW r \in Requests, req[r].op \notin {"none", "assign_proxies"}, NEW first,
           first \notin {"gmail", "save", "log"}, NextItem(r, first),
           ~raced' => KeptApart
    PROVE  ApartInv'
<1>1. CASE Turn(r, Idle)
  BY <1>1, IdleFields, ApartNothing, Untouched
<1>2. ASSUME NEW q, Turn(r, q), q.at = first, q.op = req[r].op PROVE ApartInv'
  BY <1>2, ApartNothing, Untouched
<1>3. QED
  BY <1>1, <1>2, Advances

LEMMA ApartGoesTo ==
    ASSUME AskingInv, ApartInv, NEW r \in Requests, req[r].op \notin {"none", "assign_proxies"}, NEW at,
           at \notin {"gmail", "save", "log"}, Goto(r, at),
           ~raced' => KeptApart
    PROVE  ApartInv'
<1>1. PICK q : Turn(r, q) /\ q.at = at /\ q.op = req[r].op
  BY GoesOn
<1>2. QED
  BY <1>1, ApartNothing, Untouched

\* A step leaves the request with the site's row that it has, and the table as it is.
LEMMA ApartStays ==
    ASSUME AskingInv, ApartInv, NEW r \in Requests, req[r].op \notin {"none", "assign_proxies"}, NEW at,
           Goto(r, at), site' = site,
           at = "log" => req[r].at = "save" /\ req[r].op \in {"assign", "auto_assign"},
           at = "save" => req[r].at = "gmail" /\ req[r].op = "assign_env", at # "gmail"
    PROVE  ApartInv'
<1>1. PICK q : Turn(r, q) /\ q.at = at /\ q.op = req[r].op /\ q.todo = req[r].todo /\ q.site = req[r].site
  BY GoesOn
<1>2. ASSUME ~raced' PROVE ApartHeld(site', q)
  <2>1. ApartHeld(site, req[r])
    BY <1>1, <1>2, ApartKnown DEF ApartFor
  <2>2. QED
    BY <1>1, <2>1 DEF ApartHeld
<1>3. QED
  BY <1>1, <1>2, ApartKeeps, Untouched

\* A site's row, saved whole, that names the proxy which the table names, or one by hand.
LEMMA SavedRow ==
    ASSUME PoolInv, NEW d, NEW row, row.byHand \/ Alike(row, site[d]), site' = [site EXCEPT ![d] = row]
    PROVE  KeptApart
BY DEF PoolInv, PoolTables, KeptApart, Alike

LEMMA AccountsApart ==
    ASSUME AskingInv, PoolInv, ApartInv, NEW r \in Requests, AccountNext(r)
    PROVE  ApartInv'
<1> DEFINE k == req[r]
<1>1. CASE AssignAccounts(r) \/ AutoAssign(r)
  <2>1. ASSUME NEW op \in {"assign", "auto_assign"}, NEW at \in {"account", "served", "available"}, NEW todo,
               Begin(r, op, at, todo, Nothing, Nothing)
        PROVE  ApartInv'
    <3>1. site' = site
      BY <1>1 DEF AssignAccounts, AutoAssign
    <3>2. QED
      BY <2>1, <3>1, ApartBegins
  <2>2. CASE AssignAccounts(r)
    BY <2>1, <2>2 DEF AssignAccounts
  <2>3. CASE AutoAssign(r)
    BY <2>1, <2>3 DEF AutoAssign
  <2>4. QED
    BY <1>1, <2>2, <2>3
<1>2. CASE Unassign(r)
  BY <1>2, ApartBegins DEF Unassign
<1>3. ASSUME NEW op \in {"set_health", "delete_accounts"}, site' = site,
             \/ \E at, todo, arg, row : Begin(r, op, at, todo, arg, row)
             \/ k.op = op /\ (Done(r) \/ \E at : NextItem(r, at))
      PROVE  ApartInv'
  <2>1. Goes(r, {op})
    BY <1>3, OpBegins, OpGoesOn
  <2>2. QED
    BY <1>3, <2>1, ApartOther, Untouched DEF SiteOps
<1>4. CASE SetHealth(r) \/ SaveHealth(r)
  BY <1>3, <1>4 DEF SetHealth, SaveHealth, Has
<1>5. CASE DeleteAccounts(r) \/ RemoveAccount(r)
  BY <1>3, <1>5 DEF DeleteAccounts, RemoveAccount, Has
<1>6. CASE SkipServed(r)
  BY <1>6, ApartAdvances, ApartGoesTo, Untouched DEF SkipServed, Has
<1>7. CASE GetAvailable(r)
  <2>1. k.op = "auto_assign" /\ site' = site
    BY <1>7 DEF GetAvailable, Has
  <2>2. CASE NextItem(r, "served")
    BY <2>1, <2>2, ApartAdvances, Untouched
  <2>3. ASSUME NEW a \in Available, Becomes(r, [k EXCEPT !.at = "account", !.todo[1].acc = a]) PROVE ApartInv'
    <3> DEFINE q == [k EXCEPT !.at = "account", !.todo[1].acc = a]
    <3>1. IsRequest(k)
      BY DEF AskingInv
    <3>2. IsRequest(q) /\ q.op = k.op /\ q.at = "account"
      BY <3>1 DEF IsRequest
    <3>3. Becomes(r, q)
      BY <2>3
    <3> HIDE DEF q
    <3>4. Turn(r, q)
      BY <2>1, <3>2, <3>3, BecomesTurn
    <3>5. QED
      BY <2>1, <3>2, <3>4, ApartNothing, Untouched
  <2>4. QED
    BY <1>7, <2>2, <2>3 DEF GetAvailable
<1>8. CASE ReadAccount(r)
  <2> DEFINE row == [account[Here(r).acc] EXCEPT !.site = Here(r).to]
             q == [k EXCEPT !.at = "site", !.row = row]
  <2>1. Becomes(r, q) /\ k.op \in {"assign", "auto_assign"} /\ site' = site /\ IsRequest(k)
    BY <1>8 DEF ReadAccount, Assigning, AskingInv
  <2> HIDE DEF row
  <2>2. IsRequest(q) /\ q.op = k.op /\ q.at = "site"
    BY <2>1 DEF IsRequest
  <2> HIDE DEF q
  <2>3. Turn(r, q)
    BY <2>1, <2>2, BecomesTurn
  <2>4. QED
    BY <2>1, <2>2, <2>3, ApartNothing, Untouched
<1>9. CASE ReadSite(r) \/ ReadUnassignedSite(r)
  <2> DEFINE t == site[Here(r).to]
             at == IF k.op = "unassign" THEN "log" ELSE "save"
             q == [k EXCEPT !.at = at, !.site = t]
  <2>1. Becomes(r, q) /\ k.op \in {"assign", "auto_assign", "unassign"} /\ site' = site /\ IsRequest(k)
    BY <1>9 DEF ReadSite, ReadUnassignedSite, Has, Assigning, AskingInv
  <2> HIDE DEF t
  <2>2. IsRequest(q) /\ q.op = k.op /\ q.todo = k.todo /\ q.site = t
    BY <2>1 DEF IsRequest
  <2> HIDE DEF q
  <2>3. Turn(r, q)
    BY <2>1, <2>2, BecomesTurn
  <2>4. ApartHeld(site', q)
    BY <2>1, <2>2 DEF ApartHeld, Here, t, Alike
  <2>5. QED
    BY <2>1, <2>2, <2>3, <2>4, ApartKeeps, Untouched
<1>10. CASE SaveAccount(r)
  BY <1>10, ApartStays, Untouched DEF SaveAccount, Assigning
<1>11. CASE SaveSite(r)
  <2>1. /\ k.op \in {"assign", "auto_assign"} /\ k.at = "log" /\ NextItem(r, First(r))
        /\ site' = [site EXCEPT ![Here(r).to] = k.site]
    BY <1>11 DEF SaveSite, Assigning
  <2>2. First(r) \in {"account", "served"}
    BY <2>1 DEF First
  <2>3. ASSUME ~raced' PROVE KeptApart
    <3>1. \E q : Turn(r, q)
      BY <2>1, Advances
    <3>2. ApartHeld(site, k)
      BY <2>3, <3>1, ApartKnown DEF ApartFor
    <3>3. Alike(k.site, site[Here(r).to])
      BY <2>1, <3>2 DEF ApartHeld, Here
    <3>4. QED
      BY <2>1, <3>3, SavedRow
  <2>4. QED
    BY <2>1, <2>2, <2>3, ApartAdvances, Untouched
<1>12. CASE LogUnassigned(r)
  <2>1. k.op = "unassign" /\ k.at = "log" /\ Goto(r, "save") /\ site' = [site EXCEPT ![Here(r).to] = k.site]
    BY <1>12 DEF LogUnassigned, Has
  <2>2. PICK q : Turn(r, q) /\ q.op = "unassign" /\ q.at = "save"
    BY <2>1, GoesOn
  <2>3. ApartHeld(site', q)
    BY <2>2 DEF ApartHeld
  <2>4. ASSUME ~raced' PROVE KeptApart
    <3>1. ApartHeld(site, k)
      BY <2>2, <2>4, ApartKnown DEF ApartFor
    <3>2. Alike(k.site, site[Here(r).to])
      BY <2>1, <3>1 DEF ApartHeld, Here
    <3>3. QED
      BY <2>1, <3>2, SavedRow
  <2>5. QED
    BY <2>1, <2>2, <2>3, <2>4, ApartKeeps, Untouched
<1>13. CASE SaveUnassigned(r)
  <2>1. k.op = "unassign" /\ Turn(r, Idle) /\ site' = site
    BY <1>13, Ends DEF SaveUnassigned, Has
  <2>2. QED
    BY <2>1, IdleFields, ApartNothing, Untouched
<1>14. QED
  BY <1>1, <1>2, <1>4, <1>5, <1>6, <1>7, <1>8, <1>9, <1>10, <1>11, <1>12, <1>13 DEF AccountNext

LEMMA EnvsApart ==
    ASSUME AskingInv, PoolInv, ApartInv, NEW r \in Requests, EnvNext(r)
    PROVE  ApartInv'
<1> DEFINE k == req[r]
<1>1. CASE AssignEnvs(r)
  BY <1>1, ApartBegins DEF AssignEnvs, Idles
<1>2. CASE ReadCompleted(r)
  BY <1>2, ApartAdvances, ApartGoesTo, Untouched DEF ReadCompleted, Has, Idles
<1>3. CASE CheckGmail(r)
  BY <1>3, ApartAdvances, ApartStays, Untouched DEF CheckGmail, Has, Idles
<1>4. CASE ReadEnvSite(r)
  <2>1. k.op = "assign_env" /\ site' = site /\ IsRequest(k)
    BY <1>4 DEF ReadEnvSite, Has, Idles, AskingInv
  <2>2. CASE NextItem(r, "reg")
    BY <2>1, <2>2, ApartAdvances, Untouched
  <2>3. CASE Becomes(r, [k EXCEPT !.at = "gmail", !.site = site[Here(r)]])
    <3> DEFINE t == site[Here(r)]
               q == [k EXCEPT !.at = "gmail", !.site = t]
    <3>1. Becomes(r, q)
      BY <2>3
    <3> HIDE DEF t
    <3>2. IsRequest(q) /\ q.op = k.op /\ q.todo = k.todo /\ q.site = t
      BY <2>1 DEF IsRequest
    <3> HIDE DEF q
    <3>3. Turn(r, q) /\ ApartHeld(site', q)
      BY <2>1, <3>1, <3>2, BecomesTurn DEF ApartHeld, Here, t, Alike
    <3>4. QED
      BY <2>1, <3>2, <3>3, ApartKeeps, Untouched
  <2>4. QED
    BY <1>4, <2>2, <2>3 DEF ReadEnvSite
<1>5. CASE SaveEnv(r)
  <2>1. /\ k.op = "assign_env" /\ k.at = "save" /\ NextItem(r, "reg")
        /\ site' = [site EXCEPT ![Here(r)] = [k.site EXCEPT !.env = TRUE]]
    BY <1>5 DEF SaveEnv, Has
  <2>2. k.site \in SiteRow
    BY <2>1 DEF PoolInv, PoolHolds, PoolHeld
  <2>3. ASSUME ~raced' PROVE KeptApart
    <3>1. \E q : Turn(r, q)
      BY <2>1, Advances
    <3>2. ApartHeld(site, k)
      BY <2>3, <3>1, ApartKnown DEF ApartFor
    <3> DEFINE row == [k.site EXCEPT !.env = TRUE]
    <3>3. Alike(row, site[Here(r)])
      BY <2>1, <2>2, <3>2 DEF ApartHeld, Here, SiteRow, Alike
    <3>4. site' = [site EXCEPT ![Here(r)] = row]
      BY <2>1
    <3> HIDE DEF row
    <3>5. QED
      BY <3>3, <3>4, SavedRow
  <2>4. QED
    BY <2>1, <2>3, ApartAdvances, Untouched
<1>6. QED
  BY <1>1, <1>2, <1>3, <1>4, <1>5 DEF EnvNext

LEMMA ByHandApart ==
    ASSUME AskingInv, PoolInv, ApartInv, NEW r \in Requests, ByHandNext(r)
    PROVE  ApartInv'
<1> DEFINE k == req[r]
<1>1. CASE EditSite(r)
  <2>1. PICK d \in Sites, p \in Proxies \cup {NoProxy} :
          Begin(r, "edit_site", "save", <<d>>, Nothing,
                IF p = site[d].proxy THEN site[d] ELSE [site[d] EXCEPT !.proxy = p, !.byHand = TRUE])
    BY <1>1 DEF EditSite
  <2> DEFINE row == IF p = site[d].proxy THEN site[d] ELSE [site[d] EXCEPT !.proxy = p, !.byHand = TRUE]
  <2>2. row.byHand \/ Alike(row, site[d])
    BY DEF Alike, PoolInv, PoolTables, SiteRow
  <2>3. Begin(r, "edit_site", "save", <<d>>, Nothing, row)
    BY <2>1 DEF row
  <2> HIDE DEF row
  <2>4. PICK q : Turn(r, q) /\ q.op = "edit_site" /\ q.todo = <<d>> /\ q.row = row
    BY <2>3, Begins
  <2>5. site' = site /\ Head(q.todo) = d /\ req[r].op # "assign_proxies"
    BY <1>1, <2>3, <2>4, IdleFields DEF EditSite, Begin, Free
  <2>6. ApartHeld(site', q) /\ KeptApart
    BY <2>2, <2>4, <2>5 DEF ApartHeld, KeptApart, Alike
  <2>7. QED
    BY <2>4, <2>5, <2>6, ApartKeeps, Untouched
<1>2. CASE SaveEditedSite(r)
  <2>1. k.op = "edit_site" /\ k.at = "save" /\ Turn(r, Idle) /\ site' = [site EXCEPT ![Here(r)] = k.row]
    BY <1>2, Ends DEF SaveEditedSite, Has
  <2>2. ASSUME ~raced' PROVE KeptApart
    <3>1. ApartHeld(site, k)
      BY <2>1, <2>2, ApartKnown DEF ApartFor
    <3>2. k.row.byHand \/ Alike(k.row, site[Here(r)])
      BY <2>1, <3>1 DEF ApartHeld, Here
    <3>3. QED
      BY <2>1, <3>2, SavedRow
  <2>3. QED
    BY <2>1, <2>2, IdleFields, IdleApart, ApartKeeps, Untouched
<1>3. QED
  BY <1>1, <1>2 DEF ByHandNext

LEMMA InjectiveTail ==
    ASSUME NEW S, NEW s \in Filled(S), IsInjective(s)
    PROVE  /\ IsInjective(Tail(s)) /\ Head(s) \notin Range(Tail(s)) /\ Range(s) = {Head(s)} \cup Range(Tail(s))
<1>1. s \in Seq(S) /\ s # <<>> /\ Len(s) \in Nat \ {0} /\ Head(s) = s[1] /\ DOMAIN s = 1..Len(s)
  BY FilledSeq DEF Filled
<1>2. Len(Tail(s)) = Len(s) - 1 /\ Tail(s) \in Seq(S)
  BY <1>1, HeadTailProperties
<1>3. DOMAIN Tail(s) = 1..(Len(s) - 1) /\ \A i \in 1..(Len(s) - 1) : Tail(s)[i] = s[i + 1]
  BY <1>1, <1>2, HeadTailProperties
<1>4. IsInjective(Tail(s))
  BY <1>1, <1>3 DEF IsInjective
<1>5. Head(s) \notin Range(Tail(s))
  BY <1>1, <1>3 DEF IsInjective, Range
<1>6. ASSUME NEW i \in DOMAIN s PROVE s[i] = Head(s) \/ s[i] \in Range(Tail(s))
  <2>1. CASE i = 1
    BY <1>1, <2>1
  <2>2. CASE i # 1
    <3>1. i - 1 \in DOMAIN Tail(s) /\ s[i] = Tail(s)[i - 1]
      BY <1>1, <1>3, <2>2
    <3>2. QED
      BY <3>1 DEF Range
  <2>3. QED
    BY <2>1, <2>2
<1>7. Range(Tail(s)) \subseteq Range(s)
  BY <1>1, <1>3 DEF Range
<1>8. Head(s) \in Range(s)
  BY <1>1 DEF Range
<1>9. QED
  BY <1>4, <1>5, <1>6, <1>7, <1>8 DEF Range

LEMMA GivesApart ==
    ASSUME AskingInv, PoolInv, ApartInv, NEW r \in Requests, GiveNext(r)
    PROVE  ApartInv'
<1> DEFINE k == req[r]
<1>0. k.op = "assign_proxies" => k.todo \in Filled(Sites)
  BY DEF PoolInv, PoolHolds, PoolHeld
<1>1. ASSUME NEW q, Turn(r, q), ~raced' => ApartFor(site', q) PROVE ApartInv'
  BY <1>1, ApartTurn
<1>2. CASE AssignProxies(r)
  <2>1. PICK ss \in Batches(Sites) : IsInjective(ss) /\ Begin(r, "assign_proxies", "occupied", ss, Nothing, Nothing)
    BY <1>2 DEF AssignProxies
  <2>2. PICK q : Turn(r, q) /\ q.op = "assign_proxies" /\ q.at = "occupied" /\ q.todo = ss
    BY <2>1, Begins
  <2>3. ASSUME ~raced' PROVE ApartFor(site', q)
    <3>1. Apart(site, Sites)
      BY <2>1, <2>2, <2>3, ApartKnown, IdleApart DEF ApartFor, Begin, Free
    <3>2. site' = site
      BY <1>2 DEF AssignProxies
    <3>3. QED
      BY <2>1, <2>2, <3>1, <3>2 DEF ApartFor, ApartHeld, Giving
  <2>4. QED
    BY <1>1, <2>2, <2>3
<1>3. CASE OccupiedProxies(r)
  <2> DEFINE occupied == {site[s].proxy : s \in Sites \ Range(k.todo)} \ {NoProxy}
             q == [k EXCEPT !.at = "available", !.arg = occupied]
  <2>1. Becomes(r, q) /\ k.op = "assign_proxies" /\ k.at = "occupied" /\ site' = site /\ IsRequest(k)
    BY <1>3 DEF OccupiedProxies, Has, AskingInv
  <2> HIDE DEF occupied
  <2>2. IsRequest(q) /\ q.op = k.op /\ q.at = "available" /\ q.todo = k.todo /\ q.arg = occupied
    BY <2>1 DEF IsRequest
  <2> HIDE DEF q
  <2>3. Turn(r, q)
    BY <2>1, <2>2, BecomesTurn
  <2>4. \A s \in Sites \ Range(k.todo) : site[s].proxy \in occupied \cup {NoProxy}
    BY DEF occupied
  <2>5. ASSUME ~raced' PROVE ApartFor(site', q)
    <3>1. ApartFor(site, k)
      BY <2>3, <2>5, ApartKnown
    <3>2. QED
      BY <2>1, <2>2, <2>4, <3>1 DEF ApartFor, ApartHeld, Giving
  <2>6. QED
    BY <1>1, <2>3, <2>5
<1>4. CASE AvailableProxies(r)
  <2> DEFINE free == {p \in Known : proxy[p].status = "active"} \ k.arg
  <2>1. k.op = "assign_proxies" /\ k.at = "available" /\ site' = site /\ IsRequest(k)
    BY <1>4 DEF AvailableProxies, Has, AskingInv
  <2>2. CASE Done(r)
    <3>1. Turn(r, Idle)
      BY <2>1, <2>2, Ends
    <3>2. ASSUME ~raced' PROVE ApartFor(site', Idle)
      <4>1. ApartFor(site, k)
        BY <3>1, <3>2, ApartKnown
      <4>2. QED
        BY <2>1, <4>1, IdleApart DEF ApartFor, Giving
    <3>3. QED
      BY <1>1, <3>1, <3>2
  <2>3. ASSUME NEW ps \in ById(free), Becomes(r, [k EXCEPT !.at = "give", !.arg = ps]) PROVE ApartInv'
    <3> DEFINE q == [k EXCEPT !.at = "give", !.arg = ps]
    <3>1. IsRequest(q) /\ q.op = k.op /\ q.at = "give" /\ q.todo = k.todo /\ q.arg = ps
      BY <2>1 DEF IsRequest
    <3>2. Becomes(r, q)
      BY <2>3
    <3> HIDE DEF q
    <3>3. Turn(r, q)
      BY <2>1, <3>1, <3>2, BecomesTurn
    <3>4. free \subseteq Proxies /\ Cardinality(free) \in Nat
      BY KnownProxies DEF Known
    <3>5. \A p \in free : p \notin k.arg \cup {NoProxy} /\ p \in Nat
      BY <3>4, ProxyAssumption
    <3> HIDE DEF free
    <3>6. ps \in [1..Cardinality(free) -> free] /\ \A i, j \in DOMAIN ps : i < j => ps[i] < ps[j]
      BY DEF ById
    <3>7. IsInjective(ps)
      BY <3>4, <3>5, <3>6 DEF IsInjective
    <3>8. Range(ps) \subseteq free
      BY <3>6 DEF Range
    <3>9. ASSUME ~raced' PROVE ApartFor(site', q)
      <4>1. ApartFor(site, k)
        BY <3>3, <3>9, ApartKnown
      <4>2. \A s \in Sites \ Range(k.todo) : site[s].proxy \notin Range(ps)
        BY <2>1, <3>5, <3>8, <4>1 DEF ApartFor, ApartHeld
      <4>3. Apart(site, Sites \ Giving(q))
        BY <2>1, <4>1 DEF ApartFor, Giving, Apart
      <4>4. ApartHeld(site, q)
        BY <2>1, <3>1, <3>7, <4>1, <4>2 DEF ApartFor, ApartHeld
      <4>5. QED
        BY <2>1, <4>3, <4>4 DEF ApartFor
    <3>10. QED
      BY <1>1, <3>3, <3>9
  <2>4. QED
    BY <1>4, <2>2, <2>3 DEF AvailableProxies
<1>5. CASE GiveProxy(r)
  <2> DEFINE d == Head(k.todo)
             p == Head(k.arg)
  <2>1. /\ k.op = "assign_proxies" /\ k.at = "give" /\ IsRequest(k) /\ k.arg \in Seq(Proxies) /\ Len(k.todo) <= Len(k.arg)
        /\ k.todo \in Filled(Sites)
    BY <1>5 DEF GiveProxy, Has, AskingInv, PoolInv, PoolHolds, PoolHeld
  <2>2. d \in Sites /\ Len(k.todo) \in Nat \ {0} /\ k.arg \in Filled(Proxies)
    <3>1. d \in Sites /\ Len(k.todo) \in Nat \ {0}
      BY <2>1, FilledSeq
    <3>2. k.arg # <<>>
      BY <2>1, <3>1
    <3>3. QED
      BY <2>1, <3>1, <3>2 DEF Filled
  <2>3. site' = [site EXCEPT ![d] = [site[d] EXCEPT !.proxy = p, !.byHand = FALSE]]
    BY <1>5 DEF GiveProxy, Here
  <2>4. site \in [Sites -> SiteRow]
    BY DEF PoolInv, PoolTables
  <2>5. /\ site'[d].proxy = p /\ \A s \in Sites : s # d => site'[s] = site[s]
    BY <2>2, <2>3, <2>4 DEF SiteRow
  <2>6. PICK q : /\ Turn(r, q)
                 /\ \/ q = Idle /\ Len(k.todo) = 1
                    \/ q.op = k.op /\ q.at = "give" /\ q.todo = Tail(k.todo) /\ q.arg = Tail(k.arg)
    <3>1. CASE Len(k.todo) = 1
      BY <1>5, <2>1, <3>1, Ends DEF GiveProxy
    <3>2. CASE Len(k.todo) # 1
      <4> DEFINE q == [k EXCEPT !.todo = Tail(k.todo), !.arg = Tail(k.arg)]
      <4>1. IsRequest(q) /\ q.op = k.op /\ q.at = "give" /\ q.todo = Tail(k.todo) /\ q.arg = Tail(k.arg)
        BY <2>1 DEF IsRequest
      <4>2. Becomes(r, q)
        BY <1>5, <3>2 DEF GiveProxy
      <4> HIDE DEF q
      <4>3. QED
        BY <2>1, <4>1, <4>2, BecomesTurn
    <3>3. QED
      BY <3>1, <3>2
  <2>7. ASSUME ~raced' PROVE ApartFor(site', q)
    <3> DEFINE rest == Range(Tail(k.todo))
               left == Range(Tail(k.arg))
    <3>1. ApartFor(site, k)
      BY <2>6, <2>7, ApartKnown
    <3>2. IsInjective(k.todo) /\ IsInjective(k.arg) /\ \A s \in Sites \ Range(k.todo) : site[s].proxy \notin Range(k.arg)
      BY <2>1, <3>1 DEF ApartFor, ApartHeld
    <3>3. Apart(site, Sites \ Range(k.todo))
      BY <2>1, <3>1 DEF ApartFor, Giving
    <3>4. IsInjective(Tail(k.todo)) /\ Range(k.todo) = {d} \cup rest
      BY <2>1, <3>2, InjectiveTail
    <3>5. IsInjective(Tail(k.arg)) /\ p \notin left /\ Range(k.arg) = {p} \cup left
      BY <2>2, <3>2, InjectiveTail
    <3> HIDE DEF rest, left, d, p
    <3>6. Apart(site', Sites \ rest)
      <4> SUFFICES ASSUME NEW s \in Sites \ rest, NEW t \in Sites \ rest, s # t, site'[s].proxy # NoProxy,
                          ~site'[s].byHand, ~site'[t].byHand
                   PROVE  site'[s].proxy # site'[t].proxy
        BY DEF Apart
      <4>1. CASE s = d
        BY <2>5, <3>2, <3>4, <3>5, <4>1
      <4>2. CASE t = d
        BY <2>5, <3>2, <3>4, <3>5, <4>2
      <4>3. CASE s # d /\ t # d
        BY <2>5, <3>3, <3>4, <4>3 DEF Apart
      <4>4. QED
        BY <4>1, <4>2, <4>3
    <3>7. \A s \in Sites \ rest : site'[s].proxy \notin left
      BY <2>5, <3>2, <3>4, <3>5
    <3>8. CASE q = Idle /\ Len(k.todo) = 1
      <4>1. rest = {}
        <5>1. k.todo \in Seq(Sites) /\ k.todo # <<>>
          BY <2>1 DEF Filled
        <5>2. Tail(k.todo) \in Seq(Sites) /\ Len(Tail(k.todo)) = 0
          BY <3>8, <5>1, HeadTailProperties
        <5>3. QED
          BY <5>2 DEF rest, Range
      <4>2. QED
        BY <3>6, <3>8, <4>1, IdleApart DEF ApartFor
    <3>9. CASE q.op = k.op /\ q.at = "give" /\ q.todo = Tail(k.todo) /\ q.arg = Tail(k.arg)
      <4>1. Giving(q) = rest
        BY <2>1, <3>9 DEF Giving, rest
      <4>2. ApartHeld(site', q)
        BY <2>1, <3>4, <3>5, <3>7, <3>9 DEF ApartHeld, rest, left
      <4>3. QED
        BY <3>6, <4>1, <4>2 DEF ApartFor
    <3>10. QED
      BY <2>6, <3>8, <3>9
  <2>8. QED
    BY <1>1, <2>6, <2>7
<1>6. QED
  BY <1>2, <1>3, <1>4, <1>5 DEF GiveNext

LEMMA ApartInvStep == AskingInv /\ PoolInv /\ ApartInv /\ [Next]_vars => ApartInv'
<1> SUFFICES ASSUME AskingInv, PoolInv, ApartInv, [Next]_vars PROVE ApartInv'
  OBVIOUS
<1>0. site \in [Sites -> SiteRow]
  BY DEF PoolInv, PoolTables
<1>1. CASE UNCHANGED vars
  BY <1>1 DEF vars, asking, ApartInv, ApartFor, ApartHeld, Apart, Free
<1>2. ASSUME NEW r \in Requests, ProxyNext(r) PROVE ApartInv'
  <2>1. CASE GiveNext(r)
    BY <2>1, GivesApart
  <2>2. CASE ByHandNext(r)
    BY <2>2, ByHandApart
  <2>3. CASE ~GiveNext(r) /\ ~ByHandNext(r)
    <3>1. \/ site' = site
          \/ site' = [s \in Sites |-> IF site[s].proxy = Here(r) THEN [site[s] EXCEPT !.proxy = NoProxy] ELSE site[s]]
      BY <1>2, <2>3 DEF ProxyNext, GiveNext, ByHandNext, ImportProxies, LookUpAddress, CreateProxy, EditProxy, LookUpNewAddress,
        SaveProxy, DeleteProxies, DeleteListed, CheckProxies, MarkTesting, CheckNextGroup, ProxyAnswers, UnassignProxies,
        ClearProxy
    <3>2. KeptApart
      BY <1>0, <3>1 DEF SiteRow, KeptApart, Alike
    <3>3. ProxyRest \cap SiteOps = {}
      BY DEF ProxyRest, SiteOps
    <3>4. QED
      BY <1>2, <2>3, <3>2, <3>3, ProxiesGo, ApartOther, Untouched
  <2>4. QED
    BY <2>1, <2>2, <2>3
<1>3. ASSUME NEW r \in Requests, AccountNext(r) PROVE ApartInv'
  BY <1>3, AccountsApart
<1>4. ASSUME NEW r \in Requests, RegistrationNext(r) PROVE ApartInv'
  <2>1. CASE EnvNext(r)
    BY <2>1, EnvsApart
  <2>2. CASE ~EnvNext(r)
    <3>1. Goes(r, RegRest) /\ site' = site
      BY <1>4, <2>2, RowsGo, RowsKeepPools
    <3>2. RegRest \cap SiteOps = {}
      BY DEF RegRest, RowOps, SiteOps
    <3>3. QED
      BY <3>1, <3>2, ApartOther, Untouched
  <2>3. QED
    BY <2>1, <2>2
<1>5. ASSUME NEW r \in Requests, DeletionNext(r) PROVE ApartInv'
  <2>1. site' = site \/ \E s, b : site' = [site EXCEPT ![s].deleted = b]
    BY <1>5 DEF DeletionNext, DeleteSite, ReadGmails, RemoveGmail, ReadRegistration, RemoveRegistration, ReadProxyOfSite,
      DeleteProxyOfSite, RestoreRow, SiteRestored, ProxyRestored, AccountRestored
  <2>2. KeptApart
    BY <1>0, <2>1 DEF SiteRow, KeptApart, Alike
  <2>3. DeleteOps \cap SiteOps = {}
    BY DEF DeleteOps, SiteOps
  <2>4. QED
    BY <1>5, <2>2, <2>3, DeletionGoes, ApartOther, Untouched
<1>6. ASSUME NEW r \in Requests, BreakOff(r) PROVE ApartInv'
  BY <1>6 DEF BreakOff, ApartInv
<1>7. QED
  BY <1>1, <1>2, <1>3, <1>4, <1>5, <1>6 DEF Next

LEMMA ApartInvInit == Init => ApartInv
<1> SUFFICES ASSUME Init PROVE ApartInv
  OBVIOUS
<1>1. \A r \in Requests : Free(r)
  BY DEF Init, RequestsInit, Free
<1>2. \A s \in Sites : site[s].proxy = NoProxy
  BY DEF Init, RequestsInit
<1>3. QED
  BY <1>1, <1>2 DEF ApartInv, Apart

\* As long as every request ends before the next begins and none breaks off, no
\* two sites were given one proxy when no request is under way: batch_assign_sites takes
\* only proxies that no site outside of the batch has, however it got them, gives
\* each of them once, and nothing that saves a site's row gives it another proxy
\* than it has, except an update of the row that names one: of two sites with one
\* proxy, one has it by hand.
THEOREM ProxiesStayApart == Spec => []ProxiesApart
<1>1. ApartInv => ProxiesApart
  BY DEF ApartInv, ProxiesApart, Apart
<1>2. Spec => [](AskingInv /\ PoolInv /\ ApartInv)
  BY AskingInvInit, AskingInvStep, PoolInvInit, PoolInvStep, ApartInvInit, ApartInvStep, PTL DEF Spec
<1>3. QED
  BY <1>1, <1>2, PTL
=============================================================================
