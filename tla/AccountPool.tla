---------------------------- MODULE AccountPool -----------------------------
(***************************************************************************)
(* controllers/gmail_account.py and its API: the Gmail accounts, each with *)
(* the site it is assigned to.  (The Outlook pool is the same code with    *)
(* other names.)  An assignment reads the account and the site, and saves  *)
(* both rows WHOLE, one after the other.                                   *)
(***************************************************************************)
EXTENDS ResourceRequests

CONSTANT Accounts       \* ids of rows

ASSUME AccountAssumption == Accounts \subseteq Nat

VARIABLE account        \* the table of accounts

AccountRows == [deleted : BOOLEAN, healthy : BOOLEAN, site : Sites \cup {Nothing}]

AccountInit == account \in [Accounts -> [deleted : {FALSE}, healthy : {TRUE}, site : {Nothing}]]

Pair(a, s) == [acc |-> a, to |-> s]
First(r)   == CASE req[r].op = "assign" -> "account" [] req[r].op = "auto_assign" -> "served"

Available == {a \in Accounts : account[a].site = Nothing /\ ~account[a].deleted /\ account[a].healthy}
Served(s) == \E a \in Accounts : account[a].site = s /\ ~account[a].deleted

\* /assign and /batch-assign.  What /assign refuses an unhealthy account with, it
\* looks up after the assignment.
AssignAccounts(r) ==
    \E as \in Batches(Accounts), s \in Sites :
        /\ Begin(r, "assign", "account", [i \in DOMAIN as |-> Pair(as[i], s)], Nothing, Nothing)
        /\ UNCHANGED <<site, account>>

\* /batch-auto-assign leaves out sites that have an account, /auto-assign does not.
AutoAssign(r) ==
    /\ \/ \E ss \in Batches(Sites) : Begin(r, "auto_assign", "served", [i \in DOMAIN ss |-> Pair(Nothing, ss[i])], Nothing, Nothing)
       \/ \E s \in Sites : Begin(r, "auto_assign", "available", <<Pair(Nothing, s)>>, Nothing, Nothing)
    /\ UNCHANGED <<site, account>>

SkipServed(r) ==
    /\ Has(r, "auto_assign", "served") /\ UNCHANGED <<site, account>>
    /\ IF Served(Here(r).to) THEN NextItem(r, "served") ELSE Goto(r, "available")

GetAvailable(r) ==
    /\ Has(r, "auto_assign", "available") /\ UNCHANGED <<site, account>>
    /\ IF Available = {} THEN NextItem(r, "served")
       ELSE \E a \in Available :
              /\ \A b \in Available : a <= b
              /\ Becomes(r, [req[r] EXCEPT !.at = "account", !.todo[1].acc = a])

Assigning(r, at) == req[r].op \in {"assign", "auto_assign"} /\ req[r].at = at

ReadAccount(r) ==
    /\ Assigning(r, "account") /\ UNCHANGED <<site, account>>
    /\ Becomes(r, [req[r] EXCEPT !.at = "site", !.row = [account[Here(r).acc] EXCEPT !.site = Here(r).to]])

ReadSite(r) ==
    /\ Assigning(r, "site") /\ UNCHANGED <<site, account>>
    /\ Becomes(r, [req[r] EXCEPT !.at = "save", !.site = site[Here(r).to]])

SaveAccount(r) ==
    /\ Assigning(r, "save") /\ Goto(r, "log") /\ UNCHANGED site
    /\ account' = [account EXCEPT ![Here(r).acc] = req[r].row]

\* The site's log and status are new; the other columns are as they were read.
SaveSite(r) ==
    /\ Assigning(r, "log") /\ NextItem(r, First(r)) /\ UNCHANGED account
    /\ site' = [site EXCEPT ![Here(r).to] = req[r].site]

\* unassign_from_site: one account of the site, the site's row first.
Unassign(r) ==
    \E a \in Accounts :
        /\ account[a].site # Nothing
        /\ Begin(r, "unassign", "site", <<Pair(a, account[a].site)>>, Nothing, [account[a] EXCEPT !.site = Nothing])
        /\ UNCHANGED <<site, account>>

ReadUnassignedSite(r) ==
    /\ Has(r, "unassign", "site") /\ UNCHANGED <<site, account>>
    /\ Becomes(r, [req[r] EXCEPT !.at = "log", !.site = site[Here(r).to]])

LogUnassigned(r) ==
    /\ Has(r, "unassign", "log") /\ Goto(r, "save") /\ UNCHANGED account
    /\ site' = [site EXCEPT ![Here(r).to] = req[r].site]

SaveUnassigned(r) ==
    /\ Has(r, "unassign", "save") /\ Done(r) /\ UNCHANGED site
    /\ account' = [account EXCEPT ![Here(r).acc] = req[r].row]

\* /set-health (and /update, for other columns) save the row whole.
SetHealth(r) ==
    \E a \in Accounts, h \in BOOLEAN :
        /\ Begin(r, "set_health", "save", <<Pair(a, Nothing)>>, Nothing, [account[a] EXCEPT !.healthy = h])
        /\ UNCHANGED <<site, account>>

SaveHealth(r) ==
    /\ Has(r, "set_health", "save") /\ Done(r) /\ UNCHANGED site
    /\ account' = [account EXCEPT ![Here(r).acc] = req[r].row]

\* /batch-delete: an account keeps its site in the recycle bin.
DeleteAccounts(r) ==
    \E as \in Batches(Accounts) :
        /\ Begin(r, "delete_accounts", "remove", [i \in DOMAIN as |-> Pair(as[i], Nothing)], Nothing, Nothing)
        /\ UNCHANGED <<site, account>>

RemoveAccount(r) ==
    /\ Has(r, "delete_accounts", "remove") /\ NextItem(r, "remove") /\ UNCHANGED site
    /\ account' = [account EXCEPT ![Here(r).acc].deleted = TRUE]

AccountNext(r) ==
    \/ AssignAccounts(r) \/ AutoAssign(r) \/ SkipServed(r) \/ GetAvailable(r)
    \/ ReadAccount(r) \/ ReadSite(r) \/ SaveAccount(r) \/ SaveSite(r)
    \/ Unassign(r) \/ ReadUnassignedSite(r) \/ LogUnassigned(r) \/ SaveUnassigned(r)
    \/ SetHealth(r) \/ SaveHealth(r) \/ DeleteAccounts(r) \/ RemoveAccount(r)
=============================================================================
