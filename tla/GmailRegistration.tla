------------------------- MODULE GmailRegistration --------------------------
(***************************************************************************)
(* controllers/gmail_registration.py: for each domain a row on which a     *)
(* Gmail account is registered step by step: an Outlook account lends it   *)
(* its identity, SMSMan sells a telephone number and hands on the code     *)
(* that is sent to it.  Every step reads the row, waits for a service, up  *)
(* to minutes, and saves the row WHOLE.                                    *)
(*                                                                         *)
(* One alias is used, so that a site's domain names its row.  SMSMan is    *)
(* modelled by what services/providers/smsman_service.py expects of it: a  *)
(* number is known by the request that bought it, and its code is its own. *)
(***************************************************************************)
EXTENDS AccountPool

CONSTANTS
    Outlooks,           \* ids of Outlook accounts
    MaxNumbers          \* bound: the numbers SMSMan sells

ASSUME RegistrationAssumption == Outlooks \subseteq Nat \ {0} /\ MaxNumbers \in Nat

VARIABLES
    reg,                \* the registrations' table, by domain
    outlook,            \* the Outlook accounts' table
    number              \* SMSMan's numbers, in the order in which they are sold

registering == <<reg, outlook, number>>

Numbers  == 1..MaxNumbers
Given    == 0             \* the identity is what the user entered
NoReg    == [here |-> FALSE, deleted |-> FALSE, status |-> "pending", outlook |-> Nothing,
             identity |-> Nothing, request |-> Nothing, code |-> Nothing, env |-> FALSE]
Pending  == [NoReg EXCEPT !.here = TRUE]
Entered(who) == [Pending EXCEPT !.identity = who, !.status = "completed", !.env = TRUE]
RegStatus == {"pending", "env_created", "registering", "completed", "failed"}
RegRows  == [here : BOOLEAN, deleted : BOOLEAN, status : RegStatus, outlook : Outlooks \cup {Nothing},
             identity : Outlooks \cup {Nothing, Given}, request : Numbers \cup {Nothing},
             code : Numbers \cup {Nothing}, env : BOOLEAN]

RegistrationInit ==
    /\ reg \in {[d \in Sites |-> row] : row \in {NoReg, Pending, Entered(Given)}}
    /\ outlook = [o \in Outlooks |-> [deleted |-> FALSE, ok |-> TRUE]]
    /\ number = <<>>

Idles == UNCHANGED <<site, account, reg, outlook, number>>
Saves == UNCHANGED <<site, account, outlook, number>>

Live(d)     == reg[d].here /\ ~reg[d].deleted
Holders(o)  == {d \in Sites : Live(d) /\ reg[d].outlook = o}
Good(o)     == ~outlook[o].deleted /\ outlook[o].ok
SaveReg(r)  == reg' = [reg EXCEPT ![Here(r)] = req[r].row]
Holds(r, at, row) == Becomes(r, [req[r] EXCEPT !.at = at, !.row = row])

\* Mutant: what the row has is not written over.
ApplyToBlank(row, o) == [row EXCEPT !.outlook = o, !.identity = IF @ = Nothing THEN o ELSE @]

\* The Outlook account's person; without one the identity is blank.
ApplyIdentity(row, o) == [row EXCEPT !.outlook = o, !.identity = o]

-----------------------------------------------------------------------------
(* Rows and Outlook accounts.                                              *)

\* create: a look-up, an insert that the unique index refuses to repeat, and
\* perhaps an assignment, whose failure does not matter.
CreateReg(r) ==
    \E d \in Sites, o \in Outlooks \cup {Nothing} :
        ~reg[d].here /\ Begin(r, "create", "insert", <<d>>, o, Nothing) /\ Idles

InsertReg(r) ==
    /\ Has(r, "create", "insert") /\ Saves
    /\ IF reg[Here(r)].here THEN Done(r) /\ UNCHANGED reg
       ELSE /\ \E row \in {Pending, Entered(Given)} : reg' = [reg EXCEPT ![Here(r)] = row]
            /\ IF req[r].arg = Nothing THEN Done(r) ELSE Goto(r, "read")

AssignOutlook(r) ==
    \E d \in Sites, o \in Outlooks \cup {Nothing} : Begin(r, "assign_outlook", "read", <<d>>, o, Nothing) /\ Idles

Assigns(r, at) == req[r].op \in {"create", "assign_outlook"} /\ req[r].at = at

ReadForOutlook(r) ==
    /\ Assigns(r, "read") /\ Idles
    /\ IF ~Live(Here(r)) THEN Done(r)
       ELSE IF req[r].arg = Nothing THEN Holds(r, "save", ApplyIdentity(reg[Here(r)], Nothing))
       ELSE Holds(r, "account", reg[Here(r)])

ReadOutlook(r) ==
    /\ Assigns(r, "account") /\ Idles
    /\ IF Good(req[r].arg) THEN Goto(r, "holder") ELSE Done(r)

LookForHolder(r) ==
    /\ Assigns(r, "holder") /\ Idles
    /\ IF Holders(req[r].arg) \subseteq {Here(r)} THEN Holds(r, "save", ApplyIdentity(req[r].row, req[r].arg)) ELSE Done(r)

SaveOutlook(r) == Assigns(r, "save") /\ SaveReg(r) /\ Done(r) /\ Saves

\* batch_assign_outlook: the free accounts are read once, in two statements.
BatchAssignOutlook(r) ==
    \E ds \in Batches(Sites) :
        /\ Begin(r, "batch_outlook", "free", ds, {o \in Outlooks : Holders(o) # {}}, Nothing) /\ Idles

ReadFreeOutlooks(r) ==
    /\ Has(r, "batch_outlook", "free") /\ Idles
    /\ Becomes(r, [req[r] EXCEPT !.at = "read", !.arg = {o \in Outlooks : Good(o)} \ @])

ReadForBatch(r) ==
    /\ Has(r, "batch_outlook", "read") /\ Idles
    /\ IF ~Live(Here(r)) \/ reg[Here(r)].outlook # Nothing \/ req[r].arg = {} THEN NextItem(r, "read")
       ELSE \E o \in req[r].arg :
              /\ \A p \in req[r].arg : o <= p
              /\ Becomes(r, [req[r] EXCEPT !.at = "save", !.row = ApplyIdentity(reg[Here(r)], o), !.arg = @ \ {o}])

SaveBatch(r) == Has(r, "batch_outlook", "save") /\ SaveReg(r) /\ NextItem(r, "read") /\ Saves

\* soft_remove_cascade: both rows in one transaction.
RemoveRegs(r) == \E ds \in Batches(Sites) : Begin(r, "remove_regs", "read", ds, Nothing, Nothing) /\ Idles

ReadRemoved(r) ==
    /\ Has(r, "remove_regs", "read") /\ Idles
    /\ IF Live(Here(r)) THEN Holds(r, "save", [reg[Here(r)] EXCEPT !.deleted = TRUE]) ELSE NextItem(r, "read")

SaveRemoved(r) ==
    /\ Has(r, "remove_regs", "save") /\ SaveReg(r) /\ NextItem(r, "read") /\ UNCHANGED <<site, account, number>>
    /\ outlook' = IF req[r].row.outlook = Nothing THEN outlook ELSE [outlook EXCEPT ![req[r].row.outlook].deleted = TRUE]

\* The recycle bin restores a row in one statement, and nothing that went with it.
RestoreReg(r) ==
    \E d \in Sites :
        /\ reg[d].here /\ Begin(r, "restore", "reg", <<d>>, Nothing, Nothing) /\ Idles

RestoreOutlook(r) ==
    \E o \in Outlooks : Begin(r, "restore", "outlook", <<o>>, Nothing, Nothing) /\ Idles

Restored(r) ==
    /\ req[r].op = "restore" /\ Done(r) /\ UNCHANGED <<site, account, number>>
    /\ \/ req[r].at = "reg" /\ reg' = [reg EXCEPT ![Here(r)].deleted = FALSE] /\ UNCHANGED outlook
       \/ req[r].at = "outlook" /\ outlook' = [outlook EXCEPT ![Here(r)].deleted = FALSE] /\ UNCHANGED reg

SetStatus(r) ==
    \E d \in Sites, st \in {"pending", "failed"} :
        /\ reg[d].here /\ Begin(r, "set_status", "save", <<d>>, st, Nothing) /\ Idles

SaveStatus(r) ==
    /\ Has(r, "set_status", "save") /\ Done(r) /\ Saves
    /\ reg' = [reg EXCEPT ![Here(r)].status = req[r].arg]

-----------------------------------------------------------------------------
(* The telephone number and its code.                                      *)

GetPhone(r) ==
    \E d \in Sites :
        /\ reg[d].here /\ reg[d].request = Nothing
        /\ Begin(r, "get_phone", "buy", <<d>>, Nothing, reg[d]) /\ Idles

\* The request is repeated when its answer is lost, and buys a number each time.
BuyNumber(r) ==
    /\ Has(r, "get_phone", "buy") /\ UNCHANGED <<site, account, reg, outlook>>
    /\ \/ UNCHANGED number /\ Goto(r, "save")
       \/ \E n \in 1..2 :
            /\ Len(number) + n <= MaxNumbers /\ number' = number \o [i \in 1..n |-> "open"]
            /\ Holds(r, "save", [req[r].row EXCEPT !.request = Len(number) + n, !.status = "registering"])

SaveNumber(r) == Has(r, "get_phone", "save") /\ SaveReg(r) /\ Done(r) /\ Saves

WaitForSms(r) ==
    \E d \in Sites :
        /\ reg[d].here /\ reg[d].request # Nothing /\ reg[d].code = Nothing
        /\ Begin(r, "wait_sms", "poll", <<d>>, Nothing, reg[d]) /\ Idles

\* The polls end with the number's code, with an error, or with the time-out.
PollSms(r) ==
    /\ Has(r, "wait_sms", "poll") /\ Idles
    /\ \/ Goto(r, "save")
       \/ /\ number[req[r].row.request] = "open"
          /\ Holds(r, "save", [req[r].row EXCEPT !.code = req[r].row.request])

\* Mutant: only the code's column is saved.
SaveCodeOnly(r) ==
    /\ Has(r, "wait_sms", "save") /\ Done(r) /\ Saves
    /\ reg' = [reg EXCEPT ![Here(r)].code = req[r].row.code]

SaveCode(r) == Has(r, "wait_sms", "save") /\ SaveReg(r) /\ Done(r) /\ Saves

\* Whatever status SMSMan is told, the registration is complete.
ConfirmSms(r) ==
    \E d \in Sites, st \in {"used", "close"} :
        /\ reg[d].here /\ reg[d].request # Nothing
        /\ Begin(r, "confirm_sms", "tell", <<d>>, st, reg[d]) /\ Idles

TellSmsMan(r) ==
    /\ Has(r, "confirm_sms", "tell") /\ UNCHANGED <<site, account, reg, outlook>>
    /\ \/ Goto(r, "save") /\ UNCHANGED number
       \/ /\ number' = [number EXCEPT ![req[r].row.request] = req[r].arg]
          /\ Holds(r, "save", [req[r].row EXCEPT !.status = "completed"])

SaveConfirmed(r) == Has(r, "confirm_sms", "save") /\ SaveReg(r) /\ Done(r) /\ Saves

-----------------------------------------------------------------------------
(* Sites and their environments.                                           *)

\* batch_fetch_pending_sites: what is written depends on rows read before the
\* first of them is written.
FetchSites(r) ==
    /\ Begin(r, "fetch", "sites", <<>>, {s \in Sites : Served(s)}, Nothing) /\ Idles

ReadSites(r) ==
    /\ Has(r, "fetch", "sites") /\ Idles
    /\ LET ss == {s \in Sites : ~site[s].deleted} \ req[r].arg
       IN IF ss = {} THEN Done(r)
          ELSE \E todo \in [1..Cardinality(ss) -> ss] :
                 /\ {todo[i] : i \in DOMAIN todo} = ss
                 /\ Becomes(r, [req[r] EXCEPT !.at = "rows", !.todo = todo])

ReadRegs(r) ==
    /\ Has(r, "fetch", "rows") /\ Idles
    /\ Becomes(r, [req[r] EXCEPT !.at = "write", !.arg = {s \in Sites : reg[s].here /\ reg[s].deleted},
                                 !.row = {s \in Sites : reg[s].here}])

\* The row of the recycle bin is blank again; a row that exists by now is an error.
Revived(d) == Pending

FetchSite(r) ==
    /\ Has(r, "fetch", "write") /\ Saves
    /\ LET d == Here(r)
       IN reg' = IF d \in req[r].arg THEN [reg EXCEPT ![d] = Revived(d)]
                 ELSE IF d \in req[r].row \/ reg[d].here THEN reg
                 ELSE [reg EXCEPT ![d] = Pending]
    /\ IF Len(req[r].todo) = 1 THEN Done(r) ELSE Becomes(r, [req[r] EXCEPT !.todo = Tail(@)])

\* batch_assign_env_to_sites
AssignEnvs(r) == \E ds \in Batches(Sites) : Begin(r, "assign_env", "reg", ds, Nothing, Nothing) /\ Idles

ReadCompleted(r) ==
    /\ Has(r, "assign_env", "reg") /\ Idles
    /\ LET row == reg[Here(r)]
       IN IF row.here /\ row.status = "completed" /\ row.env THEN Goto(r, "site") ELSE NextItem(r, "reg")

ReadEnvSite(r) ==
    /\ Has(r, "assign_env", "site") /\ Idles
    /\ IF site[Here(r)].deleted THEN NextItem(r, "reg")
       ELSE Becomes(r, [req[r] EXCEPT !.at = "gmail", !.site = site[Here(r)]])

CheckGmail(r) ==
    /\ Has(r, "assign_env", "gmail") /\ Idles
    /\ IF Served(Here(r)) \/ req[r].site.env THEN NextItem(r, "reg") ELSE Goto(r, "save")

SaveEnv(r) ==
    /\ Has(r, "assign_env", "save") /\ NextItem(r, "reg") /\ UNCHANGED <<account, registering>>
    /\ site' = [site EXCEPT ![Here(r)] = [req[r].site EXCEPT !.env = TRUE]]

\* services/hubstudio_service.py: the report of a created environment is copied to
\* the domain's registration.
ReportEnv(r) ==
    \E d \in Sites :
        /\ Live(d) /\ ~reg[d].env
        /\ Begin(r, "report_env", "save", <<d>>, Nothing, [reg[d] EXCEPT !.env = TRUE, !.status = "env_created"]) /\ Idles

SaveReported(r) == Has(r, "report_env", "save") /\ SaveReg(r) /\ Done(r) /\ Saves

RegistrationNext(r) ==
    \/ CreateReg(r) \/ InsertReg(r) \/ AssignOutlook(r) \/ ReadForOutlook(r) \/ ReadOutlook(r)
    \/ LookForHolder(r) \/ SaveOutlook(r) \/ BatchAssignOutlook(r) \/ ReadFreeOutlooks(r)
    \/ ReadForBatch(r) \/ SaveBatch(r) \/ RemoveRegs(r) \/ ReadRemoved(r) \/ SaveRemoved(r)
    \/ RestoreReg(r) \/ RestoreOutlook(r) \/ Restored(r) \/ SetStatus(r) \/ SaveStatus(r)
    \/ GetPhone(r) \/ BuyNumber(r) \/ SaveNumber(r) \/ WaitForSms(r) \/ PollSms(r) \/ SaveCode(r)
    \/ ConfirmSms(r) \/ TellSmsMan(r) \/ SaveConfirmed(r)
    \/ FetchSites(r) \/ ReadSites(r) \/ ReadRegs(r) \/ FetchSite(r)
    \/ AssignEnvs(r) \/ ReadCompleted(r) \/ ReadEnvSite(r) \/ CheckGmail(r) \/ SaveEnv(r)
    \/ ReportEnv(r) \/ SaveReported(r)

-----------------------------------------------------------------------------
\* A code shown on a registration was sent to the number the registration shows,
\* although the wait for it lasts minutes in which the row is deleted, revived or
\* given another number (gmail_registration.py:331).
CodeOfItsNumber == \A d \in Sites : reg[d].code \in {Nothing, reg[d].request}

\* A registration with an Outlook account has that account's identity and no
\* other's, whatever was assigned, taken away or revived in between
\* (gmail_registration.py:83).
IdentityOfItsOutlook == \A d \in Sites : reg[d].outlook # Nothing => reg[d].identity = reg[d].outlook
=============================================================================
