------------------------------- MODULE StartUp -------------------------------
(***************************************************************************)
(* What a server process does before it serves (app/core/init_app.py): the *)
(* schema, and, once per version and under a lock in the database, the     *)
(* menus, the APIs and the roles; then, in every process, the providers,   *)
(* the two accounts and the configuration.  Processes start together, die  *)
(* in the middle, and belong to different versions while one replaces the  *)
(* other.  recover_stale_jobs is an action of GatewayTasks and HubJobs.    *)
(***************************************************************************)
EXTENDS Naturals, FiniteSets, TLC

CONSTANTS
    Procs, NoOne, Gone,     \* processes; nobody; the id of a process that has died
    Versions,               \* settings.VERSION, the marker's 0 apart
    Menus, Root, Parent,    \* paths of MENU_DEFINITIONS; the parent of each, or Root
    Declared,               \* the paths each version declares
    Apis, Routes,           \* APIs; those each version serves
    Prefixed, AgentApis,    \* the APIs a menu's prefixes match; those the agent needs
    Columns,                \* columns a database of an older version may lack
    Providers, Configs,     \* names in _PROVIDER_DEFAULTS and _config_defaults()
    Reset,                  \* settings.RESET_ADMIN_PASSWORD
    MaxStarts, MaxFaults, MaxEdits   \* bounds

ASSUME VersionsAssumption == Versions \subseteq Nat \ {0}
ASSUME ProcsAssumption == NoOne \notin Procs /\ Gone \notin Procs /\ NoOne # Gone
ASSUME MenusAssumption ==
    /\ Root \notin Menus /\ Parent \in [Menus -> Menus \cup {Root}]
    /\ \A m \in Menus : Parent[m] # Root => Parent[Parent[m]] = Root
    /\ Declared \in [Versions -> SUBSET Menus]
    /\ \A v \in Versions : \A m \in Declared[v] : Parent[m] \in Declared[v] \cup {Root}
ASSUME ApisAssumption ==
    Routes \in [Versions -> SUBSET Apis] /\ Prefixed \in [Menus -> SUBSET Apis] /\ AgentApis \subseteq Apis
ASSUME BoundsAssumption == {MaxStarts, MaxFaults, MaxEdits} \subseteq Nat /\ Reset \in BOOLEAN

Roles == {"admin", "user", "hub_agent"}

\* The row of a menu: its path, who created its parent's row, who created it.
\* No unique key keeps a path from having several.
MenuRows == [path : Menus, under : Procs \cup {NoOne}, by : Procs]

ProviderRows == [name : Providers, by : Procs]

Values == [value : {"default", "edited"}, meta : Versions]

VARIABLES
    proc,      \* where each process is, its version, what it has read, its loops, and
               \* the role in turn with the menus it was given and has no APIs for yet
    starts, faults, edits,
    columns,   \* the columns that are in place
    lock,      \* the row of system_init_lock: its instance_id, and whether it has expired
    outlived,  \* the processes whose lock expired while they synchronised (history)
    mark,      \* the value of system_init_version, 0 when there is none
    menus, hidden, apis,     \* the tables, and the menus that are hidden
    roles, menusOf, apisOf,  \* the roles there are, and what each is granted
    providers, item, config, \* the providers and the values under them and in config
    users, active, bound     \* the accounts, whether the administrator may log in, and who has its role

lockVars  == <<lock, outlived>>
menuVars  == <<menus, hidden>>
roleVars  == <<roles, menusOf, apisOf>>
valueVars == <<providers, item, config>>
userVars  == <<users, active, bound>>
counters  == <<starts, faults, edits>>
vars == <<proc, counters, columns, lockVars, mark, menuVars, apis, roleVars, valueVars, userVars>>

\* The steps under the lock.
Locked == {"menus", "item", "prune", "routes", "roles", "create", "admin", "adminmenus", "user", "userapis",
           "sync", "syncapis", "agent", "bindroles", "release"}

Steps == Locked \cup {"down", "db", "check", "lock", "mark", "providers", "newproviders", "items", "newitems",
                      "accounts", "bind", "config", "newconfig", "up"}

Syncing == {i \in Procs : proc[i].pc \in Locked}

Free == [by |-> NoOne, expired |-> FALSE]

Down == [pc |-> "down", ver |-> 0, seen |-> {}, ids |-> <<>>, todo |-> {}, role |-> "none", due |-> {}]

Init ==
    /\ proc = [i \in Procs |-> Down]
    /\ starts = 0 /\ faults = 0 /\ edits = 0
    /\ columns = {} /\ lock = Free /\ outlived = {} /\ mark = 0
    /\ menus = {} /\ hidden = {} /\ apis = {}
    /\ roles = {} /\ menusOf = [r \in Roles |-> {}] /\ apisOf = [r \in Roles |-> {}]
    /\ providers = {} /\ item = <<>> /\ config = <<>>
    /\ users = {} /\ active = FALSE /\ bound = {}

Version(i) == proc[i].ver

At(i, pc) == proc[i].pc = pc

Go(i, pc) == proc' = [proc EXCEPT ![i].pc = pc]

Read(i, pc, table) == proc' = [proc EXCEPT ![i].pc = pc, ![i].seen = table]

------------------------------------------------------------------------------
(* Processes start, in any version, stop and die; a lock expires.           *)

Start(i, v) ==
    /\ At(i, "down") /\ starts < MaxStarts
    /\ starts' = starts + 1
    /\ proc' = [proc EXCEPT ![i] = [Down EXCEPT !.pc = "db", !.ver = v]]
    /\ UNCHANGED <<faults, edits, columns, lockVars, mark, menuVars, apis, roleVars, valueVars, userVars>>

\* The id is made anew in every process, so that nobody can release the lock of
\* one that has died.
Die(i) ==
    /\ ~At(i, "down")
    /\ At(i, "up") \/ faults < MaxFaults
    /\ faults' = IF At(i, "up") THEN faults ELSE faults + 1
    /\ proc' = [proc EXCEPT ![i] = Down]
    /\ lock' = IF lock.by = i THEN [lock EXCEPT !.by = Gone] ELSE lock
    /\ outlived' = outlived \ {i}
    /\ UNCHANGED <<starts, edits, columns, mark, menuVars, apis, roleVars, valueVars, userVars>>

\* A query of the synchronisation fails: the lock is released, the start given up.
Raise(i) ==
    /\ i \in Syncing /\ faults < MaxFaults
    /\ faults' = faults + 1
    /\ lock' = IF lock.by = i THEN Free ELSE lock
    /\ outlived' = outlived \ {i}
    /\ proc' = [proc EXCEPT ![i] = Down]
    /\ UNCHANGED <<starts, edits, columns, mark, menuVars, apis, roleVars, valueVars, userVars>>

Expire ==
    /\ lock.by # NoOne /\ ~lock.expired
    /\ lock.by = Gone \/ faults < MaxFaults
    /\ faults' = IF lock.by = Gone THEN faults ELSE faults + 1
    /\ lock' = [lock EXCEPT !.expired = TRUE]
    /\ outlived' = outlived \cup (Procs \cap {lock.by})
    /\ UNCHANGED <<proc, starts, edits, columns, mark, menuVars, apis, roleVars, valueVars, userVars>>

------------------------------------------------------------------------------
(* The schema, the mark and the lock.                                       *)

\* An ALTER TABLE that fails, as when another process was first, is passed over.
InitDb(i) ==
    /\ At(i, "db") /\ Go(i, "check")
    /\ columns' = Columns
    /\ UNCHANGED <<counters, lockVars, mark, menuVars, apis, roleVars, valueVars, userVars>>

IsInitCompleted(i) ==
    /\ At(i, "check")
    /\ Go(i, IF mark = Version(i) THEN "providers" ELSE "lock")
    /\ UNCHANGED <<counters, columns, lockVars, mark, menuVars, apis, roleVars, valueVars, userVars>>

TryAcquireReplacing(i) ==
    /\ At(i, "lock") /\ Go(i, "menus")
    /\ lock' = [Free EXCEPT !.by = i]
    /\ UNCHANGED <<counters, columns, outlived, mark, menuVars, apis, roleVars, valueVars, userVars>>

\* An expired row is deleted and another inserted; when one is left, the insertion
\* fails and the synchronisation is skipped.
TryAcquire(i) ==
    /\ At(i, "lock")
    /\ IF lock.by = NoOne \/ lock.expired
       THEN Go(i, "menus") /\ lock' = [Free EXCEPT !.by = i]
       ELSE Go(i, "mark") /\ lock' = lock
    /\ UNCHANGED <<counters, columns, outlived, mark, menuVars, apis, roleVars, valueVars, userVars>>

\* The row is deleted if it is this process's own.
Release(i) ==
    /\ At(i, "release") /\ Go(i, "mark")
    /\ lock' = IF lock.by = i THEN Free ELSE lock
    /\ outlived' = outlived \ {i}
    /\ UNCHANGED <<counters, columns, mark, menuVars, apis, roleVars, valueVars, userVars>>

\* By who synchronised and by who was refused the lock alike.
MarkInitCompleted(i) ==
    /\ At(i, "mark") /\ Go(i, "providers")
    /\ mark' = Version(i)
    /\ UNCHANGED <<counters, columns, lockVars, menuVars, apis, roleVars, valueVars, userVars>>

------------------------------------------------------------------------------
(* init_menus                                                               *)

ReadMenus(i) ==
    /\ At(i, "menus")
    /\ Read(i, "item", [rows |-> menus, hidden |-> hidden])
    /\ UNCHANGED <<counters, columns, lockVars, mark, menuVars, apis, roleVars, valueVars, userVars>>

\* Roots before children, each of which needs its parent's row.
NextItems(i) ==
    LET left == Declared[Version(i)] \ DOMAIN proc[i].ids
        roots == {m \in left : Parent[m] = Root}
    IN  IF roots # {} THEN roots ELSE left

\* Of several rows with that path and parent, one is kept up to date.
MenuItem(i, m) ==
    LET under == IF Parent[m] = Root THEN NoOne ELSE proc[i].ids[Parent[m]]
        found == {r \in proc[i].seen.rows : r.path = m /\ r.under = under}
        Placed(by) == proc' = [proc EXCEPT ![i].ids = [k \in DOMAIN @ \cup {m} |-> IF k = m THEN by ELSE @[k]]]
    IN  /\ At(i, "item") /\ m \in NextItems(i)
        /\ \/ \E r \in found :
                /\ Placed(r.by)
                /\ hidden' = IF r \in proc[i].seen.hidden THEN hidden \ {r} ELSE hidden
                /\ UNCHANGED menus
           \/ /\ found = {} /\ Placed(i)
              /\ menus' = menus \cup {[path |-> m, under |-> under, by |-> i]}
              /\ UNCHANGED hidden
        /\ UNCHANGED <<counters, columns, lockVars, mark, apis, roleVars, valueVars, userVars>>

HideMenus(i) ==
    /\ At(i, "item") /\ NextItems(i) = {}
    /\ proc' = [proc EXCEPT ![i] = [Down EXCEPT !.pc = "prune", !.ver = Version(i)]]
    /\ hidden' = hidden \cup {r \in proc[i].seen.rows : r.path \notin Declared[Version(i)]}
    /\ UNCHANGED <<counters, columns, lockVars, mark, menus, apis, roleVars, valueVars, userVars>>

------------------------------------------------------------------------------
(* init_apis                                                                *)

\* A row that goes takes the grants of it along.
PruneApis(i) ==
    /\ At(i, "prune") /\ Go(i, "routes")
    /\ apis' = apis \cap Routes[Version(i)]
    /\ apisOf' = [r \in Roles |-> apisOf[r] \cap Routes[Version(i)]]
    /\ UNCHANGED <<counters, columns, lockVars, mark, menuVars, roles, menusOf, valueVars, userVars>>

AddApis(i) ==
    /\ At(i, "routes") /\ Go(i, "roles")
    /\ apis' = apis \cup Routes[Version(i)]
    /\ UNCHANGED <<counters, columns, lockVars, mark, menuVars, roleVars, valueVars, userVars>>

------------------------------------------------------------------------------
(* init_roles: roles that are missing are created and given all they may     *)
(* have; when all are there, each is given what is new.  Every creation and  *)
(* every grant is a statement of its own.                                    *)

InitRoles(i) ==
    /\ At(i, "roles")
    /\ proc' = [proc EXCEPT ![i].pc = IF roles = Roles THEN "sync" ELSE "create", ![i].todo = Roles,
                            ![i].seen = [menus |-> menus, apis |-> apis]]
    /\ UNCHANGED <<counters, columns, lockVars, mark, menuVars, apis, roleVars, valueVars, userVars>>

\* get_or_create, for one role after the other.
CreateRole(i, r) ==
    /\ At(i, "create") /\ r \in proc[i].todo
    /\ r # "admin" => "admin" \notin proc[i].todo
    /\ r = "hub_agent" => "user" \notin proc[i].todo
    /\ proc' = [proc EXCEPT ![i].todo = @ \ {r}]
    /\ roles' = roles \cup {r}
    /\ UNCHANGED <<counters, columns, lockVars, mark, menuVars, apis, menusOf, apisOf, valueVars, userVars>>

CreatedRoles(i) ==
    /\ At(i, "create") /\ proc[i].todo = {}
    /\ Read(i, "admin", [menus |-> menus, apis |-> apis])
    /\ UNCHANGED <<counters, columns, lockVars, mark, menuVars, apis, roleVars, valueVars, userVars>>

\* The APIs of a set of menus, by the prefixes of their paths.
Matched(rows) == UNION {Prefixed[r.path] : r \in rows}

\* Of the APIs that were read, and are still there.
Grant(i, r, rows, granted) ==
    /\ menusOf' = [menusOf EXCEPT ![r] = @ \cup rows]
    /\ apisOf' = [apisOf EXCEPT ![r] = @ \cup (granted \cap proc[i].seen.apis \cap apis)]
    /\ UNCHANGED <<counters, columns, lockVars, mark, menuVars, apis, roles, valueVars, userVars>>

GrantAdmin(i) == At(i, "admin") /\ Go(i, "adminmenus") /\ Grant(i, "admin", {}, Apis)

GrantAdminMenus(i) == At(i, "adminmenus") /\ Go(i, "user") /\ Grant(i, "admin", proc[i].seen.menus, {})

GrantUser(i) == At(i, "user") /\ Go(i, "userapis") /\ Grant(i, "user", proc[i].seen.menus, {})

GrantUserApis(i) == At(i, "userapis") /\ Go(i, "agent") /\ Grant(i, "user", {}, Matched(proc[i].seen.menus))

\* The row of a child's parent.
Above(m) == [path |-> Parent[m.path], under |-> NoOne, by |-> m.under]

\* What is new to a role: a root for the administrator, a child for whoever had
\* its parent before.
NewMenus(i, r) ==
    {m \in proc[i].seen.menus \ menusOf[r] : IF m.under = NoOne THEN r = "admin" ELSE Above(m) \in menusOf[r]}

\* Role r's turn: it gets these menus, and its APIs are to follow.
InTurn(i, r, due) ==
    /\ At(i, "sync") /\ r \in proc[i].todo
    /\ proc' = [proc EXCEPT ![i].todo = @ \ {r}, ![i].due = due,
                            ![i].role = IF due = {} THEN "none" ELSE r,
                            ![i].pc = IF due = {} THEN "sync" ELSE "syncapis"]
    /\ Grant(i, r, NewMenus(i, r), {})

SyncRoleLoosely(i, r) == InTurn(i, r, proc[i].seen.menus \ menusOf[r])

SyncRole(i, r) == InTurn(i, r, NewMenus(i, r))

GrantMenuApis(i) ==
    /\ At(i, "syncapis") /\ proc' = [proc EXCEPT ![i].pc = "sync", ![i].role = "none", ![i].due = {}]
    /\ Grant(i, proc[i].role, {}, Matched(proc[i].due))

\* The APIs are read again, for the agent.
SyncedRoles(i) ==
    /\ At(i, "sync") /\ proc[i].todo = {}
    /\ Read(i, "agent", [menus |-> {}, apis |-> apis])
    /\ UNCHANGED <<counters, columns, lockVars, mark, menuVars, apis, roleVars, valueVars, userVars>>

GrantAgent(i) ==
    /\ At(i, "agent") /\ Go(i, "bindroles")
    /\ Grant(i, "hub_agent", {}, AgentApis)

\* Whoever is both an account and a role.
BindRolesFirst(i) ==
    /\ At(i, "bindroles") /\ Read(i, "release", {})
    /\ bound' = bound \cup (users \cap roles)
    /\ UNCHANGED <<counters, columns, lockVars, mark, menuVars, apis, roleVars, valueVars, users, active>>

------------------------------------------------------------------------------
(* init_providers and init_configs, which no lock keeps apart.              *)

\* What is missing is created and what a version describes otherwise is saved, the
\* whole row as it was read, which puts back the value of then.
Upserted(table, seen, keys, v) ==
    [k \in DOMAIN table \cup keys |->
        IF k \in keys /\ k \notin DOMAIN seen THEN [value |-> "default", meta |-> v]
        ELSE IF k \in keys /\ seen[k].meta # v THEN [seen[k] EXCEPT !.meta = v]
        ELSE table[k]]

\* Another process has created one of the rows meanwhile: the unique key refuses it.
Refused(table, seen, keys) == (keys \cap DOMAIN table) \ DOMAIN seen # {}

ReadProviders(i) ==
    /\ At(i, "providers")
    /\ Read(i, "newproviders", providers)
    /\ UNCHANGED <<counters, columns, lockVars, mark, menuVars, apis, roleVars, valueVars, userVars>>

\* No unique key keeps a name from being created twice.
CreateProviders(i) ==
    /\ At(i, "newproviders")
    /\ Read(i, "items", {})
    /\ providers' = providers \cup [name : Providers \ {p.name : p \in proc[i].seen}, by : {i}]
    /\ UNCHANGED <<counters, columns, lockVars, mark, menuVars, apis, roleVars, item, config, userVars>>

ReadItems(i) ==
    /\ At(i, "items")
    /\ Read(i, "newitems", item)
    /\ UNCHANGED <<counters, columns, lockVars, mark, menuVars, apis, roleVars, valueVars, userVars>>

\* Under one of the providers of each name.
SyncItems(i) ==
    LET seen == proc[i].seen IN
    /\ At(i, "newitems")
    /\ \E keys \in SUBSET providers :
        /\ {k.name : k \in keys} = Providers /\ Cardinality(keys) = Cardinality(Providers)
        /\ IF Refused(item, seen, keys)
           THEN proc' = [proc EXCEPT ![i] = Down] /\ item' = item
           ELSE Read(i, "accounts", {}) /\ item' = Upserted(item, seen, keys, Version(i))
    /\ UNCHANGED <<counters, columns, lockVars, mark, menuVars, apis, roleVars, providers, config, userVars>>

ReadConfigs(i) ==
    /\ At(i, "config")
    /\ Read(i, "newconfig", config)
    /\ UNCHANGED <<counters, columns, lockVars, mark, menuVars, apis, roleVars, valueVars, userVars>>

SyncConfigs(i) ==
    LET seen == proc[i].seen IN
    /\ At(i, "newconfig")
    /\ IF Refused(config, seen, Configs)
       THEN proc' = [proc EXCEPT ![i] = Down] /\ config' = config
       ELSE Read(i, "up", {}) /\ config' = Upserted(config, seen, Configs, Version(i))
    /\ UNCHANGED <<counters, columns, lockVars, mark, menuVars, apis, roleVars, providers, item, userVars>>

------------------------------------------------------------------------------
(* init_superuser                                                           *)

\* Whoever has been made is repaired: with a password to reset, the password alone
\* is saved.
InitSuperuser(i) ==
    /\ At(i, "accounts") /\ Go(i, "bind")
    /\ users' = {"admin", "hub_agent"}
    /\ active' = (active \/ "admin" \notin users \/ ~Reset)
    /\ UNCHANGED <<counters, columns, lockVars, mark, menuVars, apis, roleVars, valueVars, bound>>

BindRolesUnchecked(i) ==
    /\ At(i, "bind") /\ Go(i, "config")
    /\ bound' = bound \cup roles
    /\ UNCHANGED <<counters, columns, lockVars, mark, menuVars, apis, roleVars, valueVars, users, active>>

\* A role and an account that are both there.
BindRoles(i) ==
    /\ At(i, "bind") /\ Go(i, "config")
    /\ bound' = bound \cup (users \cap roles)
    /\ UNCHANGED <<counters, columns, lockVars, mark, menuVars, apis, roleVars, valueVars, users, active>>

------------------------------------------------------------------------------
(* What users change meanwhile: a value, or who may log in.                 *)

EditItem(k) ==
    /\ edits < MaxEdits /\ edits' = edits + 1
    /\ k \in DOMAIN item
    /\ item' = [item EXCEPT ![k].value = "edited"]
    /\ UNCHANGED <<proc, starts, faults, columns, lockVars, mark, menuVars, apis, roleVars, providers, config, userVars>>

Deactivate ==
    /\ edits < MaxEdits /\ edits' = edits + 1
    /\ active /\ active' = FALSE
    /\ UNCHANGED <<proc, starts, faults, columns, lockVars, mark, menuVars, apis, roleVars, valueVars, users, bound>>

------------------------------------------------------------------------------
InitEssential(i) ==
    \/ InitDb(i) \/ IsInitCompleted(i) \/ TryAcquire(i)
    \/ ReadMenus(i) \/ \E m \in Menus : MenuItem(i, m)
    \/ HideMenus(i) \/ PruneApis(i) \/ AddApis(i)
    \/ InitRoles(i) \/ \E r \in Roles : CreateRole(i, r) \/ SyncRole(i, r)
    \/ CreatedRoles(i) \/ GrantAdmin(i) \/ GrantAdminMenus(i) \/ GrantUser(i) \/ GrantUserApis(i)
    \/ GrantMenuApis(i) \/ SyncedRoles(i) \/ GrantAgent(i) \/ BindRolesFirst(i)
    \/ Release(i) \/ MarkInitCompleted(i)
    \/ ReadProviders(i) \/ CreateProviders(i) \/ ReadItems(i) \/ SyncItems(i)

InitData(i) ==
    InitEssential(i) \/ InitSuperuser(i) \/ BindRoles(i) \/ ReadConfigs(i) \/ SyncConfigs(i)

Next ==
    \/ \E i \in Procs : InitData(i) \/ Die(i) \/ Raise(i) \/ \E v \in Versions : Start(i, v)
    \/ Expire
    \/ \E k \in ProviderRows : EditItem(k)
    \/ Deactivate

Spec == Init /\ [][Next]_vars

------------------------------------------------------------------------------
(* Properties                                                               *)

TypeOK ==
    /\ \A i \in Procs :
        /\ proc[i].pc \in Steps /\ proc[i].ver \in Versions \cup {0} /\ proc[i].todo \subseteq Roles
        /\ DOMAIN proc[i].ids \subseteq Menus /\ \A m \in DOMAIN proc[i].ids : proc[i].ids[m] \in Procs
        /\ proc[i].role \in Roles \cup {"none"} /\ proc[i].due \subseteq MenuRows
    /\ starts \in 0..MaxStarts /\ faults \in 0..MaxFaults /\ edits \in 0..MaxEdits
    /\ columns \subseteq Columns /\ mark \in Versions \cup {0}
    /\ lock \in [by : Procs \cup {NoOne, Gone}, expired : BOOLEAN] /\ outlived \subseteq Syncing
    /\ menus \subseteq MenuRows /\ hidden \subseteq menus /\ apis \subseteq Apis
    /\ roles \subseteq Roles /\ menusOf \in [Roles -> SUBSET menus] /\ apisOf \in [Roles -> SUBSET apis]
    /\ \A r \in Roles \ roles : menusOf[r] = {} /\ apisOf[r] = {}
    /\ providers \subseteq ProviderRows
    /\ DOMAIN item \subseteq providers /\ \A k \in DOMAIN item : item[k] \in Values
    /\ DOMAIN config \subseteq Configs /\ \A k \in DOMAIN config : config[k] \in Values
    /\ users \subseteq Roles /\ active \in BOOLEAN /\ bound \subseteq users

\* The lock: of the processes that synchronise at the same time, all but one have
\* outlived the five minutes theirs is good for.
OneSynchronises == Cardinality(Syncing \ outlived) <= 1

\* Whatever starts, deaths and upgrades there have been, an ordinary user may call
\* only what the menus it has lead to, and the agent, which has no menu, only what
\* it needs ("仅 API 无菜单", init_app.py:781).
LeastPrivilege ==
    /\ apisOf["user"] \subseteq UNION {Prefixed[r.path] : r \in menusOf["user"]}
    /\ menusOf["hub_agent"] = {} /\ apisOf["hub_agent"] \subseteq AgentApis

\* What the mark says ("标记当前版本初始化完成", init_app.py:1079): when it names a
\* version and nobody is at work, every menu of that version is there.
MarkedIsSynchronised ==
    mark # 0 /\ Syncing = {} => Declared[mark] \subseteq {r.path : r \in menus}

\* "只补缺失不覆盖已有" (init_app.py:1135): what a user has set stays.
EditsKept == [][\A k \in DOMAIN item : item[k].value = "edited" => item'[k].value = "edited"]_item
=============================================================================
