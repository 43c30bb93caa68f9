--------------------------- MODULE StartUp_proofs ----------------------------
(***************************************************************************)
(* Proofs about StartUp, for any number of processes, versions and deaths. *)
(*   TypeInv       types, and what a process has read, by where it is: a   *)
(*                 row it has read of a table whose rows stay is there;    *)
(*   LockInv       the lock of a process that synchronises and that nobody *)
(*                 outlived is its own;                                    *)
(*   PrivilegeInv  a process about to grant the user's APIs has granted    *)
(*                 the menus they are matched from, and the agent is given *)
(*                 none, as no row is the child of one it has.             *)
(***************************************************************************)
EXTENDS StartUp, FiniteSetTheorems, TLAPS

\* What a process may hold of a table.
MenusRead   == [rows : SUBSET MenuRows, hidden : SUBSET MenuRows]
GrantsRead  == [menus : SUBSET MenuRows, apis : SUBSET Apis]
ItemsRead   == UNION {[keys -> Values] : keys \in SUBSET ProviderRows}
ConfigsRead == UNION {[keys -> Values] : keys \in SUBSET Configs}
Held == (SUBSET ProviderRows) \cup MenusRead \cup GrantsRead \cup ItemsRead \cup ConfigsRead

\* The menus a process has placed, and who made the row of each.
Placements == UNION {[placed -> Procs] : placed \in SUBSET Menus}

Process == [pc : Steps, ver : Versions \cup {0}, seen : Held,
            ids : Placements, todo : SUBSET Roles, role : Roles \cup {"none"}, due : SUBSET MenuRows]

\* The steps at which all roles are there and get their grants.
Granting == {"admin", "adminmenus", "user", "userapis", "sync", "syncapis", "agent"}

\* What process i has read: of a table whose rows stay, rows that are there.
SeenOf(i) ==
    /\ proc[i].pc # "down" => proc[i].ver \in Versions
    /\ proc[i].pc = "item" =>
        proc[i].seen \in [rows : SUBSET menus, hidden : SUBSET MenuRows]
    /\ proc[i].pc \in Granting =>
        proc[i].seen \in [menus : SUBSET menus, apis : SUBSET Apis] /\ roles = Roles
    /\ proc[i].pc = "create" => Roles \ proc[i].todo \subseteq roles
    /\ proc[i].pc = "syncapis" => proc[i].role \in Roles
    /\ proc[i].pc = "newproviders" => proc[i].seen \subseteq ProviderRows
    /\ proc[i].pc = "newitems" => \E keys \in SUBSET DOMAIN item : proc[i].seen \in [keys -> Values]
    /\ proc[i].pc = "newconfig" => \E keys \in SUBSET DOMAIN config : proc[i].seen \in [keys -> Values]

TypeInv ==
    /\ TypeOK
    /\ proc \in [Procs -> Process]
    /\ item \in [DOMAIN item -> Values] /\ config \in [DOMAIN config -> Values]
    /\ users \subseteq {"admin", "hub_agent"}
    /\ \A i \in Procs : SeenOf(i)

\* The holder of the lock synchronises, and whoever synchronises with a lock
\* that has not run out holds it.
LockInv ==
    /\ lock.by \in Procs => lock.by \in Syncing
    /\ \A i \in Syncing \ outlived : lock.by = i /\ ~lock.expired

\* The menus whose APIs process i is about to grant are granted.
MenusFirst(i) ==
    /\ proc[i].pc = "userapis" => proc[i].seen.menus \subseteq menusOf["user"]
    /\ proc[i].pc = "syncapis" =>
        /\ proc[i].role # "hub_agent"
        /\ proc[i].role = "user" => proc[i].due \subseteq menusOf["user"]

PrivilegeInv == LeastPrivilege /\ \A i \in Procs : MenusFirst(i)

IInv == TypeInv /\ LockInv /\ PrivilegeInv

------------------------------------------------------------------------------
(* Types.                                                                   *)

Locks == [by : Procs \cup {NoOne, Gone}, expired : BOOLEAN]

\* The tables, the lock and the counters have their types.
Tables ==
    /\ starts \in 0..MaxStarts /\ faults \in 0..MaxFaults /\ edits \in 0..MaxEdits
    /\ columns \subseteq Columns /\ mark \in Versions \cup {0}
    /\ lock \in Locks
    /\ menus \subseteq MenuRows /\ hidden \subseteq menus /\ apis \subseteq Apis
    /\ roles \subseteq Roles /\ menusOf \in [Roles -> SUBSET menus] /\ apisOf \in [Roles -> SUBSET apis]
    /\ \A r \in Roles \ roles : menusOf[r] = {} /\ apisOf[r] = {}
    /\ providers \subseteq ProviderRows
    /\ DOMAIN item \subseteq providers /\ item \in [DOMAIN item -> Values]
    /\ DOMAIN config \subseteq Configs /\ config \in [DOMAIN config -> Values]
    /\ users \subseteq {"admin", "hub_agent"} /\ active \in BOOLEAN /\ bound \subseteq users

\* TypeInv in the parts the proofs below establish.
TypeParts ==
    /\ proc \in [Procs -> Process] /\ Tables /\ outlived \subseteq Syncing
    /\ \A i \in Procs : SeenOf(i)

\* Only process i moves, and what it becomes is one.
Moved(i) == proc' \in [Procs -> Process] /\ \A j \in Procs \ {i} : proc'[j] = proc[j]

\* Process i moves to step s, and nothing else of it changes.
MovedTo(i, s) ==
    /\ Moved(i) /\ proc'[i].pc = s
    /\ proc'[i].ver = proc[i].ver /\ proc'[i].seen = proc[i].seen
    /\ proc'[i].ids = proc[i].ids /\ proc'[i].todo = proc[i].todo
    /\ proc'[i].role = proc[i].role /\ proc'[i].due = proc[i].due

\* Rows that stay.
RowsStay == menus \subseteq menus' /\ roles \subseteq roles' /\ DOMAIN item \subseteq DOMAIN item'
            /\ DOMAIN config \subseteq DOMAIN config'

\* A count below its bound may be raised.
LEMMA Bounds ==
    /\ 0 \in 0..MaxStarts /\ 0 \in 0..MaxFaults /\ 0 \in 0..MaxEdits
    /\ \A n \in 0..MaxStarts : n < MaxStarts => n + 1 \in 0..MaxStarts
    /\ \A n \in 0..MaxFaults : n < MaxFaults => n + 1 \in 0..MaxFaults
    /\ \A n \in 0..MaxEdits : n < MaxEdits => n + 1 \in 0..MaxEdits
<1>1. MaxStarts \in Nat /\ MaxFaults \in Nat /\ MaxEdits \in Nat
  BY BoundsAssumption
<1>2. QED
  BY <1>1

\* What may be read of each table may be held.
LEMMA HeldTables ==
    /\ SUBSET ProviderRows \subseteq Held /\ MenusRead \subseteq Held /\ GrantsRead \subseteq Held
    /\ ItemsRead \subseteq Held /\ ConfigsRead \subseteq Held
BY DEF Held

\* The locks there are: free, newly taken, of one that has died, expired.
LEMMA LocksTyped ==
    /\ Free \in Locks /\ \A i \in Procs : [Free EXCEPT !.by = i] \in Locks
    /\ \A l \in Locks : [l EXCEPT !.by = Gone] \in Locks /\ [l EXCEPT !.expired = TRUE] \in Locks
BY DEF Locks, Free

\* A process that has a typed state has typed fields.
LEMMA FieldsTyped ==
    ASSUME proc \in [Procs -> Process], NEW i \in Procs
    PROVE  /\ proc[i].pc \in Steps /\ proc[i].ver \in Versions \cup {0} /\ proc[i].todo \subseteq Roles
           /\ proc[i].role \in Roles \cup {"none"} /\ proc[i].due \subseteq MenuRows
           /\ proc[i].seen \in Held
           /\ DOMAIN proc[i].ids \subseteq Menus /\ \A m \in DOMAIN proc[i].ids : proc[i].ids[m] \in Procs
<1>1. proc[i] \in Process
  OBVIOUS
<1>2. PICK placed \in SUBSET Menus : proc[i].ids \in [placed -> Procs]
  BY <1>1 DEF Process, Placements
<1>3. QED
  BY <1>1, <1>2 DEF Process

\* The parts are the whole.
LEMMA TypeInvParts == TypeInv <=> TypeParts
<1>1. ASSUME TypeInv PROVE Tables
  BY <1>1 DEF TypeInv, TypeOK, Tables, Locks
<1>2. ASSUME TypeInv PROVE outlived \subseteq Syncing
  BY <1>2 DEF TypeInv, TypeOK
<1>3. ASSUME proc \in [Procs -> Process], Tables, outlived \subseteq Syncing PROVE TypeOK
  BY <1>3, FieldsTyped DEF TypeOK, Tables, Locks, Roles
<1>4. Tables => /\ item \in [DOMAIN item -> Values] /\ config \in [DOMAIN config -> Values]
                /\ users \subseteq {"admin", "hub_agent"}
  BY DEF Tables
<1>5. QED
  BY <1>1, <1>2, <1>3, <1>4 DEF TypeInv, TypeParts

\* What a process has read stays right while it does not move and rows stay.
LEMMA SeenStays ==
    ASSUME NEW j \in Procs, SeenOf(j), proc'[j] = proc[j], RowsStay, roles' \subseteq Roles
    PROVE  SeenOf(j)'
<1>1. SUBSET menus \subseteq SUBSET menus'
  BY DEF RowsStay
<1>2. [rows : SUBSET menus, hidden : SUBSET MenuRows] \subseteq [rows : SUBSET menus', hidden : SUBSET MenuRows]
  BY <1>1
<1>3. [menus : SUBSET menus, apis : SUBSET Apis] \subseteq [menus : SUBSET menus', apis : SUBSET Apis]
  BY <1>1
<1>4. SUBSET DOMAIN item \subseteq SUBSET DOMAIN item' /\ SUBSET DOMAIN config \subseteq SUBSET DOMAIN config'
  BY DEF RowsStay
<1>5. roles = Roles => roles' = Roles
  BY DEF RowsStay
<1>6. QED
  BY <1>2, <1>3, <1>4, <1>5 DEF SeenOf, RowsStay

\* A step of one process keeps TypeInv when it keeps the tables' types, rows stay,
\* what the process then holds is right, and it is counted among those whose
\* lock expired only while it synchronises.
LEMMA OneMoves ==
    ASSUME TypeInv, NEW i \in Procs, Moved(i), Tables', RowsStay, SeenOf(i)',
           outlived' \subseteq outlived, i \in outlived' => proc'[i].pc \in Locked
    PROVE  TypeInv'
<1>1. \A j \in Procs : SeenOf(j)'
  BY SeenStays DEF Moved, TypeInv, Tables
<1>2. outlived' \subseteq Syncing'
  BY TypeInvParts DEF TypeParts, Moved, Syncing
<1>3. TypeParts'
  BY <1>1, <1>2 DEF TypeParts, Moved
<1>4. TypeParts' => TypeInv'
  BY TypeInvParts, PTL
<1>5. QED
  BY <1>3, <1>4

\* Go moves a process.
LEMMA GoMoves ==
    ASSUME TypeInv, NEW i \in Procs, NEW s \in Steps, Go(i, s)
    PROVE  MovedTo(i, s)
<1>1. proc \in [Procs -> Process]
  BY DEF TypeInv
<1>2. proc' = [proc EXCEPT ![i] = [proc[i] EXCEPT !.pc = s]]
  BY DEF Go
<1>3. [proc[i] EXCEPT !.pc = s] \in Process
  BY <1>1 DEF Process
<1>4. QED
  BY <1>1, <1>2, <1>3 DEF MovedTo, Moved, Process

\* Read moves a process that then holds a table.
LEMMA ReadMoves ==
    ASSUME TypeInv, NEW i \in Procs, NEW s \in Steps, NEW table \in Held, Read(i, s, table)
    PROVE  Moved(i) /\ proc'[i].pc = s /\ proc'[i].seen = table /\ proc'[i].ver = proc[i].ver
<1>1. proc \in [Procs -> Process]
  BY DEF TypeInv
<1>2. proc' = [proc EXCEPT ![i] = [proc[i] EXCEPT !.pc = s, !.seen = table]]
  BY <1>1 DEF Read, Process
<1>3. [proc[i] EXCEPT !.pc = s, !.seen = table] \in Process
  BY <1>1 DEF Process
<1>4. QED
  BY <1>1, <1>2, <1>3 DEF Moved, Process

\* A new state of a process moves it.
LEMMA BecomesMoves ==
    ASSUME TypeInv, NEW i \in Procs, NEW p \in Process, proc' = [proc EXCEPT ![i] = p]
    PROVE  Moved(i) /\ proc'[i] = p
BY DEF TypeInv, Moved

\* A process that has stopped, or that has just begun a step, is one.
LEMMA DownTyped ==
    /\ Down \in Process
    /\ \A v \in Versions, s \in Steps : [Down EXCEPT !.pc = s, !.ver = v] \in Process
<1>1. {} \in Held /\ {} \subseteq Roles
  BY DEF Held
<1>2. <<>> \in Placements
  <2>1. <<>> \in [{} -> Procs]
    OBVIOUS
  <2>2. QED
    BY <2>1 DEF Placements
<1>3. Down \in Process
  BY <1>1, <1>2 DEF Down, Process, Steps
<1>4. QED
  BY <1>3 DEF Process

\* The initial state is typed.
LEMMA TypeInvInit == Init => TypeInv
<1> SUFFICES ASSUME Init PROVE TypeInv
  OBVIOUS
<1>1. proc \in [Procs -> Process] /\ \A i \in Procs : proc[i] = Down
  BY DownTyped DEF Init
<1>2. <<>> \in [DOMAIN <<>> -> Values] /\ DOMAIN <<>> = {}
  OBVIOUS
<1>3. Tables
  BY <1>2, Bounds, LocksTyped DEF Init, Tables
<1>4. \A i \in Procs : SeenOf(i)
  BY <1>1 DEF SeenOf, Down, Granting
<1>5. outlived \subseteq Syncing
  BY DEF Init
<1>6. QED
  BY <1>1, <1>3, <1>4, <1>5, TypeInvParts DEF TypeParts

\* A process that starts, dies or gives up.
LEMMA TypeLives ==
    ASSUME TypeInv, NEW i \in Procs,
           Die(i) \/ Raise(i) \/ \E v \in Versions : Start(i, v)
    PROVE  TypeInv'
<1> USE DEF valueVars, userVars, roleVars, menuVars, lockVars
<1>0. Tables /\ outlived \subseteq Syncing /\ proc \in [Procs -> Process]
  BY TypeInvParts DEF TypeParts
<1>1. CASE Die(i) \/ Raise(i)
  <2>1. Moved(i) /\ proc'[i] = Down
    BY <1>1, DownTyped, BecomesMoves DEF Die, Raise
  <2>2. Tables'
    <3>1. lock' \in Locks
      BY <1>0, <1>1, LocksTyped DEF Die, Raise, Tables, Locks
    <3>2. QED
      BY <1>0, <1>1, <3>1, Bounds DEF Die, Raise, Tables
  <2>3. RowsStay /\ outlived' = outlived \ {i}
    BY <1>1 DEF Die, Raise, RowsStay
  <2>4. SeenOf(i)'
    BY <2>1 DEF SeenOf, Down, Granting
  <2>5. QED
    BY <2>1, <2>2, <2>3, <2>4, OneMoves
<1>2. ASSUME NEW v \in Versions, Start(i, v) PROVE TypeInv'
  <2>1. [Down EXCEPT !.pc = "db", !.ver = v] \in Process
    BY DownTyped DEF Steps
  <2>2. Moved(i) /\ proc'[i] = [Down EXCEPT !.pc = "db", !.ver = v]
    BY <1>2, <2>1, BecomesMoves DEF Start
  <2>3. Tables'
    BY <1>0, <1>2, Bounds DEF Start, Tables
  <2>4. RowsStay /\ outlived' = outlived /\ i \notin outlived
    BY <1>0, <1>2 DEF Start, RowsStay, Syncing, Locked, At
  <2>5. SeenOf(i)'
    BY <2>2 DEF SeenOf, Down, Granting
  <2>6. QED
    BY <2>2, <2>3, <2>4, <2>5, OneMoves
<1>3. QED
  BY <1>1, <1>2

\* A process at the schema, the mark or the lock.
LEMMA TypeLock ==
    ASSUME TypeInv, NEW i \in Procs,
           InitDb(i) \/ IsInitCompleted(i) \/ TryAcquire(i) \/ Release(i) \/ MarkInitCompleted(i)
    PROVE  TypeInv'
<1> USE DEF valueVars, userVars, roleVars, menuVars, lockVars, counters
<1>0. Tables /\ outlived \subseteq Syncing /\ proc \in [Procs -> Process] /\ SeenOf(i)
  BY TypeInvParts DEF TypeParts
<1>1. PICK s \in {"check", "providers", "lock", "menus", "mark"} : Go(i, s)
  BY DEF InitDb, IsInitCompleted, TryAcquire, Release, MarkInitCompleted
<1>2. MovedTo(i, s) /\ proc[i].pc # "down"
  BY <1>1, GoMoves DEF Steps, Locked, InitDb, IsInitCompleted, TryAcquire, Release, MarkInitCompleted, At
<1>3. SeenOf(i)'
  BY <1>0, <1>2 DEF SeenOf, MovedTo, Granting
<1>4. Tables'
  <2>1. lock' \in Locks
    BY <1>0, LocksTyped DEF InitDb, IsInitCompleted, TryAcquire, Release, MarkInitCompleted, Tables
  <2>2. mark' \in Versions \cup {0} /\ columns' \subseteq Columns
    BY <1>0, <1>2 DEF InitDb, IsInitCompleted, TryAcquire, Release, MarkInitCompleted, Tables,
                      Version, SeenOf
  <2>3. QED
    BY <1>0, <2>1, <2>2 DEF InitDb, IsInitCompleted, TryAcquire, Release, MarkInitCompleted, Tables
<1>5. RowsStay
  BY DEF InitDb, IsInitCompleted, TryAcquire, Release, MarkInitCompleted, RowsStay
<1>6. outlived' \subseteq outlived /\ i \notin outlived'
  BY <1>0 DEF InitDb, IsInitCompleted, TryAcquire, Release, MarkInitCompleted, Syncing, Locked, At
<1>7. QED
  BY <1>2, <1>3, <1>4, <1>5, <1>6, OneMoves DEF MovedTo

\* A menu that is next has its parent's row, if it has a parent.
LEMMA ParentPlaced ==
    ASSUME TypeInv, NEW i \in Procs, proc[i].pc = "item", NEW m \in NextItems(i)
    PROVE  m \in Menus /\ (Parent[m] # Root => Parent[m] \in DOMAIN proc[i].ids)
<1> DEFINE left == Declared[Version(i)] \ DOMAIN proc[i].ids
<1>1. Version(i) \in Versions
  BY DEF TypeInv, SeenOf, Version
<1>2. left \subseteq Menus /\ m \in left
  BY <1>1, MenusAssumption DEF NextItems
<1>3. ASSUME Parent[m] # Root, Parent[m] \notin DOMAIN proc[i].ids PROVE FALSE
  <2>1. Parent[m] \in left /\ Parent[Parent[m]] = Root
    BY <1>1, <1>2, <1>3, MenusAssumption
  <2>2. m \notin {k \in left : Parent[k] = Root} /\ {k \in left : Parent[k] = Root} # {}
    BY <1>3, <2>1
  <2>3. QED
    BY <2>2 DEF NextItems
<1>4. QED
  BY <1>2, <1>3

\* A process that synchronises the menus.
LEMMA TypeMenus ==
    ASSUME TypeInv, NEW i \in Procs,
           ReadMenus(i) \/ (\E m \in Menus : MenuItem(i, m)) \/ HideMenus(i)
    PROVE  TypeInv'
<1> USE DEF valueVars, userVars, roleVars, menuVars, lockVars, counters
<1>0. Tables /\ proc \in [Procs -> Process] /\ SeenOf(i)
  BY TypeInvParts DEF TypeParts
<1>1. CASE ReadMenus(i)
  <2>1. [rows |-> menus, hidden |-> hidden] \in [rows : SUBSET menus, hidden : SUBSET MenuRows]
    BY <1>0 DEF Tables
  <2>2. [rows |-> menus, hidden |-> hidden] \in Held
    <3>1. [rows |-> menus, hidden |-> hidden] \in MenusRead
      BY <1>0 DEF Tables, MenusRead
    <3>2. QED
      BY <3>1, HeldTables
  <2>3. /\ Moved(i) /\ proc'[i].pc = "item" /\ proc'[i].ver = proc[i].ver
        /\ proc'[i].seen = [rows |-> menus, hidden |-> hidden]
    BY <1>1, <2>2, ReadMoves DEF ReadMenus, Steps, Locked
  <2>4. Tables' /\ RowsStay /\ outlived' = outlived /\ menus' = menus
    BY <1>0, <1>1 DEF ReadMenus, Tables, RowsStay
  <2>5. SeenOf(i)'
    BY <1>0, <1>1, <2>1, <2>3, <2>4 DEF SeenOf, ReadMenus, At, Granting
  <2>6. QED
    BY <2>3, <2>4, <2>5, OneMoves DEF Locked
<1>2. ASSUME NEW m \in Menus, MenuItem(i, m) PROVE TypeInv'
  <2> DEFINE under == IF Parent[m] = Root THEN NoOne ELSE proc[i].ids[Parent[m]]
             Placed(by) == [k \in DOMAIN proc[i].ids \cup {m} |-> IF k = m THEN by ELSE proc[i].ids[k]]
  <2>1. proc[i].pc = "item" /\ under \in Procs \cup {NoOne}
    BY <1>0, <1>2, ParentPlaced, FieldsTyped DEF MenuItem, At
  <2>2. PICK by : /\ proc' = [proc EXCEPT ![i].ids = Placed(by)]
                  /\ \/ \E r \in proc[i].seen.rows : by = r.by /\ menus' = menus
                     \/ by = i /\ menus' = menus \cup {[path |-> m, under |-> under, by |-> i]}
    BY <1>2 DEF MenuItem
  <2>3. proc[i].seen \in [rows : SUBSET menus, hidden : SUBSET MenuRows]
    BY <1>0, <2>1 DEF SeenOf
  <2>4. by \in Procs
    BY <1>0, <2>2, <2>3 DEF Tables, MenuRows
  <2>5. Placed(by) \in Placements
    <3>1. proc[i].ids \in Placements
      BY <1>0 DEF Process
    <3>2. PICK placed \in SUBSET Menus : proc[i].ids \in [placed -> Procs]
      BY <3>1 DEF Placements
    <3>3. Placed(by) \in [placed \cup {m} -> Procs]
      BY <2>4, <3>2
    <3>4. QED
      BY <3>3 DEF Placements
  <2>6. /\ Moved(i) /\ proc'[i].pc = "item" /\ proc'[i].ver = proc[i].ver
        /\ proc'[i].seen = proc[i].seen
    <3> DEFINE p == [proc[i] EXCEPT !.ids = Placed(by)]
    <3>1. p \in Process /\ p.pc = proc[i].pc /\ p.ver = proc[i].ver /\ p.seen = proc[i].seen
      BY <1>0, <2>5 DEF Process
    <3>2. proc' = [proc EXCEPT ![i] = p]
      BY <2>2
    <3>3. QED
      BY <2>1, <3>1, <3>2, BecomesMoves
  <2>7. menus \subseteq menus' /\ menus' \subseteq MenuRows
    BY <1>0, <2>1, <2>2 DEF Tables, MenuRows
  <2>8. hidden' \subseteq hidden
    BY <1>2 DEF MenuItem
  <2>9. Tables' /\ RowsStay /\ outlived' = outlived
    BY <1>0, <1>2, <2>7, <2>8 DEF MenuItem, Tables, RowsStay
  <2>10. SeenOf(i)'
    BY <1>0, <2>1, <2>3, <2>6, <2>7 DEF SeenOf, Granting
  <2>11. QED
    BY <2>6, <2>9, <2>10, OneMoves DEF Locked
<1>3. CASE HideMenus(i)
  <2>1. proc[i].pc = "item" /\ Version(i) \in Versions
    BY <1>0, <1>3 DEF HideMenus, At, SeenOf, Version
  <2>2. Moved(i) /\ proc'[i] = [Down EXCEPT !.pc = "prune", !.ver = Version(i)]
    BY <1>3, <2>1, DownTyped, BecomesMoves DEF HideMenus, Steps, Locked
  <2>3. proc[i].seen.rows \subseteq menus
    BY <1>0, <2>1 DEF SeenOf
  <2>4. Tables' /\ RowsStay /\ outlived' = outlived
    BY <1>0, <1>3, <2>3 DEF HideMenus, Tables, RowsStay
  <2>5. SeenOf(i)'
    BY <2>1, <2>2 DEF SeenOf, Down, Granting
  <2>6. QED
    BY <2>2, <2>4, <2>5, OneMoves DEF Locked, Down
<1>4. QED
  BY <1>1, <1>2, <1>3

\* A process that synchronises the APIs and the roles.
LEMMA TypeGrants ==
    ASSUME TypeInv, NEW i \in Procs,
           \/ PruneApis(i) \/ AddApis(i) \/ InitRoles(i) \/ (\E r \in Roles : CreateRole(i, r) \/ SyncRole(i, r))
           \/ CreatedRoles(i) \/ GrantAdmin(i) \/ GrantAdminMenus(i) \/ GrantUser(i) \/ GrantUserApis(i)
           \/ GrantMenuApis(i) \/ SyncedRoles(i) \/ GrantAgent(i) \/ BindRolesFirst(i)
    PROVE  TypeInv'
<1> USE DEF valueVars, userVars, roleVars, menuVars, lockVars, counters
<1>0. Tables /\ proc \in [Procs -> Process] /\ SeenOf(i)
  BY TypeInvParts DEF TypeParts
<1>1. CASE PruneApis(i) \/ AddApis(i)
  <2>1. PICK s \in {"routes", "roles"} : Go(i, s)
    BY <1>1 DEF PruneApis, AddApis
  <2>2. MovedTo(i, s) /\ proc[i].pc # "down" /\ Version(i) \in Versions
    BY <1>0, <1>1, <2>1, GoMoves DEF Steps, Locked, PruneApis, AddApis, At, SeenOf, Version
  <2>3. Routes[Version(i)] \subseteq Apis
    BY <2>2, ApisAssumption
  <2>4. apis' \subseteq Apis /\ apisOf' \in [Roles -> SUBSET apis']
    BY <1>0, <1>1, <2>3 DEF PruneApis, AddApis, Tables
  <2>5. Tables' /\ RowsStay /\ outlived' = outlived
    BY <1>0, <1>1, <2>4 DEF PruneApis, AddApis, Tables, RowsStay
  <2>6. SeenOf(i)'
    BY <1>0, <2>1, <2>2 DEF SeenOf, MovedTo, Granting
  <2>7. QED
    BY <2>1, <2>2, <2>5, <2>6, OneMoves DEF MovedTo, Locked
<1>2. ASSUME NEW p \in Process, proc' = [proc EXCEPT ![i] = p], proc[i].pc \in Locked, p.pc \in Locked,
             p.ver = proc[i].ver, SeenOf(i)', UNCHANGED <<counters, columns, lockVars, mark, menuVars, apis, valueVars>>,
             roles \subseteq roles', roles' \subseteq Roles, UNCHANGED <<menusOf, apisOf, users, active>>, bound' \subseteq users
      PROVE  TypeInv'
  <2>1. Moved(i) /\ proc'[i] = p
    BY <1>2, BecomesMoves
  <2>2. Tables' /\ RowsStay /\ outlived' = outlived
    BY <1>0, <1>2 DEF Tables, RowsStay
  <2>3. QED
    BY <1>2, <2>1, <2>2, OneMoves
<1>3. [menus |-> menus, apis |-> apis] \in [menus : SUBSET menus, apis : SUBSET Apis]
  BY <1>0 DEF Tables
<1>4. ASSUME NEW rows \in SUBSET MenuRows
      PROVE  [menus |-> rows, apis |-> apis] \in Held
  <2>1. [menus |-> rows, apis |-> apis] \in GrantsRead
    BY <1>0 DEF Tables, GrantsRead
  <2>2. QED
    BY <2>1, HeldTables
<1>5. CASE InitRoles(i)
  <2> DEFINE read == [menus |-> menus, apis |-> apis]
             next == IF roles = Roles THEN "sync" ELSE "create"
             p == [proc[i] EXCEPT !.pc = next, !.todo = Roles, !.seen = read]
  <2>1. read \in Held /\ next \in Steps
    BY <1>0, <1>4 DEF Tables, Steps, Locked
  <2>2. /\ p \in Process /\ p.pc = next /\ p.ver = proc[i].ver
        /\ p.seen = read /\ p.todo = Roles
    <3> HIDE DEF read, next
    <3>1. QED
      BY <1>0, <2>1 DEF Process
  <2>3. proc' = [proc EXCEPT ![i] = p] /\ proc'[i] = p
    BY <1>0, <1>5 DEF InitRoles
  <2>4. proc[i].pc = "roles" /\ UNCHANGED <<menus, roles>>
    BY <1>5 DEF InitRoles, At
  <2> HIDE DEF p, read
  <2>5. proc[i].ver \in Versions /\ read \in [menus : SUBSET menus', apis : SUBSET Apis]
    BY <1>0, <1>3, <2>4 DEF SeenOf, read
  <2>6. SeenOf(i)'
    BY <2>2, <2>3, <2>4, <2>5 DEF SeenOf, Granting
  <2>7. QED
    BY <1>0, <1>2, <1>5, <2>2, <2>3, <2>4, <2>6 DEF InitRoles, Locked, Tables
<1>6. ASSUME NEW r \in Roles, CreateRole(i, r) PROVE TypeInv'
  <2> DEFINE p == [proc[i] EXCEPT !.todo = proc[i].todo \ {r}]
  <2>1. /\ p \in Process /\ p.pc = proc[i].pc /\ p.ver = proc[i].ver /\ p.todo = proc[i].todo \ {r}
    BY <1>0 DEF Process
  <2>2. proc' = [proc EXCEPT ![i] = p] /\ proc'[i] = p
    BY <1>0, <1>6 DEF CreateRole
  <2>3. proc[i].pc = "create" /\ roles' = roles \cup {r} /\ roles' \subseteq Roles
    BY <1>0, <1>6 DEF CreateRole, At, Tables
  <2> HIDE DEF p
  <2>4. SeenOf(i)'
    BY <1>0, <2>1, <2>2, <2>3 DEF SeenOf, Granting
  <2>5. QED
    BY <1>0, <1>2, <1>6, <2>1, <2>2, <2>3, <2>4 DEF CreateRole, Locked, Tables
<1>7. CASE CreatedRoles(i)
  <2> DEFINE read == [menus |-> menus, apis |-> apis]
             p == [proc[i] EXCEPT !.pc = "admin", !.seen = read]
  <2>1. read \in Held
    BY <1>0, <1>4 DEF Tables
  <2>2. p \in Process /\ p.pc = "admin" /\ p.ver = proc[i].ver /\ p.seen = read
    BY ZenonT(40), <1>0, <2>1 DEF Process, Steps, Locked
  <2>3. proc' = [proc EXCEPT ![i] = p] /\ proc'[i] = p
    BY <1>0, <1>7 DEF CreatedRoles, Read
  <2>4. proc[i].pc = "create" /\ proc[i].todo = {} /\ UNCHANGED <<menus, roles>>
    BY <1>7 DEF CreatedRoles, At
  <2> HIDE DEF p, read
  <2>5. proc[i].ver \in Versions /\ roles = Roles
    BY <1>0, <2>4 DEF SeenOf, Tables
  <2>6. read \in [menus : SUBSET menus', apis : SUBSET Apis]
    BY <1>3, <2>4 DEF read
  <2>7. SeenOf(i)'
    BY <2>2, <2>3, <2>4, <2>5, <2>6 DEF SeenOf, Granting
  <2>8. QED
    BY <1>0, <1>2, <1>7, <2>2, <2>3, <2>4, <2>7 DEF CreatedRoles, Locked, Tables
<1>8. ASSUME proc[i].pc \in Granting, proc'[i].pc \in (Granting \ {"syncapis"}) \cup {"bindroles"}
                \/ (proc'[i].pc = "syncapis" /\ proc'[i].role \in Roles), Moved(i),
             proc'[i].seen = proc[i].seen, proc'[i].ver = proc[i].ver,
             NEW r \in Roles, NEW rows \in SUBSET proc[i].seen.menus, NEW granted, Grant(i, r, rows, granted)
      PROVE  TypeInv'
  <2>1. proc[i].seen \in [menus : SUBSET menus, apis : SUBSET Apis] /\ roles = Roles /\ proc[i].ver \in Versions
    BY <1>0, <1>8 DEF SeenOf, Granting
  <2>2. menusOf' \in [Roles -> SUBSET menus] /\ apisOf' \in [Roles -> SUBSET apis]
    BY <1>0, <1>8, <2>1 DEF Grant, Tables
  <2>3. Tables' /\ RowsStay /\ outlived' = outlived /\ menus' = menus /\ roles' = Roles
    BY <1>0, <1>8, <2>1, <2>2 DEF Grant, Tables, RowsStay
  <2>4. SeenOf(i)'
    BY <1>8, <2>1, <2>3 DEF SeenOf, Granting
  <2>5. QED
    BY <1>8, <2>3, <2>4, OneMoves DEF Locked, Granting
<1>9. CASE GrantAdmin(i) \/ GrantAdminMenus(i) \/ GrantUser(i) \/ GrantUserApis(i) \/ GrantAgent(i)
  <2>1. PICK s \in {"adminmenus", "user", "userapis", "agent", "bindroles"} : Go(i, s)
    BY <1>9 DEF GrantAdmin, GrantAdminMenus, GrantUser, GrantUserApis, GrantAgent
  <2>2. MovedTo(i, s) /\ proc[i].pc \in Granting /\ s \in (Granting \ {"syncapis"}) \cup {"bindroles"}
    BY <1>9, <2>1, GoMoves DEF Steps, Locked, GrantAdmin, GrantAdminMenus, GrantUser, GrantUserApis, GrantAgent, At, Granting
  <2>3. PICK r \in Roles, rows \in {{}, proc[i].seen.menus} : \E granted : Grant(i, r, rows, granted)
    BY <1>9 DEF GrantAdmin, GrantAdminMenus, GrantUser, GrantUserApis, GrantAgent, Roles
  <2>4. QED
    BY <1>8, <2>2, <2>3 DEF MovedTo
<1>10. ASSUME NEW r \in Roles, SyncRole(i, r) PROVE TypeInv'
  <2> DEFINE rows == NewMenus(i, r)
             role == IF rows = {} THEN "none" ELSE r
             next == IF rows = {} THEN "sync" ELSE "syncapis"
             p == [proc[i] EXCEPT !.todo = proc[i].todo \ {r}, !.due = rows, !.role = role, !.pc = next]
  <2>1. proc[i].pc = "sync" /\ Grant(i, r, rows, {}) /\ proc' = [proc EXCEPT ![i] = p]
    BY <1>10 DEF SyncRole, InTurn, At
  <2>2. proc[i].seen \in [menus : SUBSET menus, apis : SUBSET Apis]
    BY <1>0, <2>1 DEF SeenOf, Granting
  <2>3. rows \subseteq proc[i].seen.menus /\ rows \subseteq MenuRows
    BY <1>0, <2>2 DEF NewMenus, Tables
  <2> HIDE DEF rows
  <2>4. /\ p \in Process /\ p.seen = proc[i].seen /\ p.ver = proc[i].ver
        /\ p.pc = "sync" \/ (p.pc = "syncapis" /\ p.role = r)
    <3>1. role \in Roles \cup {"none"} /\ next \in Steps /\ (next = "sync" \/ (next = "syncapis" /\ role = r))
      BY DEF Steps, Locked
    <3> HIDE DEF role, next
    <3>2. p \in Process /\ p.seen = proc[i].seen /\ p.ver = proc[i].ver /\ p.pc = next /\ p.role = role
      BY <1>0, <2>3, <3>1 DEF Process
    <3>3. QED
      BY <3>1, <3>2
  <2>5. Moved(i) /\ proc'[i] = p
    BY <2>1, <2>4, BecomesMoves
  <2> HIDE DEF p
  <2>6. QED
    BY <1>8, <2>1, <2>3, <2>4, <2>5 DEF Granting
<1>11. CASE GrantMenuApis(i)
  <2> DEFINE p == [proc[i] EXCEPT !.pc = "sync", !.role = "none", !.due = {}]
  <2>1. proc[i].pc = "syncapis" /\ Grant(i, proc[i].role, {}, Matched(proc[i].due)) /\ proc' = [proc EXCEPT ![i] = p]
    BY <1>11 DEF GrantMenuApis, At
  <2>2. proc[i].role \in Roles
    BY <1>0, <2>1 DEF SeenOf
  <2>3. p \in Process /\ p.seen = proc[i].seen /\ p.ver = proc[i].ver /\ p.pc = "sync"
    BY ZenonT(40), <1>0 DEF Process, Steps, Locked
  <2>4. Moved(i) /\ proc'[i] = p
    BY <2>1, <2>3, BecomesMoves
  <2> HIDE DEF p
  <2>5. QED
    BY <1>8, <2>1, <2>2, <2>3, <2>4 DEF Granting
<1>12. CASE SyncedRoles(i)
  <2> DEFINE read == [menus |-> {}, apis |-> apis]
             p == [proc[i] EXCEPT !.pc = "agent", !.seen = read]
  <2>1. read \in Held
    BY <1>4
  <2>2. p \in Process /\ p.pc = "agent" /\ p.ver = proc[i].ver /\ p.seen = read
    BY ZenonT(40), <1>0, <2>1 DEF Process, Steps, Locked
  <2>3. proc' = [proc EXCEPT ![i] = p] /\ proc'[i] = p
    BY <1>0, <1>12 DEF SyncedRoles, Read
  <2>4. proc[i].pc = "sync" /\ UNCHANGED <<menus, roles>>
    BY <1>12 DEF SyncedRoles, At
  <2>5. read \in [menus : SUBSET menus', apis : SUBSET Apis]
    BY <1>0 DEF Tables
  <2> HIDE DEF p, read
  <2>6. SeenOf(i)'
    BY <1>0, <2>2, <2>3, <2>4, <2>5 DEF SeenOf, Granting
  <2>7. QED
    BY <1>0, <1>2, <1>12, <2>2, <2>3, <2>4, <2>6 DEF SyncedRoles, Locked, Tables
<1>13. CASE BindRolesFirst(i)
  <2> DEFINE p == [proc[i] EXCEPT !.pc = "release", !.seen = {}]
  <2>1. {} \in Held
    BY HeldTables
  <2>2. p \in Process /\ p.pc = "release" /\ p.ver = proc[i].ver
    BY ZenonT(40), <1>0, <2>1 DEF Process, Steps, Locked
  <2>3. proc' = [proc EXCEPT ![i] = p] /\ proc'[i] = p
    BY <1>0, <1>13 DEF BindRolesFirst, Read
  <2>4. proc[i].pc = "bindroles" /\ bound' \subseteq users
    BY <1>0, <1>13 DEF BindRolesFirst, At, Tables
  <2> HIDE DEF p
  <2>5. SeenOf(i)'
    BY <1>0, <2>2, <2>3, <2>4 DEF SeenOf, Granting
  <2>6. QED
    BY <1>0, <1>2, <1>13, <2>2, <2>3, <2>4, <2>5 DEF BindRolesFirst, Locked, Tables
<1>14. QED
  BY <1>1, <1>5, <1>6, <1>7, <1>9, <1>10, <1>11, <1>12, <1>13

\* A process at the tables no lock guards.
LEMMA TypeRows ==
    ASSUME TypeInv, NEW i \in Procs,
           ReadProviders(i) \/ CreateProviders(i) \/ ReadItems(i) \/ SyncItems(i) \/ ReadConfigs(i) \/ SyncConfigs(i)
    PROVE  TypeInv'
<1> USE DEF valueVars, userVars, roleVars, menuVars, lockVars, counters
<1>0. Tables /\ outlived \subseteq Syncing /\ proc \in [Procs -> Process] /\ SeenOf(i)
  BY TypeInvParts DEF TypeParts
<1>1. proc[i].pc \notin {"down"} \cup Locked /\ i \notin outlived /\ Version(i) \in Versions
  BY <1>0 DEF ReadProviders, CreateProviders, ReadItems, SyncItems, ReadConfigs, SyncConfigs,
              At, Locked, Syncing, SeenOf, Version
<1>2. outlived' = outlived
  BY DEF ReadProviders, CreateProviders, ReadItems, SyncItems, ReadConfigs, SyncConfigs
<1>3. CASE ReadProviders(i) \/ ReadItems(i) \/ ReadConfigs(i)
  <2>1. PICK s \in {"newproviders", "newitems", "newconfig"}, table \in Held :
            /\ Read(i, s, table)
            /\ s = "newproviders" => table \subseteq ProviderRows
            /\ s = "newitems" => table \in [DOMAIN item -> Values]
            /\ s = "newconfig" => table \in [DOMAIN config -> Values]
    <3>1. providers \in Held
      BY <1>0, HeldTables DEF Tables
    <3>2. item \in Held
      BY <1>0, HeldTables DEF Tables, ItemsRead
    <3>3. config \in Held
      BY <1>0, HeldTables DEF Tables, ConfigsRead
    <3>4. QED
      BY <1>0, <1>3, <3>1, <3>2, <3>3 DEF ReadProviders, ReadItems, ReadConfigs, Tables
  <2>2. Moved(i) /\ proc'[i].pc = s /\ proc'[i].seen = table /\ proc'[i].ver = proc[i].ver
    BY <2>1, ReadMoves DEF Steps
  <2>3. Tables' /\ RowsStay /\ UNCHANGED <<item, config>>
    BY <1>0, <1>3 DEF ReadProviders, ReadItems, ReadConfigs, Tables, RowsStay
  <2>4. SeenOf(i)'
    BY <1>1, <2>1, <2>2, <2>3 DEF SeenOf, Version, Granting
  <2>5. QED
    BY <1>1, <1>2, <2>2, <2>3, <2>4, OneMoves
<1>4. CASE CreateProviders(i)
  <2>1. Moved(i) /\ proc'[i].pc = "items" /\ proc'[i].ver = proc[i].ver
    BY <1>4, HeldTables, ReadMoves DEF CreateProviders, Steps
  <2>2. providers \subseteq providers' /\ providers' \subseteq ProviderRows
    BY <1>0, <1>4 DEF CreateProviders, Tables, ProviderRows
  <2>3. Tables' /\ RowsStay
    BY <1>0, <1>4, <2>2 DEF CreateProviders, Tables, RowsStay
  <2>4. SeenOf(i)'
    BY <1>1, <2>1 DEF SeenOf, Version, Granting
  <2>5. QED
    BY <1>1, <1>2, <2>1, <2>3, <2>4, OneMoves
<1>5. ASSUME NEW s \in {"accounts", "up", "down"}, Moved(i), proc'[i].pc = s,
             s # "down" => proc'[i].ver = proc[i].ver, Tables', RowsStay
      PROVE  TypeInv'
  <2>1. SeenOf(i)'
    BY <1>1, <1>5 DEF SeenOf, Version, Granting
  <2>2. QED
    BY <1>1, <1>2, <1>5, <2>1, OneMoves
<1>6. CASE SyncItems(i)
  <2>1. PICK held \in SUBSET DOMAIN item : proc[i].seen \in [held -> Values]
    BY <1>0, <1>6 DEF SyncItems, At, SeenOf
  <2>2. PICK keys \in SUBSET providers :
           IF Refused(item, proc[i].seen, keys)
           THEN proc' = [proc EXCEPT ![i] = Down] /\ item' = item
           ELSE Read(i, "accounts", {}) /\ item' = Upserted(item, proc[i].seen, keys, Version(i))
    BY <1>6 DEF SyncItems
  <2>3. CASE item' = item /\ proc' = [proc EXCEPT ![i] = Down]
    <3>1. Tables' /\ RowsStay
      BY <1>0, <1>6, <2>3 DEF SyncItems, Tables, RowsStay
    <3>2. Moved(i) /\ proc'[i] = Down
      BY <2>3, DownTyped, BecomesMoves
    <3>3. QED
      BY <1>5, <3>1, <3>2 DEF Down
  <2>4. CASE Read(i, "accounts", {}) /\ item' = Upserted(item, proc[i].seen, keys, Version(i))
    <3>1. item' \in [DOMAIN item \cup keys -> Values] /\ DOMAIN item' = DOMAIN item \cup keys
      <4>1. item \in [DOMAIN item -> Values]
        BY <1>0 DEF Tables
      <4> DEFINE got == proc[i].seen
                 new == Version(i)
      <4>2. got \in [held -> Values] /\ new \in Versions /\ held \subseteq DOMAIN item
        BY <1>1, <2>1
      <4>3. item' = Upserted(item, got, keys, new)
        BY <2>4
      <4> HIDE DEF got, new
\* What is missing is created, what is there is kept or becomes what was read.
      <4>4. ASSUME NEW seen, NEW v \in Versions, seen \in [held -> Values], item' = Upserted(item, seen, keys, v)
            PROVE  item' \in [DOMAIN item \cup keys -> Values] /\ DOMAIN item' = DOMAIN item \cup keys
        <5>1. [value |-> "default", meta |-> v] \in Values
          BY DEF Values
        <5>2. \A k \in held : [seen[k] EXCEPT !.meta = v] \in Values
          BY <4>4 DEF Values
        <5>3. QED
          BY <4>1, <4>2, <4>4, <5>1, <5>2 DEF Upserted
      <4>5. QED
        BY <4>2, <4>3, <4>4
    <3>2. Tables' /\ RowsStay
      BY <1>0, <1>6, <3>1 DEF SyncItems, Tables, RowsStay
    <3>3. Moved(i) /\ proc'[i].pc = "accounts" /\ proc'[i].ver = proc[i].ver
      BY <2>4, HeldTables, ReadMoves DEF Steps
    <3>4. QED
      BY <1>5, <3>2, <3>3
  <2>5. QED
    BY <2>2, <2>3, <2>4
<1>7. CASE SyncConfigs(i)
  <2>1. PICK held \in SUBSET DOMAIN config : proc[i].seen \in [held -> Values]
    BY <1>0, <1>7 DEF SyncConfigs, At, SeenOf
  <2>2. CASE config' = config /\ proc' = [proc EXCEPT ![i] = Down]
    <3>1. Tables' /\ RowsStay
      BY <1>0, <1>7, <2>2 DEF SyncConfigs, Tables, RowsStay
    <3>2. Moved(i) /\ proc'[i] = Down
      BY <2>2, DownTyped, BecomesMoves
    <3>3. QED
      BY <1>5, <3>1, <3>2 DEF Down
  <2>3. CASE Read(i, "up", {}) /\ config' = Upserted(config, proc[i].seen, Configs, Version(i))
    <3>1. config' \in [DOMAIN config \cup Configs -> Values] /\ DOMAIN config' = DOMAIN config \cup Configs
      <4>1. config \in [DOMAIN config -> Values]
        BY <1>0 DEF Tables
      <4> DEFINE got == proc[i].seen
                 new == Version(i)
      <4>2. got \in [held -> Values] /\ new \in Versions /\ held \subseteq DOMAIN config
        BY <1>1, <2>1
      <4>3. config' = Upserted(config, got, Configs, new)
        BY <2>3
      <4> HIDE DEF got, new
\* What is missing is created, what is there is kept or becomes what was read.
      <4>4. ASSUME NEW seen, NEW v \in Versions, seen \in [held -> Values], config' = Upserted(config, seen, Configs, v)
            PROVE  config' \in [DOMAIN config \cup Configs -> Values] /\ DOMAIN config' = DOMAIN config \cup Configs
        <5>1. [value |-> "default", meta |-> v] \in Values
          BY DEF Values
        <5>2. \A k \in held : [seen[k] EXCEPT !.meta = v] \in Values
          BY <4>4 DEF Values
        <5>3. QED
          BY <4>1, <4>2, <4>4, <5>1, <5>2 DEF Upserted
      <4>5. QED
        BY <4>2, <4>3, <4>4
    <3>2. Tables' /\ RowsStay
      BY <1>0, <1>7, <3>1 DEF SyncConfigs, Tables, RowsStay
    <3>3. Moved(i) /\ proc'[i].pc = "up" /\ proc'[i].ver = proc[i].ver
      BY <2>3, HeldTables, ReadMoves DEF Steps
    <3>4. QED
      BY <1>5, <3>2, <3>3
  <2>4. QED
    BY <1>7, <2>2, <2>3 DEF SyncConfigs
<1>8. QED
  BY <1>3, <1>4, <1>6, <1>7

\* A process at the accounts.
LEMMA TypeUsers ==
    ASSUME TypeInv, NEW i \in Procs, InitSuperuser(i) \/ BindRoles(i)
    PROVE  TypeInv'
<1> USE DEF valueVars, userVars, roleVars, menuVars, lockVars, counters
<1>0. Tables /\ outlived \subseteq Syncing /\ proc \in [Procs -> Process] /\ SeenOf(i)
  BY TypeInvParts DEF TypeParts
<1>1. PICK s \in {"bind", "config"} : Go(i, s)
  BY DEF InitSuperuser, BindRoles
<1>2. MovedTo(i, s) /\ proc[i].pc \in {"accounts", "bind"}
  BY <1>1, GoMoves DEF InitSuperuser, BindRoles, Steps, At
<1>3. users' \subseteq {"admin", "hub_agent"} /\ active' \in BOOLEAN /\ bound' \subseteq users'
  BY <1>0 DEF InitSuperuser, BindRoles, Tables
<1>4. Tables' /\ RowsStay
  BY <1>0, <1>3 DEF InitSuperuser, BindRoles, Tables, RowsStay
<1>5. outlived' = outlived /\ i \notin outlived
  BY <1>0, <1>2 DEF InitSuperuser, BindRoles, Syncing, Locked
<1>6. SeenOf(i)'
  BY <1>0, <1>2 DEF SeenOf, MovedTo, Granting
<1>7. QED
  BY <1>2, <1>4, <1>5, <1>6, OneMoves DEF MovedTo

\* What no process does: a lock expires, a user changes something.
LEMMA TypeOthers ==
    ASSUME TypeInv, LockInv, Expire \/ (\E k \in ProviderRows : EditItem(k)) \/ Deactivate
    PROVE  TypeInv'
<1> USE DEF valueVars, userVars, roleVars, menuVars, lockVars
<1>0. Tables /\ outlived \subseteq Syncing /\ proc \in [Procs -> Process] /\ \A i \in Procs : SeenOf(i)
  BY TypeInvParts DEF TypeParts
<1>1. proc' = proc /\ RowsStay
  BY <1>0 DEF Expire, EditItem, Deactivate, RowsStay, Tables
<1>2. outlived' \subseteq Syncing'
  BY <1>0, <1>1 DEF Expire, EditItem, Deactivate, Syncing, LockInv
<1>3. Tables'
  <2>1. CASE Expire
    <3>1. lock' \in Locks
      BY <1>0, <2>1, LocksTyped DEF Expire, Tables
    <3>2. QED
      BY <1>0, <2>1, <3>1, Bounds DEF Expire, Tables
  <2>2. ASSUME NEW k \in ProviderRows, EditItem(k) PROVE Tables'
    <3>1. item' \in [DOMAIN item -> Values] /\ DOMAIN item' = DOMAIN item
      <4>1. [item[k] EXCEPT !.value = "edited"] \in Values
        BY <1>0, <2>2 DEF EditItem, Tables, Values
      <4>2. item' = [item EXCEPT ![k] = [item[k] EXCEPT !.value = "edited"]]
        BY <2>2 DEF EditItem
      <4>3. QED
        BY <1>0, <4>1, <4>2 DEF Tables
    <3>2. QED
      BY <1>0, <2>2, <3>1, Bounds DEF EditItem, Tables
  <2>3. CASE Deactivate
    BY <1>0, <2>3, Bounds DEF Deactivate, Tables
  <2>4. QED
    BY <2>1, <2>2, <2>3
<1>4. \A i \in Procs : SeenOf(i)'
  BY <1>0, <1>1, <1>3, SeenStays DEF Tables
<1>5. TypeParts'
  BY <1>0, <1>1, <1>2, <1>3, <1>4 DEF TypeParts
<1>6. TypeParts' => TypeInv'
  BY TypeInvParts, PTL
<1>7. QED
  BY <1>5, <1>6

\* Every step keeps the types.
LEMMA TypeInvStep == TypeInv /\ LockInv /\ [Next]_vars => TypeInv'
<1> SUFFICES ASSUME TypeInv, LockInv, [Next]_vars PROVE TypeInv'
  OBVIOUS
<1>1. ASSUME NEW i \in Procs, InitEssential(i) PROVE TypeInv'
  BY <1>1, TypeLock, TypeMenus, TypeGrants, TypeRows DEF InitEssential
<1>2. ASSUME NEW i \in Procs, InitData(i) PROVE TypeInv'
  BY <1>1, <1>2, TypeUsers, TypeRows DEF InitData
<1>3. CASE UNCHANGED vars
  <2>1. TypeParts <=> TypeParts'
    BY <1>3 DEF vars, valueVars, userVars, roleVars, menuVars, lockVars, counters, TypeParts, Tables, SeenOf, Syncing
  <2>2. TypeParts' => TypeInv'
    BY TypeInvParts, PTL
  <2>3. QED
    BY <2>1, <2>2, TypeInvParts
<1>4. QED
  BY <1>2, <1>3, TypeLives, TypeOthers DEF Next

------------------------------------------------------------------------------
(* The lock.                                                                *)

\* A step of one process leaves the others where they are, takes it to the grant
\* of a role's APIs only when it has granted its menus, and in or out of the steps
\* under the lock only when it takes or releases the lock.
LEMMA OthersStand ==
    ASSUME TypeInv, NEW i \in Procs, InitData(i)
    PROVE  /\ \A j \in Procs \ {i} : proc'[j] = proc[j]
           /\ ~GrantUser(i) => proc'[i].pc # "userapis"
           /\ ~(\E r \in Roles : SyncRole(i, r)) => proc'[i].pc # "syncapis"
           /\ ~TryAcquire(i) /\ ~Release(i) => (proc[i].pc \in Locked <=> proc'[i].pc \in Locked)
<1> USE DEF At, Locked
<1>0. proc \in [Procs -> Process]
  BY DEF TypeInv
<1>1. ASSUME NEW s, Go(i, s)
      PROVE  proc'[i].pc = s /\ \A j \in Procs \ {i} : proc'[j] = proc[j]
  BY <1>0, <1>1 DEF Go, Process
<1>2. ASSUME NEW s, NEW table, Read(i, s, table)
      PROVE  proc'[i].pc = s /\ \A j \in Procs \ {i} : proc'[j] = proc[j]
  BY <1>0, <1>2 DEF Read, Process
<1>3. CASE InitDb(i) \/ IsInitCompleted(i) \/ TryAcquire(i) \/ Release(i) \/ MarkInitCompleted(i)
  BY <1>1, <1>3 DEF InitDb, IsInitCompleted, TryAcquire, Release, MarkInitCompleted
<1>4. CASE PruneApis(i) \/ AddApis(i)
  BY <1>1, <1>4 DEF PruneApis, AddApis
<1>12. CASE GrantAdmin(i) \/ GrantAdminMenus(i) \/ GrantUser(i) \/ GrantUserApis(i) \/ GrantAgent(i)
  BY <1>1, <1>12 DEF GrantAdmin, GrantAdminMenus, GrantUser, GrantUserApis, GrantAgent
<1>5. CASE InitSuperuser(i) \/ BindRoles(i)
  BY <1>1, <1>5 DEF InitSuperuser, BindRoles
<1>6. CASE ReadMenus(i) \/ ReadProviders(i) \/ CreateProviders(i) \/ ReadItems(i) \/ ReadConfigs(i)
  BY <1>2, <1>6 DEF ReadMenus, ReadProviders, CreateProviders, ReadItems, ReadConfigs
<1>13. CASE CreatedRoles(i) \/ SyncedRoles(i) \/ BindRolesFirst(i)
  BY <1>2, <1>13 DEF CreatedRoles, SyncedRoles, BindRolesFirst
<1>7. ASSUME NEW m \in Menus, MenuItem(i, m)
      PROVE  proc[i].pc = "item" /\ proc'[i].pc = "item" /\ \A j \in Procs \ {i} : proc'[j] = proc[j]
  <2>1. PICK placed : proc' = [proc EXCEPT ![i].ids = placed]
    BY <1>7 DEF MenuItem
  <2>2. proc[i].pc = "item"
    BY <1>7 DEF MenuItem, At
  <2>3. QED
    BY <1>0, <2>1, <2>2 DEF Process
<1>8. CASE HideMenus(i) \/ InitRoles(i)
  <2>1. PICK p : proc' = [proc EXCEPT ![i] = p] /\ p.pc \in {"prune", "sync", "create"}
    <3>1. CASE HideMenus(i)
      <4>1. proc' = [proc EXCEPT ![i] = [Down EXCEPT !.pc = "prune", !.ver = Version(i)]]
        BY <3>1 DEF HideMenus
      <4>2. [Down EXCEPT !.pc = "prune", !.ver = Version(i)].pc = "prune"
        BY DEF Down
      <4>3. QED
        BY <4>1, <4>2
    <3>2. CASE InitRoles(i)
      <4>1. proc' = [proc EXCEPT ![i] = [proc[i] EXCEPT !.pc = IF roles = Roles THEN "sync" ELSE "create",
                                                        !.todo = Roles, !.seen = [menus |-> menus, apis |-> apis]]]
        BY <3>2 DEF InitRoles
      <4>2. [proc[i] EXCEPT !.pc = IF roles = Roles THEN "sync" ELSE "create", !.todo = Roles,
                            !.seen = [menus |-> menus, apis |-> apis]].pc \in {"sync", "create"}
        BY <1>0 DEF Process
      <4>3. QED
        BY <4>1, <4>2
    <3>3. QED
      BY <1>8, <3>1, <3>2
  <2>2. proc[i].pc \in {"item", "roles"}
    BY <1>8 DEF HideMenus, InitRoles
  <2>3. proc'[i].pc \in {"prune", "sync", "create"} /\ \A j \in Procs \ {i} : proc'[j] = proc[j]
    BY <1>0, <2>1
  <2>4. QED
    BY <1>0, <2>2, <2>3
<1>9. ASSUME NEW r \in Roles, CreateRole(i, r) \/ SyncRole(i, r)
      PROVE  /\ proc[i].pc \in {"create", "sync"} /\ \A j \in Procs \ {i} : proc'[j] = proc[j]
             /\ proc'[i].pc = "create" \/ (SyncRole(i, r) /\ proc'[i].pc \in {"sync", "syncapis"})
  <2>1. CASE CreateRole(i, r)
    BY <1>0, <2>1 DEF CreateRole, Process
  <2>2. CASE SyncRole(i, r)
    BY ZenonT(40), <1>0, <2>2 DEF SyncRole, InTurn, Process
  <2>3. QED
    BY <1>9, <2>1, <2>2
<1>14. CASE GrantMenuApis(i)
  BY <1>0, <1>14 DEF GrantMenuApis, Process
<1>10. CASE SyncItems(i) \/ SyncConfigs(i)
  <2>1. proc' = [proc EXCEPT ![i] = Down] \/ \E s \in {"accounts", "up"} : Read(i, s, {})
    BY <1>10 DEF SyncItems, SyncConfigs
  <2>2. proc[i].pc \in {"newitems", "newconfig"}
    BY <1>10 DEF SyncItems, SyncConfigs
  <2>3. QED
    BY <1>0, <1>2, <2>1, <2>2 DEF Down
<1>11. QED
  BY <1>3, <1>4, <1>5, <1>6, <1>7, <1>8, <1>9, <1>10, <1>12, <1>13, <1>14 DEF InitData, InitEssential

\* Who synchronises changes only when the lock is taken, given back or left behind.
LEMMA SyncingStays ==
    ASSUME TypeInv, NEW i \in Procs, InitData(i), ~TryAcquire(i), ~Release(i)
    PROVE  Syncing' = Syncing /\ UNCHANGED lockVars
<1> USE DEF Syncing, Locked, At, Go, Read, Down
<1>0. proc \in [Procs -> Process]
  BY DEF TypeInv
<1>1. UNCHANGED lockVars
  BY DEF InitData, InitEssential, InitDb, IsInitCompleted, ReadMenus, MenuItem, HideMenus, PruneApis,
         AddApis, InitRoles, CreateRole, CreatedRoles, GrantAdmin, GrantAdminMenus, GrantUser, GrantUserApis,
         Grant, SyncRole, InTurn, GrantMenuApis, SyncedRoles, GrantAgent, BindRolesFirst, MarkInitCompleted, ReadProviders, CreateProviders, ReadItems, SyncItems, InitSuperuser, BindRoles,
         ReadConfigs, SyncConfigs
<1>2. \A j \in Procs \ {i} : proc'[j] = proc[j]
  BY OthersStand
<1>3. proc[i].pc \in Locked <=> proc'[i].pc \in Locked
  BY OthersStand
<1>4. QED
  BY <1>1, <1>2, <1>3

\* Every step keeps the lock with whoever works under it.
LEMMA LockInvStep == TypeInv /\ LockInv /\ [Next]_vars => LockInv'
<1> SUFFICES ASSUME TypeInv, LockInv, [Next]_vars PROVE LockInv'
  OBVIOUS
<1> USE DEF lockVars
<1>0. proc \in [Procs -> Process] /\ outlived \subseteq Syncing /\ lock \in Locks
  BY TypeInvParts DEF TypeParts, Tables
<1>1. CASE Syncing' = Syncing /\ UNCHANGED lockVars
  BY <1>1 DEF LockInv
<1>2. ASSUME NEW i \in Procs, TryAcquire(i) PROVE LockInv'
  <2>1. proc[i].pc = "lock" /\ i \notin Syncing
    BY <1>2 DEF TryAcquire, At, Syncing, Locked
  <2>2. CASE Go(i, "mark") /\ lock' = lock
    <3>1. Syncing' = Syncing
      BY <1>0, <2>1, <2>2 DEF Go, Syncing, Locked, Process
    <3>2. QED
      BY <1>1, <1>2, <2>2, <3>1 DEF TryAcquire
  <2>3. CASE (lock.by = NoOne \/ lock.expired) /\ Go(i, "menus") /\ lock' = [Free EXCEPT !.by = i]
    <3>1. Syncing' = Syncing \cup {i}
      BY <1>0, <2>1, <2>3 DEF Go, Syncing, Locked, Process
    <3>2. Syncing \subseteq outlived
      BY <2>3, ProcsAssumption DEF LockInv, Syncing
    <3>3. lock'.by = i /\ ~lock'.expired
      BY <2>3 DEF Free
    <3>4. QED
      BY <1>2, <3>1, <3>2, <3>3 DEF LockInv, TryAcquire
  <2>4. QED
    BY <1>2, <2>2, <2>3 DEF TryAcquire
<1>3. ASSUME NEW i \in Procs, Release(i) \/ Die(i) \/ Raise(i) PROVE LockInv'
  <2>1. Syncing' = Syncing \ {i}
    <3>1. CASE Release(i)
      BY <1>0, <3>1 DEF Release, Go, Syncing, Locked, Process
    <3>2. CASE Die(i) \/ Raise(i)
      BY <1>0, <3>2 DEF Die, Raise, Down, Syncing, Locked
    <3>3. QED
      BY <1>3, <3>1, <3>2
  <2>2. outlived' = outlived \ {i}
    BY <1>3 DEF Release, Die, Raise
  <2>3. IF lock.by = i THEN lock'.by \notin Procs ELSE lock' = lock
    BY <1>0, <1>3, ProcsAssumption DEF Release, Die, Raise, Free, Locks
  <2>4. \A j \in Syncing' \ outlived' : j # i /\ lock.by = j /\ ~lock.expired
    BY <2>1, <2>2 DEF LockInv
  <2>5. QED
    BY <2>1, <2>3, <2>4 DEF LockInv
<1>4. ASSUME NEW i \in Procs, NEW v \in Versions, Start(i, v) PROVE LockInv'
  <2>1. Syncing' = Syncing
    BY <1>0, <1>4 DEF Start, At, Down, Syncing, Locked
  <2>2. QED
    BY <1>1, <1>4, <2>1 DEF Start
<1>5. CASE Expire
  <2>1. Syncing' = Syncing /\ lock'.by = lock.by
    BY <1>0, <1>5 DEF Expire, Syncing, Locks
  <2>2. \A j \in Syncing : j \notin outlived'
                        => j \notin outlived /\ lock.by # j
    BY <1>5 DEF Expire, Syncing
  <2>3. QED
    BY <2>1, <2>2 DEF LockInv
<1>6. CASE UNCHANGED vars
  BY <1>1, <1>6 DEF vars, Syncing
<1>7. ASSUME (\E k \in ProviderRows : EditItem(k)) \/ Deactivate PROVE LockInv'
  BY <1>1, <1>7 DEF EditItem, Deactivate, Syncing
<1>8. ASSUME NEW i \in Procs, InitData(i) PROVE LockInv'
  BY <1>1, <1>2, <1>3, <1>8, SyncingStays
<1>9. QED
  BY <1>3, <1>4, <1>5, <1>6, <1>7, <1>8 DEF Next

------------------------------------------------------------------------------
(* The grants.                                                              *)

\* Every step keeps each role to what its menus lead to.
LEMMA PrivilegeInvStep == TypeInv /\ PrivilegeInv /\ [Next]_vars => PrivilegeInv'
<1> SUFFICES ASSUME TypeInv, PrivilegeInv, [Next]_vars PROVE PrivilegeInv'
  OBVIOUS
<1> USE DEF roleVars
<1>0. Tables /\ proc \in [Procs -> Process] /\ \A i \in Procs : SeenOf(i)
  BY TypeInvParts DEF TypeParts
<1>1. menusOf \in [Roles -> SUBSET menus] /\ apisOf \in [Roles -> SUBSET apis]
  BY <1>0 DEF Tables
<1> DEFINE StayPut(j) == proc'[j].pc \in {"userapis", "syncapis"} => proc'[j] = proc[j]
<1>2. ASSUME menusOf' = menusOf, \A r \in Roles : apisOf'[r] \subseteq apisOf[r], \A j \in Procs : StayPut(j)
      PROVE  PrivilegeInv'
  BY <1>2 DEF PrivilegeInv, LeastPrivilege, MenusFirst, Roles
<1>3. ASSUME NEW i \in Procs, InitData(i), ~PruneApis(i), ~GrantAdmin(i), ~GrantAdminMenus(i), ~GrantUser(i),
             ~GrantUserApis(i), ~(\E r \in Roles : SyncRole(i, r)), ~GrantMenuApis(i), ~GrantAgent(i)
      PROVE  PrivilegeInv'
  <2>1. UNCHANGED <<menusOf, apisOf>>
    BY <1>3 DEF InitData, InitEssential, InitDb, IsInitCompleted, TryAcquire, ReadMenus, MenuItem, HideMenus,
       AddApis, InitRoles, CreateRole, CreatedRoles, SyncedRoles, BindRolesFirst, Release, MarkInitCompleted,
       ReadProviders, CreateProviders, ReadItems, SyncItems, InitSuperuser, BindRoles, ReadConfigs, SyncConfigs
  <2>2. \A j \in Procs : StayPut(j)
    BY <1>3, OthersStand
  <2> HIDE DEF StayPut
  <2>3. QED
    BY <1>2, <2>1, <2>2
<1>4. ASSUME NEW i \in Procs, PruneApis(i) PROVE PrivilegeInv'
  <2>1. menusOf' = menusOf /\ \A r \in Roles : apisOf'[r] \subseteq apisOf[r]
    BY <1>4 DEF PruneApis
  <2>2. \A j \in Procs : StayPut(j)
    BY <1>0, <1>4 DEF PruneApis, Go, Process
  <2> HIDE DEF StayPut
  <2>3. QED
    BY <1>2, <2>1, <2>2
<1>5. ASSUME NEW i \in Procs, NEW r \in Roles, NEW rows, NEW granted, Grant(i, r, rows, granted),
             r = "user" => granted \subseteq Matched(menusOf["user"] \cup rows),
             r = "hub_agent" => rows = {} /\ granted \subseteq AgentApis,
             \A j \in Procs :
                 \/ StayPut(j)
                 \/ proc'[j].pc = "userapis" /\ proc'[j].seen.menus \subseteq rows /\ r = "user"
                 \/ /\ proc'[j].pc = "syncapis" /\ proc'[j].role # "hub_agent"
                    /\ proc'[j].role = "user" => r = "user" /\ proc'[j].due \subseteq rows
      PROVE  PrivilegeInv'
  <2>1. /\ menusOf' = [menusOf EXCEPT ![r] = @ \cup rows]
        /\ apisOf' = [apisOf EXCEPT ![r] = @ \cup (granted \cap proc[i].seen.apis \cap apis)]
    BY <1>5 DEF Grant
  <2>2. \A q \in Roles : /\ menusOf'[q] = IF q = r THEN menusOf[q] \cup rows ELSE menusOf[q]
                         /\ apisOf'[q] \subseteq IF q = r THEN apisOf[q] \cup granted ELSE apisOf[q]
    BY <1>1, <2>1
  <2>3. apisOf'["user"] \subseteq Matched(menusOf'["user"])
    <3>1. apisOf["user"] \subseteq Matched(menusOf["user"])
      BY DEF PrivilegeInv, LeastPrivilege, Matched
    <3>2. "user" \in Roles /\ \A rows1, rows2 : rows1 \subseteq rows2 => Matched(rows1) \subseteq Matched(rows2)
      BY DEF Roles, Matched
    <3>3. QED
      BY <1>5, <2>2, <3>1, <3>2
  <2>4. menusOf'["hub_agent"] = {} /\ apisOf'["hub_agent"] \subseteq AgentApis
    BY <1>5, <2>2 DEF PrivilegeInv, LeastPrivilege, Roles
  <2>5. \A j \in Procs : MenusFirst(j)'
    <3>1. menusOf["user"] \subseteq menusOf'["user"] /\ (r = "user" => rows \subseteq menusOf'["user"])
      BY <2>2 DEF Roles
    <3>2. QED
      BY <1>5, <3>1 DEF PrivilegeInv, MenusFirst
  <2>6. LeastPrivilege'
    BY <2>3, <2>4 DEF LeastPrivilege, Matched
  <2>7. QED
    BY <2>5, <2>6 DEF PrivilegeInv
<1>6. ASSUME NEW i \in Procs, NEW s \in Steps, Go(i, s)
      PROVE  \A j \in Procs : \/ proc'[j] = proc[j]
                              \/ j = i /\ proc'[j].pc = s /\ proc'[j].seen = proc[j].seen
  BY <1>6, GoMoves DEF MovedTo, Moved
<1>7. ASSUME NEW i \in Procs, GrantAdmin(i) \/ GrantAdminMenus(i) \/ GrantAgent(i) PROVE PrivilegeInv'
  <2>1. \A j \in Procs : StayPut(j)
    BY <1>6, <1>7 DEF GrantAdmin, GrantAdminMenus, GrantAgent, Steps, Locked
  <2> HIDE DEF StayPut
  <2>2. QED
    BY <1>5, <1>7, <2>1 DEF GrantAdmin, GrantAdminMenus, GrantAgent, Roles
<1>8. ASSUME NEW i \in Procs, GrantUser(i) PROVE PrivilegeInv'
  <2>1. \A j \in Procs : StayPut(j) \/ (proc'[j].pc = "userapis" /\ proc'[j].seen.menus \subseteq proc[i].seen.menus)
    BY <1>6, <1>8 DEF GrantUser, Steps, Locked
  <2> HIDE DEF StayPut
  <2>2. QED
    BY <1>5, <1>8, <2>1 DEF GrantUser, Roles
<1>9. ASSUME NEW i \in Procs, GrantUserApis(i) PROVE PrivilegeInv'
  <2>1. \A j \in Procs : StayPut(j)
    BY <1>6, <1>9 DEF GrantUserApis, Steps, Locked
  <2>2. Matched(proc[i].seen.menus) \subseteq Matched(menusOf["user"] \cup {})
    BY <1>9 DEF PrivilegeInv, MenusFirst, GrantUserApis, At, Matched
  <2> HIDE DEF StayPut
  <2>3. QED
    BY <1>5, <1>9, <2>1, <2>2 DEF GrantUserApis, Roles
<1>10. ASSUME NEW i \in Procs, NEW r \in Roles, SyncRole(i, r) PROVE PrivilegeInv'
  <2> DEFINE rows == NewMenus(i, r)
  <2>1. r = "hub_agent" => rows = {}
    BY DEF NewMenus, PrivilegeInv, LeastPrivilege
  <2>2. Grant(i, r, rows, {}) /\ proc[i] \in Process
    BY <1>0, <1>10 DEF SyncRole, InTurn
  <2>3. proc' = [proc EXCEPT ![i] = [proc[i] EXCEPT !.todo = proc[i].todo \ {r}, !.due = rows,
                                         !.role = IF rows = {} THEN "none" ELSE r,
                                         !.pc = IF rows = {} THEN "sync" ELSE "syncapis"]]
    BY <1>10 DEF SyncRole, InTurn
  <2> HIDE DEF rows
  <2>4. /\ \A j \in Procs \ {i} : proc'[j] = proc[j]
        /\ proc'[i].due = rows /\ proc'[i].role = (IF rows = {} THEN "none" ELSE r)
        /\ proc'[i].pc = IF rows = {} THEN "sync" ELSE "syncapis"
    BY <1>0, <2>2, <2>3 DEF Process
  <2>5. \A j \in Procs :
            \/ StayPut(j)
            \/ /\ proc'[j].pc = "syncapis" /\ proc'[j].role # "hub_agent"
               /\ proc'[j].role = "user" => r = "user" /\ proc'[j].due \subseteq rows
    BY <2>1, <2>4
  <2> HIDE DEF StayPut
  <2>6. QED
    BY <1>5, <2>1, <2>2, <2>5
<1>11. ASSUME NEW i \in Procs, GrantMenuApis(i) PROVE PrivilegeInv'
  <2> DEFINE r == proc[i].role
  <2>1. proc[i].pc = "syncapis" /\ Grant(i, r, {}, Matched(proc[i].due))
    BY <1>11 DEF GrantMenuApis, At
  <2>2. r \in Roles /\ r # "hub_agent" /\ (r = "user" => proc[i].due \subseteq menusOf["user"])
    BY <1>0, <2>1 DEF SeenOf, PrivilegeInv, MenusFirst
  <2>3. \A j \in Procs : StayPut(j)
    BY <1>0, <1>11 DEF GrantMenuApis, Process
  <2>4. r = "user" => Matched(proc[i].due) \subseteq Matched(menusOf["user"] \cup {})
    BY <2>2 DEF Matched
  <2> HIDE DEF StayPut, r
  <2>5. QED
    BY <1>5, <2>1, <2>2, <2>3, <2>4
<1>12. ASSUME NEW i \in Procs, Die(i) \/ Raise(i) \/ \E v \in Versions : Start(i, v) PROVE PrivilegeInv'
  <2>1. \A j \in Procs : StayPut(j)
    <3>1. CASE Die(i) \/ Raise(i)
      BY <1>0, <3>1 DEF Die, Raise, Down
    <3>2. ASSUME NEW v \in Versions, Start(i, v)
          PROVE  \A j \in Procs : StayPut(j)
      BY <1>0, <3>2 DEF Start, Down
    <3>3. QED
      BY <1>12, <3>1, <3>2
  <2>2. UNCHANGED <<menusOf, apisOf>>
    BY <1>12 DEF Die, Raise, Start
  <2> HIDE DEF StayPut
  <2>3. QED
    BY <1>2, <2>1, <2>2
<1>13. ASSUME Expire \/ (\E k \in ProviderRows : EditItem(k)) \/ Deactivate \/ UNCHANGED vars PROVE PrivilegeInv'
  BY <1>2, <1>13 DEF Expire, EditItem, Deactivate, vars
<1>14. ASSUME NEW i \in Procs, InitData(i) PROVE PrivilegeInv'
  BY <1>3, <1>4, <1>7, <1>8, <1>9, <1>10, <1>11, <1>14
<1>15. QED
  BY <1>12, <1>13, <1>14 DEF Next

------------------------------------------------------------------------------
(* The theorems.                                                            *)

\* The invariant holds at the start, and every step keeps it.
LEMMA Inductive == Spec => []IInv
<1>1. Init => IInv
  <2> SUFFICES ASSUME Init PROVE IInv
    OBVIOUS
  <2>1. Syncing = {} /\ \A i \in Procs : proc[i].pc = "down"
    BY DEF Init, Syncing, Down, Locked
  <2>2. LockInv
    BY <2>1, ProcsAssumption DEF Init, LockInv, Free
  <2>3. PrivilegeInv
    BY <2>1 DEF Init, PrivilegeInv, MenusFirst, LeastPrivilege, Roles
  <2>4. QED
    BY <2>2, <2>3, TypeInvInit DEF IInv
<1>2. IInv /\ [Next]_vars => IInv'
  BY TypeInvStep, LockInvStep, PrivilegeInvStep DEF IInv
<1>3. QED
  BY <1>1, <1>2, PTL DEF Spec

\* Types: at every moment of a start, and wherever one died between two roles, only
\* menus and APIs that are there are granted, and only to roles that are there
\* (app/core/init_app.py).
THEOREM TypeSafe == Spec => []TypeOK
<1>1. IInv => TypeOK
  BY DEF IInv, TypeInv
<1>2. QED
  BY <1>1, Inductive, PTL

\* However many processes start, die and are replaced, at most one whose lock has
\* not run out synchronises (_try_acquire_init_lock).
THEOREM SynchronisedByOne == Spec => []OneSynchronises
<1>1. IInv => OneSynchronises
  <2> SUFFICES ASSUME IInv PROVE OneSynchronises
    OBVIOUS
  <2>1. Syncing \ outlived \subseteq {lock.by}
    BY DEF IInv, LockInv
  <2>2. IsFiniteSet({lock.by}) /\ Cardinality({lock.by}) = 1
    BY FS_Singleton
  <2>3. Cardinality(Syncing \ outlived) <= Cardinality({lock.by})
    BY <2>1, <2>2, FS_Subset
  <2>4. QED
    BY <2>2, <2>3 DEF OneSynchronises
<1>2. QED
  BY <1>1, Inductive, PTL

\* Whatever versions have synchronised what, and wherever they died, a user may call
\* only what its menus lead to and the agent only what it needs (init_roles).
THEOREM GrantedLeast == Spec => []LeastPrivilege
<1>1. IInv => LeastPrivilege
  BY DEF IInv, PrivilegeInv
<1>2. QED
  BY <1>1, Inductive, PTL
=============================================================================
