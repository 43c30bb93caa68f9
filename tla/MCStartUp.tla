------------------------------ MODULE MCStartUp ------------------------------
EXTENDS StartUp

\* The second version drops the root of the first and adds one with a child.
MCMenus == {"list", "shop", "feed"}

MCParent == [m \in MCMenus |-> IF m = "feed" THEN "shop" ELSE "root"]

MCDeclared == <<{"list"}, {"shop", "feed"}>>

MCRoutes == <<{"claim", "site"}, {"claim", "feeds"}>>

MCPrefixed == [m \in MCMenus |-> IF m = "list" THEN {"site", "claim"} ELSE {"feeds"}]

ProcSymmetry == Permutations(Procs)

\* A version is not started again once a later one has been, and the tables no lock
\* guards are not read by a process while another is in the middle of a synchronisation.
Upwards(i) == proc'[i].pc = "db" => \A k \in Procs : proc[k].ver <= proc'[i].ver

Apart(i) == proc'[i].pc \in {"newproviders", "newitems", "newconfig"} => Syncing \ {i} = {}

\* A fault, or a user who changes something while a process is about to save or
\* repair it.
InTime ==
    /\ faults' + edits' <= 1
    /\ edits' # edits => \E i \in Procs : proc[i].pc \in {"newitems", "accounts"}

Within == InTime /\ \A i \in Procs : Upwards(i) /\ Apart(i)
=============================================================================
