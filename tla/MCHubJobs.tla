------------------------------ MODULE MCHubJobs ------------------------------
(* Small instances of HubJobs; the .cfg files choose among these values.   *)
EXTENDS HubJobs, TLC
Symmetry == Permutations(Agents) \cup Permutations(Handlers)

\* Fewer jobs are dispatched when one is retried or a site is edited, and the last of them only to
\* give a site another account, when nothing else is under way.  The server itself executes the
\* first.
\* An update of a site changes one of the columns.  A site is edited once a job was dispatched,
\* and not in a behaviour in which a job is retried; the server executes no job of one in which
\* a job is retried.
\* Idle handlers are alike: when all are, one of them is always the next.
FirstHandler == CHOOSE h \in Handlers : TRUE
Work == nextJob + Cardinality(Dispatching) - 1 + calls["retry"] + calls["edit"]
Within ==
    /\ Work' > Work /\ Work' >= MaxJobs =>
            /\ Work' = MaxJobs /\ calls'["retry"] = 0 /\ calls'["edit"] = 0
            /\ \E h \in Handlers : hpc'[h] = "dispatch_clear"
            /\ \A h \in Handlers : hpc[h] = "idle"
            /\ \A j \in 1..(nextJob - 1) : status[j] \notin {"pending", "running"}
    /\ \A h \in Handlers : hpc[h] = "update_save" =>
            \A s \in Sites : Cardinality({c \in {"env", "account", "hub"} : site'[s][c] # local[h].row[c]}) <= 1
                             \/ site' = site
    /\ calls'["edit"] > calls["edit"] => nextJob > 1 /\ calls["retry"] = 0
    /\ calls'["retry"] > calls["retry"] => calls["edit"] = 0 /\ \A h \in Handlers : ~local[h].now
    /\ \A h \in Handlers : local'[h].now /\ ~local[h].now => nextJob = 1 /\ Dispatching = {}
    /\ (\A h \in Handlers : hpc[h] = "idle") =>
            \A h \in Handlers \ {FirstHandler} : hpc'[h] = "idle"
=============================================================================
