---------------------------- MODULE MCProvision ----------------------------
(* Small instances of Provision; the .cfg files choose among these values. *)
EXTENDS Provision, TLC
Symmetry == Permutations(Tasks)

\* One disturbance in all, when something is under way to be disturbed; what
\* disturbs is under no fairness.  The tasks are interchangeable until they are
\* submitted: one of them is always the first.
FirstTask == CHOOSE t \in Tasks : TRUE
Within ==
    /\ used' + Cardinality(old') <= 1
    /\ used' > used => \E t \in Tasks : pc[t] \in Requesting \cup Live \/ thread[t] \in Working
    /\ \A t \in Tasks : pc'[t] # "idle" => pc'[FirstTask] # "idle"
=============================================================================
