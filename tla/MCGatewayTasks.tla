---------------------------- MODULE MCGatewayTasks ----------------------------
(* Small instances of GatewayTasks; the .cfg files choose among these values. *)
EXTENDS GatewayTasks, TLC
Symmetry == Permutations(Tasks)

\* Three disturbances in all; what disturbs is under no fairness.
Within == used'.cancels + used'.faults + Cardinality(old') <= 3
=============================================================================
