------------------------------ MODULE MCReplicas ------------------------------
(* Instances of Replicas for TLC. *)
EXTENDS Replicas, TLC

CeilingFive == [k \in Keys |-> 5]
CostsMixed  == {-1, 1, 9}

\* Processes, and reservations, are interchangeable.
Symmetry == Permutations(Procs) \cup Permutations(Ids)
===============================================================================
