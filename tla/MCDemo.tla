-------------------------------- MODULE MCDemo --------------------------------
(* Instances of Demo for TLC. *)
EXTENDS Demo, TLC

CeilingThree == [k \in Keys |-> 3]

\* Instances, reservations and resets are interchangeable.
Symmetry == Permutations(Instances) \cup Permutations(Ids) \cup Permutations(Resets)
===============================================================================
