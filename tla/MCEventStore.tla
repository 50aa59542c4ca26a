---------------------------- MODULE MCEventStore ----------------------------
(***************************************************************************)
(* Instances of the event store.                                           *)
(***************************************************************************)
EXTENDS StoreProperties

\* The ids of branches and of runs are interchangeable.
Symmetry == Permutations(Branches) \cup Permutations(Runs)
=============================================================================
