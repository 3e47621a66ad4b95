---------------------------- MODULE MCEventStream ----------------------------
(* Instances of EventStream for TLC. *)
EXTENDS EventStream, TLC

(* Tasks are interchangeable: they are only compared. *)
Symmetry == Permutations(Tasks)
=============================================================================
