----------------------------- MODULE MCTaskBoard -----------------------------
(***************************************************************************)
(* Instances of TaskBoard for TLC.                                         *)
(***************************************************************************)
EXTENDS TaskBoard, TLC

(* Requests, agents and tasks are interchangeable.                         *)
Symmetry == Permutations(Requests) \cup Permutations(Agents) \cup Permutations(Tasks)

=============================================================================
