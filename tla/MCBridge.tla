------------------------------ MODULE MCBridge ------------------------------
(***************************************************************************)
(* Instances of Bridge for TLC.                                            *)
(***************************************************************************)
EXTENDS Bridge, TLC

(* The connections are interchangeable.                                    *)
Symmetry == Permutations(Bots)

=============================================================================
