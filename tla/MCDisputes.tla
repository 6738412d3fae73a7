----------------------------- MODULE MCDisputes -----------------------------
(***************************************************************************)
(* An instance of Disputes for TLC: Ann and Ben, one plot, one treaty, and *)
(* two thefts by Ben: a raid that took something and a prowl that did not. *)
(***************************************************************************)
EXTENDS Disputes, TLC

CONSTANTS Ann, Ben, Raid, Prowl

MCThiefOf == Raid :> Ben @@ Prowl :> Ben

=============================================================================
