----------------------------- MODULE MCFactions -----------------------------
(***************************************************************************)
(* Instances of Factions for TLC.                                          *)
(***************************************************************************)
EXTENDS Factions, TLC

CONSTANTS Ann, Ben, Cyd, Dee

(* Ember has three members, Grove one.                                     *)
TwoFactions == <<"ember", "grove">>

ThreeToOne == [f \in FactionIds |->
    CASE f = "ember" -> {Ann, Ben, Cyd}
      [] f = "grove" -> {Dee}
      [] OTHER       -> {}]

AnyTerms == {{}, {"non_aggression"}}

(* The three members of Ember are interchangeable.                         *)
EmberSymmetry == Permutations({Ann, Ben, Cyd})

=============================================================================
