------------------------------- MODULE MCRuns -------------------------------
(***************************************************************************)
(* An instance of Publishing and of EmbodiedRun for TLC.  What a run       *)
(* spends and what happens to its videos hardly meet, and an embodied run  *)
(* has a process of its own, so a behaviour is bounded in one of these.    *)
(* In a "books" behaviour money is spent, awaits raise, the kill switch is *)
(* thrown and no renderer can be started; in a "videos" behaviour          *)
(* operators render by hand, helpers are killed and uploads are repeated;  *)
(* in an "embodied" behaviour one supervisor of a run that ends works on   *)
(* its row, or several share the row of a persistent one.                  *)
(***************************************************************************)
EXTENDS Publishing, EmbodiedRun

VARIABLE about

runsVars == <<runVars, publishVars, embodiedVars, about>>

Chosen == CHOOSE s \in Supervisors : TRUE

RunsInit ==
    /\ RunInit /\ PublishInit /\ EmbodiedInit
    /\ about \in {"books", "videos", "embodied"}
    /\ IF about = "embodied" THEN mode = "seeded" ELSE embodied = "single"

Headless ==
    /\ PublishNext
    /\ UNCHANGED embodiedVars
    /\ about \in {"books", "videos"}
    /\ about = "books" => (\A h \in Helpers : helper'[h] = Free)
    /\ about = "videos" => spent' = 0 /\ errors' = 0 /\ ~stopped'

Embodied ==
    /\ EmbodiedNext
    /\ UNCHANGED <<runVars, publishVars>>
    /\ about = "embodied"
    /\ embodied = "single" => \A s \in Supervisors \ {Chosen} : sups'[s].pc = "off"
    /\ embodied = "persistent" => \A s \in Supervisors : ~sups'[s].cancelled

RunsNext == (Headless \/ Embodied) /\ UNCHANGED about

(* In every kind a process that can go on can go on: a round may cost      *)
(* nothing, an upload that raises may not have been accepted, and nobody   *)
(* has to start a second supervisor or to cancel one.                      *)
RunsSpec == RunsInit /\ [][RunsNext]_runsVars /\ PublishFairness /\ EmbodiedFairness

(* The processes that work for a run outside of it, its helpers and the    *)
(* harness of the game, do once what they are for and are watched.         *)
DetachedSound == PublishedOnce /\ EmbodiedSound

(* What was started comes to an end: runs, claims on videos, and under the *)
(* kill switch the supervisors and their harnesses.                        *)
AllEnds == EverythingEnds /\ KillEndsAll

=============================================================================
