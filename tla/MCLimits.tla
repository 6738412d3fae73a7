------------------------------ MODULE MCLimits ------------------------------
(***************************************************************************)
(* Instances for TLC of services that keep a limit or a record while their *)
(* requests overlap.  They share no state: in every behaviour one of them, *)
(* picked at the start, runs and the others rest.                          *)
(***************************************************************************)
EXTENDS Director, Spending, EventBus, Objectives, Dangers

CONSTANTS Limited,              \* the services to pick from
          Alpha, Rex, Vera,     \* agents: Alpha plans builds
          Talk, Build, Alarm    \* events

VARIABLE picked

limitVars == <<picked, directorVars, spendVars, busVars, planVars, dangerVars>>

MCKind(topic) == CASE topic = Build -> "build" [] topic = Alarm -> "danger" [] OTHER -> "chat"
MCBuildIntent(topic) == topic # Talk
MCMentions(topic) == IF topic = Talk THEN {Rex, Vera} ELSE {}
MCClaimSets == {{Rex, Vera}}
MCAudiences == {{Alpha, Rex, Vera}, {Alpha}}

LimitsInit ==
    /\ picked \in Limited
    /\ DirectorInit /\ SpendInit /\ BusInit /\ PlanInit /\ DangerInit

On(service) == picked = service

LimitsNext ==
    /\ UNCHANGED picked
    /\ \/ On("director") /\ DirectorNext
          /\ UNCHANGED <<spendVars, busVars, planVars, dangerVars>>
       \/ On("spending") /\ SpendNext
          /\ UNCHANGED <<directorVars, busVars, planVars, dangerVars>>
       \/ On("bus") /\ BusNext
          /\ UNCHANGED <<directorVars, spendVars, planVars, dangerVars>>
       \/ On("plan") /\ PlanNext
          /\ UNCHANGED <<directorVars, spendVars, busVars, dangerVars>>
       \/ On("dangers") /\ DangerNext
          /\ UNCHANGED <<directorVars, spendVars, busVars, planVars>>

LimitsSpec == LimitsInit /\ [][LimitsNext]_limitVars

(* Types of the variables of all the services.                             *)
LimitsTypeOK ==
    DirectorTypeOK /\ SpendTypeOK /\ BusTypeOK /\ PlanTypeOK /\ DangerTypeOK

(* The agents that do not plan are interchangeable, and so are the two     *)
(* callers, sockets, builders or writers, named by the same values, and    *)
(* the two scenes or emitters.                                             *)
Symmetry == Permutations({Rex, Vera}) \cup Permutations(Scenes)

=============================================================================
