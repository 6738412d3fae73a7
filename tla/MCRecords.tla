------------------------------ MODULE MCRecords ------------------------------
(***************************************************************************)
(* Instances for TLC of what must be recorded once, and for everybody, by  *)
(* callers that overlap: claims of tasks, errands and kill switch of the   *)
(* bridge, votes on alliances, scenes and their memories.  They share no   *)
(* state: in every behaviour one of them, picked at the start, runs and    *)
(* the others rest.  One task at most is created for its owner.            *)
(***************************************************************************)
EXTENDS TaskBoard, Bridge, Alliances, SceneMemory

CONSTANTS Recorded,         \* the services to pick from
          Alpha, Rex, Vera  \* agents

VARIABLE picked

recordVars == <<picked, vars, bridgeVars, allianceVars, sceneVars>>

RecordsInit ==
    /\ picked \in Recorded
    /\ Init /\ BridgeInit /\ AllianceInit /\ SceneInit

On(service) == picked = service

RecordsNext ==
    /\ UNCHANGED picked
    /\ \/ On("board") /\ Next /\ Cardinality({t \in Tasks : origin'[t] = "owned"}) <= 1
          /\ UNCHANGED <<bridgeVars, allianceVars, sceneVars>>
       \/ On("bridge") /\ BridgeNext
          /\ UNCHANGED <<vars, allianceVars, sceneVars>>
       \/ On("alliances") /\ AllianceNext
          /\ UNCHANGED <<vars, bridgeVars, sceneVars>>
       \/ On("scenes") /\ SceneNext
          /\ UNCHANGED <<vars, bridgeVars, allianceVars>>

RecordsSpec == RecordsInit /\ [][RecordsNext]_recordVars

(* Types of the variables of all the services.                             *)
RecordsTypeOK == TypeOK /\ BridgeTypeOK /\ AllianceTypeOK /\ SceneTypeOK

(* Two agents, called by the same names in all the services, are           *)
(* interchangeable, and so are the tasks and the requests.                  *)
Symmetry ==
    Permutations({Rex, Vera}) \cup Permutations(Tasks) \cup Permutations(Requests)

=============================================================================
