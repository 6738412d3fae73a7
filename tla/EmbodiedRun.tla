----------------------------- MODULE EmbodiedRun -----------------------------
(***************************************************************************)
(* The supervisor of an embodied simulation                                *)
(* (core/simulation/embodied_supervisor.py): it owns the row of the        *)
(* simulation and a child process, the Minecraft harness, which it polls,  *)
(* stops, and launches again when the run is persistent.  Processes for    *)
(* one name may be started side by side.  An action is the code up to the  *)
(* next await.                                                             *)
(***************************************************************************)
EXTENDS Naturals, Sequences

CONSTANTS Supervisors,   \* processes that may be started
          EmbodiedModes, \* of "single" and "persistent"
          MaxExits,      \* bound on children that end by themselves
          MaxAwaitErrors \* bound on awaits that raise

ASSUME EmbodiedAssumption ==
    /\ EmbodiedModes \subseteq {"single", "persistent"}
    /\ MaxExits \in Nat /\ MaxAwaitErrors \in Nat

VARIABLES embodied,   \* the mode of the run
          halt,       \* the kill switch
          costly,     \* the cost events add up to more than max_cost
          sups,       \* the supervisors
          kids,       \* the child of each
          sims,       \* the rows of that name
          exits,      \* children that ended by themselves so far
          awaitErrors \* awaits that raised so far

embodiedVars == <<embodied, halt, costly, sups, kids, sims, exits, awaitErrors>>
given == <<embodied, halt, costly>>

NewRun == [status |-> "running", reason |-> "none", by |-> "none"]
Unstarted == [pc |-> "off", reason |-> "none", cancelled |-> FALSE, row |-> 0, status |-> "none"]
Stops == {"cancelled", "kill_switch", "cost_cap", "goal_reached"}

EmbodiedInit ==
    /\ embodied \in EmbodiedModes
    /\ halt = FALSE /\ costly = FALSE
    /\ sups = [s \in Supervisors |-> Unstarted]
    /\ kids = [s \in Supervisors |-> "none"]
    /\ sims = <<>>
    /\ exits = 0 /\ awaitErrors = 0

In(s, pc) == sups[s].pc = pc
Moves(s, pc) == sups' = [sups EXCEPT ![s].pc = pc]
Supervising(s) == sups[s].pc \notin {"off", "over", "dead"}

(* _set_stop_reason: the first reason stays.                               *)
First(s, reason) == IF sups[s].reason = "none" THEN reason ELSE sups[s].reason
EndsWith(s, status, reason) ==
    sups' = [sups EXCEPT ![s].pc = "final", ![s].status = status, ![s].reason = First(s, reason)]

(* The finally of the command runner asks a child that runs to end.        *)
Told(s) == kids' = [kids EXCEPT ![s] = IF @ = "running" THEN "told" ELSE @]

-----------------------------------------------------------------------------
(* _create_or_attach_simulation: a row given by its id is set running; a   *)
(* persistent run looks for the latest row of its name and attaches when   *)
(* that is running; else there is a new row.                               *)
StartSupervisor(s) ==
    /\ In(s, "off")
    /\ \/ Moves(s, "find") /\ UNCHANGED sims
       \/ \E r \in DOMAIN sims :
             /\ sups' = [sups EXCEPT ![s].pc = "setup", ![s].row = r]
             /\ sims' = [sims EXCEPT ![r].status = "running"]
    /\ UNCHANGED <<given, kids, exits, awaitErrors>>

FindRow(s) ==
    /\ In(s, "find")
    /\ IF embodied = "persistent" /\ sims # <<>> /\ sims[Len(sims)].status = "running"
       THEN sups' = [sups EXCEPT ![s].pc = "setup", ![s].row = Len(sims)]
       ELSE Moves(s, "create")
    /\ UNCHANGED <<given, kids, sims, exits, awaitErrors>>

CreateRow(s) ==
    /\ In(s, "create")
    /\ sims' = Append(sims, NewRun)
    /\ sups' = [sups EXCEPT ![s].pc = "setup", ![s].row = Len(sims) + 1]
    /\ UNCHANGED <<given, kids, exits, awaitErrors>>

(* The objectives and the config are stored outside of any try.            *)
SetUpRun(s) ==
    /\ In(s, "setup")
    /\ Moves(s, "ask")
    /\ UNCHANGED <<given, kids, sims, exits, awaitErrors>>

SetUpFails(s) ==
    /\ sups[s].pc \in {"find", "create", "setup"}
    /\ awaitErrors < MaxAwaitErrors /\ awaitErrors' = awaitErrors + 1
    /\ Moves(s, "over")
    /\ UNCHANGED <<given, kids, sims, exits>>

-----------------------------------------------------------------------------
(* Mutant: the child is told to end, and not waited for.                   *)
StopsAtOnce(s, reason) == EndsWith(s, "cancelled", reason) /\ Told(s)

(* should_stop answered yes: before a launch the run ends; after it the    *)
(* child is terminated, which raises when it is gone already.              *)
StopsFor(s, reason) ==
    CASE kids[s] = "none" -> EndsWith(s, "cancelled", reason) /\ UNCHANGED kids
      [] kids[s] = "running" ->
             /\ sups' = [sups EXCEPT ![s].pc = "kill", ![s].reason = First(s, reason)]
             /\ Told(s)
      [] OTHER -> /\ \E status \in {"cancelled", "failed"} : EndsWith(s, status, reason)
                  /\ UNCHANGED kids

(* should_stop, one await after the other: cancel, the kill switch, the    *)
(* costs (by an exception), a goal.                                        *)
AskSwitch(s) ==
    /\ In(s, "ask")
    /\ CASE sups[s].cancelled -> StopsFor(s, "cancelled")
         [] ~sups[s].cancelled /\ halt -> StopsFor(s, "kill_switch")
         [] OTHER -> Moves(s, "bill") /\ UNCHANGED kids
    /\ UNCHANGED <<given, sims, exits, awaitErrors>>

AskCosts(s) ==
    /\ In(s, "bill")
    /\ \/ costly /\ EndsWith(s, "cancelled", "cost_cap") /\ Told(s)
       \/ ~costly /\ embodied = "single" /\ StopsFor(s, "goal_reached")
       \/ ~costly /\ Moves(s, IF kids[s] = "none" THEN "launch" ELSE "watch") /\ UNCHANGED kids
    /\ UNCHANGED <<given, sims, exits, awaitErrors>>

LaunchKid(s) ==
    /\ In(s, "launch")
    /\ kids' = [kids EXCEPT ![s] = "running"]
    /\ Moves(s, "watch")
    /\ UNCHANGED <<given, sims, exits, awaitErrors>>

(* A read or the spawn raises.                                             *)
SupervisorRaises(s) ==
    /\ sups[s].pc \in {"ask", "bill", "launch"}
    /\ awaitErrors < MaxAwaitErrors /\ awaitErrors' = awaitErrors + 1
    /\ EndsWith(s, "failed", "supervisor_error")
    /\ Told(s)
    /\ UNCHANGED <<given, sims, exits>>

-----------------------------------------------------------------------------
PollTimeout(s) ==
    /\ In(s, "watch") /\ kids[s] = "running"
    /\ Moves(s, "ask")
    /\ UNCHANGED <<given, kids, sims, exits, awaitErrors>>

(* wait returns: a persistent run goes around, any other ends.             *)
KidReturns(s) ==
    /\ In(s, "watch")
    /\ \/ /\ kids[s] = "nonzero"
          /\ EndsWith(s, IF sups[s].reason \in Stops THEN "cancelled" ELSE "failed", "exit")
          /\ UNCHANGED kids
       \/ /\ kids[s] = "zero" /\ embodied = "single"
          /\ EndsWith(s, IF sups[s].reason \in Stops THEN "cancelled" ELSE "completed", "completed")
          /\ UNCHANGED kids
       \/ /\ kids[s] = "zero" /\ embodied = "persistent"
          /\ Moves(s, "ask")
          /\ kids' = [kids EXCEPT ![s] = "none"]
    /\ UNCHANGED <<given, sims, exits, awaitErrors>>

(* The child ends, or is killed after ten seconds.                         *)
ReapKid(s) ==
    /\ In(s, "kill")
    /\ kids' = [kids EXCEPT ![s] = "nonzero"]
    /\ EndsWith(s, "cancelled", sups[s].reason)
    /\ UNCHANGED <<given, sims, exits, awaitErrors>>

(* _finalize.                                                              *)
FinalizeRow(s) ==
    /\ In(s, "final")
    /\ sims' = [sims EXCEPT ![sups[s].row] =
                   [status |-> sups[s].status, reason |-> sups[s].reason, by |-> s]]
    /\ Moves(s, "over")
    /\ UNCHANGED <<given, kids, exits, awaitErrors>>

FinalizeRowFails(s) ==
    /\ In(s, "final")
    /\ awaitErrors < MaxAwaitErrors /\ awaitErrors' = awaitErrors + 1
    /\ Moves(s, "over")
    /\ UNCHANGED <<given, kids, sims, exits>>

-----------------------------------------------------------------------------
CancelRun(s) ==
    /\ Supervising(s) /\ ~sups[s].cancelled
    /\ sups' = [sups EXCEPT ![s].cancelled = TRUE, ![s].reason = First(s, "cancelled")]
    /\ UNCHANGED <<given, kids, sims, exits, awaitErrors>>

(* A keyboard interrupt cancels run, which catches no CancelledError; any  *)
(* other signal ends the process on the spot.                              *)
InterruptRun(s) ==
    /\ Supervising(s)
    /\ Moves(s, "over")
    /\ Told(s)
    /\ UNCHANGED <<given, sims, exits, awaitErrors>>

SupervisorDies(s) ==
    /\ Supervising(s)
    /\ Moves(s, "dead")
    /\ UNCHANGED <<given, kids, sims, exits, awaitErrors>>

(* The harness ends, by itself or because it was told to.                  *)
KidEnds(s) ==
    /\ \/ kids[s] = "running" /\ exits < MaxExits /\ exits' = exits + 1
       \/ kids[s] = "told" /\ UNCHANGED exits
    /\ \E code \in {"zero", "nonzero"} : kids' = [kids EXCEPT ![s] = code]
    /\ UNCHANGED <<given, sups, sims, awaitErrors>>

OthersAct ==
    /\ \/ halt' = ~halt /\ UNCHANGED costly
       \/ ~costly /\ costly' = TRUE /\ UNCHANGED halt
    /\ UNCHANGED <<embodied, sups, kids, sims, exits, awaitErrors>>

SupervisorStep(s) ==
    \/ FindRow(s) \/ CreateRow(s) \/ SetUpRun(s) \/ AskSwitch(s) \/ AskCosts(s) \/ LaunchKid(s)
    \/ PollTimeout(s) \/ KidReturns(s) \/ ReapKid(s) \/ FinalizeRow(s)

EmbodiedNext ==
    \/ OthersAct
    \/ \E s \in Supervisors :
          \/ StartSupervisor(s) \/ SupervisorStep(s) \/ KidEnds(s) \/ CancelRun(s)
          \/ SetUpFails(s) \/ SupervisorRaises(s) \/ FinalizeRowFails(s)
          \/ InterruptRun(s) \/ SupervisorDies(s)

(* The event loop runs the supervisor; no child is assumed to end.         *)
EmbodiedFairness == \A s \in Supervisors : WF_embodiedVars(SupervisorStep(s))

EmbodiedSpec == EmbodiedInit /\ [][EmbodiedNext]_embodiedVars /\ EmbodiedFairness

-----------------------------------------------------------------------------
EmbodiedTypeOK ==
    /\ halt \in BOOLEAN /\ costly \in BOOLEAN
    /\ \A s \in Supervisors :
          /\ sups[s].row <= Len(sims)
          /\ sups[s].reason \in Stops \cup {"none", "exit", "completed", "supervisor_error"}
          /\ kids[s] \in {"none", "running", "told", "zero", "nonzero"}

(* A harness that nobody told to end is watched by the supervisor that     *)
(* launched it, unless that was killed (the finally of                     *)
(* _default_command_runner).                                               *)
KidsAreWatched ==
    \A s \in Supervisors :
        kids[s] = "running" => sups[s].pc \in {"watch", "ask", "bill", "dead"}

(* What a row says is what happened: a completed run is one whose harness  *)
(* ended well and that nobody stopped, and a run recorded as cancelled by  *)
(* the kill switch or by a goal has no harness left that could still act,  *)
(* whichever supervisor wrote it (_finalize, should_stop).  A run that is  *)
(* cancelled over its costs may have one: it was told, not waited for.     *)
RowsTellTheEnd ==
    \A r \in DOMAIN sims :
        /\ sims[r].status = "completed" =>
              sims[r].reason = "completed" /\ kids[sims[r].by] = "zero"
        /\ sims[r].status = "cancelled" => sims[r].reason \in Stops
        /\ sims[r].status = "cancelled" /\ sims[r].reason \in {"kill_switch", "goal_reached"} =>
              kids[sims[r].by] \in {"none", "zero", "nonzero"}

EmbodiedSound == KidsAreWatched /\ RowsTellTheEnd

(* A kill switch that stays on ends every supervisor and leaves no harness *)
(* that was not told to end, unless a supervisor was killed.               *)
KillEndsAll ==
    ([](\A s \in Supervisors : ~In(s, "dead")) /\ <>[]halt) =>
        <>[](\A s \in Supervisors : ~Supervising(s) /\ kids[s] # "running")

=============================================================================
