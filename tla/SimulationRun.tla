--------------------------- MODULE SimulationRun ---------------------------
(***************************************************************************)
(* One simulation row and the process that runs it                         *)
(* (core/simulation/orchestrator.py: run, run_autonomous).  The row keeps  *)
(* a status and a total cost; every model call also inserts a cost event,  *)
(* and the orchestrator reconciles the row with the sum of the events.  An *)
(* action is the code up to the next await that reads or writes the        *)
(* database, or that may spend money.                                      *)
(***************************************************************************)
EXTENDS Naturals

CONSTANTS Modes,      \* of "seeded", "autonomous" and "persistent"
          Rounds,     \* phases, or conversations until duration or goal
          MaxCost,    \* max_cost of the configuration
          Bills,      \* what a phase, a reflection or a background call costs
          MaxSpent,   \* bound on the sum of the cost events
          MaxStarts,  \* bound on processes of this simulation
          MaxErrors   \* bound on awaits that raise

ASSUME RunAssumption ==
    /\ Modes \subseteq {"seeded", "autonomous", "persistent"}
    /\ {Rounds, MaxCost, MaxSpent, MaxStarts, MaxErrors} \subseteq Nat
    /\ 0 \in Bills /\ Bills \subseteq Nat

VARIABLES mode,   \* how this simulation is run
          row,    \* the row of simulations
          spent,  \* the sum of its cost events
          run,    \* the orchestrator: where it is, and its fields
          stopped, \* the kill switch in Redis is active
          starts,
          errors,
          since,  \* spent since cost_events was last read
          blind,  \* the last reconciliation failed
          revived \* attached to a row that had ended

books == <<since, blind, revived>>
runVars == <<mode, row, spent, run, stopped, starts, errors, books>>

RunStatuses == {"none", "running", "completed", "cancelled", "failed"}
Alive == run.pc \notin {"off", "ended", "dead"}
Working == run.pc \in {"phase", "stats", "agents", "total", "reflect"}

RunInit ==
    /\ mode \in Modes
    /\ row = [status |-> "none", cost |-> 0, turns |-> FALSE]
    /\ spent = 0
    /\ run = [pc |-> "off", total |-> 0, bill |-> 0, actual |-> 0, after |-> "check",
              status |-> "none", body |-> TRUE, cancelled |-> FALSE, left |-> Rounds]
    /\ stopped = FALSE
    /\ starts = 0 /\ errors = 0
    /\ since = 0 /\ blind = FALSE /\ revived = FALSE

At(pc) == run.pc = pc
Goes(pc) == run' = [run EXCEPT !.pc = pc]
Spends(amount) ==
    /\ spent + amount <= MaxSpent
    /\ spent' = spent + amount
    /\ since' = since + amount
    /\ UNCHANGED <<blind, revived>>
Error == errors < MaxErrors /\ errors' = errors + 1

-----------------------------------------------------------------------------
(* A process starts.  _create_or_attach_simulation makes the row, or       *)
(* attaches to one that the API made, or that an earlier process of a      *)
(* persistent simulation left behind; only a running one of those has its  *)
(* total taken from the cost events.                                       *)
Launch(total) ==
    /\ starts < MaxStarts
    /\ starts' = starts + 1
    /\ run' = [run EXCEPT !.pc = "setup", !.total = total, !.bill = 0, !.status = "none",
                          !.body = TRUE, !.cancelled = FALSE, !.left = Rounds]
    /\ row' = [row EXCEPT !.status = "running"]
    /\ UNCHANGED <<mode, spent, stopped, errors>>

Create ==
    /\ At("off") /\ row.status = "none"
    /\ Launch(0)
    /\ UNCHANGED books

ApiCreates ==
    /\ At("off") /\ row.status = "none"
    /\ row' = [row EXCEPT !.status = "running"]
    /\ UNCHANGED <<mode, spent, run, stopped, starts, errors, books>>

Attach ==
    /\ row.status # "none"
    /\ At("off") \/ (mode = "persistent" /\ run.pc \in {"ended", "dead"})
    /\ Launch(IF mode = "persistent" /\ row.status = "running" THEN spent ELSE 0)
    /\ revived' = (revived \/ row.status # "running")
    /\ UNCHANGED <<since, blind>>

(* Provisioning that raises finalizes the run as failed; what raises later *)
(* in the setup is outside of every try and ends the process.              *)
SetUp ==
    /\ At("setup")
    /\ \/ Goes("check") /\ UNCHANGED errors
       \/ Error /\ run' = [run EXCEPT !.pc = "status", !.status = "failed", !.body = FALSE]
       \/ Error /\ Goes("dead")
    /\ UNCHANGED <<mode, row, spent, stopped, starts, books>>

-----------------------------------------------------------------------------
(* The loop.  A seeded run looks at its cancel flag and its phases, an     *)
(* autonomous one also at the kill switch (_terminated), a persistent one  *)
(* has no end of its own and checks its cost first.                        *)
Terminated ==
    \/ run.cancelled
    \/ mode # "persistent" /\ run.left = 0
    \/ mode # "seeded" /\ stopped

Ends(status) == run' = [run EXCEPT !.pc = "status", !.status = status]

Check ==
    /\ At("check")
    /\ IF Terminated
       THEN Ends(IF run.cancelled THEN "cancelled" ELSE "completed")
       ELSE IF mode = "persistent"
            THEN run' = [run EXCEPT !.pc = "read", !.after = "trigger"]
            ELSE Goes(IF mode = "seeded" THEN "phase" ELSE "trigger")
    /\ UNCHANGED <<mode, row, spent, stopped, starts, errors, books>>

(* No trigger: the clock goes on by an idle gap.                           *)
Trigger ==
    /\ At("trigger")
    /\ \/ Goes("phase")
       \/ run' = [run EXCEPT !.pc = "check",
                             !.left = IF mode = "persistent" THEN @ ELSE @ - 1]
    /\ UNCHANGED <<mode, row, spent, stopped, starts, errors, books>>

(* A phase spends what its turns cost, which its result reports, and what  *)
(* moderation and compaction cost, which it does not.                      *)
RunPhase ==
    /\ At("phase")
    /\ \E bill, extra \in Bills :
          /\ Spends(bill + extra)
          /\ run' = [run EXCEPT !.pc = "stats", !.bill = bill]
    /\ UNCHANGED <<mode, row, stopped, starts, errors>>

IncrementStats ==
    /\ At("stats")
    /\ row' = [row EXCEPT !.cost = @ + run.bill, !.turns = TRUE]
    /\ Goes("agents")
    /\ UNCHANGED <<mode, spent, stopped, starts, errors, books>>

UpdateAgents ==
    /\ At("agents")
    /\ Goes("total")
    /\ UNCHANGED <<mode, row, spent, stopped, starts, errors, books>>

AddTotal ==
    /\ At("total")
    /\ run' = [run EXCEPT !.pc = "reflect", !.total = @ + run.bill,
                          !.left = IF mode = "persistent" THEN @ ELSE @ - 1]
    /\ UNCHANGED <<mode, row, spent, stopped, starts, errors, books>>

Reflect ==
    /\ At("reflect")
    /\ \E extra \in Bills : Spends(extra)
    /\ run' = [run EXCEPT !.pc = "read", !.after = "check"]
    /\ UNCHANGED <<mode, row, stopped, starts, errors>>

(* An await of the loop raises: the run is finalized as failed.  The       *)
(* statement of increment_stats may have taken effect.                     *)
Awaiting ==
    \/ Working /\ ~At("total")
    \/ run.pc \in {"check", "trigger"} /\ mode # "seeded"

Failed(r) == [r EXCEPT !.pc = "status", !.status = "failed", !.body = FALSE]

PhaseRaises ==
    /\ Awaiting
    /\ Error
    /\ run' = Failed(run)
    /\ row' \in {row} \cup (IF At("stats") THEN {[row EXCEPT !.cost = @ + run.bill]} ELSE {})
    /\ UNCHANGED <<mode, spent, stopped, starts, books>>

(* A call of the world simulator, or a memory that is still being          *)
(* compacted, is paid while the orchestrator is anywhere.                  *)
Background ==
    /\ Alive
    /\ \E extra \in Bills \ {0} : Spends(extra)
    /\ UNCHANGED <<mode, row, run, stopped, starts, errors>>

-----------------------------------------------------------------------------
(* _check_cost_limit, and the reconciliation in _finalize: the sum of the  *)
(* cost events is read, the row is moved by what the process did not know, *)
(* and, in the loop, the total is compared with the cap.  The rolling cap  *)
(* of a persistent run may be over at any time.                            *)
ReadCosts ==
    /\ At("read")
    /\ run' = [run EXCEPT !.pc = "book", !.actual = spent]
    /\ since' = 0
    /\ UNCHANGED <<mode, row, spent, stopped, starts, errors, blind, revived>>

(* Mutant: the bill that reached the cap is forgiven.                      *)
OverCapByOne(total) == total > MaxCost + 1

OverCap(total) == total > MaxCost

(* Past the cap: the run is finalized in the handler, as cancelled.        *)
Capped(r) == [r EXCEPT !.pc = "status", !.status = "cancelled", !.body = FALSE]

AfterCheck(r) ==
    IF run.after = "config" THEN {[r EXCEPT !.pc = "config"]}
    ELSE IF OverCap(r.total) THEN {Capped(r)}
    ELSE {[r EXCEPT !.pc = run.after]}
         \cup (IF mode = "persistent" THEN {Capped(r)} ELSE {})

(* Mutant: the row is moved and the total in memory is not.                *)
BookCostsAgain ==
    /\ At("book")
    /\ row' = [row EXCEPT !.cost = @ + (run.actual - run.total)]
    /\ run' \in AfterCheck(run)
    /\ blind' = FALSE
    /\ UNCHANGED <<mode, spent, stopped, starts, errors, since, revived>>

BookCosts ==
    /\ At("book")
    /\ row' = [row EXCEPT !.cost = @ + (run.actual - run.total)]
    /\ run' \in AfterCheck([run EXCEPT !.total = run.actual])
    /\ blind' = FALSE
    /\ UNCHANGED <<mode, spent, stopped, starts, errors, since, revived>>

(* The read or the update raises, which is only logged: the cap is         *)
(* compared with what the process knows.                                   *)
ReconcileFails ==
    /\ run.pc \in {"read", "book"}
    /\ Error
    /\ run' \in AfterCheck(run)
    /\ row' \in {row} \cup (IF At("book")
                            THEN {[row EXCEPT !.cost = @ + (run.actual - run.total)]} ELSE {})
    /\ blind' = TRUE
    /\ UNCHANGED <<mode, spent, stopped, starts, since, revived>>

(* The rolling spend of a persistent run cannot be read: no cap was        *)
(* exceeded, the run failed.                                               *)
RollingRaises ==
    /\ mode = "persistent" /\ At("book") /\ run.after # "config"
    /\ ~OverCap(run.actual)
    /\ Error
    /\ run' = Failed([run EXCEPT !.total = run.actual])
    /\ row' = [row EXCEPT !.cost = @ + (run.actual - run.total)]
    /\ blind' = FALSE
    /\ UNCHANGED <<mode, spent, stopped, starts, since, revived>>

-----------------------------------------------------------------------------
(* _finalize.                                                              *)
UpdateStatus ==
    /\ At("status")
    /\ row' = [row EXCEPT !.status = run.status]
    /\ run' = [run EXCEPT !.pc = "read", !.after = "config"]
    /\ UNCHANGED <<mode, spent, stopped, starts, errors, books>>

UpdateConfig ==
    /\ At("config")
    /\ Goes("render")
    /\ UNCHANGED <<mode, row, spent, stopped, starts, errors, books>>

(* A statement of _finalize raises.  In the body of the run the handler    *)
(* finalizes once more, as failed; in a handler nobody does.               *)
FinalizeRaises ==
    /\ run.pc \in {"status", "config"}
    /\ Error
    /\ run' = IF run.body
              THEN [run EXCEPT !.pc = "status", !.status = "failed", !.body = FALSE]
              ELSE [run EXCEPT !.pc = "dead"]
    /\ row' \in {row} \cup (IF At("status") THEN {[row EXCEPT !.status = run.status]} ELSE {})
    /\ UNCHANGED <<mode, spent, stopped, starts, books>>

-----------------------------------------------------------------------------
(* From outside: cancel(), the kill switch, a crash.                       *)
Cancel ==
    /\ Alive /\ ~run.cancelled
    /\ run' = [run EXCEPT !.cancelled = TRUE]
    /\ UNCHANGED <<mode, row, spent, stopped, starts, errors, books>>

Kill ==
    /\ stopped' = ~stopped
    /\ UNCHANGED <<mode, row, spent, run, starts, errors, books>>

Crash ==
    /\ Alive
    /\ Goes("dead")
    /\ UNCHANGED <<mode, row, spent, stopped, starts, errors, books>>

RunStep ==
    \/ SetUp \/ Check \/ Trigger \/ RunPhase \/ IncrementStats \/ UpdateAgents \/ AddTotal
    \/ Reflect \/ ReadCosts \/ BookCosts \/ UpdateStatus \/ UpdateConfig

RunNext ==
    \/ Create \/ ApiCreates \/ Attach \/ RunStep \/ PhaseRaises \/ Background
    \/ ReconcileFails \/ RollingRaises \/ FinalizeRaises \/ Cancel \/ Kill \/ Crash

-----------------------------------------------------------------------------
RunTypeOK ==
    /\ row.status \in RunStatuses /\ row.cost \in Nat
    /\ run.pc \in {"off", "setup", "check", "trigger", "phase", "stats", "agents", "total", "reflect",
                   "read", "book", "status", "config", "render", "spawn", "ended", "dead"}
    /\ run.total <= spent /\ run.left \in 0 .. Rounds
    /\ since <= spent

(* Unless an await raised or an ended row was revived, the row is never    *)
(* charged more than was spent; and the first process keeps the row equal  *)
(* to the total in its memory, but for the bill of the phase it is booking *)
(* (the pairs of increments in run, run_autonomous, _check_cost_limit and  *)
(* _finalize).                                                             *)
RecordFollowsTotal ==
    errors = 0 /\ ~revived =>
        /\ row.cost <= spent
        /\ Alive /\ starts = 1 =>
              row.cost = run.total + (IF run.pc \in {"agents", "total"} THEN run.bill ELSE 0)

(* While a phase runs, all that had been spent when the cost events were   *)
(* last read was within the cap, whoever spent it: the overshoot is what   *)
(* one round spends.  Not so after a reconciliation that failed.           *)
OvershootIsOneRound ==
    Working /\ ~blind => spent - since <= MaxCost

(* A switch that stays on ends an autonomous run; a seeded one ends with   *)
(* its phases.                                                             *)
KilledRunEnds ==
    /\ <>[](stopped /\ mode # "seeded") => <>[]~Alive
    /\ mode = "seeded" => <>[]~Alive

=============================================================================
