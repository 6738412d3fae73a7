---------------------------- MODULE StreamHealth ----------------------------
(***************************************************************************)
(* The health of the stream push: scripts/livestream/supervise-stream.sh   *)
(* keeps the push process running and writes a log and a PID file;         *)
(* StreamDownDetector and StreamHealthMonitor (core/livestream/            *)
(* health_monitor.py) read both and alert the operators.                   *)
(*                                                                         *)
(* Time only matters up to the two thresholds: log lines and alerts carry  *)
(* an age that stops growing there.                                        *)
(***************************************************************************)
EXTENDS Naturals, Sequences, SequencesExt

CONSTANTS DownThreshold,  \* down_threshold_seconds, in ticks
          Cooldown,       \* alert_cooldown_seconds, in ticks
          CrashLoopLimit, \* CRASH_LOOP_LIMIT
          TailLines,      \* max_log_lines
          MaxSinkFailures \* bound on alerts that are not delivered

VARIABLES push,       \* the push process runs
          supervisor, \* where supervise-stream.sh is
          crashes,    \* failure_count
          log,        \* exit and restart lines at the end of the log
          unhealthy,  \* _DetectorState.unhealthy
          alertAge,   \* age of last_alert_at, Cooldown + 1 when there is none
          lastTold,   \* ghost: the last event delivered to the operators
          emitted,    \* ghost: the last event emitted
          sinkFailures

healthVars == <<push, supervisor, crashes, log, unhealthy, alertAge, lastTold, emitted,
                sinkFailures>>

NoAlert == Cooldown + 1

HealthInit ==
    /\ push = FALSE
    /\ supervisor = "starting"
    /\ crashes = 0
    /\ log = <<>>
    /\ unhealthy = FALSE
    /\ alertAge = NoAlert
    /\ lastTold = "nothing" /\ emitted = "nothing"
    /\ sinkFailures = 0

monitorVars == <<unhealthy, alertAge, lastTold, emitted, sinkFailures>>

-----------------------------------------------------------------------------
LastLines(lines) ==
    IF Len(lines) > TailLines THEN SubSeq(lines, Len(lines) - TailLines + 1, Len(lines))
    ELSE lines

LogLine(kind) == log' = LastLines(Append(log, [kind |-> kind, age |-> 0]))

(* The supervisor starts the push and writes its PID.                      *)
StartPush ==
    /\ supervisor = "starting"
    /\ push' = TRUE
    /\ supervisor' = "waiting"
    /\ UNCHANGED <<crashes, log, monitorVars>>

PushDies ==
    /\ push
    /\ push' = FALSE
    /\ UNCHANGED <<supervisor, crashes, log, monitorVars>>

(* wait returns: the exit is logged; a crash loop ends the supervisor.     *)
PushExited ==
    /\ supervisor = "waiting" /\ ~push
    /\ LogLine("exit")
    /\ \E n \in {crashes + 1, 1} :  \* 1 when the crash window has passed
          /\ crashes' = n
          /\ supervisor' = IF n >= CrashLoopLimit THEN "aborted" ELSE "pausing"
    /\ UNCHANGED <<push, monitorVars>>

(* After the delay the restart is logged, then the push started.           *)
Restarting ==
    /\ supervisor = "pausing"
    /\ LogLine("restart")
    /\ supervisor' = "starting"
    /\ UNCHANGED <<push, crashes, monitorVars>>

Running == supervisor \in {"starting", "waiting", "pausing"}

(* on_signal: the operator stops the supervisor and the push with it; no   *)
(* exit is logged for that.                                                *)
Stopped ==
    /\ Running
    /\ supervisor' = "stopped"
    /\ push' = FALSE
    /\ UNCHANGED <<crashes, log, monitorVars>>

(* The supervisor is killed: the push goes on, and nobody logs its exit.   *)
Orphaned ==
    /\ Running
    /\ supervisor' = "killed"
    /\ UNCHANGED <<push, crashes, log, monitorVars>>

-----------------------------------------------------------------------------
ExitLines == {i \in DOMAIN log : log[i].kind = "exit"}
RestartLines == {i \in DOMAIN log : log[i].kind = "restart"}

(* StreamDownDetector.check: a restart after the latest exit counts as     *)
(* healthy for as long as it is the end of the log.                        *)
Healthy ==
    \/ push
    \/ \E r \in RestartLines : ExitLines # {} /\ \A i \in ExitLines : i < r
    \/ \E i \in DOMAIN log :
          /\ log[i].age < DownThreshold
          /\ \/ i \in ExitLines /\ \A j \in ExitLines : j <= i
             \/ ExitLines = {} /\ \A j \in RestartLines : j <= i

(* An event is emitted; the sink may fail to deliver it.                   *)
Emits(event) ==
    /\ emitted' = event
    /\ \/ lastTold' = event /\ UNCHANGED sinkFailures
       \/ /\ sinkFailures < MaxSinkFailures
          /\ sinkFailures' = sinkFailures + 1
          /\ UNCHANGED lastTold

Quiet == UNCHANGED <<lastTold, emitted, sinkFailures>>

(* _event_for_result: a recovery is reported once.                         *)
PollHealthy ==
    /\ Healthy
    /\ unhealthy' = FALSE
    /\ IF unhealthy THEN Emits("recovered") /\ alertAge' = NoAlert
       ELSE Quiet /\ UNCHANGED alertAge
    /\ UNCHANGED <<push, supervisor, crashes, log>>

(* An alert is repeated after the cooldown.                                *)
PollUnhealthy ==
    /\ ~Healthy
    /\ unhealthy' = TRUE
    /\ IF alertAge < Cooldown THEN Quiet /\ UNCHANGED alertAge
       ELSE Emits("down") /\ alertAge' = 0
    /\ UNCHANGED <<push, supervisor, crashes, log>>

Older(age, limit) == IF age < limit THEN age + 1 ELSE age

HealthTick ==
    /\ log' = [i \in DOMAIN log |-> [log[i] EXCEPT !.age = Older(@, DownThreshold)]]
    /\ alertAge' = Older(alertAge, Cooldown)
    /\ UNCHANGED <<push, supervisor, crashes, unhealthy, lastTold, emitted, sinkFailures>>

HealthNext ==
    \/ StartPush \/ PushDies \/ PushExited \/ Restarting \/ Stopped \/ Orphaned
    \/ PollHealthy \/ PollUnhealthy \/ HealthTick

HealthSpec == HealthInit /\ [][HealthNext]_healthVars

Supervise == StartPush \/ PushExited \/ Restarting

-----------------------------------------------------------------------------
(* Types of all the variables.                                             *)
HealthTypeOK ==
    /\ push \in BOOLEAN /\ unhealthy \in BOOLEAN
    /\ supervisor \in {"starting", "waiting", "pausing", "aborted", "stopped", "killed"}
    /\ crashes \in 0..CrashLoopLimit
    /\ log \in Seq([kind : {"exit", "restart"}, age : 0..DownThreshold])
    /\ Len(log) <= TailLines
    /\ alertAge \in 0..NoAlert
    /\ {lastTold, emitted} \subseteq {"nothing", "down", "recovered"}
    /\ sinkFailures \in 0..MaxSinkFailures

(* A stream that stays down while its supervisor was neither stopped nor   *)
(* killed, which includes a supervisor that gave up in a crash loop, is    *)
(* alerted, and alerts that are not delivered are repeated until one is.   *)
DownIsTold ==
    <>[](~push /\ supervisor \notin {"stopped", "killed"}) => <>[](lastTold = "down")

(* A stream that stays up ends with a recovery, or without any alert.      *)
UpIsHealthy == <>[]push => <>[](emitted # "down")

=============================================================================
