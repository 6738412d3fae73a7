----------------------------- MODULE Livestream -----------------------------
(***************************************************************************)
(* The kill path of the public stream (core/livestream/                    *)
(* kill_switch_monitor.py and stream_controller.py): a monitor polls the   *)
(* kill switch in Redis and moves the stream controller into and out of    *)
(* its safe state.  The encoder behind the callbacks is external: a        *)
(* callback may raise before or after it has taken effect.  An action is   *)
(* the code up to the next await.                                          *)
(***************************************************************************)
EXTENDS Naturals

CONSTANTS Setups,    \* how the controller is wired: a subset of Wirings
          MaxUpsets  \* bound on failures and restarts

(* The card has its two callbacks; a cut has a process and may have a      *)
(* callback that restores the feed.                                        *)
Wirings == {"holding card", "cut", "cut and restore"}

ASSUME StreamAssumption == Setups \subseteq Wirings /\ MaxUpsets \in Nat

VARIABLES setup,      \* RtmpStreamController: kill mode and restore callback
          switch,     \* the kill switch in Redis
          lastActive, \* _last_active of the monitor
          state,      \* _state of the controller
          onAir,      \* what the public sees: the live feed or not
          pushing,    \* the RTMP process the controller was given still runs
          poll,       \* where the monitor is
          sawOff,     \* ghost: the switch was off at some moment of this poll
          halfway,    \* ghost: a callback raised although it took effect
          restarted,  \* ghost: the process was restarted
          upsets      \* failures and restarts so far

streamVars == <<setup, switch, lastActive, state, onAir, pushing, poll, sawOff, halfway,
                restarted, upsets>>

StreamInit ==
    /\ setup \in Setups
    /\ switch \in BOOLEAN
    /\ lastActive = "unknown"
    /\ state = "active"
    /\ onAir = TRUE /\ pushing = TRUE
    /\ poll = "asleep"
    /\ sawOff = FALSE /\ halfway = FALSE /\ restarted = FALSE
    /\ upsets = 0

Upset == upsets < MaxUpsets /\ upsets' = upsets + 1

(* An administrator sets or clears the switch, or its TTL runs out.        *)
Throw ==
    /\ switch' = ~switch
    /\ sawOff' = (sawOff \/ ~switch')
    /\ UNCHANGED <<setup, lastActive, state, onAir, pushing, poll, halfway, restarted, upsets>>

Sees(active) == lastActive' = IF active THEN "on" ELSE "off"

(* poll_once: nothing on an unchanged reading; enter on active; leave only *)
(* if the last reading was active.                                         *)
Act(active) ==
    IF active /\ lastActive # "on"
      THEN poll' = "entering" /\ UNCHANGED lastActive
    ELSE IF ~active /\ lastActive = "on"
      THEN poll' = "leaving" /\ UNCHANGED lastActive
    ELSE poll' = "asleep" /\ Sees(active)

ReadSwitch ==
    /\ poll = "asleep"
    /\ Act(switch)
    /\ sawOff' = ~switch
    /\ UNCHANGED <<setup, switch, state, onAir, pushing, halfway, restarted, upsets>>

(* Mutant: a failed lookup counts as inactive.                             *)
ReadFailsOpen ==
    /\ poll = "asleep"
    /\ Upset
    /\ Act(FALSE)
    /\ sawOff' = ~switch
    /\ UNCHANGED <<setup, switch, state, onAir, pushing, halfway, restarted>>

(* _read_active: a failed lookup counts as active.                         *)
ReadFails ==
    /\ poll = "asleep"
    /\ Upset
    /\ Act(TRUE)
    /\ sawOff' = ~switch
    /\ UNCHANGED <<setup, switch, state, onAir, pushing, halfway, restarted>>

-----------------------------------------------------------------------------
(* _enter_safe_state of RtmpStreamController: the card is shown, or the    *)
(* process it was given is terminated (killed after a timeout).            *)
TakeOffAir ==
    /\ onAir' = IF setup = "holding card" \/ pushing THEN FALSE ELSE onAir
    /\ pushing' = (pushing /\ setup = "holding card")

(* _leave_safe_state: the restore callback, when there is one, puts the    *)
(* feed back, in cut mode by a process the controller does not know.       *)
PutOnAir ==
    /\ onAir' = IF setup = "cut" THEN onAir ELSE TRUE
    /\ UNCHANGED pushing

Untouched == UNCHANGED <<onAir, pushing>>

(* enter_safe_state of BaseStreamController, under its lock.               *)
Enter ==
    /\ poll = "entering"
    /\ IF state = "safe" THEN Untouched ELSE TakeOffAir
    /\ state' = "safe"
    /\ Sees(TRUE)
    /\ poll' = "asleep"
    /\ UNCHANGED <<setup, switch, sawOff, halfway, restarted, upsets>>

(* It raises: neither the state nor _last_active changes, and the next     *)
(* poll tries again.                                                       *)
EnterFails ==
    /\ poll = "entering"
    /\ state = "active"
    /\ Upset
    /\ \/ Untouched /\ UNCHANGED halfway
       \/ TakeOffAir /\ halfway' = TRUE
    /\ poll' = "asleep"
    /\ UNCHANGED <<setup, switch, lastActive, state, sawOff, restarted>>

Leave ==
    /\ poll = "leaving"
    /\ IF state = "active" THEN Untouched ELSE PutOnAir
    /\ state' = "active"
    /\ Sees(FALSE)
    /\ poll' = "asleep"
    /\ UNCHANGED <<setup, switch, sawOff, halfway, restarted, upsets>>

(* Mutant: the reading is noted although the feed was not restored.        *)
LeaveFailsNoted ==
    /\ poll = "leaving"
    /\ state = "safe"
    /\ Upset
    /\ Untouched
    /\ Sees(FALSE)
    /\ poll' = "asleep"
    /\ UNCHANGED <<setup, switch, state, sawOff, halfway, restarted>>

LeaveFails ==
    /\ poll = "leaving"
    /\ state = "safe"
    /\ Upset
    /\ \/ Untouched /\ UNCHANGED halfway
       \/ PutOnAir /\ halfway' = TRUE
    /\ poll' = "asleep"
    /\ UNCHANGED <<setup, switch, lastActive, state, sawOff, restarted>>

(* The process restarts with a new monitor and a new controller; the       *)
(* encoder goes on as it was.                                              *)
RestartStream ==
    /\ Upset
    /\ lastActive' = "unknown"
    /\ state' = "active"
    /\ poll' = "asleep"
    /\ restarted' = TRUE
    /\ UNCHANGED <<setup, switch, onAir, pushing, sawOff, halfway>>

StreamNext ==
    \/ Throw \/ ReadSwitch \/ ReadFails \/ Enter \/ EnterFails \/ Leave \/ LeaveFails
    \/ RestartStream

StreamSpec == StreamInit /\ [][StreamNext]_streamVars

(* run() polls again and again, and transitions end (the stop of a process *)
(* has a timeout).                                                         *)
StreamStep == ReadSwitch \/ Enter \/ Leave

-----------------------------------------------------------------------------
(* Types of all the variables; leaving is only tried after a reading that  *)
(* was active.                                                             *)
StreamTypeOK ==
    /\ setup \in Setups /\ switch \in BOOLEAN
    /\ lastActive \in {"unknown", "on", "off"}
    /\ state \in {"active", "safe"}
    /\ onAir \in BOOLEAN /\ pushing \in BOOLEAN
    /\ poll \in {"asleep", "entering", "leaving"}
    /\ poll = "leaving" => lastActive = "on"
    /\ {sawOff, halfway, restarted} \subseteq BOOLEAN
    /\ upsets \in 0..MaxUpsets

(* docs/livestream/kill-path.md: the kill switch takes the stream into a   *)
(* safe public state.  When the last reading was active, the public does   *)
(* not see the live feed, unless a callback raised half-way; lookups and   *)
(* transitions may fail, and the process restart.                          *)
KilledIsOffAir == lastActive = "on" /\ poll = "asleep" /\ ~halfway => ~onAir

(* The feed comes back only if the switch was off at some moment of the    *)
(* poll that brings it back: a failed lookup never restores it.            *)
BackOnlyWhenClear == [][onAir' /\ ~onAir => sawOff]_streamVars

(* The controller can stop only the process it was given: a feed that a    *)
(* restore callback started after a cut is beyond it.                      *)
OutOfReach == setup = "cut and restore" /\ ~pushing

(* When the last reading was active, the public sees no live feed that the *)
(* controller can stop, unless a callback raised half-way: a kill after    *)
(* failed lookups, failed callbacks or a restart misses none of them.      *)
KilledWithinReach ==
    lastActive = "on" /\ poll = "asleep" /\ ~halfway => ~onAir \/ OutOfReach

(* The switch is obeyed at every step, however the controller is wired: a  *)
(* feed it can stop is off the air once it was told so (KilledWithinReach) *)
(* and comes back only when the switch was read as clear                   *)
(* (BackOnlyWhenClear).                                                    *)
SwitchObeyed == []KilledWithinReach /\ BackOnlyWhenClear

(* A switch that stays on takes a feed the controller can stop off the air *)
(* for good, whatever lookup or transition failed on the way.              *)
KillReachesStream == <>[]switch => <>[](~onAir \/ halfway \/ OutOfReach)

(* A switch that stays off gives the feed back, unless there is nothing to *)
(* restore it, a callback failed half-way, or a restart made the monitor   *)
(* forget that it had taken the feed off.                                  *)
StreamComesBack == <>[]~switch => <>[](onAir \/ halfway \/ restarted \/ setup = "cut")

=============================================================================
