----------------------------- MODULE Management -----------------------------
(***************************************************************************)
(* The review that everything said passes (core/management.py): the lines  *)
(* of the conversation engine and the chat of the Minecraft bots, whose    *)
(* bridge handler is core/bridge/handlers/management.py.  Callers share    *)
(* one Management and their reviews overlap: every await on Redis or on    *)
(* the reviewing model is a point where another review goes on.            *)
(***************************************************************************)
EXTENDS Naturals, FiniteSets

CONSTANTS Agents,           \* who is reviewed
          Engine,           \* the conversation engine as a caller
          BotReviewers,     \* frames of the bridge that ask for a review
          Policies,         \* of "enforce", "shadow" and "off"
          BreakerThreshold, \* _circuit_breaker_threshold
          MaxRaised         \* bound on awaits that raise through

ASSUME ManagementAssumption ==
    /\ Policies \subseteq {"enforce", "shadow", "off"}
    /\ Engine \notin BotReviewers /\ IsFiniteSet(BotReviewers)
    /\ BreakerThreshold \in Nat \ {0} /\ MaxRaised \in Nat

VARIABLES policy,
          muted,     \* agents with a mute key in Redis
          emergency, \* the kill switch that an intervention sets
          failures,  \* _consecutive_llm_failures, up to the threshold
          breaker,   \* _circuit_open_until: none, ahead or passed
          review,    \* of every caller: where it is, of whom, the severity
          late,      \* lines that an agent spoke since it was muted
          raised     \* awaits that raised through so far

managementVars == <<policy, muted, emergency, failures, breaker, review, late, raised>>

Reviewers == BotReviewers \cup {Engine}
Severities == {3, 4, 5}  \* 1 and 2 are announced as 3 is; 0 stands for approved
Someone == CHOOSE a \in Agents : TRUE
Unasked == [pc |-> "idle", agent |-> Someone, severity |-> 0]

ManagementInit ==
    /\ policy \in Policies
    /\ muted = {} /\ emergency = FALSE
    /\ failures = 0 /\ breaker = "closed"
    /\ review = [r \in Reviewers |-> Unasked]
    /\ late = [a \in Agents |-> 0]
    /\ raised = 0

Reviewing(r, pc) == review[r].pc = pc
Verdict(r, severity) ==
    review' = [review EXCEPT ![r].severity = IF policy = "enforce" THEN severity ELSE 0,
                             ![r].pc = IF policy = "enforce" /\ severity > 0 THEN "rejected" ELSE "done"]
Turns(r, pc) == review' = [review EXCEPT ![r].pc = pc]

-----------------------------------------------------------------------------
(* review: nothing is asked when the policy is off.                        *)
BeginReview(r, a) ==
    review' = [review EXCEPT ![r] = [pc |-> IF policy = "off" THEN "done" ELSE "screen",
                                     agent |-> a, severity |-> 0]]

(* Mutant: the keywords and the model are asked, the mute is not.          *)
ScreenUnmuted(r) ==
    /\ Reviewing(r, "screen")
    /\ \/ Verdict(r, 3) /\ UNCHANGED breaker
       \/ breaker = "open" /\ Verdict(r, 3) /\ UNCHANGED breaker
       \/ breaker # "open" /\ Turns(r, "ask") /\ breaker' = "closed"
    /\ UNCHANGED <<policy, muted, emergency, failures, late, raised>>

(* Whether the agent is muted arrives; then the keywords, and the breaker, *)
(* which a cooldown that has passed closes.                                *)
Screen(r) ==
    /\ Reviewing(r, "screen")
    /\ IF policy = "enforce" /\ review[r].agent \in muted
       THEN Verdict(r, 3) /\ UNCHANGED breaker
       ELSE \/ policy = "enforce" /\ Verdict(r, 3) /\ UNCHANGED breaker
            \/ breaker = "open" /\ Verdict(r, 3) /\ UNCHANGED breaker
            \/ breaker # "open" /\ Turns(r, "ask") /\ breaker' = "closed"
    /\ UNCHANGED <<policy, muted, emergency, failures, late, raised>>

(* The model answers, approving or not, in words that parse or not.        *)
Answered(r) ==
    /\ Reviewing(r, "ask")
    /\ \E severity \in Severities \cup {0} : Verdict(r, severity)
    /\ failures' = 0
    /\ UNCHANGED <<policy, muted, emergency, breaker, late, raised>>

(* It does not: the text is blocked, and from the third time on the        *)
(* breaker opens.                                                          *)
Unanswered(r) ==
    /\ Reviewing(r, "ask")
    /\ Verdict(r, 3)
    /\ IF failures + 1 >= BreakerThreshold
       THEN failures' = BreakerThreshold /\ breaker' = "open"
       ELSE failures' = failures + 1 /\ UNCHANGED breaker
    /\ UNCHANGED <<policy, muted, emergency, late, raised>>

(* intervene: an announcement; at severity 3 a replacement, whose failure  *)
(* is swallowed; at severity 5 a mute and then the kill switch.            *)
Announce(r) ==
    /\ Reviewing(r, "rejected") /\ review[r].severity < 5
    /\ Turns(r, "done")
    /\ UNCHANGED <<policy, muted, emergency, failures, breaker, late, raised>>

Mute(r) ==
    /\ Reviewing(r, "rejected") /\ review[r].severity = 5
    /\ muted' = muted \cup {review[r].agent}
    /\ late' = [late EXCEPT ![review[r].agent] = IF review[r].agent \in muted THEN @ ELSE 0]
    /\ Turns(r, "kill")
    /\ UNCHANGED <<policy, emergency, failures, breaker, raised>>

(* Mutant: the agent is muted and the show goes on.                        *)
NoEmergency(r) ==
    /\ Reviewing(r, "kill")
    /\ Turns(r, "done")
    /\ UNCHANGED <<policy, muted, emergency, failures, breaker, late, raised>>

StopShow(r) ==
    /\ Reviewing(r, "kill")
    /\ emergency' = TRUE
    /\ Turns(r, "done")
    /\ UNCHANGED <<policy, muted, failures, breaker, late, raised>>

(* A command of Redis raises, through the review and its caller.           *)
ReviewRaises(r) ==
    /\ policy = "enforce" /\ raised < MaxRaised
    /\ \/ review[r].pc \in {"screen", "kill"}
       \/ Reviewing(r, "rejected") /\ review[r].severity = 5
    /\ Turns(r, "raised")
    /\ raised' = raised + 1
    /\ UNCHANGED <<policy, muted, emergency, failures, breaker, late>>

ReviewStep(r) ==
    Screen(r) \/ Answered(r) \/ Unanswered(r) \/ Announce(r) \/ Mute(r) \/ StopShow(r)

-----------------------------------------------------------------------------
(* A verdict reaches its caller; what was approved is said at once.        *)
Said(r) ==
    /\ Reviewing(r, "done") /\ review[r].severity = 0
    /\ late' = [late EXCEPT ![review[r].agent] = IF review[r].agent \in muted THEN @ + 1 ELSE @]

Delivered(r) ==
    /\ review' = [review EXCEPT ![r] = Unasked]
    /\ UNCHANGED <<policy, muted, emergency, failures, breaker, raised>>

(* A bot asks, and hears; the handler swallows what an intervention raises.*)
BotAsks(r) ==
    /\ Reviewing(r, "idle")
    /\ \E a \in Agents : BeginReview(r, a)
    /\ UNCHANGED <<policy, muted, emergency, failures, breaker, late, raised>>

BotHears(r) ==
    /\ \/ Said(r)
       \/ (Reviewing(r, "raised") \/ (Reviewing(r, "done") /\ review[r].severity > 0)) /\ UNCHANGED late
    /\ Delivered(r)

(* Keys expire or are deleted, and the cooldown of the breaker passes.     *)
Unmute ==
    /\ \E a \in muted : muted' = muted \ {a} /\ late' = [late EXCEPT ![a] = 0]
    /\ UNCHANGED <<policy, emergency, failures, breaker, review, raised>>

ShowResumes ==
    /\ emergency /\ emergency' = FALSE
    /\ UNCHANGED <<policy, muted, failures, breaker, review, late, raised>>

CooldownPasses ==
    /\ breaker = "open" /\ breaker' = "passed"
    /\ UNCHANGED <<policy, muted, emergency, failures, review, late, raised>>

ManagementNext ==
    \/ \E r \in Reviewers : ReviewStep(r) \/ ReviewRaises(r)
    \/ \E r \in BotReviewers : BotAsks(r) \/ BotHears(r)
    \/ Unmute \/ ShowResumes \/ CooldownPasses

-----------------------------------------------------------------------------
ManagementTypeOK ==
    /\ policy \in Policies
    /\ muted \subseteq Agents /\ emergency \in BOOLEAN
    /\ failures \in 0 .. BreakerThreshold /\ breaker \in {"closed", "open", "passed"}
    /\ \A r \in Reviewers :
          /\ review[r].pc \in {"idle", "screen", "ask", "rejected", "kill", "done", "raised"}
          /\ review[r].severity \in Severities \cup {0}
    /\ \A a \in Agents : late[a] \in Nat

(* A muted agent falls silent: of every other review that was under way    *)
(* when the mute was set, at most one line is still spoken (is_muted is    *)
(* read once, before the model is asked).                                  *)
MutedFallSilent == \A a \in Agents : late[a] < Cardinality(Reviewers)

(* A verdict of severity 5 stops the show, whoever asked for the review,   *)
(* unless a command of Redis raised before the switch was set (intervene). *)
EmergencyStopsShow ==
    [](raised = 0) =>
        \A r \in Reviewers : (Reviewing(r, "rejected") /\ review[r].severity = 5) ~> emergency

=============================================================================
