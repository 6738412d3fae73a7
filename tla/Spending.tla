------------------------------ MODULE Spending ------------------------------
(***************************************************************************)
(* The hourly spend cap of one agent (core/cost_governor.py) as the LLM    *)
(* client (core/llm_client.py) uses it: a call checks the cap, sends its   *)
(* request with retries, records the cost with retries and re-evaluates    *)
(* the cap.  Calls of one agent run concurrently; an action is the code up *)
(* to the next await (Redis, the database, the provider).                  *)
(***************************************************************************)
EXTENDS Integers, FiniteSets, Functions

CONSTANTS Callers,       \* concurrent calls of the agent
          Cap,           \* the cap of the agent, in cents
          Prices,        \* what an answered call may cost
          Window,        \* window_seconds, in ticks
          MaxTime,       \* bound on the clock
          MaxCosts,      \* bound on the cost events in the database
          MaxPosts,      \* MAX_RETRIES of _request_with_retry
          MaxAttempts    \* attempts of _log_cost

(* Callers overlap in any number; a cap of zero or less disables the       *)
(* governor (cap_for), and the window is positive (__init__).              *)
ASSUME SpendAssumption ==
    /\ IsFiniteSet(Callers)
    /\ Cap \in Nat \ {0} /\ Window \in Nat \ {0}
    /\ Prices \subseteq Nat /\ IsFiniteSet(Prices) /\ Prices # {}
    /\ {MaxTime, MaxPosts, MaxAttempts} \subseteq Nat \ {0} /\ MaxCosts \in Nat

VARIABLES time,      \* the clock
          blockedTo, \* when the block key in Redis expires
          events,    \* cost_events: records of call number, time and amount
          lost,      \* _lost_cost_events
          call,      \* where each call is
          answered,  \* calls the provider has answered
          doubted    \* ghost: inserts that raised although they took effect

spendVars == <<time, blockedTo, events, lost, call, answered, doubted>>

Highest(S) == CHOOSE x \in S : \A y \in S : y <= x

(* get_agent_spend_since: an event of the very boundary counts.            *)
Recent(t) == {e \in events : e.at + Window >= t}
SpendAt(t) == SumFunction([e \in Recent(t) |-> e.amount])
Spend == SpendAt(time)

Blocked == time < blockedTo

(* over: ghost, the spend has been at the cap ever since the call came in. *)
NoCall == [step |-> "idle", tries |-> 0, number |-> 0, price |-> 0, over |-> FALSE]

SpendInit ==
    /\ time = 1
    /\ blockedTo = 0
    /\ events = {}
    /\ lost = 0
    /\ call = [c \in Callers |-> NoCall]
    /\ answered = 0
    /\ doubted = 0

GoTo(c, step) == call' = [call EXCEPT ![c].step = step, ![c].tries = 0]
Over(c) == call' = [call EXCEPT ![c] = NoCall]

-----------------------------------------------------------------------------
(* complete and stream begin with _raise_if_agent_capped.                  *)
Start(c) ==
    /\ call[c].step = "idle"
    /\ call' = [call EXCEPT ![c] = [NoCall EXCEPT !.step = "flag", !.over = Spend >= Cap]]
    /\ UNCHANGED <<time, blockedTo, events, lost, answered, doubted>>

(* is_allowed and record_and_check look for the block key first: found, it *)
(* refuses the call before the request, and ends the check after it.       *)
ReadFlag(c) ==
    /\ call[c].step \in {"flag", "reflag"}
    /\ IF Blocked THEN Over(c)
       ELSE GoTo(c, IF call[c].step = "flag" THEN "spend" ELSE "respend")
    /\ UNCHANGED <<time, blockedTo, events, lost, answered, doubted>>

(* Mutant: the cap itself may still be spent.                              *)
ReadSpendAbove(c) ==
    /\ call[c].step \in {"spend", "respend"}
    /\ IF Spend > Cap THEN GoTo(c, "trip")
       ELSE IF call[c].step = "spend" THEN GoTo(c, "request") ELSE Over(c)
    /\ UNCHANGED <<time, blockedTo, events, lost, answered, doubted>>

(* Then they sum up the events of the window.                              *)
ReadSpend(c) ==
    /\ call[c].step \in {"spend", "respend"}
    /\ IF Spend >= Cap THEN GoTo(c, "trip")
       ELSE IF call[c].step = "spend" THEN GoTo(c, "request") ELSE Over(c)
    /\ UNCHANGED <<time, blockedTo, events, lost, answered, doubted>>

(* _trip sets the block key for one window; the call is refused or over.   *)
Trip(c) ==
    /\ call[c].step = "trip"
    /\ blockedTo' = time + Window
    /\ Over(c)
    /\ UNCHANGED <<time, events, lost, answered, doubted>>

(* Redis or the database fails: the exception ends the call.               *)
CheckFails(c) ==
    /\ call[c].step \in {"flag", "spend", "reflag", "respend", "trip"}
    /\ Over(c)
    /\ UNCHANGED <<time, blockedTo, events, lost, answered, doubted>>

-----------------------------------------------------------------------------
(* _request_with_retry: a post that times out or is answered with a        *)
(* retryable status is tried again, MaxPosts times in all; any other error *)
(* (a refused request, an answer without choices) ends the call at once.   *)
PostFails(c) ==
    /\ call[c].step = "request"
    /\ \/ call[c].tries + 1 < MaxPosts /\ call' = [call EXCEPT ![c].tries = @ + 1]
       \/ Over(c)
    /\ UNCHANGED <<time, blockedTo, events, lost, answered, doubted>>

(* The provider answers.  stream logs what its caller has read so far,     *)
(* also when the caller stops early, complete the whole answer.            *)
Answered(c, price) ==
    /\ call[c].step = "request"
    /\ answered + doubted < MaxCosts
    /\ answered' = answered + 1
    /\ call' = [call EXCEPT ![c] =
          [@ EXCEPT !.step = "log", !.tries = 0, !.number = answered + 1, !.price = price]]
    /\ UNCHANGED <<time, blockedTo, events, lost, doubted>>

Event(c, copy) == [number |-> call[c].number, copy |-> copy, at |-> time, amount |-> call[c].price]

(* _log_cost: the event is inserted, and the cap re-evaluated.             *)
Record(c) ==
    /\ call[c].step = "log"
    /\ events' = events \cup {Event(c, call[c].tries)}
    /\ GoTo(c, "reflag")
    /\ UNCHANGED <<time, blockedTo, lost, answered, doubted>>

(* The insert raises: it is retried, at last counted as lost, and then the *)
(* cap is not re-evaluated.                                                *)
RecordFails(c) ==
    /\ call[c].step = "log"
    /\ IF call[c].tries + 1 < MaxAttempts
         THEN call' = [call EXCEPT ![c].tries = @ + 1] /\ UNCHANGED lost
         ELSE Over(c) /\ lost' = lost + 1
    /\ UNCHANGED <<time, blockedTo, events, answered, doubted>>

(* The insert takes effect and raises all the same (a lost connection).    *)
RecordInDoubt(c) ==
    /\ call[c].step = "log"
    /\ answered + doubted < MaxCosts
    /\ events' = events \cup {Event(c, call[c].tries)}
    /\ doubted' = doubted + 1
    /\ IF call[c].tries + 1 < MaxAttempts
         THEN call' = [call EXCEPT ![c].tries = @ + 1] /\ UNCHANGED lost
         ELSE Over(c) /\ lost' = lost + 1
    /\ UNCHANGED <<time, blockedTo, answered>>

-----------------------------------------------------------------------------
(* reset, by an administrator.                                             *)
Reset ==
    /\ Blocked
    /\ blockedTo' = 0
    /\ UNCHANGED <<time, events, lost, call, answered, doubted>>

SpendTick ==
    /\ time < MaxTime
    /\ time' = time + 1
    /\ call' = [c \in Callers |-> [call[c] EXCEPT !.over = @ /\ SpendAt(time + 1) >= Cap]]
    /\ UNCHANGED <<blockedTo, events, lost, answered, doubted>>

SpendNext ==
    \/ Reset \/ SpendTick
    \/ \E c \in Callers :
          \/ Start(c) \/ ReadFlag(c) \/ ReadSpend(c) \/ Trip(c) \/ CheckFails(c)
          \/ PostFails(c) \/ \E price \in Prices : Answered(c, price)
          \/ Record(c) \/ RecordFails(c) \/ RecordInDoubt(c)

SpendSpec == SpendInit /\ [][SpendNext]_spendVars

-----------------------------------------------------------------------------
Steps == {"idle", "flag", "spend", "trip", "request", "log", "reflag", "respend"}

(* Types of all the variables; retries stay within their limits.           *)
SpendTypeOK ==
    /\ time \in 1..MaxTime
    /\ blockedTo \in 0..(MaxTime + Window)
    /\ \A e \in events : e.number \in 1..answered /\ e.at \in 1..time /\ e.amount \in Prices
    /\ lost \in 0..answered
    /\ \A c \in Callers :
          /\ call[c].step \in Steps
          /\ call[c].tries \in 0..(IF call[c].step = "request" THEN MaxPosts - 1
                                   ELSE IF call[c].step = "log" THEN MaxAttempts - 1 ELSE 0)
    /\ answered + doubted \in 0..MaxCosts

(* cost_governor.py, is_allowed: the spend is read before the call and     *)
(* recorded after it, so concurrent calls pass the check together; the     *)
(* recorded spend of any window still exceeds the cap by less than one     *)
(* call of each caller, and what inserts in doubt recorded twice.          *)
OvershootBounded ==
    Spend < Cap + (Cardinality(Callers) + doubted) * Highest(Prices)

(* A call that came in with the spend at the cap, where it stayed, never   *)
(* reaches the provider: not by a failing lookup, an expired or reset      *)
(* block key, or another call between its two reads.                       *)
NoRequestOverCap == \A c \in Callers : call[c].step = "request" => ~call[c].over

(* The cap is kept as far as checks before and records after a call can    *)
(* keep it.                                                                *)
CapKept == OvershootBounded /\ NoRequestOverCap

(* _log_cost: every answered call is being logged, is recorded, or is      *)
(* counted as lost: a cost that vanishes would let the agent overspend.    *)
EveryCostAccounted ==
    answered <= Cardinality({e.number : e \in events}) + lost
                  + Cardinality({c \in Callers : call[c].step = "log"})

(* The cap is kept, and no cost escapes it.                                *)
CostsKept == CapKept /\ EveryCostAccounted

=============================================================================
