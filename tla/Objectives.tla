----------------------------- MODULE Objectives -----------------------------
(***************************************************************************)
(* The settlement objectives of the shared working state                   *)
(* (core/shared_state.py): one JSON document in Redis, updated by reading  *)
(* it and writing all of it back.  Requests are coroutines: others run     *)
(* between the GET and the SET of one request.                             *)
(***************************************************************************)
EXTENDS Naturals

CONSTANTS Builders,    \* requests in flight at the same time
          Objectives,
          Bar,         \* _settlement_complete_ratio
          Ratios,      \* completion ratios reported
          Requested,   \* statuses an advance may ask for
          MaxUpdates   \* bound on the requests made

(* _settlement_complete_ratio: a bar that is not positive is not used.     *)
ASSUME ObjectivesAssumption == Bar \in Nat \ {0} /\ Ratios \subseteq Nat /\ MaxUpdates \in Nat

VARIABLES plan,     \* SETTLEMENT_OBJECTIVES_KEY: status and ratio of each
          draft,    \* per request, the document it is about to write: <<document>> or <<>>
          updates,  \* requests made so far
          earned,   \* ghost: objectives some request found to be completed
          alone     \* ghost: no two requests were ever in flight together

planVars == <<plan, draft, updates, earned, alone>>

NewPlan == [o \in Objectives |-> [status |-> "pending", ratio |-> 0]]

NoDraft == <<>>

(* The scenario stores the objectives, all pending.                        *)
PlanInit ==
    /\ plan = NewPlan
    /\ draft = [b \in Builders |-> NoDraft]
    /\ updates = 0
    /\ earned = {}
    /\ alone = TRUE

(* Request b has read the document and made its changes to objective o.    *)
Drafts(b, o, entry) ==
    /\ draft[b] = NoDraft
    /\ updates < MaxUpdates
    /\ updates' = updates + 1
    /\ draft' = [draft EXCEPT ![b] = <<[plan EXCEPT ![o] = entry]>>]
    /\ earned' = IF entry.status = "completed" THEN earned \cup {o} ELSE earned
    /\ alone' = (alone /\ \A c \in Builders : draft[c] = NoDraft)
    /\ UNCHANGED plan

(* advance_settlement_objective: a ratio at the bar latches the status.    *)
Advanced(status, ratio) ==
    [status |-> IF ratio >= Bar THEN "completed" ELSE status, ratio |-> ratio]

(* Mutant: the demotion guard is dropped.                                  *)
AdvanceUnguarded(b, o, status, ratio) == Drafts(b, o, Advanced(status, ratio))

(* It returns early rather than demote a completed objective.  An advance  *)
(* without a ratio keeps the one on record.                                *)
Advance(b, o, status, ratio) ==
    /\ plan[o].status = "completed" => status = "completed"
    /\ Drafts(b, o, Advanced(status, ratio))

(* assign_settlement_objective_owner: not for a completed objective.       *)
Assign(b, o) ==
    /\ plan[o].status # "completed"
    /\ Drafts(b, o, [plan[o] EXCEPT !.status = "in_progress"])

(* set_settlement_objectives writes the whole document.                    *)
Save(b) ==
    /\ draft[b] # NoDraft
    /\ plan' = draft[b][1]
    /\ draft' = [draft EXCEPT ![b] = NoDraft]
    /\ UNCHANGED <<updates, earned, alone>>

(* settlement_objectives_set: the scenario stores a fresh document.        *)
Replan ==
    /\ updates < MaxUpdates
    /\ updates' = updates + 1
    /\ plan' = NewPlan
    /\ UNCHANGED <<draft, earned, alone>>

(* The request fails before its SET.                                       *)
Abandon(b) ==
    /\ draft[b] # NoDraft
    /\ draft' = [draft EXCEPT ![b] = NoDraft]
    /\ UNCHANGED <<plan, updates, earned, alone>>

PlanNext ==
    \/ Replan
    \/ \E b \in Builders :
          \/ \E o \in Objectives :
                \/ \E status \in Requested, ratio \in Ratios \cup {plan[o].ratio} :
                      Advance(b, o, status, ratio)
                \/ Assign(b, o)
          \/ Save(b) \/ Abandon(b)

PlanSpec == PlanInit /\ [][PlanNext]_planVars

-----------------------------------------------------------------------------
Plans == [Objectives -> [status : Requested \cup {"pending", "in_progress", "completed"},
                         ratio  : Ratios \cup {0}]]

(* Types of all the variables.                                             *)
PlanTypeOK ==
    /\ plan \in Plans
    /\ draft \in [Builders -> {NoDraft} \cup {<<doc>> : doc \in Plans}]
    /\ updates \in 0..MaxUpdates
    /\ earned \subseteq Objectives
    /\ alone \in BOOLEAN

(* #904: an objective on record at or above the bar is completed, and one  *)
(* on record as completed was found completed by some request, although    *)
(* overlapping requests overwrite the whole document with what they read.  *)
LatchHolds ==
    \A o \in Objectives :
        /\ plan[o].ratio >= Bar => plan[o].status = "completed"
        /\ plan[o].status = "completed" => o \in earned

(* The demotion guard: as long as no two requests overlap, a completed     *)
(* objective stays completed until the scenario stores a fresh document,   *)
(* whatever order blocked, completed and assigning requests come in.       *)
CompletedStaysAlone ==
    [][\A o \in Objectives :
          plan[o].status = "completed" /\ alone' /\ plan' # NewPlan =>
              plan'[o].status = "completed"]_planVars

(* The completed latch: set exactly at the bar, and not undone.            *)
LatchKept == []LatchHolds /\ CompletedStaysAlone

=============================================================================
