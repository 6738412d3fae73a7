------------------------------ MODULE Director ------------------------------
(***************************************************************************)
(* Who may speak and who may build: the prompt gate of the Minecraft       *)
(* director (core/minecraft/director/prompt_gate.py) with the turn         *)
(* scheduler (turn_scheduler.py) and, in emergent mode, the build slots    *)
(* and the plans of scenes (build_macro_scheduler.py).  Every bot asks the *)
(* gate about every event it perceives; the first one to ask has the       *)
(* verdict made, the others and repeated questions get the cached one.     *)
(* evaluate holds the lock of the gate throughout: it is one action.       *)
(*                                                                         *)
(* Scores are left out: where the highest score decides, any candidate may *)
(* be chosen.  One turn per scene (max_turns_per_scene = 1).               *)
(***************************************************************************)
EXTENDS Naturals, Sequences, FiniteSets, FiniteSetsExt, Functions

CONSTANTS Speakers,       \* the agents of the simulation, all registered
          Topics,         \* event keys
          Kind(_),        \* "chat", "build" or "danger"
          BuildIntent(_), \* whether the text of an event asks for a build
          Mentions(_),    \* the agents an event addresses
          Planners,       \* agents whose role plans builds
          Allowlist,      \* plan_build_agent_allowlist
          Scenes,
          Audiences,      \* participants a scene may have
          ClaimSets,      \* the agents that may hold claimed tasks at the same time
          Rescuers,       \* agents that rescue tasks are assigned to
          BlockTurns,     \* consecutive_turn_block
          SilentTurns,    \* silent_force_select_turns
          SceneCap,       \* _selected_agent_scene_cap
          BuildCap,       \* MC_SIM_MAX_CONCURRENT_BUILDS
          BuildWindow,    \* MC_SIM_BUILD_COOLDOWN_SEC, in ticks
          DecisionTtl,    \* _DECISION_TTL_MS, in ticks
          MaxCached,      \* _MAX_CACHED_DECISIONS
          MaxClock,       \* bound on the clock
          MaxVerdicts     \* bound on the verdicts made

ASSUME DirectorAssumption ==
    /\ BlockTurns \in Nat \ {0}
    /\ {SceneCap, BuildCap, BuildWindow, DecisionTtl} \subseteq Nat
    /\ {MaxCached, MaxVerdicts} \subseteq Nat /\ MaxClock \in Nat \ {0}
    /\ IsFiniteSet(Speakers) /\ UNION Audiences \subseteq Speakers
    /\ Planners \subseteq Speakers /\ Rescuers \subseteq Speakers
    /\ \A topic \in Topics : Mentions(topic) \subseteq Speakers /\ BuildIntent(topic) \in BOOLEAN

VARIABLES clock,     \* _now_ms
          turns,     \* turn_sequence, which total_selected_turns follows
          decisions, \* the cached verdicts, least recently used first
          taken,     \* selected_turn_count of each agent
          lastTurn,  \* last_prompt_turn of each agent, 0 for none
          recent,    \* recent_speakers: as many as the block looks at, and one more
          sceneTurns,\* scene_selected_agents
          builds,    \* _emergent_builds: when each slot was granted, 0 for none
          planOwner, \* _scene_state: whose build plan holds each scene, as a set
          made,      \* ghost: verdicts made
          given,     \* ghost: when each agent was last offered the build tool for its task
          planned,   \* ghost: who was offered the build tool for the plan of which scene
          plain      \* ghost: no verdict was urgent, addressed, for part of the agents,
                     \* or made while a selected agent had not asked yet

directorVars == <<clock, turns, decisions, taken, lastTurn, recent, sceneTurns, builds,
                  planOwner, made, given, planned, plain>>

DirectorInit ==
    /\ clock = 1
    /\ turns = 0
    /\ decisions = <<>>
    /\ taken = [a \in Speakers |-> 0]
    /\ lastTurn = [a \in Speakers |-> 0]
    /\ recent = <<>>
    /\ sceneTurns = [s \in Scenes |-> {}]
    /\ builds = [a \in Speakers |-> 0]
    /\ planOwner = [s \in Scenes |-> {}]
    /\ made = 0
    /\ given = [a \in Speakers |-> 0]
    /\ planned = {}
    /\ plain = TRUE

-----------------------------------------------------------------------------
(* _eligible_candidates: those present or addressed, or everybody.         *)
Eligible(topic, present) ==
    IF present = {} THEN Speakers ELSE present \cup Mentions(topic)

LastSpeakers(n) == SubSeq(recent, Len(recent) - n + 1, Len(recent))

(* Mutant: one more turn is let through.                                   *)
BlockedLate(a) ==
    Len(recent) > BlockTurns /\ \A i \in DOMAIN recent : recent[i] = a

(* _is_consecutive_blocked.                                                *)
ConsecutiveBlocked(a) ==
    Len(recent) >= BlockTurns /\ \A i \in 1..BlockTurns : LastSpeakers(BlockTurns)[i] = a

(* _selection_deficit at selection_starvation_threshold = 0.95, of count   *)
(* candidates: (T/n - c) / max(T/n, 1) >= 0.95.                            *)
Starved(a, count) ==
    /\ turns > 0
    /\ turns >= count * taken[a]
    /\ 100 * (turns - count * taken[a]) >= 95 * Max({turns, count})

(* turns_since_spoke is 1 for an agent that has not spoken at all.         *)
Silent(a) == (IF lastTurn[a] = 0 THEN 1 ELSE turns - lastTurn[a]) >= SilentTurns

Free(topic, present) == {a \in Eligible(topic, present) : ~ConsecutiveBlocked(a)}

OneAddressed(topic, present) == Cardinality(Free(topic, present) \cap Mentions(topic)) = 1

(* DirectorTurnScheduler.select: the agents it may choose one from.        *)
Selectable(topic, present) ==
    LET eligible == Eligible(topic, present)
        free == Free(topic, present)
        starved == {a \in free : Starved(a, Cardinality(eligible))}
        planners == free \cap Planners
        silent == {a \in free : Silent(a)}
    IN
    IF Kind(topic) = "danger" THEN free
    ELSE IF OneAddressed(topic, present) THEN free \cap Mentions(topic)
    ELSE IF starved # {} THEN {a \in starved : \A b \in starved : taken[a] <= taken[b]}
    ELSE IF Kind(topic) = "build" /\ planners # {} THEN planners
    ELSE IF silent # {} THEN silent
    ELSE free

(* _limit_scene_selected_agents: a newcomer needs a free place.            *)
WithinCap(scene, a) ==
    a \in sceneTurns[scene] \/ Cardinality(sceneTurns[scene]) < SceneCap

(* select_emergent_build_owners for one agent: expired slots are freed, a  *)
(* held one is refreshed, a free one granted.                              *)
ActiveBuilds == {b \in Speakers : builds[b] # 0 /\ clock - builds[b] < BuildWindow}

MayBuild(a) == a \in ActiveBuilds \/ Cardinality(ActiveBuilds) < BuildCap

(* try_acquire_plan, for an event without an objective: the plan goes to   *)
(* the selected agent of the first event of the scene that asks for a      *)
(* build.  It is outside the slots, and nothing in core gives it back.     *)
PlanGoesTo(topic, scene, selected) ==
    IF BuildIntent(topic) /\ planOwner[scene] = {} THEN selected \cap Allowlist ELSE {}

-----------------------------------------------------------------------------
Verdict(topic, scene, selected, builders, planner) ==
    [topic |-> topic, at |-> clock, scene |-> scene, selected |-> selected,
     accounted |-> {}, builders |-> builders, planner |-> planner]

(* The verdicts at some places of the cache, in their order.               *)
Only(cache, places) ==
    LET rest[i \in 0..Len(cache)] ==
            IF i = 0 THEN <<>>
            ELSE IF i \in places THEN Append(rest[i-1], cache[i]) ELSE rest[i-1]
    IN rest[Len(cache)]

(* _purge_decisions.                                                       *)
Unexpired == Only(decisions, {i \in DOMAIN decisions : clock - decisions[i].at <= DecisionTtl})

CachedFor(topic) == {i \in DOMAIN Unexpired : Unexpired[i].topic = topic}

Others(topic) == Only(Unexpired, DOMAIN Unexpired \ CachedFor(topic))

(* The least recently used verdict goes when there are too many.           *)
Evicted(cache) == IF Len(cache) > MaxCached THEN Tail(cache) ELSE cache

(* _decision_for_agent: a selected agent takes its turn when it asks for   *)
(* the first time, and is offered the build tool, as the holder of a slot  *)
(* or as the owner of the plan of the scene, every time.                   *)
Answers(a, verdict) ==
    LET first == a \in verdict.selected \ verdict.accounted IN
    /\ decisions' = Evicted(Append(Others(verdict.topic),
          IF first THEN [verdict EXCEPT !.accounted = @ \cup {a}] ELSE verdict))
    /\ given' = IF a \in verdict.builders THEN [given EXCEPT ![a] = clock] ELSE given
    /\ planned' = IF a \in verdict.planner THEN planned \cup {<<verdict.scene, a>>} ELSE planned
    /\ IF first
         THEN /\ turns' = turns + 1
              /\ taken' = [taken EXCEPT ![a] = @ + 1]
              /\ lastTurn' = [lastTurn EXCEPT ![a] = turns + 1]
              /\ recent' = Append(IF Len(recent) > BlockTurns THEN Tail(recent) ELSE recent, a)
              /\ sceneTurns' = [sceneTurns EXCEPT ![verdict.scene] = @ \cup {a}]
         ELSE UNCHANGED <<turns, taken, lastTurn, recent, sceneTurns>>

(* evaluate with a cached verdict: also for a question asked again because *)
(* the answer got lost.                                                    *)
AskAgain(a, topic) ==
    /\ \E i \in CachedFor(topic) : Answers(a, Unexpired[i])
    /\ UNCHANGED <<clock, builds, planOwner, made, plain>>

(* No verdict is cached for the event.                                     *)
Undecided(topic) == CachedFor(topic) = {} /\ made < MaxVerdicts

Pending(cache) == \E i \in DOMAIN cache : cache[i].selected # cache[i].accounted

(* _build_verdict: a selected agent with a claimed task asks for a slot,   *)
(* whatever it got the plan of the scene for.                              *)
Decide(a, topic, scene, selected, planner, ordinary) ==
    \E claimants \in ClaimSets :
    LET holders == selected \cap claimants
        builders == {b \in holders : MayBuild(b)}
    IN
    /\ made' = made + 1
    /\ builds' = [b \in Speakers |->
          IF b \in builders THEN clock
          ELSE IF holders # {} /\ b \notin ActiveBuilds THEN 0 ELSE builds[b]]
    /\ planOwner' = [planOwner EXCEPT ![scene] = @ \cup planner]
    /\ plain' = (plain /\ ordinary /\ ~Pending(Unexpired))
    /\ Answers(a, Verdict(topic, scene, selected, builders, planner))
    /\ UNCHANGED clock

(* The scheduler chooses; the scene cap does not bind urgent turns.        *)
AskFirst(a, topic) ==
    Undecided(topic) /\ \E scene \in Scenes, present \in Audiences :
        LET from == Selectable(topic, present)
            urgent == Kind(topic) = "danger"
            whole == Eligible(topic, present) = Speakers /\ ~OneAddressed(topic, present)
        IN
        \/ from = {} /\ Decide(a, topic, scene, {}, {}, whole)
        \/ \E b \in from :
              LET selected == IF urgent \/ WithinCap(scene, b) THEN {b} ELSE {} IN
              Decide(a, topic, scene, selected, PlanGoesTo(topic, scene, selected),
                     ~urgent /\ whole)

(* _apply_active_rescue_owner: the rescuer of an active rescue is selected *)
(* whatever the scheduler says, and gets no plan.                          *)
AskForRescue(a, topic) ==
    Undecided(topic) /\ \E scene \in Scenes, rescuer \in Rescuers :
        Decide(a, topic, scene, {rescuer}, {}, FALSE)

DirectorTick ==
    /\ clock < MaxClock
    /\ clock' = clock + 1
    /\ UNCHANGED <<turns, decisions, taken, lastTurn, recent, sceneTurns, builds, planOwner,
                   made, given, planned, plain>>

DirectorNext ==
    \/ DirectorTick
    \/ \E a \in Speakers, topic \in Topics :
          AskAgain(a, topic) \/ AskFirst(a, topic) \/ AskForRescue(a, topic)

DirectorSpec == DirectorInit /\ [][DirectorNext]_directorVars

-----------------------------------------------------------------------------
Verdicts == [topic : Topics, at : 1..MaxClock, scene : Scenes, selected : SUBSET Speakers,
             accounted : SUBSET Speakers, builders : SUBSET Speakers, planner : SUBSET Speakers]

(* Types of all the variables; one cached verdict per event, within the    *)
(* limit of the cache.                                                     *)
DirectorTypeOK ==
    /\ clock \in 1..MaxClock
    /\ decisions \in Seq(Verdicts) /\ Len(decisions) <= MaxCached
    /\ \A i, j \in DOMAIN decisions : decisions[i].topic = decisions[j].topic => i = j
    /\ turns \in 0..MaxVerdicts
    /\ taken \in [Speakers -> 0..MaxVerdicts]
    /\ lastTurn \in [Speakers -> 0..MaxVerdicts]
    /\ recent \in Seq(Speakers) /\ Len(recent) <= BlockTurns + 1
    /\ sceneTurns \in [Scenes -> SUBSET Speakers]
    /\ builds \in [Speakers -> 0..MaxClock] /\ given \in [Speakers -> 0..MaxClock]
    /\ planOwner \in [Scenes -> SUBSET Speakers] /\ planned \subseteq Scenes \X Speakers
    /\ made \in 0..MaxVerdicts
    /\ plain \in BOOLEAN

(* _decision_for_agent: however many bots ask about an event, however      *)
(* often and in whatever order, one verdict gives at most one turn, and    *)
(* the counts of the agents, which decide who is starved, add up.          *)
OneTurnPerVerdict ==
    /\ turns <= made
    /\ turns = SumFunction(taken)
    /\ \A a \in Speakers : taken[a] > 0 <=> lastTurn[a] > 0
    /\ \A a, b \in Speakers : lastTurn[a] = lastTurn[b] /\ lastTurn[a] > 0 => a = b

(* _is_consecutive_blocked: nobody takes more than BlockTurns turns in a   *)
(* row, as long as no rescue was forced and no verdict was made before the *)
(* agent selected by an earlier one had asked for it.                      *)
NoMonologue ==
    plain /\ Len(recent) > BlockTurns => \E i \in DOMAIN recent : recent[i] # recent[1]

(* The starvation rule: of n agents everyone has spoken by turn 2n - 2,    *)
(* whatever the scores and the roles say, if the block ends within n turns. *)
EveryoneHeard ==
    LET n == Cardinality(Speakers) IN
    plain /\ n > 1 /\ n > BlockTurns /\ turns >= 2 * n - 2 => \A a \in Speakers : taken[a] > 0

(* _limit_scene_selected_agents: no more than SceneCap agents speak in a   *)
(* scene, as long as no turn was urgent and no two verdicts overlapped:    *)
(* the cap is checked when the verdict is made, the place taken later.     *)
SceneCapKept == plain => \A s \in Scenes : Cardinality(sceneTurns[s]) <= SceneCap

(* select_emergent_build_owners: for their claimed tasks, at most BuildCap *)
(* agents are offered the build tool within BuildWindow - DecisionTtl,     *)
(* although the offer outlives the grant in cached verdicts that are asked *)
(* for again.                                                              *)
BuildersCapped ==
    Cardinality({a \in Speakers : given[a] # 0 /\ clock + DecisionTtl < given[a] + BuildWindow})
        <= BuildCap

(* try_acquire_plan: for the plan of a scene, which no cap binds, only one *)
(* agent is ever offered the build tool, however many events ask for a     *)
(* build.                                                                  *)
OnePlannerPerScene == \A o, p \in planned : o[1] = p[1] => o = p

(* The floor is shared: a verdict gives one turn, nobody holds the floor,  *)
(* everybody gets it, no scene has more speakers than its cap, and no      *)
(* window more builders than the slots and one planner per scene, although *)
(* turns are counted only when the bots ask.                               *)
FloorIsShared ==
    /\ OneTurnPerVerdict /\ NoMonologue /\ EveryoneHeard /\ SceneCapKept
    /\ BuildersCapped /\ OnePlannerPerScene

=============================================================================
