------------------------------- MODULE Bridge -------------------------------
(***************************************************************************)
(* The Minecraft bridge (core/bridge/server.py, inbound.py,                *)
(* errand_queue.py and handlers/errand.py): bots send frames over          *)
(* WebSockets, one at a time each; the global kill switch in Redis gates   *)
(* the world verbs; errands dispatched to the errand bot wait in an        *)
(* in-process queue; a completed errand becomes one memory.                *)
(*                                                                         *)
(* A frame is a coroutine: an action is the code from one await to the     *)
(* next.  Redis lookups may fail; the process may restart, which empties   *)
(* everything but Redis and the memories.  The day after which Redis       *)
(* forgets a completion is never over here; the review of an outcome by    *)
(* management, after the lock is released, changes nothing modelled.       *)
(***************************************************************************)
EXTENDS Naturals, Sequences, FiniteSets

CONSTANTS Bots,        \* connections, each with one frame in flight
          Errands,     \* task ids
          NoErrand,
          Verbs,       \* world verbs the bots send
          Ttl,         \* duplicate_ttl_seconds, in ticks
          MaxNow,      \* bound on the clock
          MaxDispatch, \* bound on dispatches accepted
          MaxMemories, \* bound on the memories of one errand
          MaxMishaps    \* bound on Redis and compactor failures and restarts

VARIABLES now,       \* time.monotonic
          killed,    \* the kill switch in Redis
          waiting,   \* the queue of the errand bot: errands
          seen,      \* _seen_task_ids: when each one expires; 0 when absent
          remembered,\* the idempotency keys in Redis
          cached,    \* the keys in the process cache
          lock,      \* holder of the completion lock of each errand
          frame,     \* the frame each bot has in flight
          memories,  \* memories written per errand
          accepted,  \* ghost: dispatches accepted per errand
          handed,    \* ghost: per errand, deliveries answered to a bot
          dropped,   \* ghost: errands lost to a closed socket or a restart
          world,     \* ghost: what frames did to the world: <<verb, allowed>>
          mishaps     \* Redis and compactor failures, and restarts, so far

bridgeVars == <<now, killed, waiting, seen, remembered, cached, lock, frame, memories,
                accepted, handed, dropped, world, mishaps>>
queueVars == <<waiting, seen, accepted, handed, dropped>>
memoryVars == <<remembered, cached, lock, memories>>

NoBot == "no bot"

ASSUME BridgeAssumption ==
    /\ IsFiniteSet(Bots) /\ NoBot \notin Bots
    /\ Verbs \subseteq {"errand.poll", "errand.complete", "perception.report", "action.result"}
    /\ {Ttl, MaxNow} \subseteq Nat \ {0}
    /\ {MaxDispatch, MaxMemories, MaxMishaps} \subseteq Nat

(* off: ghost, the switch was off at some moment since the frame came in.  *)
NoFrame == [step |-> "idle", verb |-> "none", errand |-> NoErrand, off |-> FALSE]

BridgeInit ==
    /\ now = 1
    /\ killed = FALSE
    /\ waiting = <<>>
    /\ seen = [t \in Errands |-> 0]
    /\ remembered = {} /\ cached = {}
    /\ lock = [t \in Errands |-> NoBot]
    /\ frame = [b \in Bots |-> NoFrame]
    /\ memories = [t \in Errands |-> 0]
    /\ accepted = [t \in Errands |-> 0]
    /\ handed = [t \in Errands |-> 0]
    /\ dropped = [t \in Errands |-> 0]
    /\ world = {}
    /\ mishaps = 0

Goto(b, step) == frame' = [frame EXCEPT ![b].step = step]
Answer(b) == frame' = [frame EXCEPT ![b] = NoFrame]

(* What a frame does to the world: an event on the bus, an errand handed   *)
(* out, a completion taken.                                                *)
Acts(b) == world' = world \cup {<<frame[b].verb, frame[b].off>>}

-----------------------------------------------------------------------------
(* enqueue, called by the dispatching tool: refused while a dispatch of    *)
(* the same errand is remembered.                                          *)
Dispatch(t) ==
    /\ seen[t] <= now
    /\ accepted[t] < MaxDispatch
    /\ waiting' = Append(waiting, t)
    /\ seen' = [seen EXCEPT ![t] = now + Ttl]
    /\ accepted' = [accepted EXCEPT ![t] = @ + 1]
    /\ UNCHANGED <<now, killed, handed, dropped, frame, world, mishaps, memoryVars>>

Tick ==
    /\ now < MaxNow
    /\ now' = now + 1
    /\ UNCHANGED <<killed, frame, world, mishaps, queueVars, memoryVars>>

(* An operator sets or clears the switch.                                  *)
Switch ==
    /\ killed' = ~killed
    /\ frame' = [b \in Bots |-> IF frame[b].step = "idle" THEN frame[b]
                                ELSE [frame[b] EXCEPT !.off = TRUE]]
    /\ UNCHANGED <<now, world, mishaps, queueVars, memoryVars>>

(* bridge_ws receives a frame.  Other verbs do not touch this state.       *)
Receive(b, verb, t) ==
    /\ frame[b].step = "idle"
    /\ frame' = [frame EXCEPT ![b] =
          [step |-> "gate", verb |-> verb, errand |-> t, off |-> ~killed]]
    /\ UNCHANGED <<now, killed, world, mishaps, queueVars, memoryVars>>

(* Where the frame goes once the gate has let it pass.                     *)
Passed(verb) ==
    CASE verb = "errand.poll"       -> "poll"
      [] verb = "errand.complete"   -> "complete"
      [] verb = "perception.report" -> "regate"
      [] verb = "action.result"     -> "emit"

(* Mutant: a failed lookup opens the gate.                                 *)
GateFailsOpen(b) ==
    /\ frame[b].step \in {"gate", "regate"}
    /\ mishaps < MaxMishaps
    /\ mishaps' = mishaps + 1
    /\ Goto(b, IF frame[b].step = "gate" THEN Passed(frame[b].verb) ELSE "emit")
    /\ UNCHANGED <<now, killed, world, queueVars, memoryVars>>

(* _kill_switch_active raises: the gate is closed, and the frame answered. *)
GateFails(b) ==
    /\ frame[b].step \in {"gate", "regate"}
    /\ mishaps < MaxMishaps
    /\ mishaps' = mishaps + 1
    /\ Answer(b)
    /\ UNCHANGED <<now, killed, world, queueVars, memoryVars>>

(* build_bridge_response_with_services reads the switch: with the switch   *)
(* on, reports and polls are answered as if idle, the others refused.      *)
Gate(b) ==
    /\ frame[b].step = "gate"
    /\ IF killed THEN Answer(b) ELSE Goto(b, Passed(frame[b].verb))
    /\ UNCHANGED <<now, killed, world, mishaps, queueVars, memoryVars>>

(* bridge_ws reads it again before a perception is dispatched; an action   *)
(* result is dispatched without a second look.                             *)
Regate(b) ==
    /\ frame[b].step = "regate"
    /\ IF killed THEN Answer(b) ELSE Goto(b, "emit")
    /\ UNCHANGED <<now, killed, world, mishaps, queueVars, memoryVars>>

(* dispatch_inbound: the event is emitted, then the frame is answered.     *)
DispatchInbound(b) ==
    /\ frame[b].step = "emit"
    /\ Acts(b)
    /\ Answer(b)
    /\ UNCHANGED <<now, killed, mishaps, queueVars, memoryVars>>

-----------------------------------------------------------------------------
(* Mutant: a poll peeks at the queue.                                      *)
PollPeeks(b) ==
    /\ frame[b].step = "poll"
    /\ IF waiting = <<>>
         THEN Answer(b) /\ UNCHANGED <<waiting, world>>
         ELSE /\ waiting' = waiting
              /\ frame' = [frame EXCEPT ![b].step = "answer", ![b].errand = Head(waiting)]
              /\ Acts(b)
    /\ UNCHANGED <<now, killed, seen, accepted, handed, dropped, mishaps, memoryVars>>

(* poll: the errand leaves the queue before the answer is sent.            *)
Poll(b) ==
    /\ frame[b].step = "poll"
    /\ IF waiting = <<>>
         THEN Answer(b) /\ UNCHANGED <<waiting, world>>
         ELSE /\ waiting' = Tail(waiting)
              /\ frame' = [frame EXCEPT ![b].step = "answer", ![b].errand = Head(waiting)]
              /\ Acts(b)
    /\ UNCHANGED <<now, killed, seen, accepted, handed, dropped, mishaps, memoryVars>>

(* The answer reaches the bot, or the socket has closed.                   *)
SendErrand(b) ==
    /\ frame[b].step = "answer"
    /\ \/ handed' = [handed EXCEPT ![frame[b].errand] = @ + 1] /\ UNCHANGED dropped
       \/ dropped' = [dropped EXCEPT ![frame[b].errand] = @ + 1] /\ UNCHANGED handed
    /\ Answer(b)
    /\ UNCHANGED <<now, killed, waiting, seen, accepted, world, mishaps, memoryVars>>

-----------------------------------------------------------------------------
(* handle_errand_complete: the completion is recorded (a cache nothing     *)
(* here reads), and the frame waits for the lock of the errand.            *)
Complete(b) ==
    /\ frame[b].step = "complete"
    /\ Acts(b)
    /\ Goto(b, "wait")
    /\ UNCHANGED <<now, killed, mishaps, queueVars, memoryVars>>

(* Mutant: no lock.                                                        *)
NoLock(b) ==
    /\ frame[b].step = "wait"
    /\ Goto(b, "lookup")
    /\ UNCHANGED <<now, killed, world, mishaps, queueVars, memoryVars>>

Lock(b) ==
    /\ frame[b].step = "wait"
    /\ lock[frame[b].errand] = NoBot
    /\ lock' = [lock EXCEPT ![frame[b].errand] = b]
    /\ Goto(b, "lookup")
    /\ UNCHANGED <<now, killed, world, mishaps, queueVars, remembered, cached, memories>>

Unlocked(b) == lock' = [lock EXCEPT ![frame[b].errand] = NoBot]

(* _cached_errand_memory_id: a known errand has its memory already.        *)
LookupIn(b, keys) ==
    /\ frame[b].step = "lookup"
    /\ IF frame[b].errand \in keys
         THEN Unlocked(b) /\ Answer(b)
         ELSE UNCHANGED lock /\ Goto(b, "compact")
    /\ UNCHANGED <<now, killed, world, queueVars, remembered, cached, memories>>

Lookup(b) == LookupIn(b, remembered) /\ UNCHANGED mishaps

(* Redis fails: the process cache decides.                                 *)
LookupFails(b) ==
    /\ mishaps < MaxMishaps
    /\ mishaps' = mishaps + 1
    /\ LookupIn(b, cached)

(* compact_interaction writes the memory.                                  *)
Compact(b) ==
    /\ frame[b].step = "compact"
    /\ memories[frame[b].errand] < MaxMemories
    /\ memories' = [memories EXCEPT ![frame[b].errand] = @ + 1]
    /\ Goto(b, "store")
    /\ UNCHANGED <<now, killed, world, mishaps, queueVars, remembered, cached, lock>>

(* It raises or returns no memory: the frame is accepted all the same.     *)
CompactFails(b) ==
    /\ frame[b].step = "compact"
    /\ mishaps < MaxMishaps
    /\ mishaps' = mishaps + 1
    /\ Unlocked(b)
    /\ Answer(b)
    /\ UNCHANGED <<now, killed, world, queueVars, remembered, cached, memories>>

(* _cache_errand_memory_id: the key goes to Redis, or to the process cache *)
(* when Redis fails.                                                       *)
Store(b) ==
    LET t == frame[b].errand IN
    /\ frame[b].step = "store"
    /\ \/ remembered' = remembered \cup {t} /\ UNCHANGED <<cached, mishaps>>
       \/ /\ mishaps < MaxMishaps
          /\ mishaps' = mishaps + 1
          /\ cached' = cached \cup {t}
          /\ UNCHANGED remembered
    /\ Unlocked(b)
    /\ Answer(b)
    /\ UNCHANGED <<now, killed, world, queueVars, memories>>

-----------------------------------------------------------------------------
Count(seq, t) == Cardinality({i \in DOMAIN seq : seq[i] = t})

Undelivered(t) == {b \in Bots : frame[b].step = "answer" /\ frame[b].errand = t}

(* The process restarts: queue, caches, locks and frames are gone.         *)
Restart ==
    /\ mishaps < MaxMishaps
    /\ mishaps' = mishaps + 1
    /\ dropped' = [t \in Errands |->
                      dropped[t] + Count(waiting, t) + Cardinality(Undelivered(t))]
    /\ waiting' = <<>>
    /\ seen' = [t \in Errands |-> 0]
    /\ cached' = {}
    /\ lock' = [t \in Errands |-> NoBot]
    /\ frame' = [b \in Bots |-> NoFrame]
    /\ UNCHANGED <<now, killed, remembered, memories, accepted, handed, world>>

Proceeds(b) ==
    \/ Gate(b) \/ Regate(b) \/ DispatchInbound(b) \/ Poll(b) \/ SendErrand(b)
    \/ Complete(b) \/ Lock(b) \/ Lookup(b) \/ Compact(b) \/ Store(b)

BridgeNext ==
    \/ \E t \in Errands : Dispatch(t)
    \/ Tick \/ Switch \/ Restart
    \/ \E b \in Bots :
          \/ \E verb \in Verbs \ {"errand.complete"} : Receive(b, verb, NoErrand)
          \/ \E t \in Errands : "errand.complete" \in Verbs /\ Receive(b, "errand.complete", t)
          \/ GateFails(b) \/ LookupFails(b) \/ CompactFails(b) \/ Proceeds(b)

BridgeSpec == BridgeInit /\ [][BridgeNext]_bridgeVars

-----------------------------------------------------------------------------
Frames == [step : {"idle", "gate", "regate", "emit", "poll", "answer", "complete", "wait",
                   "lookup", "compact", "store"},
           verb : Verbs \cup {"none"}, errand : Errands \cup {NoErrand}, off : BOOLEAN]

(* Types of all the variables; a completion lock is held exactly by the    *)
(* frame that is between its lookup and its answer.                        *)
BridgeTypeOK ==
    /\ now \in 1..MaxNow /\ killed \in BOOLEAN
    /\ waiting \in Seq(Errands)
    /\ seen \in [Errands -> 0..(MaxNow + Ttl)]
    /\ remembered \subseteq Errands /\ cached \subseteq Errands
    /\ lock \in [Errands -> Bots \cup {NoBot}]
    /\ frame \in [Bots -> Frames]
    /\ \A b \in Bots, t \in Errands :
          lock[t] = b <=> frame[b].errand = t /\ frame[b].step \in {"lookup", "compact", "store"}
    /\ memories \in [Errands -> 0..MaxMemories]
    /\ accepted \in [Errands -> 0..MaxDispatch]
    /\ handed \in [Errands -> Nat] /\ dropped \in [Errands -> Nat]
    /\ world \subseteq Verbs \X BOOLEAN
    /\ mishaps \in 0..MaxMishaps

(* The kill switch is honoured: a frame acts on the world only if the      *)
(* switch was off at some moment since the frame came in, although it is   *)
(* read over a network that fails and may be set while the frame waits.    *)
KillHonoured == \A act \in world : act[2]

(* An errand accepted once is handed out once: at every moment each        *)
(* accepted dispatch is waiting, under way, handed to a bot or lost with a *)
(* socket or a process, however polls, gates and duplicates interleave.    *)
HandedOutOnce ==
    \A t \in Errands :
        accepted[t] = Count(waiting, t) + Cardinality(Undelivered(t)) + handed[t] + dropped[t]

(* errand_queue.py, enqueue: a dispatch retried again and again, before or *)
(* after the bot took the errand, is accepted at most once per TTL, unless *)
(* the process restarts.                                                   *)
OncePerTtl ==
    \A t \in Errands : accepted[t] <= 1 + (now - 1) \div Ttl + mishaps

(* An errand is accepted once per TTL and handed out as often as it was    *)
(* accepted.                                                               *)
ErrandsOnce == HandedOutOnce /\ OncePerTtl

(* handlers/errand.py: completion frames of one errand may come twice and  *)
(* at the same time, but every memory beyond the first takes a failure of  *)
(* Redis or a restart.                                                     *)
ExtraMemoryNeedsFault == \A t \in Errands : memories[t] <= 1 + mishaps

(* Every frame is answered: none waits forever for a lock, a gate or the   *)
(* memory subsystem (handle_errand_complete: a completion is accepted      *)
(* whether or not its memory could be written).                            *)
FramesAnswered == \A b \in Bots : frame[b].step # "idle" ~> frame[b].step = "idle"

(* handle_errand_complete: "duplicate completion frames do not create      *)
(* duplicate memories".                                                    *)
OneMemoryPerErrand == \A t \in Errands : memories[t] <= 1

=============================================================================
