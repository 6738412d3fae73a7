# Verification of livestreamtoagi

TLA+ models of the parts of the system that keep records, locks, limits and
promises: who owns what, who fights whom, who works on what, what was spent,
what is on the air, who was told. Every definition is translated from the
Python under `src/`; `PROJECT.json` maps each one to its lines.
Runs: `tlc -config X.cfg MODULE`; proofs: `tlapm MODULE.tla`.

## 1. Inventory of the system

A FastAPI / asyncio backend (`core/`, `tools/`) runs language-model agents that
talk, trade and build, headless or as Minecraft bots. Postgres holds history,
Redis holds the working state of a run, and JSONL files in the simulation
folder hold the civilization mechanics.

| Part | State | Operations | Hard because |
|---|---|---|---|
| Ownership ledger (`core/civilization/ownership.py`) | index of claims in three structures; `ownership_log.jsonl` | claim, release, replay | append failures are swallowed; lines tear; replay does not re-check |
| Trade and theft ledgers (`trade.py`, `theft.py`) | offers, inventories, attempts; a log each | set_inventory, propose, accept, reject; attempt, report_theft; replay | one operation writes several lines to two logs; offers go stale |
| Diplomacy ledger (`diplomacy.py`) | members of factions, treaties; a log | propose, sign, break, defect, replay | membership is read by other ledgers, replay trusts the recorded faction |
| Conflict ledger (`conflict.py`) | wars and disputes; a log | declare, second, surrender; open, evidence, judge, accept, escalate; replay | quorum against changing membership; consequences on sibling ledgers before the own line |
| Shared working state (`core/shared_state.py`) | Redis: task hash, claim markers, danger list, settlement objectives | add, claim, update, prune; report, resolve; advance, replan | every command is an await: requests interleave between commands |
| Bridge (`core/bridge/`) | errand queues, duplicate windows, cache of memory ids | poll, complete, report, act | kill switch, retries, TTLs, failing Redis |
| Director (`core/minecraft/director/`) | cached verdicts, turns, build slots, planner of each scene, scene inbox | gate prompts, schedule turns, claim scene plans, flush scenes | every bot asks about every event; verdicts outlive what they were based on |
| Simulation (`core/simulation/`) | the row of a run, its cost events, a process, for an embodied run a harness process | run, reconcile, finalize, attach | failing awaits, crashes, several processes of one row |
| Video and YouTube (`core/video`, `core/youtube`, two scripts) | two status columns used as locks | claim, render, upload, record | detached processes that die while they hold a lock |
| Conversation engine, management | the active conversation, its row; mutes and breaker in Redis | start, turn, review, end | errors that are not caught; reviews that overlap |
| Cost governor, LLM client | spend per window, block keys | check, request, record, trip | check-then-act over awaits; inserts in doubt |
| Event bus | connected clients, history | emit, connect, disconnect | connection limit checked before an await |
| Livestream control | kill switch, safe state, health, push process | monitor, cut, restore, supervise, alert | callbacks and sinks that fail |
| Queue proxy (`scripts/minecraft/lmstudio_queue_proxy.py`) | priority queue, workers, counters | put, work, retry, stop | telemetry writes that raise |
| Agent accounts, alliances | rows in Postgres | transfer, weekly allocation; propose, vote, leave | lock order, read-modify-write, statements that fail in between |
| Goals, needs, memory, characters, social | SQL rows | CRUD with rules | little concurrency of their own |
| TTS, notifications, reporting, eval, admin, auth, public API, websites, bot scripts | external services, files | I/O | I/O |

The ledgers are plain synchronous Python. They are created together by the
headless runner; tools call them one at a time, so two ledger operations never
interleave. What does happen at any moment is a crash of the process, and the
next one replays whatever lines had been written. Everything else is
coroutines, threads or processes over Redis and Postgres: nothing is replayed,
but every await lets others run and may raise.

What makes each part correct is listed with the runs in section 3; the hazards
each property is aimed at are in `PROJECT.json`.

## 2. Modules

| Module | Models |
|---|---|
| `JsonlLog` | what an append-only JSONL file replays to after complete, failed and torn appends |
| `OwnershipIndex`, `Ownership` | the claims in three structures; the ledger with its file |
| `FirstClaimWins` | abstract registry that `Ownership` refines: a target is acquired when free, and vacated |
| `RegionLedger` | the ledger with region targets that are boxes, and their geometry |
| `TradeBook`, `Economy` | offers and inventories; trade, theft and ownership ledgers with their three files |
| `Factions` | diplomacy ledger and wars with their two files |
| `Disputes` | disputes, with the consequences of a judgement on the ownership, trade and diplomacy ledgers |
| `TaskBoard`, `Dangers`, `Objectives` | the shared working state, one action per Redis command |
| `Bridge` | kill switch gate, errand queue, completion with its idempotent memory |
| `SceneMemory`, `Director` | scenes and their memories; verdicts, turns, build slots and scene plans |
| `Spending`, `EventBus` | cost governor with the LLM client; event bus |
| `Livestream`, `StreamHealth` | kill switch monitor and RTMP controller; push supervisor and health monitor |
| `QueueProxy` | queue in front of the model server |
| `SimulationRun`, `Publishing`, `EmbodiedRun` | a run and its books; its video and upload; the supervisor of an embodied run |
| `Management`, `Conversation` | reviews, mutes, emergency stop; the life of a conversation (EXTENDS `Management`) |
| `Alliances`, `Accounts` | alliances and agent accounts, one action per Postgres statement |
| `MCOwnership`, `MCEconomy`, `MCFactions`, `MCDisputes`, `MCTaskBoard`, `MCBridge`, `MCConversation` | instances of one module for TLC |
| `MCRecords`, `MCServices`, `MCLimits`, `MCRuns` | instances of several modules that share no state: one, picked at the start, runs in each behaviour |
| `EconomyProofs`, `FactionsProofs`, `DisputesProofs` | theorems about the module of that name |
| `LandAndRunsProofs` | theorems about `Ownership` with `RegionLedger`, and about the modules composed in `MCRuns` |
| `LimitsProofs`, `RecordsProofs`, `ServicesProofs` | theorems about the modules composed in the MC module of that name, or run beside them |
| `SumTheorems` | induction over numbers and finite sets, what the sums of the community modules compute, and the elements of a sequence at some places |

**Ledgers.** A ledger object is a record of its dictionaries (`mem`); a log file
is not a sequence of lines but the value a replay of it rebuilds (`JsonlLog`):
`img` for the whole file, `base` for the part before an unterminated last line.
This is exact because replay is a fold over lines. The content of claims,
offers, treaties and wars never changes after they are made and lives in
sequences indexed by their id; uuids are positions in them. One ledger method is
one action. In `Economy`, `Factions` and `Disputes` an operation may write
several lines: it changes `mem` and puts its lines in `queue`, `Write` and
`WriteFails` append them one by one, and `Crash` at any moment drops the rest
and rebuilds `mem` from the files. No operation starts before the queue is
empty, as in the code, where they are synchronous. A failed append (`OSError`,
logged and swallowed by every `_append_event`) may leave nothing, a fragment, or
a line without newline; what is appended next is glued to it.

**Coroutines.** In all other modules an action is the code up to the next await
(a Redis command, a statement of Postgres, a call of a provider, a send). What a
coroutine remembers between two of them is in its record (`job`, `call`, `talk`,
`run`, `helper`...). An await that raises is an action of its own, and where the
effect of the failed statement is in doubt both outcomes are there. Variables
marked *ghost* are history that only properties read.

**Abstractions.** Names, texts, motivations, timestamps that decide nothing,
prices and witness lists are left out. Dice, model verdicts, selection weights,
spatial hearing, triggers and topics are free choices. Regions are model values
whose overlaps come from the code's own box test. Clocks are small counters.

## 3. Runs

| Run | Properties | Bounds | States |
|---|---|---|---|
| `Ownership` | `IndexSound` (three structures agree, first claim wins), `LogRebuildsIndex`, `ReplayInventsNothing`, `OneOwnerPerColumn`, `ImplementsRegistry` (refinement) | 2 agents, 3 regions and a chest, 3 claims, 2 failed appends | 537,781 |
| `Economy` | `GoodsConserved`, `BooksBalance`, `IdleIsDurable`, `ChestsMoveOnlyByTrade` | a behaviour is the sale of a chest between 3 agents (3 claims, crashes anywhere) or barter, gifts and a theft, which may raise half-way when the thief owes goods (offers, thefts and failed appends 3 together) | 981,130 |
| `Factions` | `FactionsSound`, `ActiveHasQuorum`, `LogsRebuildLedgers`, `NothingComesBack` | a faction of three and one of one, 2 treaties, 1 war, 1 defection, 1 failed append | 1,860,382 |
| `Disputes` | `VerdictsSound`, `IdleIsDurable`, `JudgementCarriedOut`, `VerdictsStand` | 2 agents, 1 plot, two thefts of which one took nothing, a treaty, 1 dispute of each type, 1 failed append, 1 lost line | 6,442,481 |
| `Records` | `OneWinner`, `LoserToldWinner`, `KillHonoured`, `ErrandsOnce`, `ExtraMemoryNeedsFault`, `AlliancesSound`, `ScenesKept` | 2 requests, bots or players, 2 tasks of which one at most has an owner at birth, one failure each, 2 departures from alliances | 3,760,703 |
| `Runs` | `RecordFollowsTotal`, `OvershootIsOneRound`, `DetachedSound`, `AllEnds` | a behaviour is about books (2 starts, 1 failing await), about videos (2 helpers, 2 attempts, 1 render by hand, 1 death) or an embodied run (2 supervisors, 1 exit, 1 failing await) | 241,790 |
| `Services` | `JobsAccounted`, `AccountsBalance`, `SwitchObeyed`, `RequestsServed`, `StreamSettles` | two actors of each service; two payments and a weekly allocation over two accounts; a stream with each of its three wirings | 46,035 |
| `Limits` | `FloorIsShared`, `CostsKept`, `BusSound`, `DangerListSound`, `LatchKept` | 3 speakers of which the planner of builds may not hold the plan of a scene, 4 verdicts, build intents with and without a claim; 2 callers and 3 costs; 2 sockets, 2 emitters and 3 events; 2 builders and 4 updates; 2 writers | 1,283,613 |
| `Conversation` | `TalkSound`, `TalksSettle` | 1 conversation of up to 3 turns, 2 agents, 1 bot, breaker after 2, 1 raised error | 433,756 |
| `TaskBoard_finished`, `Bridge_two_memories`, `Livestream_second_cut` | *violations*, see findings | | 81, 580, 24 |

`LogRebuildsIndex`, `IdleIsDurable` and `LogsRebuildLedgers` say that between
operations the logs replay to memory; `BooksBalance` that every holding is what
inventory settings and accepted offers add up to; `AllEnds`, `RequestsServed`,
`StreamSettles` and `TalksSettle` are liveness.

The bounds are on what is created and on failures; crashes, resumes, conflicts,
releases and retries are unlimited within them. They suffice for the cases the
properties are about: a claim after a release of the same target, an offer that
went stale through another, a war that outlives a defection, two claims and an
edit between them, one failure at any point of a multi-step operation, a second
process on what the first one left. Properties that hold only while nothing
failed say so in their premise (`faults = 0`, `~raced`, `errors = 0`...): that an
active war had its quorum, for one, is claimed while no append failed, since a
written `war_activated` line whose `war_seconded` line was lost is replayed as it
stands (`conflict.py:1186`).

**Deadlock** is checked in `Economy`, `Factions`, `Ownership`,
`TaskBoard_finished` and `Livestream_second_cut`. The other instances may stop:
their requests, events and starts are used up, and nobody is assumed to ask for
more. A deadlock inside them that leaves somebody waiting is a violation of their
liveness property.

**Symmetry** is used where agents, tasks or requests are told apart only by
equality, and never with liveness.

**Fairness.** The event loop runs every coroutine whose reply has arrived: weak
fairness of the next step of each request, engine, review, writer, flush and
process. `asyncio.Lock` is FIFO and Postgres queues the waiters of a row, so
taking a lock that is free again and again is strongly fair; of a deadlock
Postgres aborts a victim. Monitors poll at their intervals; the threads of the
proxy run and their requests have timeouts. Nobody is assumed to start, ask,
cancel, or bring a bot, a child process or the kill switch to do anything.

**Mutants.** Each property of a passing run has a mutant of a modelled function
(an operator next to the original, marked *Mutant*) under which TLC finds the
property violated: a missing guard in replay, a credit before a debit, SET
without NX, a lock that is kept when the process cannot be started, and so on.
Properties that are conjunctions from different modules have one per module.

## 4. Theorems

`tlapm` checks all of them from nothing, without assumptions beyond the named
ones on the constants, which TLC evaluates with the runs. They hold for any
number of agents, tasks, sockets, workers and for any bounds; the bounds of
section 3 are constants of the modules, and the proofs never use more of them
than that they are numbers, those of clocks and retries positive.

Each proof follows one pattern. An inductive invariant is stated next to the
theorems (TLC checked it on an instance first); it holds initially, every action
keeps it (one step per action, one below it per conjunct the action disturbs),
and it implies the property. What the invariant adds to the property is the
interesting part:

| Theorems | Property | The invariant and why it is needed |
|---|---|---|
| `LandAndRunsProofs`: `TypeCorrect`, `IndexIsSound`, `FirstClaimWinsHolds`, `IndexStaysConsistent` | `IndexSound` | `LedgerInv`: types, exclusivity and agreement of the three structures, together, until a damaged log is resumed: a claim is refused by one structure and written to all three |
| `ResumeInheritsClaims` | `LogRebuildsIndex` | also in `LedgerInv`: while no append failed, the replay of the file is the live index |
| `ReplayIsTruthful` | `ReplayInventsNothing` | holds whatever fails, so of both images of the file, the complete one and the one before a torn line |
| `LedgerImplementsRegistry` | `ImplementsRegistry` | refinement: a claim maps to Acquire, a release to Vacate, everything else, failed appends included, to a stutter, until a damaged log is resumed |
| `OverlapCheckIsExact`, `LandHasOneOwner` | `OneOwnerPerColumn` | arithmetic of boxes for all integer coordinates, and exclusivity of `LedgerInv` |
| `RecordsProofs`: `BoardTypeCorrect`, `OneWinnerHolds`, `LoserToldWinnerHolds` | `OneWinner`, `LoserToldWinner` | `BoardInv`: for a task posted open, the owner in the hash, in every copy a request carries, and the agent of every ok is nobody or the holder of the marker. The copies matter: a blind write of a stale one is what could crown a second winner |
| `FactionsProofs`: `FactionsAreSound`, `WarsHaveAQuorum` (while no append failed), `LogsRebuild`, `NothingIsUndone` | `FactionsSound`, `ActiveHasQuorum`, `LogsRebuildLedgers`, `NothingComesBack` | `LedgersInv`: applying the waiting lines to the images on disk gives memory, line by line, and each waiting line is one a replay at that moment applies exactly; the action property follows since memory itself only moves forward |
| `EconomyProofs`: `EconomyTypeCorrect`, `ChestsNeedATrade` | `ChestsMoveOnlyByTrade` | `KeyInv`: in memory and in both images of the ownership log a key points to a claim of that chest. `_transfer_container` looks the holder up by key, so a key that pointed elsewhere would take the chest of a bystander |
| `HoldingsAddUp` | `BooksBalance` | also with holdings below zero, which a lost `inventory_set` line leaves to a resumed ledger: an accept looks only at the goods its bundles name, and a theft whose credit raises stays debited. `BalanceInv`: a balance of every image of the trade log, and a waiting `proposed` line is news to the file: an offer whose line was lost is accepted by no replay |
| `LogsHoldTheLedgers`, `NoGoodsFromNothing` | `IdleIsDurable`, `GoodsConserved` | `PathInv`: while no append failed, the waiting lines lead the three images from where they are to the live ledgers, through ledgers none of which owes or makes goods. A theft goes through one such ledger per line: `LootPath` shows that with goods debited before they are credited each one is sound |
| `DisputesProofs`: `DisputeTypesCorrect`, `IdleDisputesAreDurable` | `IdleIsDurable` | `InStep`: while no append failed, the waiting lines lead the four images, one replay step per line, to the live ledgers |
| `VerdictsFit`, `JudgementsAreCarriedOut`, `VerdictsAreFinal` | `VerdictsSound`, `JudgementCarriedOut`, `VerdictsStand` | a verdict for the accuser of a theft comes with an offer of what was taken, unless the cited thefts took nothing. Also in `InStep`: the only line about a dispute is the last one, so the logs reach it with every consequence on record; and no dispute on record cites a claim that still waits for its line. A score counts what the index has ever known, which a transfer only extends by claims that are new. `PaidInv` counts offers against crashes |
| `LimitsProofs`: `LatchIsKept` | `LatchKept` | `PlanInv`: the drafts that requests read earlier satisfy the latch too, and of requests that do not overlap the draft is the plan |
| `BusIsSound` | `BusSound` | `BusInv`: an event that a client lacks is in flight to a snapshot that holds the client, and the number of pending handshakes bounds the overshoot |
| `DangerListIsSound` | `DangerListSound` | `DangerInv`: what a serial request has read, removed and pushed back, together, is always the list of the latest reports |
| `NoCostVanishes` | `EveryCostAccounted`, a part of `CostsKept` | `SpendInv`: event numbers are distinct, so a failed insert whose effect is in doubt is never counted for two calls |
| `FloorStaysShared` | `FloorIsShared` | `PlansOwned`: whoever was offered a build as the planner of a scene is the one its scene has on record, because nothing gives a plan back, so a scene offers to one planner; offers to claimed tasks stay within the cap of slots. `DirectorInv`: while the floor is plain one verdict waits at most, and its agent may still take the turn, as nobody has spoken since it was given; n turns in, an agent that was never heard goes first, so those heard are at least the turns less n - 2; a verdict outlives its slot only when the slot ran out |
| `CapIsKept` | `CostsKept` | `CapInv`: the spend, and the highest price for every call between its check and its record, stay within the cap and one such price for every caller and every insert in doubt |
| `LandAndRunsProofs`: `RowFollowsTheRun`, `OneRoundOverTheCap` | `RecordFollowsTotal`, `OvershootIsOneRound` | `RunInv`: where the bill of a phase stands at each await, in the total, in the row, in both or in neither |
| `PublishedAtMostOnce`, `SupervisorsAreSound`, `DetachedAreSound` | `DetachedSound` | `PublishInv`: a claim has one holder among processes at every stage of their lives, uploads are one more than those in doubt; `EmbodiedInv`: the order in which a supervisor tells, waits for and records its harness |
| `KillIsHonoured` | `KillHonoured` | `KillInv`: a frame past its gate had the switch off at some moment since it came in, whether the answer came from Redis or from the fail-open path |
| `ErrandsAreHandedOutOnce`, `MemoriesNeedFaults` | `ErrandsOnce`, `ExtraMemoryNeedsFault` | `TtlInv`: acceptances are paid for by windows of the TTL and restarts, and the duplicate window of a live process is younger than its TTL; `MemoryInv`: of the completions that may still write, one holds the lock |
| `AlliancesAreSound` | `AlliancesSound` | `AllianceInv`: a transaction that holds the row lock has read the votes that are there, ballots without their vote belong to such a transaction, and a member count in hand is at least the real one |
| `ScenesStayKept` | `ScenesKept` | `SceneInv`: an open scene lies in the window of its id or goes on after it, and one that is no longer the latest of its place was followed after that window; so an event in its order never finds another scene under the id it would make |
| `ServicesProofs`: `BalancesAreKept` | `AccountsBalance` | `AccountInv`: a payment that was charged holds the row of its payer until it commits, and no row is held twice; so the other payments of that agent wait, and what they find committed still covers the first (`PaymentFits`) |
| `NoJobIsLost` | `JobsAccounted` | `ProxyInv`: which counters each step of a worker has already moved, and which workers have died with a job |
| `SwitchIsObeyed` | `SwitchObeyed` | for every wiring of the controller. `StreamInv`: one in its safe state has taken the feed off, or a callback raised half-way, or the process it was given is gone and a restore callback started another. Of that last feed `KilledIsOffAir` is false (section 5), of all others it is proved |
| `TalksAreSound` | `TalkSound` | `ReviewInv`: for a muted agent, lines spoken since plus reviews that may still pass are fewer than the reviewers; with the state of every conversation row as a function of its driver and of what was raised |
| `LimitsProofs`: `DirectorTypesCorrect`, `SpendTypesCorrect`, `BusTypesCorrect`, `PlanTypesCorrect`, `DangerTypesCorrect`; `RecordsProofs`: `BridgeTypesCorrect`, `AllianceTypesCorrect`, `SceneTypesCorrect`; `ServicesProofs`: `AccountTypesCorrect` | the type invariants of those modules | more than shapes: the gate caches one verdict per event (`GateInv`), no more costs are lost than calls answered (`LossInv`: a call still logging has lost nothing), a completion lock belongs to the frame between lookup and answer, a row has one locker (`LocksApart`), the scene that goes on at a place is open (`InboxFits`, from which nothing is added to a closed scene) |

**Only model-checked**, because no prover here does it: liveness (`AllEnds`,
`TalksSettle`, `RequestsServed`, `StreamSettles`) and ENABLED. Every invariant and
every action property of a passing run is stated by a theorem.

The proof of `ScenesKept` found `DoersRemember` to be too strong as it stood,
within bounds larger than those of the run: an event that is late, but no
repetition, can start a scene whose id an older scene of the place still has. It
is stated now for events that come in the order of their times at each place
(`Late`), and TLC agreed on instances of 3.5 million states with two open scenes,
three ticks and delays of two.

Sums and paths of lines take induction over data, for which the induction
theorems of the library need an operator as a parameter. `SumTheorems` derives
principles that need none: a set that holds 0 and is closed under successor
contains every number, and a set of subsets of a finite set that holds each one
whose proper subsets it holds contains them all. Both follow from the
cardinality of finite sets.

## 5. Findings

With a run that shows them:

* a claim that read a pending task writes it back to in_progress after it was
  finished (`TaskBoard_finished`);
* a second completion frame writes a second memory when the id of the first could
  not be stored in Redis (`Bridge_two_memories`);
* after a cut and a restore that started a new push process, the next cut
  terminates nothing and is reported as done (`Livestream_second_cut`).

Visible in the models or met while reading, with no run of their own:

* *ledgers*: a torn append takes the next, acknowledged record with it; a lost
  release line lets a resumed ledger hold two clashing claims; any agent may
  release any claim; an accepted offer of a chest that its giver no longer owns is
  paid for although the chest stays; a crash between the ownership lines and the
  accepted line gives a chest away unpaid, one between the lines of a theft
  destroys goods; a theft report picks the latest attempt even if that one was
  detected already (`theft.py:294`); a war becomes active between parties of an
  active non-aggression treaty; a lost defected line followed by another defection
  puts an agent in two factions after a resume;
* *shared state*: the owner of a task that was posted with an owner can lose it to
  a claim while it is pending; a status edit that read a task before it was
  claimed erases the new owner, and the marker then blocks every later claim;
* *runs*: the cost of a row lags after a crash and a persistent attach, against
  the docstring at `orchestrator.py:1874`; a round is counted twice when an ended
  persistent row is resumed, or update_agents raises after increment_stats; a
  setup failure outside of the try leaves the row running; a seeded run never
  reads the kill switch; a run stopped by it is recorded as completed;
* *publishing*: a failed preflight or bootstrap leaves `rendering` or
  `publishing` for good; a failed publish is tried again after a render by hand
  although `core/youtube/worker.py:74` says there is no retry;
* *embodied runs*: a harness told to end over the cost cap is not waited for; one
  that exits while should_stop awaits makes terminate raise, so that a kill-switch
  stop is recorded as failed; SIGTERM has no handler and orphans the harness;
* *livestream*: a restart line counts as healthy forever after the push
  supervisor is killed (`health_monitor.py:174`);
* *director*: an agent that is alone is blocked forever after two turns
  (`turn_scheduler.py:404`); a starved agent that never asks is selected again and
  again; the mark methods of the build scheduler are called by tests only, so a
  scene keeps its planner for good, and planners of scenes are offered builds
  outside of the cap that claimed tasks have (`prompt_gate.py:1231`);
* *scenes*: a scene of the same id written over after a late timestamp loses its
  participants; a build outcome may be swallowed by the 30 s dedupe; stop drops
  open scenes;
* *alliances and accounts*: more alliances per agent than
  `MAX_ALLIANCES_PER_AGENT`; a vote on a settled proposal forms a second alliance;
  votes of outsiders count; record_agent_vote takes no lock; three account
  operations have no callers;
* *conversations*: an aborted opening leaves an open row; an unlisted error in
  `_compact_and_journal`, against its docstring (`conversation_engine.py:908`),
  keeps the conversation active and the loop ends it again; one whose speaker never
  has a line goes on forever under the loop; the engine's `_is_muted` reads
  `agent.status` while a mute is a Redis key (`conversation_engine.py:1719`,
  `management.py:400`), so muted agents keep being selected; the mute of the
  gravest verdict comes before the kill switch (`management.py:263`); a half-open
  breaker lets all waiting reviews through.

## 6. Plan

Order of modelling, done: ledgers with their files; shared state; bridge; runs;
limits; services; conversations. Abstract specifications: `FirstClaimWins`.

Left to prove: nothing of what the runs check but the four liveness properties,
which are out of the provers' reach.

## 7. Not modelled

The map covers about 8 % of the implementation lines. Most of the rest has no
protocol of its own: HTTP routes and SQL (`public_routes.py`, `models.py`,
repositories), reporting and evaluation, prompts and texts of the engine, memory
and embeddings, TTS and notifications, OBS control, the websites, and the
JavaScript bot scripts. Of the modelled components these are left out:
`advance_war_turn`, which only a test calls; the repeated-failure window and the
other verbs of the bridge; plan-mode overrides, objectives and hearing geometry
of the director, which is modelled in emergent mode; a controller whose
callbacks are not wired, which only logs a warning; an engine built without a
compactor, which writes journals but no recalls (`RememberedByAll` asks for
both); the black-frame and silence detectors; the phases of a simulation,
snapshots, experimental stop reasons and the dry run; selection weights, topics,
tools and commitments of a conversation; the arithmetic of prices and needs.
