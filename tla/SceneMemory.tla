---------------------------- MODULE SceneMemory ----------------------------
(***************************************************************************)
(* Scenes and the memories made of them                                    *)
(* (core/minecraft/director/scene_inbox.py and                             *)
(* core/bridge/consumers/scene_memory.py).  The inbox groups events of one *)
(* place and time into scenes; a scene that fell quiet or came to an       *)
(* outcome, or the oldest one when there are too many, is closed, and a    *)
(* flush hands its events to the memory compactor.  An update of a scene   *)
(* starts a flush in the background and a poll starts one every second;    *)
(* they take turns by a lock, which is held while the compactor works.     *)
(***************************************************************************)
EXTENDS Integers, Sequences, SequencesExt, FiniteSets

CONSTANTS Players,      \* agents that memories are for
          Places,       \* tasks, build sites or buckets of coordinates
          Happenings,   \* of "talk", "move", "build", "built", "stuck", "danger"
          SceneWindow,  \* scene_window_ms
          DedupeWindow, \* dedupe_window_ms
          MaxOpen,      \* max_recent_scenes
          Delays,       \* how old the timestamp of an event is on arrival
          MaxHappenings, MaxSpoiled, MaxTicks  \* bounds

ASSUME SceneAssumption ==
    /\ {SceneWindow, MaxOpen} \subseteq Nat \ {0}
    /\ {DedupeWindow, MaxHappenings, MaxSpoiled, MaxTicks} \subseteq Nat
    /\ Delays \subseteq Nat

VARIABLES ticks,    \* the wall clock
          happened, \* the events so far: their number is their event_id
          open,     \* _scenes with _event_buffers, in the order of insertion
          latest,   \* _active_scenes: per place, the scene that goes on
          lately,   \* _dedupe_seen: <<key, timestamp>>
          closed,   \* _closed_queue
          turnsFor, \* flushes that wait for the lock, in the order they came
          batch,    \* closed scenes that the flush with the lock has to compact
          flushing, \* a flush holds the lock
          listening, \* stop() was not called
          kept,     \* ghost: times each event was taken into a buffer
          digested, \* ghost: times each event was in a digest
          forgone,  \* ghost: times each event was given up
          aware,     \* ghost: <<event, agent>>: memories of agents
          repeated, spoiled, \* ghosts that count mishaps
          disorder   \* ghost: an event came after a younger one of its place

sceneGhosts == <<kept, digested, forgone, aware>>
sceneVars == <<ticks, happened, open, latest, lately, closed, turnsFor, batch, flushing,
               listening, sceneGhosts, repeated, spoiled, disorder>>

Numbers == 1 .. MaxHappenings
NoScene == <<>>
Polling == 0 - 1   \* a flush that reads the clock when it has the lock

SceneInit ==
    /\ ticks = 0 /\ happened = <<>> /\ open = <<>> /\ lately = {}
    /\ latest = [p \in Places |-> NoScene]
    /\ closed = <<>> /\ turnsFor = <<>> /\ batch = <<>>
    /\ flushing = FALSE /\ listening = TRUE
    /\ kept = [n \in Numbers |-> 0] /\ digested = kept /\ forgone = kept /\ aware = {}
    /\ repeated = 0 /\ spoiled = 0 /\ disorder = FALSE

SceneIds == {open[i].id : i \in 1..Len(open)}
SceneOf(id) == open[CHOOSE i \in 1..Len(open) : open[i].id = id]
Plus(count, set) == [n \in Numbers |-> count[n] + (IF n \in set THEN 1 ELSE 0)]

-----------------------------------------------------------------------------
(* The inbox.  A movement or a build action that repeats one of its agent  *)
(* and place within the window is suppressed, whatever its status.         *)
DedupeKey(e) ==
    CASE e.kind = "move" -> {<<"move", e.who, e.place>>}
      [] e.kind \in {"build", "built"} -> {<<"build", e.who, e.place>>}
      [] OTHER -> {}

Suppressed(e) ==
    \E seen \in lately : seen[1] \in DedupeKey(e) /\ e.at - seen[2] <= DedupeWindow

Remembers(e) ==
    {seen \in lately : seen[1] \notin DedupeKey(e)} \cup {<<key, e.at>> : key \in DedupeKey(e)}

(* Danger has a group of its own; other events have the group of their     *)
(* place.  The id of a scene is its group and the window of its first      *)
(* event.                                                                  *)
Group(e, n) == IF e.kind = "danger" THEN <<"urgent", n>> ELSE <<"place", e.place>>
SceneId(e, n) == <<Group(e, n), e.at \div SceneWindow>>

(* Who takes part in an event; mere movement has no participants.  Others  *)
(* that are near enough are participants or observers, and both are told   *)
(* of a scene.                                                             *)
People(e) == IF e.kind = "move" THEN {} ELSE {e.who}

(* The scene of the place, unless it was closed or has been quiet too      *)
(* long: the gap is counted from the event that came last, not from the    *)
(* newest one.                                                             *)
Continued(e) ==
    {id \in {latest[e.place]} \cap SceneIds :
        e.kind # "danger" /\ e.at - SceneOf(id).last <= SceneWindow}

(* An event older than one that was taken in at its place.                 *)
Late(e) ==
    e.kind # "danger" /\ \E m \in 1..Len(happened) :
        /\ kept[m] > 0 /\ e.at < happened[m].at
        /\ happened[m].place = e.place /\ happened[m].kind # "danger"

(* A new scene replaces one of the same id and takes over its buffer.      *)
HeldBy(id) == IF id \in SceneIds THEN SceneOf(id).buffer ELSE <<>>
Buffer(id, n) == IF n \in Range(HeldBy(id)) THEN HeldBy(id) ELSE Append(HeldBy(id), n)

Upserted(scene) ==
    IF scene.id \in SceneIds
    THEN [i \in 1..Len(open) |-> IF open[i].id = scene.id THEN scene ELSE open[i]]
    ELSE Append(open, scene)

Forget(ids, places) == [p \in Places |-> IF places[p] \in ids THEN NoScene ELSE places[p]]

(* _upsert_scene with _trim_recent_scenes: the oldest scene is closed when *)
(* there are too many.                                                     *)
Upsert(e, n, near) ==
    LET on == Continued(e)
        id == IF on = {} THEN SceneId(e, n) ELSE CHOOSE i \in on : TRUE
        people == IF on = {} THEN {} ELSE SceneOf(id).people
        scenes == Upserted([id |-> id, people |-> people \cup People(e) \cup near, last |-> e.at,
                            buffer |-> Buffer(id, n)])
        now == IF e.kind = "danger" THEN latest ELSE [latest EXCEPT ![e.place] = id]
        trim == Len(scenes) > MaxOpen
    IN  /\ open' = IF trim THEN Tail(scenes) ELSE scenes
        /\ closed' = IF trim THEN Append(closed, Head(scenes)) ELSE closed
        /\ latest' = IF trim THEN Forget({Head(scenes).id}, now) ELSE now
        /\ lately' = Remembers(e)
        /\ turnsFor' = Append(turnsFor, e.at)
        /\ kept' = Plus(kept, {n} \ Range(HeldBy(id)))
        /\ disorder' = (disorder \/ Late(e))

(* ingest: a suppressed event changes nothing; otherwise on_scene_update   *)
(* starts a flush as of the time of the event.                             *)
TakeIn(e, n) ==
    /\ listening
    /\ IF Suppressed(e)
       THEN UNCHANGED <<open, latest, lately, closed, turnsFor, kept, disorder>>
       ELSE \E near \in SUBSET (Players \ {e.who}) : Upsert(e, n, near)
    /\ UNCHANGED <<ticks, batch, flushing, listening, digested, forgone, aware, spoiled>>

Ingest ==
    /\ Len(happened) + repeated < MaxHappenings
    /\ UNCHANGED repeated
    /\ \E kind \in Happenings, who \in Players, place \in Places, delay \in Delays :
          LET e == [kind |-> kind, who |-> who, place |-> place,
                    at |-> IF delay > ticks THEN 0 ELSE ticks - delay]
          IN  /\ happened' = Append(happened, e)
              /\ TakeIn(e, Len(happened) + 1)

(* The same event comes again, in a frame that was sent twice.             *)
IngestAgain ==
    /\ Len(happened) + repeated < MaxHappenings
    /\ repeated' = repeated + 1
    /\ \E n \in 1..Len(happened) : TakeIn(happened[n], n)
    /\ UNCHANGED happened

-----------------------------------------------------------------------------
(* A flush that has the lock closes what is over as of its time and takes  *)
(* all that is closed.                                                     *)
Outcome(scene) == happened[Last(scene.buffer)].kind \in {"built", "stuck", "danger"}
IsOver(scene, now) == Outcome(scene) \/ now - scene.last >= SceneWindow

(* The scenes at some places of the inbox, in their order.                 *)
Only(scenes, places) ==
    LET rest[i \in 0..Len(scenes)] ==
            IF i = 0 THEN <<>>
            ELSE IF i \in places THEN Append(rest[i-1], scenes[i]) ELSE rest[i-1]
    IN rest[Len(scenes)]

FlushAt == IF Head(turnsFor) = Polling THEN ticks ELSE Head(turnsFor)

Flush(queue) ==
    LET due == {i \in 1..Len(open) : IsOver(open[i], FlushAt)}
        over == Only(open, due)
    IN
    /\ ~flushing /\ turnsFor # <<>>
    /\ flushing' = TRUE
    /\ turnsFor' = Tail(turnsFor)
    /\ open' = Only(open, (1..Len(open)) \ due)
    /\ latest' = Forget({open[i].id : i \in due}, latest)
    /\ batch' = queue \o over
    /\ closed' = <<>>
    /\ UNCHANGED <<ticks, happened, lately, listening, sceneGhosts, repeated, spoiled, disorder>>

(* Mutant: only what this flush closed is compacted.                       *)
FlushDueOnly == Flush(<<>>)

FlushDue == Flush(closed)

(* _compact_closed_scene, for the next scene.  Without participants there  *)
(* is nobody to tell; an error of the compactor is logged, and may come    *)
(* after some have been told.                                              *)
CompactScene ==
    /\ flushing /\ batch # <<>>
    /\ batch' = Tail(batch)
    /\ LET scene == Head(batch)
           events == Range(scene.buffer)
       IN  \/ /\ scene.people # {}
              /\ digested' = Plus(digested, events)
              /\ aware' = aware \cup (events \X scene.people)
              /\ UNCHANGED <<forgone, spoiled>>
           \/ /\ scene.people = {}
              /\ forgone' = Plus(forgone, events)
              /\ UNCHANGED <<digested, aware, spoiled>>
           \/ /\ scene.people # {} /\ spoiled < MaxSpoiled
              /\ spoiled' = spoiled + 1
              /\ forgone' = Plus(forgone, events)
              /\ \E some \in SUBSET scene.people : aware' = aware \cup (events \X some)
              /\ UNCHANGED digested
    /\ UNCHANGED <<ticks, happened, open, latest, lately, closed, turnsFor, flushing, listening, kept,
                   repeated, disorder>>

EndFlush ==
    /\ flushing /\ batch = <<>>
    /\ flushing' = FALSE
    /\ UNCHANGED <<ticks, happened, open, latest, lately, closed, turnsFor, batch, listening,
                   sceneGhosts, repeated, spoiled, disorder>>

(* The poll task waits for its own flush before it sleeps again.           *)
PollDue ==
    /\ listening /\ Polling \notin Range(turnsFor)
    /\ open # <<>> \/ closed # <<>>
    /\ turnsFor' = Append(turnsFor, Polling)
    /\ UNCHANGED <<ticks, happened, open, latest, lately, closed, batch, flushing, listening,
                   sceneGhosts, repeated, spoiled, disorder>>

(* stop(): the flushes are cancelled, and what they held is gone with the  *)
(* inbox.                                                                  *)
StopListening ==
    /\ listening
    /\ listening' = FALSE
    /\ forgone' = [n \in Numbers |-> kept[n] - digested[n]]
    /\ open' = <<>> /\ closed' = <<>> /\ batch' = <<>> /\ turnsFor' = <<>>
    /\ flushing' = FALSE
    /\ latest' = [p \in Places |-> NoScene]
    /\ UNCHANGED <<ticks, happened, lately, kept, digested, aware, repeated, spoiled, disorder>>

SceneTick ==
    /\ ticks < MaxTicks
    /\ ticks' = ticks + 1
    /\ UNCHANGED <<happened, open, latest, lately, closed, turnsFor, batch, flushing, listening,
                   sceneGhosts, repeated, spoiled, disorder>>

FlushStep == FlushDue \/ CompactScene \/ EndFlush

SceneNext ==
    Ingest \/ IngestAgain \/ FlushStep \/ PollDue \/ StopListening \/ SceneTick

SceneSpec == SceneInit /\ [][SceneNext]_sceneVars

-----------------------------------------------------------------------------
SceneTypeOK ==
    /\ Len(open) <= MaxOpen
    /\ Cardinality(SceneIds) = Len(open)
    /\ \A p \in Places : latest[p] \in SceneIds \cup {NoScene}
    /\ \A i \in 1..Len(open) : open[i].people \subseteq Players /\ open[i].buffer # <<>>

HeldIn(scenes, n) == Cardinality({i \in 1..Len(scenes) : n \in Range(scenes[i].buffer)})

(* An event that was taken into a buffer is in one open scene, in one      *)
(* closed scene, in the hands of one flush, in one digest, or was given    *)
(* up: never in two of them, and never in none.                            *)
EventsAccounted ==
    \A n \in Numbers :
        kept[n] = HeldIn(open, n) + HeldIn(closed, n) + HeldIn(batch, n) + digested[n] + forgone[n]

(* Whoever did something that is in a digest remembers it, if the events   *)
(* of each place came in the order of their times, some of them twice as   *)
(* they may: otherwise a scene may be written over by one of the same id,  *)
(* and its people are gone.                                                *)
DoersRemember ==
    ~disorder =>
        \A n \in 1..Len(happened) :
            digested[n] > 0 => \A who \in People(happened[n]) : <<n, who>> \in aware

(* No event is lost between the inbox and the memories.                    *)
ScenesKept == EventsAccounted /\ DoersRemember

(* Scenes that are closed are handed to the compactor in the end.          *)
ClosedScenesFlushed == closed # <<>> \/ batch # <<>> ~> closed = <<>> /\ batch = <<>>

=============================================================================
