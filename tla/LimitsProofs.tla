---------------------------- MODULE LimitsProofs ----------------------------
(***************************************************************************)
(* Proofs about the services that keep a limit or a record while requests  *)
(* overlap: the settlement objectives, the danger list, the event bus, the *)
(* spend cap and the floor of the director, for any number of requests,    *)
(* clients, events, calls and agents.                                      *)
(***************************************************************************)
EXTENDS Spending, EventBus, Objectives, Dangers, Director, SumTheorems, FiniteSetTheorems, TLAPS

-----------------------------------------------------------------------------
(* Settlement objectives: every document, the one on record and the ones   *)
(* that requests are about to write, has the latch.                        *)
Latched(doc, done) ==
    \A o \in Objectives :
        /\ doc[o].ratio >= Bar => doc[o].status = "completed"
        /\ doc[o].status = "completed" => o \in done

(* A request that overlaps with none has read what is still on record, or  *)
(* the record was replaced by a fresh plan.                                *)
DraftsInTurn ==
    alone =>
        /\ \A b, c \in Builders : draft[b] # NoDraft /\ draft[c] # NoDraft => b = c
        /\ \A b \in Builders, o \in Objectives :
              draft[b] # NoDraft /\ plan[o].status = "completed" =>
                  draft[b][1][o].status = "completed"

PlanInv ==
    /\ PlanTypeOK
    /\ Latched(plan, earned)
    /\ \A b \in Builders : draft[b] # NoDraft => Latched(draft[b][1], earned)
    /\ DraftsInTurn

LEMMA PlanStart == PlanInit => PlanInv
<1> SUFFICES ASSUME PlanInit PROVE PlanInv
  OBVIOUS
<1>1. NewPlan \in Plans
  BY DEF NewPlan, Plans
<1>2. PlanTypeOK
  BY <1>1, ObjectivesAssumption DEF PlanInit, PlanTypeOK
<1>3. Latched(plan, earned)
  BY ObjectivesAssumption DEF PlanInit, NewPlan, Latched
<1> QED
  BY <1>2, <1>3 DEF PlanInit, PlanInv, DraftsInTurn

(* A request has read the document and changed one entry.                  *)
LEMMA DraftsKeepPlanInv ==
    ASSUME PlanInv, NEW b \in Builders, NEW o \in Objectives,
           NEW entry \in [status : Requested \cup {"pending", "in_progress", "completed"},
                          ratio  : Ratios \cup {0}],
           entry.ratio >= Bar => entry.status = "completed",
           plan[o].status = "completed" => entry.status = "completed",
           Drafts(b, o, entry)
    PROVE  PlanInv'
<1>1. PICK doc : doc = [plan EXCEPT ![o] = entry]
  OBVIOUS
<1>2. /\ plan' = plan /\ draft' = [draft EXCEPT ![b] = <<doc>>] /\ draft[b] = NoDraft
      /\ earned \subseteq earned' /\ (entry.status = "completed" => o \in earned')
      /\ alone' = (alone /\ \A c \in Builders : draft[c] = NoDraft)
      /\ earned' \subseteq Objectives /\ updates' \in 0..MaxUpdates
  BY <1>1, ObjectivesAssumption DEF Drafts, PlanInv, PlanTypeOK
<1>3. /\ plan \in Plans
      /\ draft \in [Builders -> {NoDraft} \cup {<<d>> : d \in Plans}]
      /\ alone \in BOOLEAN
  BY DEF PlanInv, PlanTypeOK
<1>4. doc \in Plans /\ doc[o] = entry /\ \A p \in Objectives : p # o => doc[p] = plan[p]
  BY <1>1, <1>3 DEF Plans
<1>5. draft'[b] = <<doc>> /\ draft'[b][1] = doc /\ \A c \in Builders : c # b => draft'[c] = draft[c]
  BY <1>2, <1>3
<1>6. draft' \in [Builders -> {NoDraft} \cup {<<d>> : d \in Plans}]
  BY <1>2, <1>3, <1>4
<1>7. Latched(doc, earned')
  BY <1>2, <1>4 DEF PlanInv, Latched
<1>8. Latched(plan', earned')
  BY <1>2 DEF PlanInv, Latched
<1>9. ASSUME NEW c \in Builders, draft'[c] # NoDraft PROVE Latched(draft'[c][1], earned')
  <2>1. CASE c = b
    BY <1>5, <1>7, <2>1
  <2>2. CASE c # b
    BY <1>2, <1>5, <1>9, <2>2 DEF PlanInv, Latched
  <2> QED
    BY <2>1, <2>2
<1>10. DraftsInTurn'
  <2> SUFFICES ASSUME alone'
               PROVE  /\ \A c, d \in Builders : draft'[c] # NoDraft /\ draft'[d] # NoDraft => c = d
                      /\ \A c \in Builders, p \in Objectives :
                            draft'[c] # NoDraft /\ plan'[p].status = "completed" =>
                                draft'[c][1][p].status = "completed"
    BY DEF DraftsInTurn
  <2>1. \A c \in Builders : draft'[c] # NoDraft => c = b
    BY <1>2, <1>5
  <2>2. \A p \in Objectives : plan[p].status = "completed" => doc[p].status = "completed"
    BY <1>4
  <2> QED
    BY <1>2, <1>5, <2>1, <2>2
<1>11. PlanTypeOK'
  BY <1>2, <1>3, <1>6 DEF PlanTypeOK
<1> QED
  BY <1>8, <1>9, <1>10, <1>11 DEF PlanInv

LEMMA PlanKept == PlanInv /\ [PlanNext]_planVars => PlanInv'
<1> SUFFICES ASSUME PlanInv, [PlanNext]_planVars PROVE PlanInv'
  OBVIOUS
<1>t. /\ plan \in Plans /\ alone \in BOOLEAN /\ updates \in 0..MaxUpdates /\ earned \subseteq Objectives
      /\ draft \in [Builders -> {NoDraft} \cup {<<d>> : d \in Plans}]
  BY DEF PlanInv, PlanTypeOK
<1>1. ASSUME NEW b \in Builders, NEW o \in Objectives, NEW status \in Requested,
             NEW ratio \in Ratios \cup {plan[o].ratio}, Advance(b, o, status, ratio)
      PROVE  PlanInv'
  <2>1. plan[o].ratio \in Ratios \cup {0}
    BY <1>t DEF Plans
  <2>2. Advanced(status, ratio) \in [status : Requested \cup {"pending", "in_progress", "completed"},
                                     ratio  : Ratios \cup {0}]
    BY <2>1 DEF Advanced
  <2>3. Advanced(status, ratio).ratio >= Bar => Advanced(status, ratio).status = "completed"
    BY DEF Advanced
  <2>4. plan[o].status = "completed" => Advanced(status, ratio).status = "completed"
    BY <1>1 DEF Advance, Advanced
  <2> QED
    BY <1>1, <2>2, <2>3, <2>4, DraftsKeepPlanInv DEF Advance
<1>2. ASSUME NEW b \in Builders, NEW o \in Objectives, Assign(b, o) PROVE PlanInv'
  <2> DEFINE entry == [plan[o] EXCEPT !.status = "in_progress"]
  <2>1. plan[o] \in [status : Requested \cup {"pending", "in_progress", "completed"},
                     ratio  : Ratios \cup {0}]
    BY <1>t DEF Plans
  <2>2. entry \in [status : Requested \cup {"pending", "in_progress", "completed"},
                   ratio  : Ratios \cup {0}]
    BY <2>1
  <2>3. entry.ratio = plan[o].ratio /\ plan[o].status # "completed"
    BY <1>2, <2>1 DEF Assign
  <2>4. entry.ratio >= Bar => entry.status = "completed"
    BY <2>3 DEF PlanInv, Latched
  <2>5. Drafts(b, o, entry)
    BY <1>2 DEF Assign
  <2> HIDE DEF entry
  <2> QED
    BY <2>2, <2>3, <2>4, <2>5, DraftsKeepPlanInv
<1>3. ASSUME NEW b \in Builders, Save(b) PROVE PlanInv'
  <2>1. /\ draft[b] # NoDraft /\ plan' = draft[b][1] /\ UNCHANGED <<updates, earned, alone>>
        /\ draft' = [draft EXCEPT ![b] = NoDraft]
    BY <1>3 DEF Save
  <2>2. plan' \in Plans /\ Latched(plan', earned')
    BY <1>t, <2>1 DEF PlanInv
  <2>3. draft' \in [Builders -> {NoDraft} \cup {<<d>> : d \in Plans}]
    BY <1>t, <2>1
  <2>4. \A c \in Builders : draft'[c] # NoDraft => c # b /\ draft'[c] = draft[c]
    BY <1>t, <2>1
  <2>5. DraftsInTurn'
    BY <2>1, <2>4 DEF DraftsInTurn, PlanInv
  <2> QED
    BY <1>t, <2>1, <2>2, <2>3, <2>4, <2>5 DEF PlanInv, PlanTypeOK
<1>4. CASE Replan
  <2>1. /\ plan' = NewPlan /\ UNCHANGED <<draft, earned, alone>> /\ updates' \in 0..MaxUpdates
    BY <1>4, <1>t, ObjectivesAssumption DEF Replan
  <2>2. NewPlan \in Plans /\ Latched(NewPlan, earned)
    BY ObjectivesAssumption DEF NewPlan, Plans, Latched
  <2>3. \A o \in Objectives : plan'[o].status # "completed"
    BY <2>1 DEF NewPlan
  <2>4. DraftsInTurn'
    BY <2>1, <2>3 DEF DraftsInTurn, PlanInv
  <2> QED
    BY <1>t, <2>1, <2>2, <2>4 DEF PlanInv, PlanTypeOK
<1>5. ASSUME NEW b \in Builders, Abandon(b) PROVE PlanInv'
  <2>1. UNCHANGED <<plan, updates, earned, alone>> /\ draft' = [draft EXCEPT ![b] = NoDraft]
    BY <1>5 DEF Abandon
  <2>2. draft' \in [Builders -> {NoDraft} \cup {<<d>> : d \in Plans}]
    BY <1>t, <2>1
  <2>3. \A c \in Builders : draft'[c] # NoDraft => draft'[c] = draft[c]
    BY <1>t, <2>1
  <2>4. DraftsInTurn'
    BY <2>1, <2>3 DEF DraftsInTurn, PlanInv
  <2> QED
    BY <1>t, <2>1, <2>2, <2>3, <2>4 DEF PlanInv, PlanTypeOK
<1>6. CASE UNCHANGED planVars
  BY <1>6 DEF planVars, PlanInv, PlanTypeOK, DraftsInTurn
<1> QED
  BY <1>1, <1>2, <1>3, <1>4, <1>5, <1>6 DEF PlanNext

THEOREM PlanInvHolds == PlanSpec => []PlanInv
BY PlanStart, PlanKept, PTL DEF PlanSpec

(* Settlement objectives: what is on record at the bar is completed and    *)
(* was found so, whatever requests overlap; and it stays completed as long *)
(* as none do.                                                             *)
THEOREM LatchIsKept == PlanSpec => LatchKept
<1>1. PlanInv => LatchHolds
  BY DEF PlanInv, Latched, LatchHolds
<1>2. ASSUME PlanInv, [PlanNext]_planVars,
             NEW o \in Objectives, plan[o].status = "completed", alone', plan' # NewPlan
      PROVE  plan'[o].status = "completed"
  <2>1. ASSUME NEW b \in Builders, Save(b) PROVE plan'[o].status = "completed"
    BY <1>2, <2>1 DEF Save, PlanInv, DraftsInTurn
  <2>2. ASSUME NEW b \in Builders, NEW p \in Objectives, NEW entry, Drafts(b, p, entry)
        PROVE  plan' = plan
    BY <2>2 DEF Drafts
  <2>3. ASSUME NEW b \in Builders, NEW p \in Objectives, Assign(b, p) PROVE plan' = plan
    BY <2>2, <2>3 DEF Assign
  <2>4. ASSUME NEW b \in Builders, NEW p \in Objectives, NEW status, NEW ratio, Advance(b, p, status, ratio)
        PROVE  plan' = plan
    BY <2>2, <2>4 DEF Advance
  <2>5. CASE Replan
    BY <1>2, <2>5 DEF Replan
  <2>6. CASE \E b \in Builders : Abandon(b)
    BY <1>2, <2>6 DEF Abandon
  <2> QED
    BY <1>2, <2>1, <2>3, <2>4, <2>5, <2>6 DEF PlanNext, planVars
<1>3. PlanInv /\ [PlanNext]_planVars =>
        [\A o \in Objectives :
            plan[o].status = "completed" /\ alone' /\ plan' # NewPlan =>
                plan'[o].status = "completed"]_planVars
  BY <1>2
<1> QED
  BY <1>1, <1>3, PlanInvHolds, PTL DEF PlanSpec, LatchKept, CompletedStaysAlone

-----------------------------------------------------------------------------
(* The event bus.  A client that is on the way to be live, or live, gets   *)
(* an event from the history it was sent, or an emit() still has to send   *)
(* it that event.                                                          *)
Frames == [step : {"callbacks", "sending"}, event : Events, to : SUBSET Sockets]

Promised(s, n) ==
    \E e \in Emitters : \E i \in DOMAIN emitting[e] :
        /\ emitting[e][i].event = n
        /\ emitting[e][i].step = "sending" => s \in emitting[e][i].to

Covered(s, n) ==
    \/ n \in got[s] \cup missed[s]
    \/ socket[s] = "greeting" /\ n \in welcome[s]
    \/ Promised(s, n)

EveryoneCovered ==
    \A s \in clients : socket[s] \in {"greeting", "live"} =>
        \A n \in 1..Len(kinds) : Covered(s, n)

(* A call in a callback is the report of a failure, which reports none.    *)
StackOK(stack, ks) ==
    /\ stack \in Seq(Frames) /\ Len(stack) <= 2
    /\ \A i \in 1..Len(stack) : /\ stack[i].event \in 1..Len(ks)
                                /\ i = 2 => ks[stack[i].event] = "error"

BusTypes ==
    /\ clients \subseteq Sockets
    /\ socket \in [Sockets -> {"new", "accepting", "greeting", "live", "dead", "gone"}]
    /\ welcome \in [Sockets -> SUBSET Events]
    /\ history \in Seq(Events)
    /\ kinds \in Seq({"normal", "error"}) /\ Len(kinds) <= MaxEvents
    /\ emitting \in [Emitters -> Seq(Frames)]
    /\ \A e \in Emitters : StackOK(emitting[e], kinds)
    /\ got \in [Sockets -> SUBSET Events]
    /\ missed \in [Sockets -> SUBSET Events]
    /\ raced \in BOOLEAN

(* A handshake under way without a race has its place reserved.            *)
PlaceReserved ==
    ~raced =>
        /\ Cardinality(clients) <= MaxConnections
        /\ \A s \in Sockets : socket[s] = "accepting" =>
              /\ Cardinality(clients) < MaxConnections
              /\ \A t \in Sockets : socket[t] = "accepting" => s = t

BusInv == BusTypes /\ EveryoneCovered /\ PlaceReserved

LEMMA BusStart == BusInit => BusInv
<1> SUFFICES ASSUME BusInit PROVE BusInv
  OBVIOUS
<1>1. BusTypes
  <2>1. StackOK(<<>>, kinds)
    BY DEF StackOK
  <2>2. kinds \in Seq({"normal", "error"}) /\ Len(kinds) <= MaxEvents
    BY BusAssumption DEF BusInit
  <2>3. emitting \in [Emitters -> Seq(Frames)] /\ \A e \in Emitters : emitting[e] = <<>>
    BY DEF BusInit
  <2>4. history \in Seq(Events)
    BY DEF BusInit
  <2>5. /\ clients \subseteq Sockets /\ raced \in BOOLEAN
        /\ socket \in [Sockets -> {"new", "accepting", "greeting", "live", "dead", "gone"}]
        /\ welcome \in [Sockets -> SUBSET Events]
        /\ got \in [Sockets -> SUBSET Events] /\ missed \in [Sockets -> SUBSET Events]
    BY DEF BusInit
  <2> QED
    BY <2>1, <2>2, <2>3, <2>4, <2>5 DEF BusTypes
<1>2. Cardinality(clients) = 0
  BY FS_EmptySet DEF BusInit
<1> QED
  BY <1>1, <1>2, BusAssumption DEF BusInit, BusInv, EveryoneCovered, PlaceReserved

LEMMA ClientsCounted ==
    ASSUME NEW S \in SUBSET Sockets
    PROVE  /\ IsFiniteSet(S) /\ Cardinality(S) \in Nat
           /\ \A s \in Sockets : Cardinality(S \cup {s}) <= Cardinality(S) + 1
           /\ \A T \in SUBSET S : Cardinality(T) <= Cardinality(S)
<1>1. IsFiniteSet(S)
  BY FS_Subset, BusAssumption
<1> QED
  BY <1>1, FS_CardinalityType, FS_AddElement, FS_Subset

(* Registering: what the new client is not sent had left the buffer.       *)
LEMMA BusRegister ==
    ASSUME BusInv, NEW s \in Sockets, Register(s)
    PROVE  BusInv'
<1>1. /\ socket[s] = "accepting" /\ clients' = clients \cup {s}
      /\ welcome' = [welcome EXCEPT ![s] = Buffered]
      /\ socket' = [socket EXCEPT ![s] = IF history = <<>> THEN "live" ELSE "greeting"]
      /\ missed' = [missed EXCEPT ![s] = (1..Len(kinds)) \ Buffered]
      /\ UNCHANGED <<history, kinds, emitting, got, raced>>
  BY DEF Register
<1>2. BusTypes
  BY DEF BusInv
<1>3. /\ Buffered \subseteq Events /\ 1..Len(kinds) \subseteq Events
      /\ (history = <<>> => Buffered = {})
  <2>1. history \in Seq(Events) /\ Len(kinds) \in Nat /\ Len(kinds) <= MaxEvents
    BY <1>2 DEF BusTypes
  <2>2. DOMAIN history = 1..Len(history)
    BY <2>1
  <2>3. history = <<>> => DOMAIN history = {}
    BY <2>1
  <2> QED
    BY <2>1, <2>2, <2>3, BusAssumption DEF Buffered, Events
<1>4. /\ socket' \in [Sockets -> {"new", "accepting", "greeting", "live", "dead", "gone"}]
      /\ welcome' \in [Sockets -> SUBSET Events] /\ missed' \in [Sockets -> SUBSET Events]
      /\ socket'[s] = (IF history = <<>> THEN "live" ELSE "greeting")
      /\ welcome'[s] = Buffered /\ missed'[s] = (1..Len(kinds)) \ Buffered
      /\ \A t \in Sockets : t # s =>
            socket'[t] = socket[t] /\ welcome'[t] = welcome[t] /\ missed'[t] = missed[t]
  BY <1>1, <1>2, <1>3 DEF BusTypes
<1>5. BusTypes'
  BY <1>1, <1>2, <1>4 DEF BusTypes, StackOK
<1>6. EveryoneCovered'
  <2> SUFFICES ASSUME NEW t \in clients', socket'[t] \in {"greeting", "live"}, NEW n \in 1..Len(kinds)
               PROVE  Covered(t, n)'
    BY <1>1 DEF EveryoneCovered
  <2>1. CASE t = s
    BY <1>3, <1>4, <2>1 DEF Covered
  <2>2. CASE t # s
    <3>1. t \in clients /\ t \in Sockets /\ socket'[t] = socket[t]
      BY <1>1, <1>2, <1>4, <2>2 DEF BusTypes
    <3>2. Covered(t, n)
      BY <3>1 DEF BusInv, EveryoneCovered
    <3> QED
      BY <1>1, <1>4, <2>2, <3>1, <3>2 DEF Covered, Promised
  <2> QED
    BY <2>1, <2>2
<1>7. PlaceReserved'
  <2> SUFFICES ASSUME ~raced
               PROVE  /\ Cardinality(clients') <= MaxConnections
                      /\ \A t \in Sockets : socket'[t] # "accepting"
    BY <1>1 DEF PlaceReserved
  <2>1. Cardinality(clients) < MaxConnections /\ \A t \in Sockets : socket[t] = "accepting" => t = s
    BY <1>1 DEF BusInv, PlaceReserved
  <2>2. clients \in SUBSET Sockets
    BY <1>2 DEF BusTypes
  <2>3. Cardinality(clients \cup {s}) <= Cardinality(clients) + 1 /\ Cardinality(clients) \in Nat
        /\ Cardinality(clients \cup {s}) \in Nat
    <3>1. clients \cup {s} \in SUBSET Sockets
      BY <2>2
    <3> QED
      BY <2>2, <3>1, ClientsCounted
  <2> QED
    BY <1>1, <1>4, <2>1, <2>3, BusAssumption
<1> QED
  BY <1>5, <1>6, <1>7 DEF BusInv

(* Steps that leave the connection limit and the calls of emit alone.      *)
LEMMA BusSockets ==
    ASSUME BusInv, NEW s \in Sockets, Connect(s) \/ Greet(s) \/ Disconnect(s) \/ Vanish(s) \/ Shutdown
    PROVE  BusInv'
<1>1. UNCHANGED <<welcome, history, kinds, emitting, missed>>
  BY DEF Connect, Greet, Disconnect, Vanish, Shutdown
<1>2. BusTypes
  BY DEF BusInv
<1>3. \A n : \A t : Promised(t, n) => Promised(t, n)'
  BY <1>1 DEF Promised
<1>4. ASSUME clients' \subseteq clients, UNCHANGED raced,
             socket' \in [Sockets -> {"new", "accepting", "greeting", "live", "dead", "gone"}],
             \A t \in Sockets : socket'[t] = "accepting" => socket[t] = "accepting"
      PROVE  PlaceReserved'
  <2>1. clients \in SUBSET Sockets /\ clients' \in SUBSET Sockets
    BY <1>2, <1>4 DEF BusTypes
  <2>2. Cardinality(clients') <= Cardinality(clients)
        /\ Cardinality(clients') \in Nat /\ Cardinality(clients) \in Nat
    BY <1>4, <2>1, ClientsCounted
  <2> QED
    BY <1>4, <2>2, BusAssumption DEF BusInv, PlaceReserved
<1>5. ASSUME Connect(s) PROVE BusInv'
  <2>1. /\ socket[s] = "new" /\ UNCHANGED <<clients, got>>
        /\ socket' = [socket EXCEPT ![s] =
              IF Cardinality(clients) >= MaxConnections THEN "gone" ELSE "accepting"]
        /\ raced' = (raced \/ \E other \in Sockets : socket[other] = "accepting")
    BY <1>5 DEF Connect
  <2>2. /\ socket' \in [Sockets -> {"new", "accepting", "greeting", "live", "dead", "gone"}]
        /\ socket'[s] = (IF Cardinality(clients) >= MaxConnections THEN "gone" ELSE "accepting")
        /\ \A t \in Sockets : t # s => socket'[t] = socket[t]
    BY <1>2, <2>1 DEF BusTypes
  <2>3. BusTypes'
    BY <1>1, <1>2, <2>1, <2>2 DEF BusTypes, StackOK
  <2>4. EveryoneCovered'
    <3> SUFFICES ASSUME NEW t \in clients, socket'[t] \in {"greeting", "live"}, NEW n \in 1..Len(kinds)
                 PROVE  Covered(t, n)'
      BY <1>1, <2>1 DEF EveryoneCovered
    <3>1. t # s /\ socket'[t] = socket[t]
      BY <1>2, <2>2 DEF BusTypes
    <3>2. Covered(t, n)
      BY <3>1 DEF BusInv, EveryoneCovered
    <3> QED
      BY <1>1, <1>3, <2>1, <3>1, <3>2 DEF Covered
  <2>5. PlaceReserved'
    <3> SUFFICES ASSUME ~raced'
                 PROVE  /\ Cardinality(clients) <= MaxConnections
                        /\ \A t \in Sockets : socket'[t] = "accepting" =>
                              Cardinality(clients) < MaxConnections /\ t = s
      BY <2>1 DEF PlaceReserved
    <3>1. ~raced /\ \A t \in Sockets : socket[t] # "accepting"
      BY <2>1
    <3>2. Cardinality(clients) <= MaxConnections /\ Cardinality(clients) \in Nat
      <4>1. clients \in SUBSET Sockets
        BY <1>2 DEF BusTypes
      <4> QED
        BY <3>1, <4>1, ClientsCounted DEF BusInv, PlaceReserved
    <3> QED
      BY <2>2, <3>1, <3>2, BusAssumption
  <2> QED
    BY <2>3, <2>4, <2>5 DEF BusInv
<1>6. ASSUME Greet(s) PROVE BusInv'
  <2>1. /\ socket[s] = "greeting" /\ UNCHANGED <<clients, raced>>
        /\ socket' = [socket EXCEPT ![s] = "live"]
        /\ got' = [got EXCEPT ![s] = @ \cup welcome[s]]
    BY <1>6 DEF Greet
  <2>2. /\ socket' \in [Sockets -> {"new", "accepting", "greeting", "live", "dead", "gone"}]
        /\ got' \in [Sockets -> SUBSET Events]
        /\ socket'[s] = "live" /\ got'[s] = got[s] \cup welcome[s]
        /\ \A t \in Sockets : t # s => socket'[t] = socket[t] /\ got'[t] = got[t]
    BY <1>2, <2>1 DEF BusTypes
  <2>3. BusTypes'
    BY <1>1, <1>2, <2>1, <2>2 DEF BusTypes, StackOK
  <2>4. EveryoneCovered'
    <3> SUFFICES ASSUME NEW t \in clients, socket'[t] \in {"greeting", "live"}, NEW n \in 1..Len(kinds)
                 PROVE  Covered(t, n)'
      BY <1>1, <2>1 DEF EveryoneCovered
    <3>1. t \in Sockets /\ socket[t] \in {"greeting", "live"}
      BY <1>2, <2>1, <2>2 DEF BusTypes
    <3>2. Covered(t, n)
      BY <3>1 DEF BusInv, EveryoneCovered
    <3>3. CASE t = s
      BY <1>1, <1>3, <2>1, <2>2, <3>2, <3>3 DEF Covered
    <3>4. CASE t # s
      BY <1>1, <1>3, <2>1, <2>2, <3>1, <3>2, <3>4 DEF Covered
    <3> QED
      BY <3>3, <3>4
  <2>5. PlaceReserved'
    BY <1>4, <2>1, <2>2
  <2> QED
    BY <2>3, <2>4, <2>5 DEF BusInv
<1>7. ASSUME UNCHANGED <<got, raced>>, clients' \subseteq clients,
             socket' \in [Sockets -> {"new", "accepting", "greeting", "live", "dead", "gone"}],
             \A t \in Sockets : socket'[t] \in {"accepting", "greeting", "live"} => socket'[t] = socket[t]
      PROVE  BusInv'
  <2>1. BusTypes'
    BY <1>1, <1>2, <1>7 DEF BusTypes, StackOK
  <2>2. EveryoneCovered'
    <3> SUFFICES ASSUME NEW t \in clients', socket'[t] \in {"greeting", "live"}, NEW n \in 1..Len(kinds)
                 PROVE  Covered(t, n)'
      BY <1>1 DEF EveryoneCovered
    <3>1. t \in clients /\ t \in Sockets /\ socket'[t] = socket[t]
      BY <1>2, <1>7 DEF BusTypes
    <3>2. Covered(t, n)
      BY <3>1 DEF BusInv, EveryoneCovered
    <3> QED
      BY <1>1, <1>3, <1>7, <3>1, <3>2 DEF Covered
  <2> QED
    BY <1>4, <1>7, <2>1, <2>2 DEF BusInv
<1>8. ASSUME Disconnect(s) PROVE BusInv'
  <2>1. /\ UNCHANGED <<got, raced>> /\ clients' \subseteq clients
        /\ socket' = [socket EXCEPT ![s] = "gone"]
    BY <1>8 DEF Disconnect
  <2>2. /\ socket' \in [Sockets -> {"new", "accepting", "greeting", "live", "dead", "gone"}]
        /\ \A t \in Sockets : socket'[t] \in {"accepting", "greeting", "live"} => socket'[t] = socket[t]
    BY <1>2, <2>1 DEF BusTypes
  <2> QED
    BY <1>7, <2>1, <2>2
<1>9. ASSUME Vanish(s) PROVE BusInv'
  <2>1. /\ UNCHANGED <<got, raced, clients>> /\ socket' = [socket EXCEPT ![s] = "dead"]
    BY <1>9 DEF Vanish
  <2>2. /\ socket' \in [Sockets -> {"new", "accepting", "greeting", "live", "dead", "gone"}]
        /\ \A t \in Sockets : socket'[t] \in {"accepting", "greeting", "live"} => socket'[t] = socket[t]
    BY <1>2, <2>1 DEF BusTypes
  <2> QED
    BY <1>7, <2>1, <2>2
<1>10. ASSUME Shutdown PROVE BusInv'
  <2>1. /\ UNCHANGED <<got, raced>> /\ clients' = {}
        /\ socket' = [t \in Sockets |-> IF t \in clients THEN "gone" ELSE socket[t]]
    BY <1>10 DEF Shutdown
  <2>2. /\ socket' \in [Sockets -> {"new", "accepting", "greeting", "live", "dead", "gone"}]
        /\ \A t \in Sockets : socket'[t] \in {"accepting", "greeting", "live"} => socket'[t] = socket[t]
    BY <1>2, <2>1 DEF BusTypes
  <2> QED
    BY <1>7, <2>1, <2>2
<1> QED
  BY <1>5, <1>6, <1>8, <1>9, <1>10

(* An event is emitted: emit() has yet to send it to everyone.             *)
LEMMA BusStartEmit ==
    ASSUME BusInv, NEW e \in Emitters, NEW kind \in {"normal", "error"}, StartEmit(e, kind),
           Len(emitting[e]) < 2, emitting[e] # <<>> => kind = "error"
    PROVE  BusInv'
<1> DEFINE n == Len(kinds) + 1
<1>1. /\ n <= MaxEvents /\ kinds' = Append(kinds, kind) /\ history' = Remember(history, n)
      /\ emitting' = [emitting EXCEPT ![e] = Append(@, Call("callbacks", n, {}))]
      /\ UNCHANGED <<clients, socket, welcome, got, missed, raced>>
  BY DEF StartEmit
<1>2. BusTypes
  BY DEF BusInv
<1>3. /\ Len(kinds) \in Nat /\ n \in Events /\ Len(kinds') = n /\ kinds'[n] = kind
      /\ kinds' \in Seq({"normal", "error"}) /\ \A m \in 1..Len(kinds) : kinds'[m] = kinds[m]
  BY <1>1, <1>2 DEF BusTypes, Events
<1>4. history' \in Seq(Events)
  <2>1. history \in Seq(Events) /\ (Len(history) >= HistorySize => Tail(history) \in Seq(Events))
    BY <1>2, BusAssumption DEF BusTypes
  <2> HIDE DEF n
  <2> QED
    BY <1>1, <1>3, <2>1, BusAssumption DEF Remember
<1>5. PICK frame \in Frames : /\ emitting' = [emitting EXCEPT ![e] = Append(@, frame)]
                              /\ frame.step = "callbacks" /\ frame.event = n
  <2> DEFINE frame == Call("callbacks", n, {})
  <2>1. frame \in Frames /\ frame.step = "callbacks" /\ frame.event = n
    BY <1>3 DEF Frames, Call
  <2>2. emitting' = [emitting EXCEPT ![e] = Append(@, frame)]
    BY <1>1
  <2> HIDE DEF frame
  <2> QED
    BY <2>1, <2>2
<1> HIDE DEF n
<1>6. /\ emitting \in [Emitters -> Seq(Frames)] /\ emitting' \in [Emitters -> Seq(Frames)]
      /\ emitting'[e] = Append(emitting[e], frame)
      /\ \A c \in Emitters : c # e => emitting'[c] = emitting[c]
  BY <1>2, <1>5 DEF BusTypes
<1>7. /\ Len(emitting[e]) \in Nat /\ Len(emitting'[e]) = Len(emitting[e]) + 1
      /\ DOMAIN emitting[e] = 1..Len(emitting[e]) /\ DOMAIN emitting'[e] = 1..Len(emitting'[e])
      /\ emitting'[e][Len(emitting[e]) + 1] = frame
      /\ \A i \in 1..Len(emitting[e]) : emitting'[e][i] = emitting[e][i]
  BY <1>6
<1>8. StackOK(emitting'[e], kinds')
  <2>1. Len(emitting'[e]) <= 2
    BY <1>7
  <2>2. ASSUME NEW i \in 1..Len(emitting'[e])
        PROVE  /\ emitting'[e][i].event \in 1..Len(kinds')
               /\ i = 2 => kinds'[emitting'[e][i].event] = "error"
    <3>1. CASE i = Len(emitting[e]) + 1
      <4>1. i = 2 => emitting[e] # <<>>
        BY <1>7, <3>1
      <4> QED
        BY <1>3, <1>5, <1>7, <3>1, <4>1 DEF n
    <3>2. CASE i # Len(emitting[e]) + 1
      <4>1. i \in 1..Len(emitting[e]) /\ emitting'[e][i] = emitting[e][i]
        BY <1>7, <3>2
      <4>2. emitting[e][i].event \in 1..Len(kinds) /\ (i = 2 => kinds[emitting[e][i].event] = "error")
        BY <1>2, <4>1 DEF BusTypes, StackOK
      <4> QED
        BY <1>3, <4>1, <4>2 DEF n
    <3> QED
      BY <3>1, <3>2
  <2> QED
    BY <1>6, <2>1, <2>2 DEF StackOK
<1>9. ASSUME NEW c \in Emitters, c # e PROVE StackOK(emitting'[c], kinds')
  <2>1. StackOK(emitting[c], kinds)
    BY <1>2 DEF BusTypes
  <2> QED
    BY <1>3, <1>6, <1>9, <2>1 DEF StackOK, n
<1>10. BusTypes'
  BY <1>1, <1>2, <1>3, <1>4, <1>6, <1>8, <1>9 DEF BusTypes, n
<1>11. EveryoneCovered'
  <2> SUFFICES ASSUME NEW s \in clients, socket[s] \in {"greeting", "live"}, NEW m \in 1..n
               PROVE  Covered(s, m)'
    BY <1>1, <1>3 DEF EveryoneCovered
  <2>1. CASE m = n
    <3>1. Promised(s, m)'
      BY <1>5, <1>7, <2>1 DEF Promised
    <3> QED
      BY <3>1 DEF Covered
  <2>2. CASE m # n
    <3>1. m \in 1..Len(kinds)
      BY <1>3, <2>2 DEF n
    <3>2. Covered(s, m)
      BY <3>1 DEF BusInv, EveryoneCovered
    <3>3. Promised(s, m) => Promised(s, m)'
      <4> SUFFICES ASSUME NEW c \in Emitters, NEW i \in DOMAIN emitting[c],
                          emitting[c][i].event = m,
                          emitting[c][i].step = "sending" => s \in emitting[c][i].to
                   PROVE  i \in DOMAIN emitting'[c] /\ emitting'[c][i] = emitting[c][i]
        BY DEF Promised
      <4>1. CASE c = e
        BY <1>7, <4>1
      <4>2. CASE c # e
        BY <1>6, <4>2
      <4> QED
        BY <4>1, <4>2
    <3> QED
      BY <1>1, <3>2, <3>3 DEF Covered
  <2> QED
    BY <2>1, <2>2
<1>12. PlaceReserved'
  BY <1>1 DEF BusInv, PlaceReserved
<1> QED
  BY <1>10, <1>11, <1>12 DEF BusInv

LEMMA TopOfStack ==
    ASSUME BusTypes, NEW e \in Emitters, emitting[e] # <<>>
    PROVE  /\ Len(emitting[e]) \in 1..2 /\ DOMAIN emitting[e] = 1..Len(emitting[e])
           /\ Top(e) = emitting[e][Len(emitting[e])] /\ Top(e) \in Frames
           /\ Pop(e) \in Seq(Frames) /\ Len(Pop(e)) = Len(emitting[e]) - 1
           /\ \A i \in 1..(Len(emitting[e]) - 1) : Pop(e)[i] = emitting[e][i]
           /\ StackOK(emitting[e], kinds) /\ StackOK(Pop(e), kinds)
<1>1. emitting[e] \in Seq(Frames) /\ StackOK(emitting[e], kinds) /\ Len(emitting[e]) <= 2
  BY DEF BusTypes, StackOK
<1>2. Len(emitting[e]) \in 1..2 /\ DOMAIN emitting[e] = 1..Len(emitting[e])
  <2>1. \A s \in Seq(Frames) : s # <<>> => Len(s) \in Nat \ {0} /\ DOMAIN s = 1..Len(s)
    OBVIOUS
  <2>2. Len(emitting[e]) \in Nat \ {0} /\ DOMAIN emitting[e] = 1..Len(emitting[e])
    BY <1>1, <2>1
  <2>3. \A k \in Nat \ {0} : k <= 2 => k \in 1..2
    OBVIOUS
  <2> QED
    BY <1>1, <2>2, <2>3
<1>3. Top(e) = emitting[e][Len(emitting[e])] /\ Top(e) \in Frames
  BY <1>1, <1>2 DEF Top
<1>4. /\ Pop(e) \in Seq(Frames) /\ Len(Pop(e)) = Len(emitting[e]) - 1
      /\ \A i \in 1..(Len(emitting[e]) - 1) : Pop(e)[i] = emitting[e][i]
  BY <1>1, <1>2 DEF Pop
<1>5. StackOK(Pop(e), kinds)
  BY <1>1, <1>2, <1>4 DEF StackOK
<1> QED
  BY <1>1, <1>2, <1>3, <1>4, <1>5

(* The snapshot promises the event to everyone who is a client now.        *)
LEMMA BusSnapshot ==
    ASSUME BusInv, NEW e \in Emitters, Snapshot(e)
    PROVE  BusInv'
<1>1. /\ emitting[e] # <<>> /\ UNCHANGED <<clients, socket, welcome, history, kinds, got, missed, raced>>
      /\ emitting' = [emitting EXCEPT ![e] = Append(Pop(e), Call("sending", Top(e).event, clients))]
  BY DEF Snapshot, InCallbacks
<1>2. BusTypes
  BY DEF BusInv
<1>3. PICK frame \in Frames :
         /\ emitting' = [emitting EXCEPT ![e] = Append(Pop(e), frame)]
         /\ frame.event = Top(e).event /\ frame.to = clients
  <2> DEFINE frame == Call("sending", Top(e).event, clients)
  <2>1. Top(e).event \in Events /\ clients \in SUBSET Sockets
    BY <1>1, <1>2, TopOfStack DEF BusTypes, Frames
  <2>2. frame \in Frames /\ frame.event = Top(e).event /\ frame.to = clients
    BY <2>1 DEF Frames, Call
  <2>3. emitting' = [emitting EXCEPT ![e] = Append(Pop(e), frame)]
    BY <1>1
  <2> HIDE DEF frame
  <2> QED
    BY <2>2, <2>3
<1> DEFINE len == Len(emitting[e])
<1>4. /\ len \in 1..2 /\ DOMAIN emitting[e] = 1..len
      /\ Top(e) = emitting[e][len] /\ Pop(e) \in Seq(Frames) /\ Len(Pop(e)) = len - 1
      /\ \A i \in 1..(len - 1) : Pop(e)[i] = emitting[e][i]
      /\ StackOK(emitting[e], kinds)
  BY <1>1, <1>2, TopOfStack
<1>5. /\ emitting' \in [Emitters -> Seq(Frames)]
      /\ emitting'[e] = Append(Pop(e), frame)
      /\ \A c \in Emitters : c # e => emitting'[c] = emitting[c]
  BY <1>2, <1>3, <1>4 DEF BusTypes
<1> HIDE DEF len
<1>6. /\ Len(emitting'[e]) = len /\ DOMAIN emitting'[e] = 1..len /\ emitting'[e][len] = frame
      /\ \A i \in 1..(len - 1) : emitting'[e][i] = emitting[e][i]
  BY <1>4, <1>5
<1>7. StackOK(emitting'[e], kinds)
  <2>1. \A i \in 1..len : emitting'[e][i].event = emitting[e][i].event
    BY <1>3, <1>4, <1>6
  <2>2. emitting'[e] \in Seq(Frames)
    BY <1>5
  <2> QED
    BY <1>4, <1>6, <2>1, <2>2 DEF StackOK, len
<1>8. BusTypes'
  BY <1>1, <1>2, <1>5, <1>7 DEF BusTypes
<1>9. ASSUME NEW s \in clients, NEW n, Promised(s, n) PROVE Promised(s, n)'
  <2>0. PICK c \in Emitters : \E i \in DOMAIN emitting[c] :
           emitting[c][i].event = n /\ (emitting[c][i].step = "sending" => s \in emitting[c][i].to)
    BY <1>9 DEF Promised
  <2>1. PICK i \in DOMAIN emitting[c] :
           emitting[c][i].event = n /\ (emitting[c][i].step = "sending" => s \in emitting[c][i].to)
    BY <2>0
  <2>2. CASE c = e /\ i = len
    <3>1. len \in DOMAIN emitting'[e] /\ emitting'[e][len].event = n /\ s \in emitting'[e][len].to
      BY <1>3, <1>4, <1>6, <2>1, <2>2
    <3> QED
      BY <3>1 DEF Promised
  <2>3. CASE ~ (c = e /\ i = len)
    <3>1. i \in DOMAIN emitting'[c] /\ emitting'[c][i] = emitting[c][i]
      BY <1>4, <1>5, <1>6, <2>3
    <3> QED
      BY <2>1, <3>1 DEF Promised
  <2> QED
    BY <2>2, <2>3
<1>10. EveryoneCovered'
  BY <1>1, <1>9 DEF BusInv, EveryoneCovered, Covered
<1>11. PlaceReserved'
  BY <1>1 DEF BusInv, PlaceReserved
<1> QED
  BY <1>8, <1>10, <1>11 DEF BusInv

(* A client of the snapshot is sent the event, or it is dropped.           *)
LEMMA BusBroadcast ==
    ASSUME BusInv, NEW e \in Emitters, Broadcast(e)
    PROVE  BusInv'
<1> DEFINE n == Top(e).event
           len == Len(emitting[e])
<1>1. PICK failed \in SUBSET Top(e).to :
         /\ got' = [s \in Sockets |-> IF s \in Top(e).to \ failed THEN got[s] \cup {n} ELSE got[s]]
         /\ clients' = clients \ failed
  BY DEF Broadcast
<1>2. /\ emitting[e] # <<>> /\ Top(e).step = "sending"
      /\ emitting' = [emitting EXCEPT ![e] = Pop(e)]
      /\ UNCHANGED <<socket, welcome, history, kinds, missed, raced>>
  BY DEF Broadcast
<1>3. BusTypes
  BY DEF BusInv
<1>4. /\ len \in 1..2 /\ DOMAIN emitting[e] = 1..len
      /\ Top(e) = emitting[e][len] /\ Pop(e) \in Seq(Frames) /\ Len(Pop(e)) = len - 1
      /\ \A i \in 1..(len - 1) : Pop(e)[i] = emitting[e][i]
      /\ StackOK(Pop(e), kinds) /\ n \in Events
  BY <1>2, <1>3, TopOfStack DEF Frames
<1> HIDE DEF n, len
<1>5. /\ emitting' \in [Emitters -> Seq(Frames)] /\ emitting'[e] = Pop(e)
      /\ \A c \in Emitters : c # e => emitting'[c] = emitting[c]
  BY <1>2, <1>3, <1>4 DEF BusTypes
<1>6. got' \in [Sockets -> SUBSET Events] /\ \A s \in Sockets : got[s] \subseteq got'[s]
  BY <1>1, <1>3, <1>4 DEF BusTypes
<1>7. BusTypes'
  BY <1>1, <1>2, <1>3, <1>4, <1>5, <1>6 DEF BusTypes
<1>8. ASSUME NEW s \in clients', NEW m, Promised(s, m) PROVE Promised(s, m)' \/ m \in got'[s]
  <2>0. PICK c \in Emitters : \E i \in DOMAIN emitting[c] :
           emitting[c][i].event = m /\ (emitting[c][i].step = "sending" => s \in emitting[c][i].to)
    BY <1>8 DEF Promised
  <2>1. PICK i \in DOMAIN emitting[c] :
           emitting[c][i].event = m /\ (emitting[c][i].step = "sending" => s \in emitting[c][i].to)
    BY <2>0
  <2>2. CASE c = e /\ i = len
    <3>1. s \in Top(e).to \ failed /\ m = n /\ s \in Sockets
      BY <1>1, <1>2, <1>3, <1>4, <1>8, <2>1, <2>2 DEF n, BusTypes
    <3> QED
      BY <1>1, <3>1
  <2>3. CASE ~ (c = e /\ i = len)
    <3>1. i \in DOMAIN emitting'[c] /\ emitting'[c][i] = emitting[c][i]
      BY <1>4, <1>5, <2>3
    <3> QED
      BY <2>1, <3>1 DEF Promised
  <2> QED
    BY <2>2, <2>3
<1>9. EveryoneCovered'
  <2> SUFFICES ASSUME NEW s \in clients', socket[s] \in {"greeting", "live"}, NEW m \in 1..Len(kinds)
               PROVE  Covered(s, m)'
    BY <1>2 DEF EveryoneCovered
  <2>1. s \in clients /\ s \in Sockets
    BY <1>1, <1>3 DEF BusTypes
  <2>2. Covered(s, m)
    BY <2>1 DEF BusInv, EveryoneCovered
  <2> QED
    BY <1>2, <1>6, <1>8, <2>1, <2>2 DEF Covered
<1>10. PlaceReserved'
  <2>1. clients \in SUBSET Sockets /\ clients' \in SUBSET clients /\ clients' \in SUBSET Sockets
    BY <1>1, <1>3 DEF BusTypes
  <2>2. Cardinality(clients') <= Cardinality(clients)
        /\ Cardinality(clients') \in Nat /\ Cardinality(clients) \in Nat
    BY <2>1, ClientsCounted
  <2> QED
    BY <1>2, <2>2, BusAssumption DEF BusInv, PlaceReserved
<1> QED
  BY <1>7, <1>9, <1>10 DEF BusInv

LEMMA BusKept == BusInv /\ [BusNext]_busVars => BusInv'
<1> SUFFICES ASSUME BusInv, [BusNext]_busVars PROVE BusInv'
  OBVIOUS
<1>1. ASSUME NEW e \in Emitters, Emit(e) PROVE BusInv'
  <2>1. emitting[e] = <<>> /\ StartEmit(e, "normal")
    BY <1>1 DEF Emit
  <2> QED
    BY <2>1, BusStartEmit
<1>2. ASSUME NEW e \in Emitters, CallbackFails(e) PROVE BusInv'
  <2>1. emitting[e] # <<>> /\ kinds[Top(e).event] # "error" /\ StartEmit(e, "error")
    BY <1>2 DEF CallbackFails, InCallbacks
  <2>2. Len(emitting[e]) \in 1..2 /\ Top(e) = emitting[e][Len(emitting[e])] /\ StackOK(emitting[e], kinds)
    BY <2>1, TopOfStack DEF BusInv
  <2>3. Len(emitting[e]) # 2
    BY <2>1, <2>2 DEF StackOK
  <2> QED
    BY <2>1, <2>2, <2>3, BusStartEmit
<1>3. CASE Shutdown
  <2>1. PICK s : s \in clients
    BY <1>3 DEF Shutdown
  <2>2. s \in Sockets
    BY <2>1 DEF BusInv, BusTypes
  <2> QED
    BY <1>3, <2>2, BusSockets
<1>4. CASE UNCHANGED busVars
  BY <1>4 DEF busVars, BusInv, BusTypes, StackOK, EveryoneCovered, Covered, Promised, PlaceReserved
<1> QED
  BY <1>1, <1>2, <1>3, <1>4, BusRegister, BusSockets, BusSnapshot, BusBroadcast DEF BusNext

THEOREM BusInvHolds == BusSpec => []BusInv
BY BusStart, BusKept, PTL DEF BusSpec

(* The event bus: a live client has every event but those still being sent *)
(* and those that had left the buffer when it joined; the connection limit *)
(* is exceeded by overlapping handshakes only.                             *)
THEOREM BusIsSound == BusSpec => []BusSound
<1>1. BusInv => BusSound
  <2> SUFFICES ASSUME BusInv PROVE NoEventMissed /\ LimitNeedsRace
    BY DEF BusSound
  <2>1. ASSUME NEW s \in clients, socket[s] = "live", NEW n \in 1..Len(kinds), n \notin InFlight
        PROVE  n \in got[s] \cup missed[s]
    <3>1. Covered(s, n)
      BY <2>1 DEF BusInv, EveryoneCovered
    <3>2. n \in Events
      BY BusAssumption DEF BusInv, BusTypes, Events
    <3>3. ~ Promised(s, n)
      BY <2>1, <3>2 DEF Promised, InFlight
    <3> QED
      BY <2>1, <3>1, <3>3 DEF Covered
  <2> QED
    BY <2>1 DEF BusInv, NoEventMissed, PlaceReserved, LimitNeedsRace
<1> QED
  BY <1>1, BusInvHolds, PTL

-----------------------------------------------------------------------------
(* The danger list.  Newest: the list has the k last of n reports, in      *)
(* order.  Marked: it shows as resolved what was resolved.                 *)
Entries == [id : Nat, status : {"open", "rescue_dispatched", "resolved"}]

Newest(list, n, k) == Len(list) = k /\ \A i \in 1..k : list[i].id = n - k + i
Marked(list, done) == \A i \in 1..Len(list) : list[i].status = "resolved" <=> list[i].id \in done
Kept(n) == IF n <= MaxListed THEN n ELSE MaxListed
Exact(list, n, done) == Newest(list, n, Kept(n)) /\ Marked(list, done)

Truthful(list, n, done) ==
    \A i \in 1..Len(list) : /\ list[i].id \in 1..n
                            /\ list[i].status = "resolved" => list[i].id \in done

Requests == [step : {"idle", "trim", "dispatch", "redelete", "repush", "task", "announce",
                     "resolve", "delete", "push"},
             id   : Nat,
             who  : Villagers \cup {"nobody"},
             copy : Seq(Entries)]

DangerTypes ==
    /\ dangers \in Seq(Entries)
    /\ reports \in Seq(Villagers)
    /\ request \in [Writers -> Requests]
    /\ cancelled \in Nat
    /\ serial \in BOOLEAN

NothingInvented ==
    /\ resolved \subseteq DOMAIN reports /\ rescues \subseteq DOMAIN reports
    /\ Truthful(dangers, Len(reports), resolved)
    /\ \A w \in Writers :
          /\ Truthful(request[w].copy, Len(reports), resolved)
          /\ request[w].step \in {"trim", "dispatch", "redelete", "repush", "task"} =>
                request[w].id \in DOMAIN reports

(* What is in Redis, and in the copy of the one request that is under way. *)
StepExact(req, list, n, done) ==
    /\ req.step = "trim" => Newest(list, n, Kept(n - 1) + 1) /\ Marked(list, done)
    /\ req.step \in {"delete", "redelete", "push", "repush"} => Exact(req.copy, n, done)
    /\ req.step \in {"push", "repush"} => list = <<>>
    /\ req.step \in {"dispatch", "resolve", "task", "announce"} => Exact(list, n, done)

InTurn ==
    serial /\ cancelled = 0 =>
        /\ \A v, w \in Writers : request[v].step # "idle" /\ request[w].step # "idle" => v = w
        /\ (\A w \in Writers : request[w].step = "idle") => Exact(dangers, Len(reports), resolved)
        /\ \A w \in Writers : request[w].step # "idle" =>
              StepExact(request[w], dangers, Len(reports), resolved)

DangerInv == DangerTypes /\ NothingInvented /\ InTurn

(* A nonempty set of numbers up to n has a greatest one: of the intervals  *)
(* i .. n that start in it one contains no other.                          *)
LEMMA GreatestNumber ==
    ASSUME NEW n \in Nat, NEW S, S \subseteq 1..n, S # {}
    PROVE  \E i \in S : \A j \in S : j <= i
<1> DEFINE T == {i .. n : i \in S}
<1>1. ASSUME NEW t \in T PROVE t \in FiniteSubsetsOf(Nat)
  <2>1. PICK i \in S : t = i .. n
    OBVIOUS
  <2>2. IsFiniteSet(i .. n) /\ i .. n \subseteq Nat
    BY FS_Interval
  <2> QED
    BY <2>1, <2>2 DEF FiniteSubsetsOf
<1>2. T # {}
  OBVIOUS
<1> HIDE DEF T
<1>3. PICK least \in T : \A t \in T : ~ (<<t, least>> \in StrictSubsetOrdering(Nat))
  <2>1. T \subseteq FiniteSubsetsOf(Nat)
    BY <1>1
  <2> QED
    BY <2>1, <1>2, FS_StrictSubsetOrderingWellFounded, WFMin
<1>4. PICK i \in S : least = i .. n
  BY <1>3 DEF T
<1>5. ASSUME NEW j \in S, j > i PROVE FALSE
  <2>1. j .. n \in T /\ i .. n \in T
    BY DEF T
  <2>2. j .. n \subseteq i .. n /\ i \in i .. n /\ i \notin j .. n
    BY <1>5
  <2>3. <<j .. n, i .. n>> \in StrictSubsetOrdering(Nat)
    BY <2>2 DEF StrictSubsetOrdering
  <2> QED
    BY <1>3, <1>4, <2>1, <2>3
<1> QED
  BY <1>5

(* What trimming leaves of a list.                                         *)
LEMMA Trimmed ==
    ASSUME NEW list \in Seq(Entries)
    PROVE  /\ LastOf(list) \in Seq(Entries)
           /\ Len(LastOf(list)) = (IF Len(list) > MaxListed THEN MaxListed ELSE Len(list))
           /\ \A i \in 1..Len(LastOf(list)) :
                 /\ Len(list) - Len(LastOf(list)) + i \in 1..Len(list)
                 /\ LastOf(list)[i] = list[Len(list) - Len(LastOf(list)) + i]
<1>1. CASE Len(list) > MaxListed
  <2>1. LastOf(list) = SubSeq(list, Len(list) - MaxListed + 1, Len(list))
    BY <1>1 DEF LastOf
  <2>2. Len(list) \in Nat /\ MaxListed \in Nat
    BY DangerAssumption
  <2> DEFINE from == Len(list) - MaxListed + 1
             part == SubSeq(list, from, Len(list))
  <2>3. from \in 1..Len(list) + 1 /\ Len(list) - from + 1 = MaxListed
    BY <1>1, <2>2
  <2> HIDE DEF from
  <2>4. /\ part \in Seq(Entries) /\ Len(part) = MaxListed
        /\ \A i \in 1..MaxListed : part[i] = list[from + i - 1] /\ from + i - 1 \in 1..Len(list)
    BY <2>2, <2>3
  <2> HIDE DEF part
  <2>5. \A i \in 1..MaxListed : from + i - 1 = Len(list) - MaxListed + i
    BY <2>2 DEF from
  <2>6. LastOf(list) = part
    BY <2>1 DEF part, from
  <2> QED
    BY <1>1, <2>4, <2>5, <2>6
<1>2. CASE ~ (Len(list) > MaxListed)
  BY <1>2, DangerAssumption DEF LastOf
<1> QED
  BY <1>1, <1>2

LEMMA TruthfulLists ==
    ASSUME NEW list \in Seq(Entries), NEW n \in Nat, NEW done, Truthful(list, n, done)
    PROVE  /\ Truthful(LastOf(list), n, done)
           /\ \A m \in Nat : \A more : m >= n /\ done \subseteq more => Truthful(list, m, more)
           /\ \A other \in Seq(Entries) : Truthful(other, n, done) => Truthful(list \o other, n, done)
<1>1. Truthful(LastOf(list), n, done)
  BY Trimmed DEF Truthful
<1>2. \A m \in Nat : \A more : m >= n /\ done \subseteq more => Truthful(list, m, more)
  BY DEF Truthful
<1>3. ASSUME NEW other \in Seq(Entries), Truthful(other, n, done) PROVE Truthful(list \o other, n, done)
  <2>1. ASSUME NEW i \in 1..Len(list \o other)
        PROVE  /\ (list \o other)[i].id \in 1..n
               /\ (list \o other)[i].status = "resolved" => (list \o other)[i].id \in done
    <3>1. CASE i <= Len(list)
      <4>1. (list \o other)[i] = list[i] /\ i \in 1..Len(list)
        BY <3>1
      <4> QED
        BY <4>1 DEF Truthful
    <3>2. CASE i > Len(list)
      <4>1. (list \o other)[i] = other[i - Len(list)] /\ i - Len(list) \in 1..Len(other)
        BY <3>2
      <4> QED
        BY <1>3, <4>1 DEF Truthful
    <3> QED
      BY <3>1, <3>2
  <2> QED
    BY <2>1 DEF Truthful
<1> QED
  BY <1>1, <1>2, <1>3

LEMMA DangerStart == DangerInit => DangerInv
<1> SUFFICES ASSUME DangerInit PROVE DangerInv
  OBVIOUS
<1>1. Nothing \in Requests /\ Nothing.step = "idle" /\ Nothing.copy = <<>>
  BY DEF Nothing, Request, Requests
<1>2. DangerTypes /\ \A w \in Writers : request[w] = Nothing
  BY <1>1 DEF DangerInit, DangerTypes
<1>3. NothingInvented
  BY <1>1, <1>2 DEF DangerInit, NothingInvented, Truthful
<1>4. InTurn
  BY <1>1, <1>2, DangerAssumption DEF DangerInit, InTurn, Exact, Kept, Newest, Marked
<1> QED
  BY <1>2, <1>3, <1>4 DEF DangerInv

(* The reports and what was resolved only grow, so a step keeps the        *)
(* invariant when what it puts on the list and in its own copy does.       *)
LEMMA DangerStep ==
    ASSUME DangerInv, NEW w \in Writers, NEW req \in Requests,
           request' = [request EXCEPT ![w] = req],
           dangers' \in Seq(Entries), reports' \in Seq(Villagers), cancelled' \in Nat,
           Len(reports) <= Len(reports'),
           resolved \subseteq resolved', resolved' \subseteq 1..Len(reports'),
           rescues' \subseteq 1..Len(reports'),
           serial' \in BOOLEAN,
           Truthful(dangers', Len(reports'), resolved'),
           Truthful(req.copy, Len(reports'), resolved'),
           req.step \in {"trim", "dispatch", "redelete", "repush", "task"} =>
                req.id \in 1..Len(reports'),
           serial' /\ cancelled' = 0 =>
              /\ \A v \in Writers \ {w} : request[v].step = "idle"
              /\ req.step = "idle" => Exact(dangers', Len(reports'), resolved')
              /\ StepExact(req, dangers', Len(reports'), resolved')
    PROVE  DangerInv'
<1>1. DangerTypes /\ NothingInvented
  BY DEF DangerInv
<1>2. request'[w] = req /\ \A v \in Writers : v # w => request'[v] = request[v]
  BY <1>1 DEF DangerTypes
<1>3. DangerTypes'
  BY <1>1 DEF DangerTypes
<1>4. Len(reports) \in Nat /\ Len(reports') \in Nat /\ DOMAIN reports' = 1..Len(reports')
      /\ DOMAIN reports = 1..Len(reports)
  BY <1>1, <1>3 DEF DangerTypes
<1>5. NothingInvented'
  <2>1. ASSUME NEW v \in Writers
        PROVE  /\ Truthful(request'[v].copy, Len(reports'), resolved')
               /\ request'[v].step \in {"trim", "dispatch", "redelete", "repush", "task"} =>
                     request'[v].id \in 1..Len(reports')
    <3>1. CASE v = w
      BY <1>2, <3>1
    <3>2. CASE v # w
      <4>1. request[v].copy \in Seq(Entries) /\ Truthful(request[v].copy, Len(reports), resolved)
        BY <1>1 DEF DangerTypes, Requests, NothingInvented
      <4>2. Truthful(request[v].copy, Len(reports'), resolved')
        BY <1>4, <4>1, TruthfulLists
      <4>3. request[v].step \in {"trim", "dispatch", "redelete", "repush", "task"} =>
                     request[v].id \in 1..Len(reports')
        BY <1>1, <1>4 DEF NothingInvented
      <4> QED
        BY <1>2, <3>2, <4>2, <4>3
    <3> QED
      BY <3>1, <3>2
  <2> QED
    BY <1>4, <2>1 DEF NothingInvented
<1>6. InTurn'
  <2> SUFFICES ASSUME serial', cancelled' = 0
               PROVE  /\ \A u, v \in Writers : request'[u].step # "idle" /\ request'[v].step # "idle" => u = v
                      /\ (\A v \in Writers : request'[v].step = "idle") =>
                            Exact(dangers', Len(reports'), resolved')
                      /\ \A v \in Writers : request'[v].step # "idle" =>
                            StepExact(request'[v], dangers', Len(reports'), resolved')
    BY DEF InTurn
  <2>1. \A v \in Writers : request'[v].step # "idle" => v = w
    BY <1>2
  <2> QED
    BY <1>2, <2>1
<1> QED
  BY <1>3, <1>5, <1>6 DEF DangerInv

(* What the invariant says while writer w has a request under way.         *)
LEMMA OnTurn ==
    ASSUME DangerInv, NEW w \in Writers
    PROVE  /\ request[w] \in Requests /\ dangers \in Seq(Entries) /\ reports \in Seq(Villagers)
           /\ Len(reports) \in Nat /\ DOMAIN reports = 1..Len(reports) /\ cancelled \in Nat
           /\ resolved \subseteq 1..Len(reports) /\ rescues \subseteq 1..Len(reports)
           /\ serial \in BOOLEAN
           /\ Truthful(dangers, Len(reports), resolved)
           /\ Truthful(request[w].copy, Len(reports), resolved)
           /\ request[w].step \in {"trim", "dispatch", "redelete", "repush", "task"} =>
                request[w].id \in 1..Len(reports)
           /\ request[w].step # "idle" /\ serial /\ cancelled = 0 =>
                /\ \A v \in Writers \ {w} : request[v].step = "idle"
                /\ StepExact(request[w], dangers, Len(reports), resolved)
<1>1. DangerTypes /\ NothingInvented /\ InTurn
  BY DEF DangerInv
<1>2. request[w] \in Requests /\ DOMAIN reports = 1..Len(reports) /\ Len(reports) \in Nat
  BY <1>1 DEF DangerTypes
<1> QED
  BY <1>1, <1>2 DEF DangerTypes, NothingInvented, InTurn

LEMMA DangerReported ==
    ASSUME DangerInv, NEW w \in Writers, NEW a \in Villagers, Report(w, a)
    PROVE  DangerInv'
<1> DEFINE n == Len(reports) + 1
           req == Request("trim", n, a, <<>>)
<1>1. /\ request' = [request EXCEPT ![w] = req] /\ request[w].step = "idle"
      /\ serial' = (serial /\ \A v \in Writers \ {w} : request[v].step = "idle")
      /\ reports' = Append(reports, a) /\ dangers' = Append(dangers, Danger(n, "open"))
      /\ UNCHANGED <<resolved, rescues, announced, cancelled>>
  BY DEF Report, Begins
<1>2. /\ dangers \in Seq(Entries) /\ reports \in Seq(Villagers) /\ Len(reports) \in Nat
      /\ cancelled \in Nat /\ serial \in BOOLEAN
      /\ resolved \subseteq 1..Len(reports) /\ rescues \subseteq 1..Len(reports)
      /\ Truthful(dangers, Len(reports), resolved)
  BY OnTurn
<1>3. n \in Nat /\ n \in 1..n /\ 1..Len(reports) \subseteq 1..n /\ n \notin resolved /\ n - 1 = Len(reports)
  BY <1>2
<1>4. /\ req \in Requests /\ req.step = "trim" /\ req.id = n /\ req.copy = <<>>
      /\ Danger(n, "open") \in Entries /\ Danger(n, "open").id = n /\ Danger(n, "open").status = "open"
  BY <1>3 DEF Request, Requests, Danger, Entries
<1>5. Len(reports') = n /\ reports' \in Seq(Villagers)
  BY <1>1, <1>2
<1> HIDE DEF n, req
<1>6. /\ dangers' \in Seq(Entries) /\ Len(dangers') = Len(dangers) + 1 /\ Len(dangers) \in Nat
      /\ dangers'[Len(dangers) + 1] = Danger(n, "open")
      /\ \A i \in 1..Len(dangers) : dangers'[i] = dangers[i]
  BY <1>1, <1>2, <1>4
<1>7. Truthful(dangers', n, resolved)
  BY <1>2, <1>3, <1>4, <1>6 DEF Truthful
<1>8. Truthful(req.copy, n, resolved)
  BY <1>4 DEF Truthful
<1>9. ASSUME serial', cancelled' = 0
      PROVE  /\ \A v \in Writers \ {w} : request[v].step = "idle"
             /\ StepExact(req, dangers', n, resolved)
  <2>1. \A v \in Writers : request[v].step = "idle"
    BY <1>1, <1>9
  <2>2. Exact(dangers, Len(reports), resolved)
    BY <1>1, <1>9, <2>1 DEF DangerInv, InTurn
  <2>3. Newest(dangers', n, Kept(n - 1) + 1) /\ Marked(dangers', resolved)
    <3>1. Len(dangers) = Kept(n - 1) /\ \A i \in 1..Len(dangers) : dangers[i].id = (n - 1) - Len(dangers) + i
      BY <1>3, <2>2 DEF Exact, Newest
    <3>2. Marked(dangers', resolved)
      BY <1>3, <1>4, <1>6, <2>2 DEF Exact, Marked
    <3>3. \A i \in 1..Len(dangers) + 1 : dangers'[i].id = n - (Len(dangers) + 1) + i
      <4>1. dangers'[Len(dangers) + 1].id = n - (Len(dangers) + 1) + (Len(dangers) + 1)
        BY <1>3, <1>4, <1>6
      <4>2. \A i \in 1..Len(dangers) : dangers'[i].id = n - (Len(dangers) + 1) + i
        <5> TAKE i \in 1..Len(dangers)
        <5>1. dangers'[i].id = (n - 1) - Len(dangers) + i
          BY <1>6, <3>1
        <5> QED
          BY <1>3, <1>6, <5>1
      <4> QED
        BY <1>6, <4>1, <4>2
    <3> QED
      BY <1>6, <3>1, <3>2, <3>3 DEF Newest
  <2> QED
    BY <1>4, <2>1, <2>3 DEF StepExact
<1>10. Len(reports) <= n /\ resolved \subseteq 1..n /\ rescues \subseteq 1..n /\ serial' \in BOOLEAN
  BY <1>1, <1>2, <1>3
<1> QED
  BY <1>1, <1>2, <1>3, <1>4, <1>5, <1>6, <1>7, <1>8, <1>9, <1>10, DangerStep

LEMMA DangerTrimmed ==
    ASSUME DangerInv, NEW w \in Writers, Trim(w)
    PROVE  DangerInv'
<1> DEFINE n == Len(reports)
           req == [request[w] EXCEPT !.step = "dispatch"]
<1>1. /\ request[w].step = "trim" /\ dangers' = LastOf(dangers)
      /\ request' = [request EXCEPT ![w] = req]
      /\ UNCHANGED <<reports, resolved, rescues, announced, cancelled, serial>>
  BY DEF Trim
<1>2. /\ request[w] \in Requests /\ dangers \in Seq(Entries) /\ reports \in Seq(Villagers) /\ n \in Nat
      /\ cancelled \in Nat /\ serial \in BOOLEAN
      /\ resolved \subseteq 1..n /\ rescues \subseteq 1..n
      /\ Truthful(dangers, n, resolved) /\ Truthful(request[w].copy, n, resolved)
      /\ request[w].id \in 1..n
  BY <1>1, OnTurn
<1>3. req \in Requests /\ req.step = "dispatch" /\ req.id = request[w].id /\ req.copy = request[w].copy
  BY <1>2 DEF Requests
<1> HIDE DEF req, n
<1>4. dangers' \in Seq(Entries) /\ Truthful(dangers', n, resolved)
  BY <1>1, <1>2, Trimmed, TruthfulLists
<1>5. ASSUME serial, cancelled = 0
      PROVE  /\ \A v \in Writers \ {w} : request[v].step = "idle"
             /\ StepExact(req, dangers', n, resolved)
  <2>1. /\ \A v \in Writers \ {w} : request[v].step = "idle"
        /\ Newest(dangers, n, Kept(n - 1) + 1) /\ Marked(dangers, resolved)
    BY <1>1, <1>5, OnTurn DEF StepExact, n
  <2> DEFINE k == Len(dangers')
             m == Len(dangers)
  <2>2. /\ m \in Nat /\ k = (IF m > MaxListed THEN MaxListed ELSE m)
        /\ \A i \in 1..k : m - k + i \in 1..m /\ dangers'[i] = dangers[m - k + i]
    <3>1. dangers \in Seq(Entries) /\ m \in Nat
      BY <1>2
    <3>2. \A i \in 1..Len(LastOf(dangers)) :
             /\ Len(dangers) - Len(LastOf(dangers)) + i \in 1..Len(dangers)
             /\ LastOf(dangers)[i] = dangers[Len(dangers) - Len(LastOf(dangers)) + i]
      BY <3>1, Trimmed
    <3>3. Len(LastOf(dangers)) = (IF Len(dangers) > MaxListed THEN MaxListed ELSE Len(dangers))
      BY <3>1, Trimmed
    <3> QED
      BY <1>1, <3>1, <3>2, <3>3
  <2>3. m = Kept(n - 1) + 1 /\ \A i \in 1..m : dangers[i].id = n - m + i
    BY <2>1 DEF Newest
  <2>4. k = Kept(n)
    BY <1>2, <2>2, <2>3, DangerAssumption DEF Kept
  <2>5. k \in Nat
    BY <2>2, DangerAssumption
  <2> HIDE DEF k, m
  <2>6. \A i \in 1..k : dangers'[i].id = n - k + i
    <3>1. ASSUME NEW i \in 1..k PROVE dangers'[i].id = n - k + i
      <4>1. dangers'[i].id = n - m + (m - k + i)
        BY <2>2, <2>3
      <4> QED
        BY <4>1, <1>2, <2>2, <2>5
    <3> QED
      BY <3>1
  <2>7. Marked(dangers', resolved)
    BY <2>1, <2>2 DEF Marked, k, m
  <2> QED
    BY <1>3, <2>1, <2>4, <2>6, <2>7 DEF StepExact, Exact, Newest, k
<1>6. Len(reports') = n /\ Len(reports) = n /\ n <= n
  BY <1>1, <1>2 DEF n
<1> QED
  BY <1>1, <1>2, <1>3, <1>4, <1>5, <1>6, DangerStep

(* A match is updated in the copy; what it was matched with stays.         *)
LEMMA DangerRead ==
    ASSUME DangerInv, NEW w \in Writers, ReadList(w)
    PROVE  DangerInv'
<1> DEFINE n == Len(reports)
           matches == Matches(dangers, request[w].id, request[w].who)
           i == Latest(matches)
<1>1. /\ request[w].step \in {"dispatch", "resolve"}
      /\ UNCHANGED <<dangers, reports, rescues, announced, cancelled, serial>>
  BY DEF ReadList
<1>2. /\ request[w] \in Requests /\ dangers \in Seq(Entries) /\ reports \in Seq(Villagers) /\ n \in Nat
      /\ cancelled \in Nat /\ serial \in BOOLEAN
      /\ resolved \subseteq 1..n /\ rescues \subseteq 1..n
      /\ Truthful(dangers, n, resolved) /\ Truthful(request[w].copy, n, resolved)
      /\ request[w].step = "dispatch" => request[w].id \in 1..n
      /\ Len(reports) = n /\ Len(reports') = n /\ n <= n
  BY <1>1, OnTurn
<1>3. ASSUME serial, cancelled = 0
      PROVE  /\ \A v \in Writers \ {w} : request[v].step = "idle"
             /\ Exact(dangers, n, resolved)
  BY <1>1, <1>3, OnTurn DEF StepExact
<1>4. CASE matches = {}
  <2> DEFINE req == IF request[w].step = "dispatch" THEN [request[w] EXCEPT !.step = "announce"] ELSE Nothing
  <2>1. request' = [request EXCEPT ![w] = req] /\ resolved' = resolved
    BY <1>4 DEF ReadList, NoMatch
  <2>2. Nothing \in Requests /\ Nothing.step = "idle" /\ Nothing.copy = <<>>
    BY DEF Nothing, Request, Requests
  <2>3. /\ req \in Requests /\ req.step \in {"announce", "idle"}
        /\ req.copy = request[w].copy \/ req.copy = <<>>
    BY <1>2, <2>2 DEF Requests
  <2> HIDE DEF req
  <2>4. Truthful(req.copy, n, resolved)
    BY <1>2, <2>3 DEF Truthful
  <2>5. Exact(dangers, n, resolved) => StepExact(req, dangers, n, resolved)
    BY <2>3 DEF StepExact
  <2> HIDE DEF n
  <2> QED
    BY <1>1, <1>2, <1>3, <2>1, <2>3, <2>4, <2>5, DangerStep
<1>5. CASE matches # {}
  <2> DEFINE entry == Updated(dangers[i], request[w].step)
             copy == [dangers EXCEPT ![i] = entry]
             req == Request(IF request[w].step = "dispatch" THEN "redelete" ELSE "delete",
                            dangers[i].id, request[w].who, copy)
  <2>1. i \in 1..Len(dangers)
    <3>1. matches \subseteq 1..Len(dangers) /\ Len(dangers) \in Nat
      BY <1>2 DEF Matches
    <3>2. \E k \in matches : \A j \in matches : j <= k
      BY <1>5, <3>1, GreatestNumber
    <3> QED
      BY <3>1, <3>2 DEF Latest
  <2>2. /\ request' = [request EXCEPT ![w] = req]
        /\ resolved' = (IF request[w].step = "resolve" THEN resolved \cup {dangers[i].id} ELSE resolved)
    BY <1>5 DEF ReadList
  <2>3. dangers[i] \in Entries /\ dangers[i].id \in 1..n
    <3>1. dangers[i] \in Entries
      BY <1>2, <2>1
    <3> QED
      BY <1>2, <2>1, <3>1 DEF Truthful
  <2>4. /\ entry \in Entries /\ entry.id = dangers[i].id
        /\ entry.status = "resolved" <=> request[w].step = "resolve" \/ dangers[i].status = "resolved"
    BY <2>3 DEF Updated, Entries
  <2> HIDE DEF entry, i, matches
  <2>5. /\ copy \in Seq(Entries) /\ Len(copy) = Len(dangers) /\ copy[i] = entry
        /\ \A j \in 1..Len(dangers) : j # i => copy[j] = dangers[j]
    BY <1>2, <2>1, <2>4
  <2> HIDE DEF copy
  <2>6. /\ req \in Requests /\ req.copy = copy /\ req.id \in 1..n
        /\ req.step \in {"redelete", "delete"}
    BY <1>2, <2>3, <2>5 DEF Request, Requests
  <2> HIDE DEF req
  <2>7. /\ resolved \subseteq resolved' /\ resolved' \subseteq 1..n
        /\ entry.status = "resolved" => entry.id \in resolved'
    BY <1>1, <1>2, <2>1, <2>2, <2>3, <2>4 DEF Truthful
  <2>8. Truthful(dangers, n, resolved') /\ Truthful(copy, n, resolved')
    BY <1>2, <2>1, <2>3, <2>4, <2>5, <2>7 DEF Truthful
  <2>9. ASSUME Exact(dangers, n, resolved) PROVE Exact(copy, n, resolved')
    <3>1. \A j \in 1..Len(dangers) : copy[j].id = dangers[j].id
      BY <2>1, <2>4, <2>5
    <3>2. Newest(copy, n, Kept(n))
      BY <2>5, <2>9, <3>1 DEF Exact, Newest
    <3>3. \A j \in 1..Len(dangers) : dangers[j].id = dangers[i].id => j = i
      BY <1>2, <2>1, <2>9 DEF Exact, Newest
    <3>4. ASSUME NEW j \in 1..Len(dangers) PROVE copy[j].status = "resolved" <=> copy[j].id \in resolved'
      <4>1. dangers[j].status = "resolved" <=> dangers[j].id \in resolved
        BY <2>9 DEF Exact, Marked
      <4>2. CASE j = i
        BY <1>1, <2>2, <2>4, <2>5, <4>1, <4>2
      <4>3. CASE j # i
        BY <2>1, <2>2, <2>5, <3>3, <4>1, <4>3
      <4> QED
        BY <4>2, <4>3
    <3> QED
      BY <2>5, <3>2, <3>4 DEF Exact, Marked
  <2>10. Exact(dangers, n, resolved) => StepExact(req, dangers, n, resolved')
    BY <2>6, <2>9 DEF StepExact
  <2> HIDE DEF n
  <2> QED
    BY <1>1, <1>2, <1>3, <2>2, <2>6, <2>7, <2>8, <2>10, DangerStep
<1> QED
  BY <1>4, <1>5

LEMMA DangerDeleted ==
    ASSUME DangerInv, NEW w \in Writers, DeleteList(w)
    PROVE  DangerInv'
<1> DEFINE req == [request[w] EXCEPT !.step = IF @ = "delete" THEN "push" ELSE "repush"]
<1>1. /\ request[w].step \in {"delete", "redelete"} /\ dangers' = <<>>
      /\ request' = [request EXCEPT ![w] = req]
      /\ UNCHANGED <<reports, resolved, rescues, announced, cancelled, serial>>
  BY DEF DeleteList
<1>2. /\ request[w] \in Requests /\ dangers \in Seq(Entries) /\ reports \in Seq(Villagers)
      /\ cancelled \in Nat /\ serial \in BOOLEAN
      /\ resolved \subseteq 1..Len(reports) /\ rescues \subseteq 1..Len(reports)
      /\ Truthful(dangers, Len(reports), resolved) /\ Truthful(request[w].copy, Len(reports), resolved)
      /\ request[w].step \in {"trim", "dispatch", "redelete", "repush", "task"} =>
             request[w].id \in 1..Len(reports)
      /\ Len(reports) \in Nat /\ Len(reports) <= Len(reports)
      /\ serial /\ cancelled = 0 =>
            /\ \A v \in Writers \ {w} : request[v].step = "idle"
            /\ StepExact(request[w], dangers, Len(reports), resolved)
  BY <1>1, OnTurn
<1>3. /\ req \in Requests /\ req.id = request[w].id /\ req.copy = request[w].copy
      /\ req.step \in {"push", "repush"} /\ (req.step = "repush" => request[w].step = "redelete")
  BY <1>1, <1>2 DEF Requests
<1> HIDE DEF req
<1>4. dangers' \in Seq(Entries) /\ Truthful(dangers', Len(reports), resolved)
  BY <1>1 DEF Truthful
<1>5. serial /\ cancelled = 0 => StepExact(req, dangers', Len(reports), resolved)
  BY <1>1, <1>2, <1>3 DEF StepExact
<1> QED
  BY <1>1, <1>2, <1>3, <1>4, <1>5, DangerStep

(* The copy is at most MaxListed long, so all of it is pushed back.        *)
LEMMA DangerPushed ==
    ASSUME DangerInv, NEW w \in Writers, PushList(w)
    PROVE  DangerInv'
<1> DEFINE req == IF request[w].step = "push" THEN Nothing ELSE [request[w] EXCEPT !.step = "task"]
           copy == request[w].copy
           n == Len(reports)
<1>1. /\ request[w].step \in {"push", "repush"} /\ dangers' = dangers \o LastOf(copy)
      /\ request' = [request EXCEPT ![w] = req]
      /\ UNCHANGED <<reports, resolved, rescues, announced, cancelled, serial>>
  BY DEF PushList
<1>2. /\ request[w] \in Requests /\ dangers \in Seq(Entries) /\ reports \in Seq(Villagers)
      /\ cancelled \in Nat /\ serial \in BOOLEAN
      /\ resolved \subseteq 1..Len(reports) /\ rescues \subseteq 1..Len(reports)
      /\ Truthful(dangers, Len(reports), resolved) /\ Truthful(request[w].copy, Len(reports), resolved)
      /\ request[w].step \in {"trim", "dispatch", "redelete", "repush", "task"} =>
             request[w].id \in 1..Len(reports)
      /\ Len(reports) \in Nat /\ Len(reports) <= Len(reports)
      /\ serial /\ cancelled = 0 =>
            /\ \A v \in Writers \ {w} : request[v].step = "idle"
            /\ StepExact(request[w], dangers, Len(reports), resolved)
  BY <1>1, OnTurn
<1>3. /\ req \in Requests /\ req.step \in {"idle", "task"}
      /\ req.copy = copy \/ req.copy = <<>>
      /\ req.step = "task" => req.id = request[w].id /\ request[w].step = "repush"
  <2>1. Nothing \in Requests /\ Nothing.step = "idle" /\ Nothing.copy = <<>>
    BY DEF Nothing, Request, Requests
  <2>2. CASE request[w].step = "push"
    BY <2>1, <2>2
  <2>3. CASE request[w].step = "repush"
    BY <1>2, <2>3 DEF Requests
  <2> QED
    BY <1>1, <2>2, <2>3
<1> HIDE DEF req
<1>4. copy \in Seq(Entries) /\ LastOf(copy) \in Seq(Entries)
  BY <1>2, Trimmed DEF Requests
<1>5. dangers' \in Seq(Entries) /\ Truthful(dangers', n, resolved) /\ Truthful(req.copy, n, resolved)
  <2>1. Truthful(LastOf(copy), n, resolved)
    BY <1>2, <1>4, TruthfulLists
  <2>2. Truthful(dangers \o LastOf(copy), n, resolved)
    BY <1>2, <1>4, <2>1, TruthfulLists
  <2>3. Truthful(<<>>, n, resolved)
    BY DEF Truthful
  <2> QED
    BY <1>1, <1>2, <1>3, <1>4, <2>2, <2>3
<1>6. ASSUME serial, cancelled = 0 PROVE Exact(dangers', n, resolved)
  <2>1. dangers = <<>> /\ Exact(copy, n, resolved)
    BY <1>1, <1>2, <1>6 DEF StepExact
  <2>2. Len(copy) <= MaxListed
    BY <1>2, <2>1, DangerAssumption DEF Exact, Newest, Kept
  <2>3. LastOf(copy) = copy
    BY <1>4, <2>2, DangerAssumption DEF LastOf
  <2> HIDE DEF copy, n
  <2>4. dangers' = copy
    BY <1>1, <1>4, <2>1, <2>3
  <2> QED
    BY <2>1, <2>4
<1>7. serial /\ cancelled = 0 => StepExact(req, dangers', n, resolved)
  BY <1>3, <1>6 DEF StepExact
<1> HIDE DEF copy, n
<1> QED
  BY <1>1, <1>2, <1>3, <1>5, <1>6, <1>7, DangerStep DEF n

LEMMA DangerRescue ==
    ASSUME DangerInv, NEW w \in Writers, PostRescue(w)
    PROVE  DangerInv'
<1> DEFINE req == [request[w] EXCEPT !.step = "announce"]
<1>1. /\ request[w].step = "task" /\ rescues' = rescues \cup {request[w].id}
      /\ request' = [request EXCEPT ![w] = req]
      /\ UNCHANGED <<dangers, reports, resolved, announced, cancelled, serial>>
  BY DEF PostRescue
<1>2. /\ request[w] \in Requests /\ dangers \in Seq(Entries) /\ reports \in Seq(Villagers)
      /\ cancelled \in Nat /\ serial \in BOOLEAN
      /\ resolved \subseteq 1..Len(reports) /\ rescues \subseteq 1..Len(reports)
      /\ Truthful(dangers, Len(reports), resolved) /\ Truthful(request[w].copy, Len(reports), resolved)
      /\ request[w].step \in {"trim", "dispatch", "redelete", "repush", "task"} =>
             request[w].id \in 1..Len(reports)
      /\ Len(reports) \in Nat /\ Len(reports) <= Len(reports)
      /\ serial /\ cancelled = 0 =>
            /\ \A v \in Writers \ {w} : request[v].step = "idle"
            /\ StepExact(request[w], dangers, Len(reports), resolved)
  BY <1>1, OnTurn
<1>3. req \in Requests /\ req.step = "announce" /\ req.copy = request[w].copy
  BY <1>1, <1>2 DEF Requests
<1> HIDE DEF req
<1>4. serial /\ cancelled = 0 => StepExact(req, dangers, Len(reports), resolved)
  BY <1>1, <1>2, <1>3 DEF StepExact
<1>5. rescues' \subseteq 1..Len(reports)
  BY <1>1, <1>2
<1> QED
  BY <1>1, <1>2, <1>3, <1>4, <1>5, DangerStep

(* A request that ends, begins to resolve, or is lost.                     *)
LEMMA DangerEnds ==
    ASSUME DangerInv, NEW w \in Writers, Announce(w) \/ Cancel(w)
    PROVE  DangerInv'
<1>1. /\ request[w].step # "idle" /\ request' = [request EXCEPT ![w] = Nothing]
      /\ UNCHANGED <<dangers, reports, resolved, rescues, serial>>
      /\ cancelled' = cancelled + 1 \/ (request[w].step = "announce" /\ cancelled' = cancelled)
  BY DEF Announce, Cancel, Finished
<1>2. /\ request[w] \in Requests /\ dangers \in Seq(Entries) /\ reports \in Seq(Villagers)
      /\ cancelled \in Nat /\ serial \in BOOLEAN
      /\ resolved \subseteq 1..Len(reports) /\ rescues \subseteq 1..Len(reports)
      /\ Truthful(dangers, Len(reports), resolved) /\ Truthful(request[w].copy, Len(reports), resolved)
      /\ request[w].step \in {"trim", "dispatch", "redelete", "repush", "task"} =>
             request[w].id \in 1..Len(reports)
      /\ Len(reports) \in Nat /\ Len(reports) <= Len(reports)
      /\ serial /\ cancelled = 0 =>
            /\ \A v \in Writers \ {w} : request[v].step = "idle"
            /\ StepExact(request[w], dangers, Len(reports), resolved)
  BY <1>1, OnTurn
<1>3. Nothing \in Requests /\ Nothing.step = "idle" /\ Nothing.copy = <<>>
  BY DEF Nothing, Request, Requests
<1>4. Truthful(Nothing.copy, Len(reports), resolved)
  BY <1>3 DEF Truthful
<1>5. serial /\ cancelled' = 0 =>
         /\ cancelled = 0 /\ Exact(dangers, Len(reports), resolved)
         /\ StepExact(Nothing, dangers, Len(reports), resolved)
  BY <1>1, <1>2, <1>3 DEF StepExact
<1>6. cancelled' \in Nat
  BY <1>1, <1>2
<1> QED
  BY <1>1, <1>2, <1>3, <1>4, <1>5, <1>6, DangerStep

LEMMA DangerResolving ==
    ASSUME DangerInv, NEW w \in Writers, NEW id \in Nat, NEW a \in Villagers \cup {"nobody"},
           Resolve(w, id, a)
    PROVE  DangerInv'
<1> DEFINE req == Request("resolve", id, a, <<>>)
<1>1. /\ request[w].step = "idle" /\ request' = [request EXCEPT ![w] = req]
      /\ serial' = (serial /\ \A v \in Writers \ {w} : request[v].step = "idle")
      /\ UNCHANGED <<dangers, reports, resolved, rescues, announced, cancelled>>
  BY DEF Resolve, Begins
<1>2. /\ request[w] \in Requests /\ dangers \in Seq(Entries) /\ reports \in Seq(Villagers)
      /\ cancelled \in Nat /\ serial \in BOOLEAN
      /\ resolved \subseteq 1..Len(reports) /\ rescues \subseteq 1..Len(reports)
      /\ Truthful(dangers, Len(reports), resolved) /\ Truthful(request[w].copy, Len(reports), resolved)
      /\ request[w].step \in {"trim", "dispatch", "redelete", "repush", "task"} =>
             request[w].id \in 1..Len(reports)
      /\ Len(reports) \in Nat /\ Len(reports) <= Len(reports)
  BY OnTurn
<1>3. req \in Requests /\ req.step = "resolve" /\ req.copy = <<>>
  BY DEF Request, Requests
<1> HIDE DEF req
<1>4. Truthful(req.copy, Len(reports), resolved)
  BY <1>3 DEF Truthful
<1>5. ASSUME serial', cancelled = 0
      PROVE  /\ \A v \in Writers \ {w} : request[v].step = "idle"
             /\ StepExact(req, dangers, Len(reports), resolved)
  <2>1. \A v \in Writers : request[v].step = "idle"
    BY <1>1, <1>5
  <2>2. Exact(dangers, Len(reports), resolved)
    BY <1>1, <1>5, <2>1 DEF DangerInv, InTurn
  <2> QED
    BY <1>3, <2>1, <2>2 DEF StepExact
<1>6. serial' \in BOOLEAN
  BY <1>1
<1> QED
  BY <1>1, <1>2, <1>3, <1>4, <1>5, <1>6, DangerStep

LEMMA DangerKept == DangerInv /\ [DangerNext]_dangerVars => DangerInv'
<1> SUFFICES ASSUME DangerInv, [DangerNext]_dangerVars PROVE DangerInv'
  OBVIOUS
<1>1. CASE UNCHANGED dangerVars
  BY <1>1 DEF dangerVars, DangerInv, DangerTypes, NothingInvented, InTurn
<1>2. ASSUME NEW w \in Writers, Continue(w) \/ Cancel(w) PROVE DangerInv'
  BY <1>2, DangerTrimmed, DangerRead, DangerDeleted, DangerPushed, DangerRescue, DangerEnds
  DEF Continue
<1>3. ASSUME NEW w \in Writers, NEW a \in Villagers, Report(w, a) \/ Resolve(w, 0, a) PROVE DangerInv'
  BY <1>3, DangerReported, DangerResolving
<1>4. ASSUME NEW w \in Writers, NEW id \in DOMAIN reports, Resolve(w, id, "nobody") PROVE DangerInv'
  <2>1. id \in Nat
    BY DEF DangerInv, DangerTypes
  <2> QED
    BY <1>4, <2>1, DangerResolving
<1> QED
  BY <1>1, <1>2, <1>3, <1>4 DEF DangerNext

THEOREM DangerInvHolds == DangerSpec => []DangerInv
BY DangerStart, DangerKept, PTL DEF DangerSpec

(* The distress list: requests that take turns leave exactly the latest    *)
(* reports, in order, each once and resolved when somebody resolved it;    *)
(* requests that overlap or fail invent no report and no resolution.       *)
THEOREM DangerListIsSound == DangerSpec => []DangerListSound
<1>1. ASSUME DangerInv PROVE DangerListSound
  <2>1. /\ dangers \in Seq(Entries) /\ reports \in Seq(Villagers)
        /\ DOMAIN reports = 1..Len(reports) /\ DOMAIN dangers = 1..Len(dangers)
        /\ Len(reports) \in Nat /\ Len(dangers) \in Nat
    BY <1>1 DEF DangerInv, DangerTypes
  <2>2. ListIsTruthful
    BY <1>1, <2>1 DEF ListIsTruthful, DangerInv, NothingInvented, Truthful
  <2>3. ASSUME serial, cancelled = 0, \A w \in Writers : request[w].step = "idle"
        PROVE  /\ [i \in DOMAIN dangers |-> dangers[i].id] = LastOf([id \in DOMAIN reports |-> id])
               /\ \A i \in DOMAIN dangers : dangers[i].status = "resolved" <=> dangers[i].id \in resolved
    <3> DEFINE n == Len(reports)
               ids == [id \in 1..n |-> id]
               k == Len(dangers)
    <3>1. Newest(dangers, n, Kept(n)) /\ Marked(dangers, resolved)
      BY <1>1, <2>3 DEF DangerInv, InTurn, Exact
    <3>2. ids \in Seq(Nat) /\ Len(ids) = n
      BY <2>1
    <3>3. k = Kept(n) /\ \A i \in 1..k : dangers[i].id = n - k + i
      BY <3>1 DEF Newest
    <3>4. LastOf(ids) = [i \in 1..k |-> n - k + i]
      <4> HIDE DEF k
      <4>1. CASE n > MaxListed
        <5>1. k = MaxListed /\ k \in Nat
          BY <2>1, <3>3, <4>1, DangerAssumption DEF Kept
        <5>2. LastOf(ids) = SubSeq(ids, n - k + 1, n)
          BY <3>2, <4>1, <5>1 DEF LastOf
        <5>3. SubSeq(ids, n - k + 1, n) = [i \in 1..k |-> ids[n - k + i]]
          BY <2>1, <4>1, <5>1
        <5>4. \A i \in 1..k : n - k + i \in 1..n
          BY <2>1, <4>1, <5>1
        <5> QED
          BY <5>2, <5>3, <5>4
      <4>2. CASE ~ (n > MaxListed)
        <5>1. k = n
          BY <2>1, <3>3, <4>2, DangerAssumption DEF Kept
        <5>2. LastOf(ids) = ids
          BY <3>2, <4>2 DEF LastOf
        <5> QED
          BY <2>1, <5>1, <5>2
      <4> QED
        BY <4>1, <4>2
    <3>5. [i \in 1..k |-> dangers[i].id] = [i \in 1..k |-> n - k + i]
      BY <3>3
    <3> QED
      BY <2>1, <3>1, <3>4, <3>5 DEF Marked
  <2> QED
    BY <2>2, <2>3 DEF DangerListSound, ListIsExact
<1> QED
  BY <1>1, DangerInvHolds, PTL

-----------------------------------------------------------------------------
(* Spending: the calls of the provider that are on record or about to be.  *)
Recorded == {e.number : e \in events}
Logging == {c \in Callers : call[c].step = "log"}
InHand == Recorded \cup {call[c].number : c \in Logging}

Calls == [step : Steps, tries : Nat, number : Nat, price : Prices \cup {0}, over : BOOLEAN]

CallsOK(calls, n) ==
    /\ DOMAIN calls = Callers
    /\ \A c \in Callers : /\ calls[c] \in Calls
                          /\ calls[c].step = "log" => calls[c].number \in 1..n

SpendInv ==
    /\ answered \in Nat /\ lost \in Nat
    /\ call = [c \in Callers |-> call[c]] /\ CallsOK(call, answered)
    /\ \A e \in events : e.number \in 1..answered
    /\ answered <= Cardinality(InHand) + lost

(* What is in hand is counted by the calls answered.                       *)
LEMMA HandsCounted ==
    ASSUME NEW n \in Nat, NEW S, S \subseteq 1..n
    PROVE  /\ IsFiniteSet(S) /\ Cardinality(S) \in Nat
           /\ \A T : S \subseteq T /\ T \subseteq 1..n => Cardinality(S) <= Cardinality(T)
           /\ \A m : Cardinality(S) <= Cardinality(S \ {m}) + 1
           /\ Cardinality(S \cup {n + 1}) = Cardinality(S) + 1
<1>1. IsFiniteSet(1..n)
  BY FS_Interval
<1>2. IsFiniteSet(S) /\ Cardinality(S) \in Nat
  BY <1>1, FS_Subset, FS_CardinalityType
<1>3. ASSUME NEW T, S \subseteq T, T \subseteq 1..n PROVE Cardinality(S) <= Cardinality(T)
  <2>1. IsFiniteSet(T)
    BY <1>1, <1>3, FS_Subset
  <2> QED
    BY <1>3, <2>1, FS_Subset
<1>4. ASSUME NEW m PROVE Cardinality(S) <= Cardinality(S \ {m}) + 1
  BY <1>2, FS_RemoveElement
<1>5. n + 1 \notin S
  OBVIOUS
<1> QED
  BY <1>2, <1>3, <1>4, <1>5, FS_AddElement

(* A step keeps the count when what leaves the hand is counted as lost.    *)
LEMMA SpendStep ==
    ASSUME SpendInv, UNCHANGED answered,
           call' = [c \in Callers |-> call'[c]], CallsOK(call', answered),
           \A e \in events' : e.number \in 1..answered,
           \/ lost' = lost /\ InHand \subseteq InHand'
           \/ lost' = lost + 1 /\ \E m : InHand \ {m} \subseteq InHand'
    PROVE  SpendInv'
<1>1. InHand \subseteq 1..answered /\ InHand' \subseteq 1..answered /\ answered \in Nat /\ lost \in Nat
  BY DEF SpendInv, CallsOK, InHand, Recorded, Logging
<1>2. Cardinality(InHand) \in Nat /\ Cardinality(InHand') \in Nat
  BY <1>1, HandsCounted
<1>3. CASE lost' = lost /\ InHand \subseteq InHand'
  <2>1. Cardinality(InHand) <= Cardinality(InHand')
    BY <1>1, <1>3, HandsCounted
  <2> QED
    BY <1>1, <1>2, <1>3, <2>1 DEF SpendInv
<1>4. ASSUME NEW m, lost' = lost + 1, InHand \ {m} \subseteq InHand' PROVE SpendInv'
  <2>1. Cardinality(InHand) <= Cardinality(InHand \ {m}) + 1
    BY <1>1, HandsCounted
  <2>2. InHand \ {m} \subseteq 1..answered
    BY <1>1
  <2>3. Cardinality(InHand \ {m}) <= Cardinality(InHand') /\ Cardinality(InHand \ {m}) \in Nat
    BY <1>1, <1>4, <2>2, HandsCounted
  <2> QED
    BY <1>1, <1>2, <1>4, <2>1, <2>3 DEF SpendInv
<1> QED
  BY <1>3, <1>4

LEMMA SpendStart == SpendInit => SpendInv
<1> SUFFICES ASSUME SpendInit PROVE SpendInv
  OBVIOUS
<1>1. InHand = {}
  BY DEF SpendInit, InHand, Recorded, Logging, NoCall
<1>2. Cardinality(InHand) = 0
  BY <1>1, FS_EmptySet
<1> QED
  BY <1>2 DEF SpendInit, SpendInv, CallsOK, Calls, Steps, NoCall

(* A step of one caller.                                                   *)
LEMMA CallerStep ==
    ASSUME SpendInv, NEW c \in Callers, NEW entry, entry \in Calls,
           call' = [call EXCEPT ![c] = entry], UNCHANGED answered,
           entry.step = "log" => call[c].step = "log" /\ entry.number = call[c].number,
           Recorded \subseteq Recorded', \A e \in events' : e.number \in 1..answered,
           \/ lost' = lost /\ (call[c].step = "log" => entry.step = "log" \/ call[c].number \in Recorded')
           \/ lost' = lost + 1
    PROVE  SpendInv'
<1>1. /\ call' = [d \in Callers |-> call'[d]] /\ call'[c] = entry
      /\ \A d \in Callers : d # c => call'[d] = call[d]
  BY DEF SpendInv
<1>2. CallsOK(call', answered)
  BY <1>1 DEF SpendInv, CallsOK
<1>3. InHand \ {call[c].number} \subseteq InHand'
  BY <1>1 DEF InHand, Logging
<1>4. CASE lost' = lost /\ (call[c].step = "log" => entry.step = "log" \/ call[c].number \in Recorded')
  <2>1. InHand \subseteq InHand'
    BY <1>1, <1>4 DEF InHand, Logging
  <2> QED
    BY <1>1, <1>2, <1>4, <2>1, SpendStep
<1>5. CASE lost' = lost + 1
  BY <1>1, <1>2, <1>3, <1>5, SpendStep
<1> QED
  BY <1>4, <1>5

LEMMA SpendKept == SpendInv /\ [SpendNext]_spendVars => SpendInv'
<1> SUFFICES ASSUME SpendInv, [SpendNext]_spendVars PROVE SpendInv'
  OBVIOUS
<1>t. /\ answered \in Nat /\ lost \in Nat /\ \A c \in Callers : call[c] \in Calls
      /\ \A c \in Callers : call[c].step = "log" => call[c].number \in 1..answered
      /\ \A e \in events : e.number \in 1..answered
  BY DEF SpendInv, CallsOK
<1>n. NoCall \in Calls /\ NoCall.step = "idle"
  BY DEF Calls, Steps, NoCall
(* Steps that neither answer nor record.                                   *)
<1>1. ASSUME NEW c \in Callers, UNCHANGED <<answered, lost, events>>, NEW entry, entry \in Calls,
             call' = [call EXCEPT ![c] = entry],
             entry.step = "log" <=> call[c].step = "log",
             entry.step = "log" => entry.number = call[c].number
      PROVE  SpendInv'
  BY <1>1, <1>t, CallerStep DEF Recorded
<1>2. ASSUME NEW c \in Callers,
             \/ Start(c) \/ ReadFlag(c) \/ ReadSpend(c) \/ Trip(c) \/ CheckFails(c) \/ PostFails(c)
      PROVE  SpendInv'
  <2>1. UNCHANGED <<answered, lost, events>> /\ call[c].step # "log"
    BY <1>2 DEF Start, ReadFlag, ReadSpend, Trip, CheckFails, PostFails
  <2>2. CASE Over(c)
    BY <1>1, <1>n, <2>1, <2>2 DEF Over
  <2>3. ASSUME NEW step \in Steps, step # "log", GoTo(c, step) PROVE SpendInv'
    <3> DEFINE entry == [call[c] EXCEPT !.step = step, !.tries = 0]
    <3>1. call' = [call EXCEPT ![c] = entry]
      BY <2>3 DEF GoTo
    <3>2. entry \in Calls /\ entry.step = step
      BY <1>t, <2>3 DEF Calls
    <3> HIDE DEF entry
    <3> QED
      BY <1>1, <2>1, <2>3, <3>1, <3>2
  <2>4. CASE Start(c)
    <3> DEFINE entry == [NoCall EXCEPT !.step = "flag", !.over = Spend >= Cap]
    <3>1. call' = [call EXCEPT ![c] = entry]
      BY <2>4 DEF Start
    <3>2. entry \in Calls /\ entry.step = "flag"
      <4>1. (Spend >= Cap) \in BOOLEAN
        OBVIOUS
      <4> QED
        BY <4>1 DEF Calls, Steps, NoCall
    <3> HIDE DEF entry
    <3> QED
      BY <1>1, <2>1, <3>1, <3>2
  <2>5. CASE PostFails(c)
    <3>1. CASE call' = [call EXCEPT ![c].tries = @ + 1]
      <4> DEFINE entry == [call[c] EXCEPT !.tries = call[c].tries + 1]
      <4>1. call' = [call EXCEPT ![c] = entry]
        BY <3>1
      <4>2. entry \in Calls /\ entry.step = call[c].step
        BY <1>t DEF Calls
      <4> HIDE DEF entry
      <4> QED
        BY <1>1, <2>1, <4>1, <4>2
    <3> QED
      BY <2>2, <2>5, <3>1 DEF PostFails
  <2>6. CASE ReadFlag(c) \/ ReadSpend(c)
    <3>1. Over(c) \/ GoTo(c, "spend") \/ GoTo(c, "respend") \/ GoTo(c, "trip") \/ GoTo(c, "request")
      BY <2>6 DEF ReadFlag, ReadSpend
    <3>2. {"spend", "respend", "trip", "request"} \subseteq Steps
      BY DEF Steps
    <3> QED
      BY <2>2, <2>3, <3>1, <3>2
  <2> QED
    BY <1>2, <2>2, <2>4, <2>5, <2>6 DEF Trip, CheckFails
<1>3. CASE Reset \/ UNCHANGED spendVars
  BY <1>3 DEF Reset, spendVars, SpendInv, InHand, Recorded, Logging
<1>4. CASE SpendTick
  <2>1. /\ UNCHANGED <<answered, lost, events>>
        /\ call' = [c \in Callers |-> [call[c] EXCEPT !.over = call[c].over /\ SpendAt(time + 1) >= Cap]]
    BY <1>4 DEF SpendTick
  <2>2. \A c \in Callers : /\ call'[c] \in Calls /\ call'[c].step = call[c].step
                           /\ call'[c].number = call[c].number
    <3>1. ASSUME NEW c \in Callers, NEW over \in BOOLEAN
          PROVE  /\ [call[c] EXCEPT !.over = over] \in Calls
                 /\ [call[c] EXCEPT !.over = over].step = call[c].step
                 /\ [call[c] EXCEPT !.over = over].number = call[c].number
      BY <1>t DEF Calls
    <3> QED
      BY <2>1, <3>1
  <2>3. call' = [c \in Callers |-> call'[c]] /\ CallsOK(call', answered)
    BY <1>t, <2>1, <2>2 DEF CallsOK
  <2>4. InHand \subseteq InHand'
    BY <2>1, <2>2 DEF InHand, Recorded, Logging
  <2> QED
    BY <2>1, <2>3, <2>4, <1>t, SpendStep
<1>5. ASSUME NEW c \in Callers, NEW price \in Prices, Answered(c, price) PROVE SpendInv'
  <2> DEFINE entry == [call[c] EXCEPT !.step = "log", !.tries = 0, !.number = answered + 1, !.price = price]
  <2>1. /\ call[c].step = "request" /\ answered' = answered + 1 /\ UNCHANGED <<lost, events>>
        /\ call' = [call EXCEPT ![c] = entry]
    BY <1>5 DEF Answered
  <2>2. entry \in Calls /\ entry.step = "log" /\ entry.number = answered + 1
    <3>1. call[c] \in Calls /\ answered + 1 \in Nat /\ 0 \in Nat /\ price \in Prices \cup {0} /\ "log" \in Steps
      BY <1>t DEF Steps
    <3> QED
      BY <3>1 DEF Calls
  <2> HIDE DEF entry
  <2>3. /\ call' = [d \in Callers |-> call'[d]] /\ call'[c] = entry
        /\ \A d \in Callers : d # c => call'[d] = call[d]
    BY <2>1 DEF SpendInv
  <2>4. CallsOK(call', answered')
    <3>1. DOMAIN call' = Callers /\ 1..answered \subseteq 1..answered' /\ answered' \in 1..answered'
      <4>1. DOMAIN call' = Callers
        BY <2>3
      <4>2. answered \in Nat /\ answered' = answered + 1
        BY <1>t, <2>1
      <4> QED
        BY <4>1, <4>2
    <3>2. \A d \in Callers : d # c => call'[d] \in Calls /\ (call'[d].step = "log" => call'[d].number \in 1..answered)
      BY <1>t, <2>3
    <3> QED
      BY <2>1, <2>2, <2>3, <3>1, <3>2 DEF CallsOK
  <2>5. \A e \in events' : e.number \in 1..answered'
    BY <1>t, <2>1
  <2>6. InHand' = InHand \cup {answered + 1}
    BY <2>1, <2>2, <2>3 DEF InHand, Recorded, Logging
  <2>7. InHand \subseteq 1..answered
    BY <1>t DEF InHand, Recorded, Logging
  <2>8. Cardinality(InHand') = Cardinality(InHand) + 1 /\ Cardinality(InHand) \in Nat
    BY <1>t, <2>6, <2>7, HandsCounted
  <2>9. answered' <= Cardinality(InHand') + lost'
    BY <1>t, <2>1, <2>8 DEF SpendInv
  <2> QED
    BY <1>t, <2>1, <2>3, <2>4, <2>5, <2>9 DEF SpendInv
<1>6. ASSUME NEW c \in Callers, Record(c) \/ RecordFails(c) \/ RecordInDoubt(c) PROVE SpendInv'
  <2>1. call[c].step = "log" /\ UNCHANGED answered
    BY <1>6 DEF Record, RecordFails, RecordInDoubt
  <2>2. \A copy : Event(c, copy).number = call[c].number
    BY DEF Event
  <2>3. \/ events' = events /\ ~Record(c)
        \/ \E copy : events' = events \cup {Event(c, copy)}
    BY <1>6 DEF Record, RecordFails, RecordInDoubt
  <2>4. Recorded \subseteq Recorded' /\ \A e \in events' : e.number \in 1..answered
    BY <1>t, <2>1, <2>2, <2>3 DEF Recorded
  <2>5. CASE Record(c)
    <3> DEFINE entry == [call[c] EXCEPT !.step = "reflag", !.tries = 0]
    <3>1. call' = [call EXCEPT ![c] = entry] /\ lost' = lost
      BY <2>5 DEF Record, GoTo
    <3>3. entry \in Calls /\ entry.step = "reflag"
      BY <1>t DEF Calls, Steps
    <3> HIDE DEF entry
    <3>2. call[c].number \in Recorded'
      BY <2>2, <2>3, <2>5 DEF Recorded
    <3> QED
      BY <2>1, <2>4, <3>1, <3>2, <3>3, CallerStep
  <2>6. CASE lost' = lost /\ call' = [call EXCEPT ![c].tries = @ + 1]
    <3> DEFINE entry == [call[c] EXCEPT !.tries = call[c].tries + 1]
    <3>1. call' = [call EXCEPT ![c] = entry]
      BY <2>6
    <3>2. entry \in Calls /\ entry.step = call[c].step /\ entry.number = call[c].number
      BY <1>t DEF Calls
    <3> HIDE DEF entry
    <3> QED
      BY <2>1, <2>4, <2>6, <3>1, <3>2, CallerStep
  <2>7. CASE Over(c) /\ lost' = lost + 1
    BY <1>n, <2>1, <2>4, <2>7, CallerStep DEF Over
  <2> QED
    BY <1>6, <2>5, <2>6, <2>7 DEF RecordFails, RecordInDoubt
<1> QED
  BY <1>2, <1>3, <1>4, <1>5, <1>6 DEF SpendNext

THEOREM SpendInvHolds == SpendSpec => []SpendInv
BY SpendStart, SpendKept, PTL DEF SpendSpec

(* No cost vanishes: every call the provider answered is being logged, is  *)
(* in the database, or is counted as lost, whatever inserts fail, are      *)
(* retried or take effect in doubt, and however calls interleave.          *)
THEOREM NoCostVanishes == SpendSpec => []EveryCostAccounted
<1>1. ASSUME SpendInv PROVE EveryCostAccounted
  <2> DEFINE numbers == {call[c].number : c \in Logging}
  <2>1. Recorded \subseteq 1..answered /\ numbers \subseteq 1..answered /\ answered \in Nat /\ lost \in Nat
    BY <1>1 DEF SpendInv, CallsOK, Recorded, Logging
  <2>2. /\ IsFiniteSet(Recorded) /\ Cardinality(Recorded) \in Nat
        /\ IsFiniteSet(numbers) /\ Cardinality(numbers) \in Nat
    BY <2>1, HandsCounted
  <2>3. IsFiniteSet(Logging) /\ Cardinality(Logging) \in Nat
    BY SpendAssumption, FS_Subset, FS_CardinalityType DEF Logging
  <2>4. Cardinality(numbers) <= Cardinality(Logging)
    <3> DEFINE f == [c \in Logging |-> call[c].number]
    <3>1. f \in Surjection(Logging, numbers)
      BY DEF Surjection
    <3> QED
      BY <2>3, <3>1, FS_Surjection
  <2>5. Cardinality(InHand) <= Cardinality(Recorded) + Cardinality(numbers) /\ Cardinality(InHand) \in Nat
    <3> HIDE DEF numbers
    <3>1. Cardinality(Recorded \cup numbers) =
              Cardinality(Recorded) + Cardinality(numbers) - Cardinality(Recorded \cap numbers)
      BY <2>2, FS_Union
    <3>2. Cardinality(Recorded \cap numbers) \in Nat
      BY <2>2, FS_Intersection, FS_CardinalityType
    <3>3. Cardinality(Recorded \cup numbers) \in Nat
      BY <2>2, FS_Union, FS_CardinalityType
    <3> QED
      BY <2>2, <3>1, <3>2, <3>3 DEF InHand, numbers
  <2>6. answered <= Cardinality(InHand) + lost
    BY <1>1 DEF SpendInv
  <2> HIDE DEF numbers
  <2>7. answered <= Cardinality(Recorded) + lost + Cardinality(Logging)
    BY <2>1, <2>2, <2>3, <2>4, <2>5, <2>6
  <2> QED
    BY <2>7 DEF EveryCostAccounted, Recorded, Logging
<1> QED
  BY <1>1, SpendInvHolds, PTL

-----------------------------------------------------------------------------
(* Spending: the cap.  A call between the check it passed and the record   *)
(* of its cost may still add the highest price to the spend; the checks    *)
(* leave room for one such call of each caller.                            *)
Bill(S) == SumFunction([e \in S |-> e.amount])

LEMMA BillGrows ==
    ASSUME NEW S, IsFiniteSet(S), \A e \in S : e.amount \in Nat
    PROVE  Bill(S) \in Nat /\ \A R \in SUBSET S : Bill(R) <= Bill(S)
<1> DEFINE f == [e \in S |-> e.amount]
<1>1. ASSUME NEW R \in SUBSET S PROVE Bill(R) = SumFunctionOnSet(f, R)
  <2> DEFINE g == [e \in R |-> e.amount]
  <2>1. Bill(R) = SumFunctionOnSet(g, R)
    BY DEF Bill, SumFunction
  <2>2. IsFiniteSet(R) /\ \A e \in R : g[e] = f[e]
    BY FS_Subset
  <2> HIDE DEF f, g
  <2> QED
    BY <2>1, <2>2, SumEqual
<1>2. \A e \in S : f[e] \in Nat
  OBVIOUS
<1> HIDE DEF f
<1>3. /\ SumFunctionOnSet(f, S) \in Nat
      /\ \A R \in SUBSET S : SumFunctionOnSet(f, R) <= SumFunctionOnSet(f, S)
  BY <1>2, SumOnSubset
<1> QED
  BY <1>1, <1>3

LEMMA BillOfOneMore ==
    ASSUME NEW S, IsFiniteSet(S), \A e \in S : e.amount \in Nat,
           NEW x, x \notin S, x.amount \in Nat
    PROVE  Bill(S \cup {x}) = Bill(S) + x.amount
<1> DEFINE f == [e \in S |-> e.amount]
           g == [e \in S \cup {x} |-> e.amount]
<1>1. Bill(S) = SumFunctionOnSet(f, S) /\ Bill(S \cup {x}) = SumFunctionOnSet(g, S \cup {x})
  BY DEF Bill, SumFunction
<1>2. (\A e \in S : f[e] = g[e] /\ f[e] \in Int) /\ g[x] = x.amount /\ \A e \in S \cup {x} : g[e] \in Int
  OBVIOUS
<1>3. IsFiniteSet(S \cup {x}) /\ (S \cup {x}) \ {x} = S
  BY FS_AddElement
<1> HIDE DEF f, g
<1>4. SumFunctionOnSet(g, S \cup {x}) = g[x] + SumFunctionOnSet(g, S)
  BY <1>2, <1>3, SumStep
<1>5. SumFunctionOnSet(g, S) = SumFunctionOnSet(f, S) /\ SumFunctionOnSet(f, S) \in Int
  BY <1>2, SumEqual, SumType
<1> QED
  BY <1>1, <1>2, <1>4, <1>5

(* The most a call may cost, and what n of them cost at most.              *)
Dearest == Highest(Prices)
Costs(n) == n * Dearest

LEMMA DearestIsHighest == Dearest \in Nat /\ \A p \in Prices : p <= Dearest
<1>1. ASSUME NEW X \in SUBSET Prices,
             \A Y \in SUBSET X : Y # X => (Y # {} => \E x \in Y : \A y \in Y : y <= x)
      PROVE  X # {} => \E x \in X : \A y \in X : y <= x
  <2> SUFFICES ASSUME X # {} PROVE \E x \in X : \A y \in X : y <= x
    OBVIOUS
  <2>1. PICK p : p \in X
    OBVIOUS
  <2>2. \A x \in X : x \in Nat
    BY SpendAssumption
  <2>3. CASE X \ {p} = {}
    BY <2>1, <2>2, <2>3
  <2>4. CASE X \ {p} # {}
    <3>1. PICK q \in X \ {p} : \A y \in X \ {p} : y <= q
      BY <1>1, <2>1, <2>4
    <3> QED
      BY <2>1, <2>2, <3>1
  <2> QED
    BY <2>3, <2>4
<1>2. SUBSET Prices \subseteq {X \in SUBSET Prices : X # {} => \E x \in X : \A y \in X : y <= x}
  <2> DEFINE H == {X \in SUBSET Prices : X # {} => \E x \in X : \A y \in X : y <= x}
  <2>1. \A X \in SUBSET Prices : (\A Y \in SUBSET X : Y # X => Y \in H) => X \in H
    BY <1>1
  <2> HIDE DEF H
  <2>2. SUBSET Prices \subseteq H
    BY <2>1, SpendAssumption, SubsetsByInduction
  <2> QED
    BY <2>2 DEF H
<1>3. \E x \in Prices : \A y \in Prices : y <= x
  BY <1>2, SpendAssumption
<1> QED
  BY <1>3, SpendAssumption DEF Dearest, Highest

LEMMA CostsAdd ==
    /\ Costs(0) = 0
    /\ \A n \in Nat : Costs(n) \in Nat /\ Costs(n + 1) = Costs(n) + Dearest
    /\ \A m, n \in Nat : m <= n => Costs(m) <= Costs(n)
<1>1. Dearest \in Nat
  BY DearestIsHighest
<1>2. ASSUME NEW h \in Nat
      PROVE  /\ 0 * h = 0
             /\ \A n \in Nat : n * h \in Nat /\ (n + 1) * h = n * h + h
             /\ \A m, n \in Nat : m <= n => m * h <= n * h
  OBVIOUS
<1> QED
  BY <1>1, <1>2 DEF Costs

(* The calls that have passed the check and are not yet recorded.          *)
UnderWay == {c \in Callers : call[c].step \in {"request", "log"}}

(* What is recorded and what may still be leaves the bound on the spend.   *)
RoomLeft == Spend + Costs(Cardinality(UnderWay)) < Cap + Costs(Cardinality(Callers) + doubted)

EventsOK == /\ IsFiniteSet(events)
            /\ \A e \in events : e.at \in Nat /\ e.amount \in Prices

(* A call that came in over the cap has not passed the check since.        *)
OverIsKept ==
    \A c \in Callers :
        /\ call[c].over => Spend >= Cap
        /\ call[c].step = "request" => ~call[c].over
        /\ call[c].step = "log" => call[c].price \in Prices

CapInv ==
    /\ SpendInv
    /\ time \in Nat /\ doubted \in Nat
    /\ EventsOK
    /\ OverIsKept
    /\ RoomLeft

LEMMA SpendIsBill ==
    ASSUME EventsOK, time \in Nat
    PROVE  /\ \A t \in Nat : /\ SpendAt(t) = Bill(Recent(t)) /\ SpendAt(t) \in Nat
                              /\ IsFiniteSet(Recent(t))
                              /\ \A e \in Recent(t) : e.amount \in Nat
           /\ Spend \in Nat
<1>1. ASSUME NEW t \in Nat
      PROVE  /\ SpendAt(t) = Bill(Recent(t)) /\ SpendAt(t) \in Nat /\ IsFiniteSet(Recent(t))
             /\ \A e \in Recent(t) : e.amount \in Nat
  <2>1. IsFiniteSet(Recent(t)) /\ \A e \in Recent(t) : e.amount \in Nat
    <3>1. Recent(t) \subseteq events
      BY DEF Recent
    <3> QED
      BY <3>1, FS_Subset, SpendAssumption DEF EventsOK
  <2>2. SpendAt(t) = Bill(Recent(t))
    BY DEF SpendAt, Bill
  <2> QED
    BY <2>1, <2>2, BillGrows
<1> QED
  BY <1>1 DEF Spend

LEMMA CallersCounted ==
    ASSUME NEW S, S \subseteq Callers
    PROVE  /\ IsFiniteSet(S) /\ Cardinality(S) \in Nat /\ Cardinality(Callers) \in Nat
           /\ Cardinality(S) <= Cardinality(Callers)
           /\ \A T \in SUBSET S : Cardinality(T) <= Cardinality(S)
           /\ \A c \in S : Cardinality(S \ {c}) + 1 = Cardinality(S)
<1>1. IsFiniteSet(S) /\ Cardinality(S) <= Cardinality(Callers)
  BY SpendAssumption, FS_Subset
<1>2. Cardinality(S) \in Nat /\ Cardinality(Callers) \in Nat
  BY <1>1, SpendAssumption, FS_CardinalityType
<1>3. \A T \in SUBSET S : Cardinality(T) <= Cardinality(S)
  BY <1>1, FS_Subset
<1>4. ASSUME NEW c \in S PROVE Cardinality(S \ {c}) + 1 = Cardinality(S)
  <2>1. Cardinality(S \ {c}) = Cardinality(S) - 1
    BY <1>1, FS_RemoveElement
  <2> QED
    BY <1>2, <2>1
<1> QED
  BY <1>1, <1>2, <1>3, <1>4

LEMMA CapStart == SpendInit => CapInv
<1> SUFFICES ASSUME SpendInit PROVE CapInv
  OBVIOUS
<1>1. SpendInv /\ time \in Nat /\ doubted \in Nat
  BY SpendStart DEF SpendInit
<1>2. EventsOK
  BY FS_EmptySet DEF SpendInit, EventsOK
<1>3. Spend = 0
  <2>1. Recent(time) = {}
    BY DEF SpendInit, Recent
  <2>2. Bill({}) = 0
    BY SumOfNothing DEF Bill, SumFunction
  <2> QED
    BY <1>1, <1>2, <2>1, <2>2, SpendIsBill DEF Spend
<1>4. OverIsKept
  BY DEF SpendInit, OverIsKept, NoCall
<1>5. UnderWay = {}
  BY DEF SpendInit, UnderWay, NoCall
<1>6. Cardinality(UnderWay) = 0 /\ Cardinality(Callers) + doubted \in Nat
  BY <1>1, <1>5, FS_EmptySet, CallersCounted
<1>7. Costs(0) = 0 /\ Costs(Cardinality(Callers) + doubted) \in Nat
  BY <1>6, CostsAdd
<1>8. RoomLeft
  BY <1>3, <1>6, <1>7, SpendAssumption DEF RoomLeft
<1> QED
  BY <1>1, <1>2, <1>4, <1>8 DEF CapInv

(* A step of one caller that records nothing.                              *)
LEMMA CapCallerStep ==
    ASSUME CapInv, SpendInv', NEW c \in Callers, NEW entry \in Calls,
           call' = [call EXCEPT ![c] = entry], UNCHANGED <<time, events, doubted>>,
           entry.over => Spend >= Cap,
           entry.step = "request" => ~entry.over /\ (call[c].step = "request" \/ Spend < Cap),
           entry.step = "log" => call[c].step \in {"request", "log"} /\ entry.price \in Prices
    PROVE  CapInv'
<1>1. call'[c] = entry /\ \A d \in Callers : d # c => call'[d] = call[d]
  BY DEF CapInv, SpendInv
<1>2. Spend' = Spend /\ EventsOK'
  BY DEF Spend, SpendAt, Recent, EventsOK, CapInv
<1>3. OverIsKept'
  BY <1>1, <1>2 DEF CapInv, OverIsKept
<1>4. /\ Cardinality(UnderWay) \in Nat /\ Cardinality(UnderWay') \in Nat /\ Cardinality(Callers) \in Nat
      /\ Cardinality(UnderWay') <= Cardinality(Callers)
      /\ UnderWay' \subseteq UnderWay => Cardinality(UnderWay') <= Cardinality(UnderWay)
  <2>1. UnderWay \subseteq Callers /\ UnderWay' \subseteq Callers
    BY DEF UnderWay
  <2> QED
    BY <2>1, CallersCounted
<1>5. Spend \in Nat /\ doubted \in Nat
  BY SpendIsBill DEF CapInv
<1>6. CASE UnderWay' \subseteq UnderWay
  <2>0. /\ Cardinality(UnderWay') <= Cardinality(UnderWay)
        /\ Cardinality(Callers) + doubted \in Nat
    BY <1>4, <1>5, <1>6
  <2>1. /\ Costs(Cardinality(UnderWay')) <= Costs(Cardinality(UnderWay))
        /\ Costs(Cardinality(UnderWay')) \in Nat /\ Costs(Cardinality(UnderWay)) \in Nat
        /\ Costs(Cardinality(Callers) + doubted) \in Nat
    BY <1>4, <2>0, CostsAdd
  <2>2. RoomLeft'
    BY <1>2, <1>5, <2>1, SpendAssumption DEF RoomLeft, CapInv
  <2> QED
    BY <1>2, <1>3, <2>2 DEF CapInv
<1>7. CASE Spend < Cap
  <2>1. Cardinality(UnderWay') <= Cardinality(Callers) + doubted /\ Cardinality(Callers) + doubted \in Nat
    BY <1>4, <1>5
  <2>2. /\ Costs(Cardinality(UnderWay')) <= Costs(Cardinality(Callers) + doubted)
        /\ Costs(Cardinality(UnderWay')) \in Nat /\ Costs(Cardinality(Callers) + doubted) \in Nat
    BY <1>4, <2>1, CostsAdd
  <2>3. RoomLeft'
    BY <1>2, <1>5, <1>7, <2>2, SpendAssumption DEF RoomLeft
  <2> QED
    BY <1>2, <1>3, <2>3 DEF CapInv
<1>8. UnderWay' \subseteq UnderWay \/ Spend < Cap
  BY <1>1 DEF UnderWay
<1> QED
  BY <1>6, <1>7, <1>8

(* One more event raises the spend by its amount at most.                  *)
LEMMA OneMoreEvent ==
    ASSUME EventsOK, time \in Nat, UNCHANGED time,
           NEW x, x.at = time, x.amount \in Prices, events' = events \cup {x}
    PROVE  EventsOK' /\ Spend' \in Nat /\ Spend <= Spend' /\ Spend' <= Spend + Dearest
<1>0. Window \in Nat /\ x.amount \in Nat /\ x.amount <= Dearest /\ Dearest \in Nat
  BY SpendAssumption, DearestIsHighest
<1>1. EventsOK'
  BY FS_AddElement DEF EventsOK
<1>2. /\ Spend = Bill(Recent(time)) /\ Spend \in Nat /\ IsFiniteSet(Recent(time))
      /\ \A e \in Recent(time) : e.amount \in Nat
  BY SpendIsBill DEF Spend
<1>3. Spend' = Bill(Recent(time) \cup {x})
  <2>1. Recent(time)' = Recent(time) \cup {x}
    BY <1>0 DEF Recent
  <2>2. SpendAt(time)' = Bill(Recent(time)')
    BY DEF SpendAt, Bill
  <2> QED
    BY <2>1, <2>2 DEF Spend
<1>4. CASE x \in Recent(time)
  <2>1. Recent(time) \cup {x} = Recent(time)
    BY <1>4
  <2> QED
    BY <1>0, <1>1, <1>2, <1>3, <2>1
<1>5. CASE x \notin Recent(time)
  <2>1. Bill(Recent(time) \cup {x}) = Bill(Recent(time)) + x.amount
    BY <1>0, <1>2, <1>5, BillOfOneMore
  <2> QED
    BY <1>0, <1>1, <1>2, <1>3, <2>1
<1> QED
  BY <1>4, <1>5

(* A step that inserts the cost of a call.                                 *)
LEMMA CapRecordStep ==
    ASSUME CapInv, SpendInv', NEW c \in Callers, call[c].step = "log", NEW entry \in Calls,
           call' = [call EXCEPT ![c] = entry], UNCHANGED time,
           NEW copy, events' = events \cup {Event(c, copy)},
           entry.over => call[c].over,
           entry.step # "request",
           entry.step = "log" => entry.price = call[c].price,
           \/ doubted' = doubted /\ entry.step # "log"
           \/ doubted' = doubted + 1
    PROVE  CapInv'
<1>1. call'[c] = entry /\ \A d \in Callers : d # c => call'[d] = call[d]
  BY DEF CapInv, SpendInv
<1>2. EventsOK' /\ Spend' \in Nat /\ Spend <= Spend' /\ Spend' <= Spend + Dearest
  <2>1. Event(c, copy).at = time /\ Event(c, copy).amount = call[c].price
    BY DEF Event
  <2>2. call[c].price \in Prices
    BY DEF CapInv, OverIsKept
  <2> QED
    BY <2>1, <2>2, OneMoreEvent DEF CapInv
<1>3. Spend \in Nat /\ doubted \in Nat /\ time \in Nat /\ Dearest \in Nat /\ Cap \in Nat
  BY SpendIsBill, DearestIsHighest, SpendAssumption DEF CapInv
<1>4. OverIsKept'
  BY <1>1, <1>2, <1>3 DEF CapInv, OverIsKept
<1>5. /\ UnderWay \subseteq Callers /\ c \in UnderWay /\ UnderWay' \subseteq UnderWay
      /\ entry.step # "log" => UnderWay' = UnderWay \ {c}
  BY <1>1 DEF UnderWay
<1>6. /\ Cardinality(UnderWay) \in Nat /\ Cardinality(UnderWay') \in Nat /\ Cardinality(Callers) \in Nat
      /\ Cardinality(UnderWay') <= Cardinality(UnderWay)
      /\ entry.step # "log" => Cardinality(UnderWay) = Cardinality(UnderWay') + 1
  <2>1. UnderWay' \subseteq Callers
    BY <1>5
  <2> QED
    BY <1>5, <2>1, CallersCounted
<1>7. /\ Costs(Cardinality(UnderWay)) \in Nat /\ Costs(Cardinality(UnderWay')) \in Nat
      /\ Costs(Cardinality(UnderWay')) <= Costs(Cardinality(UnderWay))
      /\ entry.step # "log" =>
             Costs(Cardinality(UnderWay)) = Costs(Cardinality(UnderWay')) + Dearest
  BY <1>6, CostsAdd
<1>8. /\ Costs(Cardinality(Callers) + doubted) \in Nat
      /\ Costs(Cardinality(Callers) + (doubted + 1)) = Costs(Cardinality(Callers) + doubted) + Dearest
  <2>1. Cardinality(Callers) + doubted \in Nat
        /\ Cardinality(Callers) + (doubted + 1) = (Cardinality(Callers) + doubted) + 1
    BY <1>3, <1>6
  <2> QED
    BY <2>1, CostsAdd
<1>9. RoomLeft'
  <2>1. CASE doubted' = doubted /\ entry.step # "log"
    BY <1>2, <1>3, <1>7, <1>8, <2>1 DEF CapInv, RoomLeft
  <2>2. CASE doubted' = doubted + 1
    BY <1>2, <1>3, <1>7, <1>8, <2>2 DEF CapInv, RoomLeft
  <2> QED
    BY <2>1, <2>2
<1> QED
  BY <1>2, <1>3, <1>4, <1>9 DEF CapInv

LEMMA CapKeeps == CapInv /\ [SpendNext]_spendVars => CapInv'
<1> SUFFICES ASSUME CapInv, [SpendNext]_spendVars PROVE CapInv'
  OBVIOUS
<1>i. SpendInv'
  BY SpendKept DEF CapInv
<1>t. /\ answered \in Nat /\ \A c \in Callers : call[c] \in Calls
      /\ \A c \in Callers : call[c].over => Spend >= Cap
      /\ \A c \in Callers : call[c].step = "request" => ~call[c].over
      /\ \A c \in Callers : call[c].step = "log" => call[c].price \in Prices
  BY DEF CapInv, OverIsKept, SpendInv, CallsOK
<1>n. NoCall \in Calls /\ NoCall.step = "idle" /\ ~NoCall.over
  BY DEF Calls, Steps, NoCall
<1>1. ASSUME NEW c \in Callers, UNCHANGED <<time, events, doubted>>, NEW step \in Steps, GoTo(c, step),
             step # "log", step = "request" => Spend < Cap
      PROVE  CapInv'
  <2> DEFINE entry == [call[c] EXCEPT !.step = step, !.tries = 0]
  <2>1. call' = [call EXCEPT ![c] = entry]
    BY <1>1 DEF GoTo
  <2>2. entry \in Calls /\ entry.step = step /\ entry.over = call[c].over
    BY <1>t DEF Calls
  <2>3. entry.over => Spend >= Cap
    BY <1>t, <2>2
  <2>4. Spend < Cap => ~(Spend >= Cap)
    BY SpendIsBill, SpendAssumption DEF CapInv
  <2> HIDE DEF entry
  <2> QED
    BY <1>i, <1>1, <2>1, <2>2, <2>3, <2>4, CapCallerStep
<1>2. ASSUME NEW c \in Callers, UNCHANGED <<time, events, doubted>>, Over(c) PROVE CapInv'
  BY <1>i, <1>n, <1>2, CapCallerStep DEF Over
<1>3. ASSUME NEW c \in Callers, UNCHANGED <<time, events, doubted>>,
             call' = [call EXCEPT ![c].tries = @ + 1]
      PROVE  CapInv'
  <2> DEFINE entry == [call[c] EXCEPT !.tries = call[c].tries + 1]
  <2>1. call' = [call EXCEPT ![c] = entry]
    BY <1>3
  <2>2. /\ entry \in Calls /\ entry.step = call[c].step /\ entry.over = call[c].over
        /\ entry.price = call[c].price
    BY <1>t DEF Calls
  <2>3. entry.over => Spend >= Cap
    BY <1>t, <2>2
  <2>4. entry.step = "request" => ~entry.over /\ call[c].step = "request"
    BY <1>t, <2>2
  <2>5. entry.step = "log" => call[c].step = "log" /\ entry.price \in Prices
    BY <1>t, <2>2
  <2> HIDE DEF entry
  <2> QED
    BY <1>i, <1>3, <2>1, <2>2, <2>3, <2>4, <2>5, CapCallerStep
<1>4. ASSUME NEW c \in Callers,
             \/ Start(c) \/ ReadFlag(c) \/ ReadSpend(c) \/ Trip(c) \/ CheckFails(c) \/ PostFails(c)
      PROVE  CapInv'
  <2>1. UNCHANGED <<time, events, doubted>>
    BY <1>4 DEF Start, ReadFlag, ReadSpend, Trip, CheckFails, PostFails
  <2>2. CASE Start(c)
    <3> DEFINE entry == [NoCall EXCEPT !.step = "flag", !.over = Spend >= Cap]
    <3>1. call' = [call EXCEPT ![c] = entry]
      BY <2>2 DEF Start
    <3>2. entry \in Calls /\ entry.step = "flag" /\ (entry.over => Spend >= Cap)
      <4>1. (Spend >= Cap) \in BOOLEAN
        OBVIOUS
      <4> QED
        BY <4>1 DEF Calls, Steps, NoCall
    <3> HIDE DEF entry
    <3> QED
      BY <1>i, <2>1, <3>1, <3>2, CapCallerStep
  <2>3. CASE ReadFlag(c) \/ ReadSpend(c)
    <3>1. {"spend", "respend", "trip", "request"} \subseteq Steps
      BY DEF Steps
    <3>2. Spend >= Cap \/ Spend < Cap
      BY SpendIsBill, SpendAssumption DEF CapInv
    <3>3. \/ Over(c) \/ GoTo(c, "spend") \/ GoTo(c, "respend") \/ GoTo(c, "trip")
          \/ GoTo(c, "request") /\ Spend < Cap
      BY <2>3, <3>2 DEF ReadFlag, ReadSpend
    <3> QED
      BY <1>1, <1>2, <2>1, <3>1, <3>3
  <2> QED
    BY <1>2, <1>3, <1>4, <2>1, <2>2, <2>3 DEF Trip, CheckFails, PostFails
<1>5. CASE Reset \/ UNCHANGED spendVars
  <2>1. UNCHANGED <<time, events, doubted, call>>
    BY <1>5 DEF Reset, spendVars
  <2>2. Spend' = Spend /\ UnderWay' = UnderWay
    BY <2>1 DEF Spend, SpendAt, Recent, UnderWay
  <2> QED
    BY <1>i, <2>1, <2>2 DEF CapInv, EventsOK, OverIsKept, RoomLeft
<1>6. CASE SpendTick
  <2>1. /\ time' = time + 1 /\ UNCHANGED <<events, doubted>> /\ time \in Nat
        /\ call' = [c \in Callers |-> [call[c] EXCEPT !.over = call[c].over /\ SpendAt(time + 1) >= Cap]]
    BY <1>6 DEF SpendTick, CapInv
  <2>2. EventsOK' /\ Spend' = SpendAt(time + 1) /\ Spend' \in Nat /\ Spend \in Nat /\ Spend' <= Spend
    <3>1. Spend' = SpendAt(time + 1)
      BY <2>1 DEF Spend, SpendAt, Recent
    <3>2. Recent(time + 1) \subseteq Recent(time)
      BY <2>1, SpendAssumption DEF Recent, CapInv, EventsOK
    <3>3. /\ SpendAt(time + 1) = Bill(Recent(time + 1)) /\ SpendAt(time + 1) \in Nat
          /\ Spend = Bill(Recent(time)) /\ Spend \in Nat
          /\ IsFiniteSet(Recent(time)) /\ \A e \in Recent(time) : e.amount \in Nat
      <4>1. time + 1 \in Nat
        BY <2>1
      <4> QED
        BY <2>1, <4>1, SpendIsBill DEF CapInv, Spend
    <3>4. Bill(Recent(time + 1)) <= Bill(Recent(time))
      BY <3>2, <3>3, BillGrows
    <3>5. EventsOK'
      BY <2>1 DEF CapInv, EventsOK
    <3> QED
      BY <3>1, <3>3, <3>4, <3>5
  <2>3. ASSUME NEW c \in Callers
        PROVE  /\ call'[c].step = call[c].step /\ call'[c].price = call[c].price
               /\ call'[c].over => call[c].over /\ Spend' >= Cap
    <3>1. ASSUME NEW over \in BOOLEAN
          PROVE  /\ [call[c] EXCEPT !.over = over].step = call[c].step
                 /\ [call[c] EXCEPT !.over = over].price = call[c].price
                 /\ [call[c] EXCEPT !.over = over].over = over
      BY <1>t DEF Calls
    <3>2. (call[c].over /\ SpendAt(time + 1) >= Cap) \in BOOLEAN
      BY <1>t DEF Calls
    <3>3. call'[c] = [call[c] EXCEPT !.over = call[c].over /\ SpendAt(time + 1) >= Cap]
      BY <2>1
    <3> QED
      BY <2>2, <3>1, <3>2, <3>3
  <2>4. OverIsKept'
    BY <1>t, <2>3 DEF OverIsKept
  <2>5. UnderWay' = UnderWay
    BY <2>3 DEF UnderWay
  <2>6. /\ Costs(Cardinality(UnderWay)) \in Nat /\ Cardinality(UnderWay) \in Nat
        /\ Costs(Cardinality(Callers) + doubted) \in Nat
    <3>1. UnderWay \subseteq Callers /\ doubted \in Nat
      BY DEF UnderWay, CapInv
    <3>2. Cardinality(UnderWay) \in Nat /\ Cardinality(Callers) \in Nat
      BY <3>1, CallersCounted
    <3>3. Cardinality(Callers) + doubted \in Nat
      BY <3>1, <3>2
    <3> QED
      BY <3>2, <3>3, CostsAdd
  <2>7. RoomLeft'
    BY <2>1, <2>2, <2>5, <2>6, SpendAssumption DEF RoomLeft, CapInv
  <2> QED
    BY <1>i, <2>1, <2>2, <2>4, <2>7 DEF CapInv
<1>7. ASSUME NEW c \in Callers, NEW price \in Prices, Answered(c, price) PROVE CapInv'
  <2> DEFINE entry == [call[c] EXCEPT !.step = "log", !.tries = 0, !.number = answered + 1, !.price = price]
  <2>1. /\ call[c].step = "request" /\ UNCHANGED <<time, events, doubted>>
        /\ call' = [call EXCEPT ![c] = entry]
    BY <1>7 DEF Answered
  <2>2. entry \in Calls /\ entry.step = "log" /\ entry.price = price /\ entry.over = call[c].over
    <3>1. call[c] \in Calls /\ answered + 1 \in Nat /\ 0 \in Nat /\ price \in Prices \cup {0} /\ "log" \in Steps
      BY <1>t DEF Steps
    <3> QED
      BY <3>1 DEF Calls
  <2>3. ~entry.over
    BY <1>t, <2>1, <2>2
  <2> HIDE DEF entry
  <2> QED
    BY <1>i, <1>7, <2>1, <2>2, <2>3, CapCallerStep
<1>8. ASSUME NEW c \in Callers, Record(c) \/ RecordFails(c) \/ RecordInDoubt(c) PROVE CapInv'
  <2>1. call[c].step = "log" /\ UNCHANGED time /\ call[c] \in Calls
    BY <1>t, <1>8 DEF Record, RecordFails, RecordInDoubt
  <2>2. CASE Record(c)
    <3> DEFINE entry == [call[c] EXCEPT !.step = "reflag", !.tries = 0]
    <3>1. /\ call' = [call EXCEPT ![c] = entry] /\ doubted' = doubted
          /\ events' = events \cup {Event(c, call[c].tries)}
      BY <2>2 DEF Record, GoTo
    <3>2. entry \in Calls /\ entry.step = "reflag" /\ entry.over = call[c].over
      BY <1>t DEF Calls, Steps
    <3> HIDE DEF entry
    <3> QED
      BY <1>i, <2>1, <3>1, <3>2, CapRecordStep
  <2>3. CASE RecordInDoubt(c)
    <3>1. doubted' = doubted + 1 /\ events' = events \cup {Event(c, call[c].tries)}
      BY <2>3 DEF RecordInDoubt
    <3>2. CASE Over(c)
      BY <1>i, <1>n, <2>1, <3>1, <3>2, CapRecordStep DEF Over
    <3>3. CASE call' = [call EXCEPT ![c].tries = @ + 1]
      <4> DEFINE entry == [call[c] EXCEPT !.tries = call[c].tries + 1]
      <4>1. call' = [call EXCEPT ![c] = entry]
        BY <3>3
      <4>2. /\ entry \in Calls /\ entry.step = "log" /\ entry.over = call[c].over
            /\ entry.price = call[c].price
        BY <2>1 DEF Calls
      <4> HIDE DEF entry
      <4> QED
        BY <1>i, <2>1, <3>1, <4>1, <4>2, CapRecordStep
    <3> QED
      BY <2>3, <3>2, <3>3 DEF RecordInDoubt
  <2>4. CASE RecordFails(c)
    BY <1>2, <1>3, <2>4 DEF RecordFails
  <2> QED
    BY <1>8, <2>2, <2>3, <2>4
<1> QED
  BY <1>4, <1>5, <1>6, <1>7, <1>8 DEF SpendNext

(* The cap is kept as far as checks before and records after a call can    *)
(* keep it, for any callers, cap, prices and retries: the spend of every   *)
(* window exceeds it by less than one call of each caller and what inserts *)
(* in doubt recorded twice, a call that came in over the cap and stayed    *)
(* over it is never sent, and no cost vanishes.                            *)
THEOREM CapIsKept == SpendSpec => []CostsKept
<1>1. SpendSpec => []CapInv
  BY CapStart, CapKeeps, PTL DEF SpendSpec
<1>2. ASSUME CapInv PROVE CapKept
  <2>1. /\ Cardinality(UnderWay) \in Nat /\ Cardinality(Callers) \in Nat
        /\ doubted \in Nat /\ Spend \in Nat
    <3>1. UnderWay \subseteq Callers
      BY DEF UnderWay
    <3> QED
      BY <1>2, <3>1, CallersCounted, SpendIsBill DEF CapInv
  <2>2. /\ Costs(Cardinality(UnderWay)) \in Nat
        /\ Costs(Cardinality(Callers) + doubted) \in Nat
    <3>1. Cardinality(Callers) + doubted \in Nat
      BY <2>1
    <3> QED
      BY <2>1, <3>1, CostsAdd
  <2>3. Spend + Costs(Cardinality(UnderWay)) < Cap + Costs(Cardinality(Callers) + doubted)
    BY <1>2 DEF CapInv, RoomLeft
  <2>4. Spend < Cap + Costs(Cardinality(Callers) + doubted)
    BY <2>1, <2>2, <2>3, SpendAssumption
  <2>5. OvershootBounded
    BY <2>4 DEF OvershootBounded, Costs, Dearest
  <2>6. NoRequestOverCap
    BY <1>2 DEF NoRequestOverCap, CapInv, OverIsKept
  <2> QED
    BY <2>5, <2>6 DEF CapKept
<1> QED
  BY <1>1, <1>2, NoCostVanishes, PTL DEF CostsKept

-----------------------------------------------------------------------------
(* The prompt gate.  The order of the cache matters to none of the         *)
(* properties: the invariants are about the set of its verdicts.           *)
CachedVerdicts ==
    [topic : Topics, at : Nat, scene : Scenes, selected : SUBSET Speakers,
     accounted : SUBSET Speakers, builders : SUBSET Speakers, planner : SUBSET Speakers]

FloorTypes ==
    /\ clock \in Nat \ {0}
    /\ decisions \in Seq(CachedVerdicts)
    /\ turns \in Nat /\ made \in Nat
    /\ taken \in [Speakers -> Nat] /\ lastTurn \in [Speakers -> Nat]
    /\ recent \in Seq(Speakers)
    /\ sceneTurns \in [Scenes -> SUBSET Speakers]
    /\ builds \in [Speakers -> Nat] /\ given \in [Speakers -> Nat]
    /\ plain \in BOOLEAN

(* A verdict selects one agent at most; a verdict waits until the agent it *)
(* selected has asked.                                                     *)
FitVerdict(v) ==
    /\ \E b \in Speakers : v.selected \subseteq {b}
    /\ v.accounted \subseteq v.selected /\ v.builders \subseteq v.selected
    /\ 1 <= v.at /\ v.at <= clock

Waits(v) == v.selected # v.accounted
Waiting(cache) == {v.topic : v \in {u \in Range(cache) : Waits(u)}}

OneEach(cache) == \A v, w \in Range(cache) : v.topic = w.topic => v = w

CacheFits == OneEach(decisions) /\ \A v \in Range(decisions) : FitVerdict(v)

(* Each turn goes to a waiting verdict.                                    *)
TurnsCounted ==
    /\ turns + Cardinality(Waiting(decisions)) <= made
    /\ turns = SumFunction(taken)
    /\ \A a \in Speakers : (taken[a] > 0 <=> lastTurn[a] > 0) /\ lastTurn[a] <= turns
    /\ \A a, b \in Speakers : lastTurn[a] = lastTurn[b] /\ lastTurn[a] > 0 => a = b

Heard == {a \in Speakers : taken[a] > 0}

RecentOnes ==
    /\ Len(recent) = IF turns > BlockTurns THEN BlockTurns + 1 ELSE turns
    /\ \A i \in 1..Len(recent) : recent[i] \in Heard

(* The build slots: a cached verdict outlives the slot it was made with    *)
(* only when the slot has expired, and so does an offer.                   *)
SlotLasts(b, at) == builds[b] >= at \/ clock >= at + BuildWindow

OfferLasts(a) ==
    given[a] # 0 =>
        \/ builds[a] # 0 /\ builds[a] + DecisionTtl >= given[a]
        \/ clock + DecisionTtl >= given[a] + BuildWindow

SlotsHeld ==
    /\ \A a \in Speakers : builds[a] <= clock
    /\ \A v \in Range(decisions) : \A b \in v.builders : SlotLasts(b, v.at)
    /\ \A a \in Speakers : OfferLasts(a)
    /\ Cardinality(ActiveBuilds) <= BuildCap

(* The plans of scenes: a scene has one owner at most, verdicts and offers *)
(* name that one, and none of them loses its plan.                         *)
PlansOwned ==
    /\ planOwner \in [Scenes -> SUBSET Speakers]
    /\ \A s \in Scenes : \A b, c \in planOwner[s] : b = c
    /\ \A v \in Range(decisions) : v.planner \subseteq planOwner[v.scene]
    /\ planned \subseteq Scenes \X Speakers
    /\ \A o \in planned : o[2] \in planOwner[o[1]]

(* The floor as long as it is plain: one verdict waits at most, and its    *)
(* agent may still take the turn, as nobody has spoken since.              *)
Everyone == Cardinality(Speakers)

MaySpeak(b, scene) ==
    /\ ~ConsecutiveBlocked(b)
    /\ WithinCap(scene, b)
    /\ turns >= Everyone /\ Heard # Speakers => b \notin Heard

HeardSoFar ==
    Everyone > 1 /\ Everyone > BlockTurns /\ turns >= Everyone =>
        Heard = Speakers \/ Cardinality(Heard) >= (turns - Everyone) + 2

PlainFloor ==
    plain =>
        /\ \A v, w \in Range(decisions) : Waits(v) /\ Waits(w) => v = w
        /\ \A v \in Range(decisions) :
              Waits(v) => \A b \in v.selected : MaySpeak(b, v.scene)
        /\ NoMonologue
        /\ HeardSoFar
        /\ SceneCapKept

DirectorInv ==
    /\ FloorTypes /\ CacheFits /\ TurnsCounted /\ RecentOnes /\ SlotsHeld /\ PlansOwned
    /\ PlainFloor

-----------------------------------------------------------------------------
(* What is left of the cache is part of it.                                *)
LEMMA OnlyElements ==
    ASSUME NEW S, NEW s \in Seq(S), NEW places
    PROVE  /\ Only(s, places) \in Seq(S)
           /\ Range(Only(s, places)) = {s[i] : i \in places \cap 1..Len(s)}
<1>1. Only(s, places) = Sifted(s, places)
  BY DEF Only, Sifted
<1> QED
  BY <1>1, SiftedElements

LEMMA Purged ==
    ASSUME FloorTypes
    PROVE  /\ Unexpired \in Seq(CachedVerdicts)
           /\ Range(Unexpired) = {v \in Range(decisions) : clock - v.at <= DecisionTtl}
<1> DEFINE I == {i \in DOMAIN decisions : clock - decisions[i].at <= DecisionTtl}
<1>1. decisions \in Seq(CachedVerdicts) /\ DOMAIN decisions = 1..Len(decisions)
  BY DEF FloorTypes
<1>2. Unexpired = Only(decisions, I)
  BY DEF Unexpired
<1>3. I \cap 1..Len(decisions) = I
  BY <1>1
<1>4. Range(decisions) = {decisions[i] : i \in DOMAIN decisions}
  BY DEF Range
<1>5. {decisions[i] : i \in I} = {v \in Range(decisions) : clock - v.at <= DecisionTtl}
  BY <1>4
<1> HIDE DEF I
<1> QED
  BY <1>1, <1>2, <1>3, <1>5, OnlyElements

LEMMA OthersLeft ==
    ASSUME FloorTypes, NEW topic
    PROVE  /\ Others(topic) \in Seq(CachedVerdicts)
           /\ Range(Others(topic)) = {v \in Range(Unexpired) : v.topic # topic}
<1> DEFINE s == Unexpired
           I == DOMAIN Unexpired \ CachedFor(topic)
<1>1. s \in Seq(CachedVerdicts) /\ DOMAIN s = 1..Len(s)
  BY Purged
<1>2. Others(topic) = Only(s, I)
  BY DEF Others
<1>3. I = {i \in DOMAIN s : s[i].topic # topic} /\ I \cap 1..Len(s) = I
  BY <1>1 DEF CachedFor
<1>4. Range(s) = {s[i] : i \in DOMAIN s}
  BY DEF Range
<1> HIDE DEF s, I
<1>5. {s[i] : i \in I} = {v \in Range(s) : v.topic # topic}
  BY <1>3, <1>4
<1>6. Only(s, I) \in Seq(CachedVerdicts) /\ Range(Only(s, I)) = {s[i] : i \in I}
  BY <1>1, <1>3, OnlyElements
<1> QED
  BY <1>2, <1>5, <1>6 DEF s

(* Whether the asking agent takes its turn by a verdict, and the verdict   *)
(* afterwards.                                                             *)
TakesTurn(a, v) == a \in v.selected \ v.accounted
After(a, v) == IF TakesTurn(a, v) THEN [v EXCEPT !.accounted = @ \cup {a}] ELSE v

LEMMA AfterIsVerdict ==
    ASSUME NEW a \in Speakers, NEW v \in CachedVerdicts
    PROVE  /\ After(a, v) \in CachedVerdicts
           /\ After(a, v).topic = v.topic /\ After(a, v).at = v.at
           /\ After(a, v).scene = v.scene /\ After(a, v).selected = v.selected
           /\ After(a, v).builders = v.builders /\ After(a, v).planner = v.planner
           /\ After(a, v).accounted = IF TakesTurn(a, v) THEN v.accounted \cup {a} ELSE v.accounted
BY DEF After, CachedVerdicts, TakesTurn

(* The cache after an answer: the verdict, and unexpired verdicts about    *)
(* other events.                                                           *)
LEMMA CacheAfter ==
    ASSUME FloorTypes, NEW a \in Speakers, NEW v \in CachedVerdicts, Answers(a, v)
    PROVE  /\ decisions' \in Seq(CachedVerdicts)
           /\ \A u \in Range(decisions') :
                 u = After(a, v) \/ (u \in Range(Unexpired) /\ u.topic # v.topic)
<1> DEFINE w == After(a, v)
           o == Others(v.topic)
           long == Append(o, w)
<1>1. w \in CachedVerdicts
  BY AfterIsVerdict
<1>2. o \in Seq(CachedVerdicts) /\ Range(o) = {u \in Range(Unexpired) : u.topic # v.topic}
  BY OthersLeft
<1>3. decisions' = Evicted(long)
  BY DEF Answers, After, TakesTurn
<1> HIDE DEF w, o
<1>4. long \in Seq(CachedVerdicts) /\ long # <<>>
  BY <1>1, <1>2
<1>5. Range(long) = Range(o) \cup {w}
  <2>1. Len(long) = Len(o) + 1 /\ Len(o) \in Nat /\ DOMAIN long = 1..Len(long) /\ DOMAIN o = 1..Len(o)
    BY <1>1, <1>2
  <2>2. long[Len(o) + 1] = w /\ \A i \in 1..Len(o) : long[i] = o[i]
    BY <1>1, <1>2
  <2> HIDE DEF long
  <2>3. 1..(Len(o) + 1) = 1..Len(o) \cup {Len(o) + 1}
    BY <2>1
  <2> QED
    BY <2>1, <2>2, <2>3 DEF Range
<1> HIDE DEF long
<1>6. Evicted(long) \in Seq(CachedVerdicts) /\ \A u \in Range(Evicted(long)) : u \in Range(long)
  <2>1. CASE Len(long) > MaxCached
    <3>1. Evicted(long) = Tail(long)
      BY <2>1 DEF Evicted
    <3>2. Tail(long) \in Seq(CachedVerdicts) /\ Len(Tail(long)) = Len(long) - 1
             /\ Len(long) \in Nat \ {0} /\ DOMAIN Tail(long) = 1..(Len(long) - 1)
             /\ DOMAIN long = 1..Len(long)
      BY <1>4
    <3>3. \A i \in 1..(Len(long) - 1) : Tail(long)[i] = long[i + 1] /\ i + 1 \in 1..Len(long)
      BY <1>4, <3>2
    <3> QED
      BY <3>1, <3>2, <3>3 DEF Range
  <2>2. CASE ~(Len(long) > MaxCached)
    BY <1>4, <2>2 DEF Evicted
  <2> QED
    BY <2>1, <2>2
<1> QED
  BY <1>2, <1>3, <1>5, <1>6 DEF w

(* The turn an answer gives, or the absence of one.                        *)
LEMMA TurnOrNot ==
    ASSUME NEW a \in Speakers, NEW v, Answers(a, v)
    PROVE  IF TakesTurn(a, v)
           THEN /\ turns' = turns + 1
                /\ taken' = [taken EXCEPT ![a] = @ + 1]
                /\ lastTurn' = [lastTurn EXCEPT ![a] = turns + 1]
                /\ recent' = Append(IF Len(recent) > BlockTurns THEN Tail(recent) ELSE recent, a)
                /\ sceneTurns' = [sceneTurns EXCEPT ![v.scene] = @ \cup {a}]
           ELSE UNCHANGED <<turns, taken, lastTurn, recent, sceneTurns>>
BY DEF Answers, TakesTurn

LEMMA FloorTypesAfter ==
    ASSUME FloorTypes, NEW a \in Speakers, NEW v \in CachedVerdicts, Answers(a, v),
           UNCHANGED clock, made' \in Nat, builds' \in [Speakers -> Nat], plain' \in BOOLEAN
    PROVE  FloorTypes'
<1>1. decisions' \in Seq(CachedVerdicts)
  BY CacheAfter
<1>2. given' \in [Speakers -> Nat]
  BY DEF Answers, FloorTypes
<1>3. v.scene \in Scenes
  BY DEF CachedVerdicts
<1>4. CASE TakesTurn(a, v)
  <2>0. /\ turns' = turns + 1
        /\ taken' = [taken EXCEPT ![a] = @ + 1]
        /\ lastTurn' = [lastTurn EXCEPT ![a] = turns + 1]
        /\ sceneTurns' = [sceneTurns EXCEPT ![v.scene] = @ \cup {a}]
    BY <1>4, TurnOrNot
  <2>1. turns' \in Nat /\ taken' \in [Speakers -> Nat] /\ lastTurn' \in [Speakers -> Nat]
    BY <2>0 DEF FloorTypes
  <2>2. sceneTurns' \in [Scenes -> SUBSET Speakers]
    <3>1. sceneTurns \in [Scenes -> SUBSET Speakers]
      BY DEF FloorTypes
    <3> QED
      BY <1>3, <2>0, <3>1
  <2>3. recent' \in Seq(Speakers)
    <3> DEFINE r == IF Len(recent) > BlockTurns THEN Tail(recent) ELSE recent
    <3>1. r \in Seq(Speakers)
      BY DirectorAssumption DEF FloorTypes
    <3>2. recent' = Append(r, a)
      BY <1>4, TurnOrNot
    <3> HIDE DEF r
    <3> QED
      BY <3>1, <3>2
  <2> QED
    BY <1>1, <1>2, <2>1, <2>2, <2>3 DEF FloorTypes
<1>5. CASE ~TakesTurn(a, v)
  BY <1>1, <1>2, <1>5, TurnOrNot DEF FloorTypes
<1> QED
  BY <1>4, <1>5

LEMMA AfterFits ==
    ASSUME NEW a \in Speakers, NEW v \in CachedVerdicts, FitVerdict(v)
    PROVE  FitVerdict(After(a, v)) /\ (TakesTurn(a, v) => ~Waits(After(a, v)))
<1>1. PICK b \in Speakers : v.selected \subseteq {b}
  BY DEF FitVerdict
<1> DEFINE w == After(a, v)
<1>2. /\ w.at = v.at /\ w.selected = v.selected /\ w.builders = v.builders
      /\ w.accounted = IF TakesTurn(a, v) THEN v.accounted \cup {a} ELSE v.accounted
  BY AfterIsVerdict
<1> HIDE DEF w
<1>3. v.accounted \subseteq v.selected /\ v.builders \subseteq v.selected
         /\ 1 <= v.at /\ v.at <= clock
  BY DEF FitVerdict
<1>4. w.accounted \subseteq w.selected
  BY <1>2, <1>3 DEF TakesTurn
<1>5. FitVerdict(w)
  BY <1>1, <1>2, <1>3, <1>4 DEF FitVerdict
<1>6. TakesTurn(a, v) => w.accounted = w.selected
  BY <1>1, <1>2, <1>3 DEF TakesTurn
<1> QED
  BY <1>5, <1>6 DEF w, Waits

LEMMA CacheFitsAfter ==
    ASSUME FloorTypes, CacheFits, NEW a \in Speakers, NEW v \in CachedVerdicts, FitVerdict(v),
           Answers(a, v), UNCHANGED clock
    PROVE  CacheFits'
<1>1. \A u \in Range(decisions') :
         u = After(a, v) \/ (u \in Range(Unexpired) /\ u.topic # v.topic)
  BY CacheAfter
<1>2. \A u \in Range(Unexpired) : u \in Range(decisions)
  BY Purged
<1>3. After(a, v).topic = v.topic /\ FitVerdict(After(a, v))
  BY AfterIsVerdict, AfterFits
<1>4. OneEach(decisions')
  BY <1>1, <1>2, <1>3 DEF CacheFits, OneEach
<1>5. \A u \in Range(decisions') : FitVerdict(u)
  BY <1>1, <1>2, <1>3 DEF CacheFits
<1>6. \A u \in Range(decisions') : FitVerdict(u)'
  BY <1>5 DEF FitVerdict
<1> QED
  BY <1>4, <1>6 DEF CacheFits, OneEach

LEMMA WaitingIsFinite ==
    ASSUME NEW cache \in Seq(CachedVerdicts)
    PROVE  IsFiniteSet(Waiting(cache)) /\ Cardinality(Waiting(cache)) \in Nat
<1> DEFINE topics == [i \in 1..Len(cache) |-> cache[i].topic]
<1>1. IsFiniteSet(1..Len(cache))
  BY FS_Interval
<1>2. IsFiniteSet({topics[i] : i \in 1..Len(cache)})
  <2> DEFINE T == {topics[i] : i \in 1..Len(cache)}
  <2>1. topics \in Surjection(1..Len(cache), T)
    BY DEF Surjection
  <2> HIDE DEF topics, T
  <2>2. IsFiniteSet(T)
    BY <1>1, <2>1, FS_Surjection
  <2> QED
    BY <2>2 DEF T
<1>3. Waiting(cache) \subseteq {topics[i] : i \in 1..Len(cache)}
  <2>1. Range(cache) = {cache[i] : i \in 1..Len(cache)}
    BY DEF Range
  <2> QED
    BY <2>1 DEF Waiting
<1> QED
  BY <1>2, <1>3, FS_Subset, FS_CardinalityType

(* The counts of the agents add up after a turn as before it.              *)
LEMMA CountsAfter ==
    ASSUME FloorTypes, TurnsCounted, NEW a \in Speakers, NEW v \in CachedVerdicts, Answers(a, v)
    PROVE  /\ turns' = SumFunction(taken')
           /\ \A b \in Speakers : (taken'[b] > 0 <=> lastTurn'[b] > 0) /\ lastTurn'[b] <= turns'
           /\ \A b, c \in Speakers : lastTurn'[b] = lastTurn'[c] /\ lastTurn'[b] > 0 => b = c
<1>1. CASE ~TakesTurn(a, v)
  BY <1>1, TurnOrNot DEF TurnsCounted
<1>2. CASE TakesTurn(a, v)
  <2>1. /\ turns' = turns + 1
        /\ taken' = [taken EXCEPT ![a] = @ + 1]
        /\ lastTurn' = [lastTurn EXCEPT ![a] = turns + 1]
    BY <1>2, TurnOrNot
  <2>2. /\ taken \in [Speakers -> Nat] /\ lastTurn \in [Speakers -> Nat] /\ turns \in Nat
        /\ taken' \in [Speakers -> Nat]
    BY <2>1 DEF FloorTypes
  <2>3. SumFunction(taken) = SumFunctionOnSet(taken, Speakers)
           /\ SumFunction(taken') = SumFunctionOnSet(taken', Speakers)
    BY <2>2 DEF SumFunction
  <2>4. SumFunctionOnSet(taken', Speakers)
           = SumFunctionOnSet(taken, Speakers) + (taken'[a] - taken[a])
    <3>1. \A b \in Speakers : taken[b] \in Int /\ taken'[b] \in Int
      BY <2>2
    <3>2. \A b \in Speakers \ {a} : taken[b] = taken'[b]
      BY <2>1, <2>2
    <3> DEFINE f == taken
               g == taken'
    <3>3. IsFiniteSet(Speakers) /\ \A b \in Speakers : f[b] \in Int /\ g[b] \in Int
      BY <3>1, DirectorAssumption
    <3>4. \A b \in Speakers \ {a} : f[b] = g[b]
      BY <3>2
    <3> HIDE DEF f, g
    <3>5. SumFunctionOnSet(g, Speakers) = SumFunctionOnSet(f, Speakers) + (g[a] - f[a])
      BY <3>3, <3>4, SumChangeOne
    <3> QED
      BY <3>5 DEF f, g
  <2>5. taken'[a] - taken[a] = 1
    BY <2>1, <2>2
  <2>6. turns = SumFunction(taken)
    BY DEF TurnsCounted
  <2>7. turns' = SumFunction(taken')
    BY <2>1, <2>2, <2>3, <2>4, <2>5, <2>6
  <2>8. /\ taken'[a] = taken[a] + 1 /\ lastTurn'[a] = turns + 1
        /\ \A b \in Speakers \ {a} : taken'[b] = taken[b] /\ lastTurn'[b] = lastTurn[b]
    BY <2>1, <2>2
  <2>9. \A b \in Speakers : (taken[b] > 0 <=> lastTurn[b] > 0) /\ lastTurn[b] <= turns
    BY DEF TurnsCounted
  <2>10. \A b, c \in Speakers : lastTurn[b] = lastTurn[c] /\ lastTurn[b] > 0 => b = c
    BY DEF TurnsCounted
  <2>11. \A b \in Speakers : (taken'[b] > 0 <=> lastTurn'[b] > 0) /\ lastTurn'[b] <= turns'
    <3> TAKE b \in Speakers
    <3>1. CASE b = a
      BY <2>1, <2>2, <2>8, <3>1
    <3>2. CASE b # a
      BY <2>1, <2>2, <2>8, <2>9, <3>2
    <3> QED
      BY <3>1, <3>2
  <2>12. \A b \in Speakers \ {a} : lastTurn'[b] <= turns /\ lastTurn'[b] # turns + 1
    BY <2>2, <2>8, <2>9
  <2>13. \A b, c \in Speakers : lastTurn'[b] = lastTurn'[c] /\ lastTurn'[b] > 0 => b = c
    BY <2>8, <2>10, <2>12
  <2> QED
    BY <2>7, <2>11, <2>13
<1> QED
  BY <1>1, <1>2

LEMMA TurnsCountedAgain ==
    ASSUME FloorTypes, CacheFits, TurnsCounted, NEW a \in Speakers,
           NEW v \in Range(Unexpired), Answers(a, v), UNCHANGED made
    PROVE  TurnsCounted'
<1>1. v \in Range(decisions) /\ v \in CachedVerdicts
  BY Purged DEF Range
<1>2. FitVerdict(v)
  BY <1>1 DEF CacheFits
<1> DEFINE now == Waiting(decisions)
           next == Waiting(decisions')
<1>3. \A u \in Range(decisions') :
         u = After(a, v) \/ (u \in Range(decisions) /\ u.topic # v.topic)
  BY <1>1, CacheAfter, Purged
<1>4. IsFiniteSet(now) /\ Cardinality(now) \in Nat
         /\ IsFiniteSet(next) /\ Cardinality(next) \in Nat
  BY <1>1, CacheAfter, WaitingIsFinite DEF FloorTypes
<1>5. turns + Cardinality(now) <= made /\ turns \in Nat /\ made \in Nat
  BY DEF TurnsCounted, FloorTypes
<1>6. turns' + Cardinality(next) <= made
  <2>1. CASE TakesTurn(a, v)
    <3>1. Waits(v)
      BY <2>1 DEF TakesTurn, Waits
    <3>2. v.topic \in now
      BY <1>1, <3>1 DEF Waiting
    <3>3. next \subseteq now \ {v.topic}
      BY <1>1, <1>2, <1>3, <2>1, AfterFits DEF Waiting
    <3> HIDE DEF now, next
    <3>4. IsFiniteSet(now \ {v.topic}) /\ Cardinality(now \ {v.topic}) = Cardinality(now) - 1
      BY <1>4, <3>2, FS_RemoveElement
    <3>5. Cardinality(next) <= Cardinality(now \ {v.topic})
      BY <3>3, <3>4, FS_Subset
    <3>6. turns' = turns + 1
      BY <2>1, TurnOrNot
    <3> QED
      BY <1>4, <1>5, <3>4, <3>5, <3>6
  <2>2. CASE ~TakesTurn(a, v)
    <3>1. After(a, v) = v
      BY <2>2 DEF After
    <3>2. next \subseteq now
      BY <1>1, <1>3, <3>1 DEF Waiting
    <3> HIDE DEF now, next
    <3>3. Cardinality(next) <= Cardinality(now)
      BY <1>4, <3>2, FS_Subset
    <3>4. turns' = turns
      BY <2>2, TurnOrNot
    <3> QED
      BY <1>4, <1>5, <3>3, <3>4
  <2> QED
    BY <2>1, <2>2
<1>7. turns' + Cardinality(Waiting(decisions')) <= made'
  BY <1>6
<1> QED
  BY <1>1, <1>7, CountsAfter DEF TurnsCounted

LEMMA TurnsCountedFirst ==
    ASSUME FloorTypes, TurnsCounted, NEW a \in Speakers,
           NEW v \in CachedVerdicts, FitVerdict(v), v.accounted = {},
           Answers(a, v), made' = made + 1
    PROVE  TurnsCounted'
<1> DEFINE now == Waiting(decisions)
           next == Waiting(decisions')
<1>1. \A u \in Range(decisions') : u = After(a, v) \/ u \in Range(decisions)
  BY CacheAfter, Purged
<1>2. IsFiniteSet(now) /\ Cardinality(now) \in Nat
         /\ IsFiniteSet(next) /\ Cardinality(next) \in Nat
  BY CacheAfter, WaitingIsFinite DEF FloorTypes
<1>3. turns + Cardinality(now) <= made /\ turns \in Nat /\ made \in Nat
  BY DEF TurnsCounted, FloorTypes
<1>4. turns' + Cardinality(next) <= made + 1
  <2>1. CASE TakesTurn(a, v)
    <3>1. next \subseteq now
      BY <1>1, <2>1, AfterFits DEF Waiting
    <3> HIDE DEF now, next
    <3>2. Cardinality(next) <= Cardinality(now)
      BY <1>2, <3>1, FS_Subset
    <3>3. turns' = turns + 1
      BY <2>1, TurnOrNot
    <3> QED
      BY <1>2, <1>3, <3>2, <3>3
  <2>2. CASE ~TakesTurn(a, v)
    <3>1. next \subseteq now \cup {v.topic}
      BY <1>1, AfterIsVerdict DEF Waiting
    <3> HIDE DEF now, next
    <3>2. IsFiniteSet(now \cup {v.topic})
             /\ Cardinality(now \cup {v.topic}) <= Cardinality(now) + 1
             /\ Cardinality(now \cup {v.topic}) \in Nat
      <4>1. /\ IsFiniteSet(now \cup {v.topic})
            /\ Cardinality(now \cup {v.topic})
                  = IF v.topic \in now THEN Cardinality(now) ELSE Cardinality(now) + 1
        BY <1>2, FS_AddElement
      <4> QED
        BY <1>2, <4>1
    <3>3. Cardinality(next) <= Cardinality(now \cup {v.topic})
      BY <3>1, <3>2, FS_Subset
    <3>4. turns' = turns
      BY <2>2, TurnOrNot
    <3> QED
      BY <1>2, <1>3, <3>2, <3>3, <3>4
  <2> QED
    BY <2>1, <2>2
<1>5. turns' + Cardinality(Waiting(decisions')) <= made'
  BY <1>4
<1> QED
  BY <1>5, CountsAfter DEF TurnsCounted

-----------------------------------------------------------------------------
(* The recent speakers: the last ones before, and the new one.             *)
LEMMA RecentStep ==
    ASSUME FloorTypes, RecentOnes, NEW a \in Speakers,
           recent' = Append(IF Len(recent) > BlockTurns THEN Tail(recent) ELSE recent, a)
    PROVE  LET gone == IF turns > BlockTurns THEN 1 ELSE 0
               rest == IF turns > BlockTurns THEN BlockTurns ELSE turns
           IN  /\ Len(recent) = gone + rest /\ Len(recent') = rest + 1
               /\ recent'[rest + 1] = a
               /\ \A i \in 1..rest : recent'[i] = recent[gone + i]
<1> DEFINE r == IF Len(recent) > BlockTurns THEN Tail(recent) ELSE recent
           gone == IF turns > BlockTurns THEN 1 ELSE 0
           rest == IF turns > BlockTurns THEN BlockTurns ELSE turns
<1>1. recent \in Seq(Speakers) /\ turns \in Nat /\ BlockTurns \in Nat \ {0}
  BY DirectorAssumption DEF FloorTypes
<1>2. Len(recent) = gone + rest /\ (Len(recent) > BlockTurns <=> turns > BlockTurns)
  BY <1>1 DEF RecentOnes
<1>3. r \in Seq(Speakers) /\ Len(r) = rest /\ \A i \in 1..rest : r[i] = recent[gone + i]
  <2>1. CASE turns > BlockTurns
    <3>1. r = Tail(recent) /\ gone = 1 /\ rest = BlockTurns /\ recent # <<>>
      BY <1>1, <1>2, <2>1
    <3> HIDE DEF r, gone, rest
    <3>2. Tail(recent) \in Seq(Speakers) /\ Len(Tail(recent)) = Len(recent) - 1
             /\ \A i \in 1..(Len(recent) - 1) : Tail(recent)[i] = recent[i + 1]
      BY <1>1, <3>1
    <3> QED
      BY <1>1, <1>2, <3>1, <3>2
  <2>2. CASE ~(turns > BlockTurns)
    <3>1. r = recent /\ gone = 0 /\ rest = turns
      BY <1>2, <2>2
    <3> HIDE DEF r, gone, rest
    <3> QED
      BY <1>1, <1>2, <3>1
  <2> QED
    BY <2>1, <2>2
<1>4. recent' = Append(r, a)
  OBVIOUS
<1> HIDE DEF r, gone, rest
<1>5. Len(recent') = rest + 1 /\ recent'[rest + 1] = a /\ \A i \in 1..rest : recent'[i] = r[i]
  BY <1>3, <1>4
<1>6. \A i \in 1..rest : recent'[i] = recent[gone + i]
  BY <1>3, <1>5
<1> QED
  BY <1>2, <1>5, <1>6 DEF gone, rest

LEMMA HeardAfter ==
    ASSUME FloorTypes, NEW a \in Speakers, taken' = [taken EXCEPT ![a] = @ + 1]
    PROVE  Heard' = Heard \cup {a}
<1>1. taken \in [Speakers -> Nat]
  BY DEF FloorTypes
<1>2. taken'[a] > 0 /\ \A b \in Speakers \ {a} : taken'[b] = taken[b]
  BY <1>1
<1> QED
  BY <1>2 DEF Heard

LEMMA RecentAfter ==
    ASSUME FloorTypes, RecentOnes, NEW a \in Speakers, NEW v \in CachedVerdicts, Answers(a, v)
    PROVE  RecentOnes'
<1>1. CASE ~TakesTurn(a, v)
  BY <1>1, TurnOrNot DEF RecentOnes, Heard
<1>2. CASE TakesTurn(a, v)
  <2> DEFINE gone == IF turns > BlockTurns THEN 1 ELSE 0
             rest == IF turns > BlockTurns THEN BlockTurns ELSE turns
  <2>1. /\ turns' = turns + 1
        /\ taken' = [taken EXCEPT ![a] = @ + 1]
        /\ recent' = Append(IF Len(recent) > BlockTurns THEN Tail(recent) ELSE recent, a)
    BY <1>2, TurnOrNot
  <2>2. /\ Len(recent) = gone + rest /\ Len(recent') = rest + 1
        /\ recent'[rest + 1] = a
        /\ \A i \in 1..rest : recent'[i] = recent[gone + i]
    BY <2>1, RecentStep
  <2>3. turns \in Nat /\ BlockTurns \in Nat \ {0} /\ gone \in Nat /\ rest \in Nat
    BY DirectorAssumption DEF FloorTypes
  <2>4. Len(recent') = IF turns' > BlockTurns THEN BlockTurns + 1 ELSE turns'
    BY <2>1, <2>2, <2>3
  <2> HIDE DEF gone, rest
  <2>5. Heard' = Heard \cup {a}
    BY <2>1, HeardAfter
  <2>6. \A i \in 1..rest : gone + i \in 1..Len(recent)
    BY <2>2, <2>3
  <2>7. \A i \in 1..rest : recent'[i] \in Heard
    BY <2>2, <2>6 DEF RecentOnes
  <2>8. \A i \in 1..Len(recent') : i \in 1..rest \/ i = rest + 1
    BY <2>2, <2>3
  <2>9. \A i \in 1..Len(recent') : recent'[i] \in Heard'
    BY <2>2, <2>5, <2>7, <2>8
  <2> QED
    BY <2>4, <2>9 DEF RecentOnes
<1> QED
  BY <1>1, <1>2

-----------------------------------------------------------------------------
(* The build slots.                                                        *)
LEMMA ActiveIsFinite ==
    IsFiniteSet(ActiveBuilds) /\ Cardinality(ActiveBuilds) \in Nat
<1>1. ActiveBuilds \subseteq Speakers
  BY DEF ActiveBuilds
<1> QED
  BY <1>1, DirectorAssumption, FS_Subset, FS_CardinalityType

LEMMA SlotsAgain ==
    ASSUME FloorTypes, CacheFits, SlotsHeld, NEW a \in Speakers,
           NEW v \in Range(Unexpired), Answers(a, v), UNCHANGED <<clock, builds>>
    PROVE  SlotsHeld'
<1>1. v \in Range(decisions) /\ v \in CachedVerdicts /\ clock - v.at <= DecisionTtl
  BY Purged DEF Range
<1>2. \A u \in Range(decisions') : u = After(a, v) \/ u \in Range(decisions)
  BY <1>1, CacheAfter, Purged
<1>3. After(a, v).builders = v.builders /\ After(a, v).at = v.at
  BY <1>1, AfterIsVerdict
<1>4. \A u \in Range(decisions) : \A b \in u.builders : SlotLasts(b, u.at)
  BY DEF SlotsHeld
<1>5. \A u \in Range(decisions') : \A b \in u.builders : SlotLasts(b, u.at)
  BY <1>1, <1>2, <1>3, <1>4
<1>6. \A u \in Range(decisions') : \A b \in u.builders : SlotLasts(b, u.at)'
  BY <1>5 DEF SlotLasts
<1>7. /\ clock \in Nat /\ DecisionTtl \in Nat /\ BuildWindow \in Nat /\ v.at \in Nat
      /\ 1 <= v.at /\ builds \in [Speakers -> Nat] /\ given \in [Speakers -> Nat]
  BY <1>1, DirectorAssumption DEF FloorTypes, CacheFits, FitVerdict, CachedVerdicts
<1>8. ASSUME NEW c \in Speakers PROVE OfferLasts(c)'
  <2>1. OfferLasts(c)
    BY DEF SlotsHeld
  <2>2. CASE c = a /\ a \in v.builders
    <3>1. given'[c] = clock
      BY <1>7, <2>2 DEF Answers
    <3>2. SlotLasts(c, v.at)
      BY <1>1, <1>4, <2>2
    <3>3. builds[c] >= v.at \/ clock >= v.at + BuildWindow
      BY <3>2 DEF SlotLasts
    <3>4. builds[c] \in Nat
      BY <1>7
    <3>5. \/ builds[c] # 0 /\ builds[c] + DecisionTtl >= clock
          \/ clock + DecisionTtl >= clock + BuildWindow
      BY <1>1, <1>7, <3>3, <3>4
    <3> QED
      BY <3>1, <3>5 DEF OfferLasts
  <2>3. CASE ~(c = a /\ a \in v.builders)
    <3>1. given'[c] = given[c]
      BY <1>7, <2>3 DEF Answers
    <3> QED
      BY <2>1, <3>1 DEF OfferLasts
  <2> QED
    BY <2>2, <2>3
<1>9. ActiveBuilds' = ActiveBuilds
  BY DEF ActiveBuilds
<1> QED
  BY <1>6, <1>8, <1>9 DEF SlotsHeld

(* select_emergent_build_owners for the selected agents with claims.       *)
Granted(builders, holders) ==
    builds' = [b \in Speakers |->
          IF b \in builders THEN clock
          ELSE IF holders # {} /\ b \notin ActiveBuilds THEN 0 ELSE builds[b]]

LEMMA SlotsGranted ==
    ASSUME FloorTypes, SlotsHeld, NEW holders, NEW b0 \in Speakers, holders \subseteq {b0},
           Granted({b \in holders : MayBuild(b)}, holders), UNCHANGED clock
    PROVE  /\ builds' \in [Speakers -> Nat] /\ \A b \in Speakers : builds'[b] <= clock'
           /\ Cardinality(ActiveBuilds') <= BuildCap
<1> DEFINE builders == {b \in holders : MayBuild(b)}
<1>1. clock \in Nat /\ builds \in [Speakers -> Nat] /\ BuildCap \in Nat
  BY DirectorAssumption DEF FloorTypes
<1>2. \A b \in Speakers :
         builds'[b] = IF b \in builders THEN clock
                      ELSE IF holders # {} /\ b \notin ActiveBuilds THEN 0 ELSE builds[b]
  BY DEF Granted
<1>3. builds' \in [Speakers -> Nat]
  BY <1>1 DEF Granted
<1>4. \A b \in Speakers : builds[b] <= clock
  BY DEF SlotsHeld
<1>5. \A b \in Speakers : builds'[b] <= clock'
  BY <1>1, <1>2, <1>4
<1>6. ActiveBuilds' \subseteq ActiveBuilds \cup builders
  <2> HIDE DEF builders
  <2>1. \A b \in ActiveBuilds' : b \in Speakers /\ builds'[b] # 0 /\ clock - builds'[b] < BuildWindow
    BY DEF ActiveBuilds
  <2>2. ASSUME NEW b \in ActiveBuilds', b \notin builders PROVE b \in ActiveBuilds
    BY <1>2, <2>1, <2>2 DEF ActiveBuilds
  <2> QED
    BY <2>2
<1>7. IsFiniteSet(ActiveBuilds) /\ Cardinality(ActiveBuilds) \in Nat
         /\ Cardinality(ActiveBuilds) <= BuildCap
  BY ActiveIsFinite DEF SlotsHeld
<1>8. CASE b0 \in builders /\ b0 \notin ActiveBuilds
  <2>1. Cardinality(ActiveBuilds) < BuildCap
    BY <1>8 DEF MayBuild
  <2>2. ActiveBuilds' \subseteq ActiveBuilds \cup {b0}
    BY <1>6
  <2>3. IsFiniteSet(ActiveBuilds \cup {b0})
           /\ Cardinality(ActiveBuilds \cup {b0}) = Cardinality(ActiveBuilds) + 1
    BY <1>7, <1>8, FS_AddElement
  <2>4. IsFiniteSet(ActiveBuilds') /\ Cardinality(ActiveBuilds') <= Cardinality(ActiveBuilds \cup {b0})
    BY <2>2, <2>3, FS_Subset
  <2>5. Cardinality(ActiveBuilds') \in Nat
    BY <2>4, FS_CardinalityType
  <2>6. Cardinality(ActiveBuilds') <= BuildCap
    BY <1>1, <1>7, <2>1, <2>3, <2>4, <2>5
  <2> QED
    BY <1>3, <1>5, <2>6
<1>9. CASE ~(b0 \in builders /\ b0 \notin ActiveBuilds)
  <2>1. ActiveBuilds' \subseteq ActiveBuilds
    BY <1>6, <1>9
  <2>2. IsFiniteSet(ActiveBuilds') /\ Cardinality(ActiveBuilds') <= Cardinality(ActiveBuilds)
    BY <1>7, <2>1, FS_Subset
  <2>3. Cardinality(ActiveBuilds') \in Nat
    BY <2>2, FS_CardinalityType
  <2>4. Cardinality(ActiveBuilds') <= BuildCap
    BY <1>1, <1>7, <2>2, <2>3
  <2> QED
    BY <1>3, <1>5, <2>4
<1> QED
  BY <1>8, <1>9

LEMMA SlotsFirst ==
    ASSUME FloorTypes, CacheFits, SlotsHeld, NEW a \in Speakers,
           NEW v \in CachedVerdicts, FitVerdict(v), v.at = clock, Answers(a, v),
           NEW holders, holders \subseteq v.selected, v.builders = {b \in holders : MayBuild(b)},
           Granted(v.builders, holders), UNCHANGED clock
    PROVE  SlotsHeld'
<1>1. /\ clock \in Nat /\ 1 <= clock /\ DecisionTtl \in Nat /\ BuildWindow \in Nat
      /\ builds \in [Speakers -> Nat] /\ given \in [Speakers -> Nat]
  BY DirectorAssumption DEF FloorTypes
<1>2. PICK b0 \in Speakers : v.selected \subseteq {b0}
  BY DEF FitVerdict
<1>3. /\ builds' \in [Speakers -> Nat] /\ \A b \in Speakers : builds'[b] <= clock'
      /\ Cardinality(ActiveBuilds') <= BuildCap
  BY <1>2, SlotsGranted
<1>4. \A b \in Speakers :
         builds'[b] = IF b \in v.builders THEN clock
                      ELSE IF holders # {} /\ b \notin ActiveBuilds THEN 0 ELSE builds[b]
  BY DEF Granted
<1>5. \A b \in Speakers : b \notin ActiveBuilds => builds[b] = 0 \/ clock >= builds[b] + BuildWindow
  BY <1>1 DEF ActiveBuilds
<1>6. \A b \in Speakers : builds[b] <= clock
  BY DEF SlotsHeld
<1>7. v.builders \subseteq Speakers
  BY DEF CachedVerdicts
<1>8. ASSUME NEW b \in Speakers, NEW at \in Nat, 1 <= at, at <= clock, SlotLasts(b, at)
      PROVE  SlotLasts(b, at)'
  <2>1. builds[b] \in Nat /\ builds'[b] \in Nat
    BY <1>1, <1>3
  <2>2. builds'[b] >= at \/ clock >= at + BuildWindow
    BY <1>1, <1>4, <1>5, <1>8, <2>1 DEF SlotLasts
  <2> QED
    BY <2>2 DEF SlotLasts
<1>9. ASSUME NEW u \in Range(decisions'), NEW b \in u.builders PROVE SlotLasts(b, u.at)'
  <2>1. u = After(a, v) \/ u \in Range(decisions)
    BY CacheAfter, Purged
  <2>2. CASE u = After(a, v)
    <3>1. u.builders = v.builders /\ u.at = clock
      BY <2>2, AfterIsVerdict
    <3>2. builds'[b] = clock
      BY <1>4, <1>7, <1>9, <3>1
    <3> QED
      BY <1>1, <3>1, <3>2 DEF SlotLasts
  <2>3. CASE u \in Range(decisions)
    <3>1. u \in CachedVerdicts
      BY <2>3 DEF FloorTypes, Range
    <3>2. u.at \in Nat /\ b \in Speakers
      BY <1>9, <3>1 DEF CachedVerdicts
    <3>3. 1 <= u.at /\ u.at <= clock /\ SlotLasts(b, u.at)
      BY <1>9, <2>3 DEF CacheFits, FitVerdict, SlotsHeld
    <3> QED
      BY <1>8, <3>2, <3>3
  <2> QED
    BY <2>1, <2>2, <2>3
<1>10. ASSUME NEW c \in Speakers PROVE OfferLasts(c)'
  <2>1. OfferLasts(c) /\ builds[c] \in Nat /\ given[c] \in Nat /\ builds[c] <= clock
    BY <1>1, <1>6 DEF SlotsHeld
  <2>2. CASE c = a /\ a \in v.builders
    <3>1. given'[c] = clock /\ builds'[c] = clock
      BY <1>1, <1>4, <2>2 DEF Answers
    <3> QED
      BY <1>1, <3>1 DEF OfferLasts
  <2>3. CASE ~(c = a /\ a \in v.builders)
    <3>1. given'[c] = given[c]
      BY <1>1, <2>3 DEF Answers
    <3>2. given[c] # 0 =>
             \/ builds[c] # 0 /\ builds[c] + DecisionTtl >= given[c]
             \/ clock + DecisionTtl >= given[c] + BuildWindow
      BY <2>1 DEF OfferLasts
    <3>3. builds'[c] = clock \/ builds'[c] = builds[c]
             \/ (builds'[c] = 0 /\ (builds[c] = 0 \/ clock >= builds[c] + BuildWindow))
      BY <1>4, <1>5
    <3>4. given[c] # 0 =>
             \/ builds'[c] # 0 /\ builds'[c] + DecisionTtl >= given[c]
             \/ clock + DecisionTtl >= given[c] + BuildWindow
      BY <1>1, <2>1, <3>2, <3>3
    <3> QED
      BY <3>1, <3>4 DEF OfferLasts
  <2> QED
    BY <2>2, <2>3
<1> QED
  BY <1>3, <1>9, <1>10 DEF SlotsHeld

(* The clock advances.                                                     *)
LEMMA SlotsTick ==
    ASSUME FloorTypes, CacheFits, SlotsHeld, clock' = clock + 1,
           UNCHANGED <<decisions, builds, given>>
    PROVE  SlotsHeld'
<1>1. /\ clock \in Nat /\ DecisionTtl \in Nat /\ BuildWindow \in Nat /\ BuildCap \in Nat
      /\ builds \in [Speakers -> Nat] /\ given \in [Speakers -> Nat]
  BY DirectorAssumption DEF FloorTypes
<1>2. ASSUME NEW u \in Range(decisions), NEW b \in u.builders PROVE SlotLasts(b, u.at)'
  <2>1. SlotLasts(b, u.at)
    BY <1>2 DEF SlotsHeld
  <2>2. u \in CachedVerdicts
    BY DEF FloorTypes, Range
  <2>3. u.at \in Nat
    BY <2>2 DEF CachedVerdicts
  <2> QED
    BY <1>1, <2>1, <2>3 DEF SlotLasts
<1>3. ASSUME NEW c \in Speakers PROVE OfferLasts(c)'
  <2>1. OfferLasts(c) /\ builds[c] \in Nat /\ given[c] \in Nat
    BY <1>1 DEF SlotsHeld
  <2> QED
    BY <1>1, <2>1 DEF OfferLasts
<1>4. ActiveBuilds' \subseteq ActiveBuilds
  BY <1>1 DEF ActiveBuilds
<1>5. Cardinality(ActiveBuilds') <= BuildCap
  <2>1. IsFiniteSet(ActiveBuilds) /\ Cardinality(ActiveBuilds) \in Nat
           /\ Cardinality(ActiveBuilds) <= BuildCap
    BY ActiveIsFinite DEF SlotsHeld
  <2>2. IsFiniteSet(ActiveBuilds') /\ Cardinality(ActiveBuilds') <= Cardinality(ActiveBuilds)
    BY <1>4, <2>1, FS_Subset
  <2>3. Cardinality(ActiveBuilds') \in Nat
    BY <2>2, FS_CardinalityType
  <2> QED
    BY <1>1, <2>1, <2>2, <2>3
<1>6. \A c \in Speakers : builds'[c] <= clock'
  BY <1>1 DEF SlotsHeld
<1> QED
  BY <1>2, <1>3, <1>5, <1>6 DEF SlotsHeld

(* An answer, with or without a plan that goes to the one owner of a scene. *)
LEMMA PlansAfter ==
    ASSUME FloorTypes, PlansOwned, NEW a \in Speakers, NEW v \in CachedVerdicts, Answers(a, v),
           planOwner' \in [Scenes -> SUBSET Speakers],
           \A s \in Scenes : planOwner[s] \subseteq planOwner'[s],
           \A s \in Scenes : \A b, c \in planOwner'[s] : b = c,
           v.planner \subseteq planOwner'[v.scene]
    PROVE  PlansOwned'
<1>1. ASSUME NEW u \in Range(decisions') PROVE u.planner \subseteq planOwner'[u.scene]
  <2>1. u = After(a, v) \/ u \in Range(decisions)
    BY CacheAfter, Purged
  <2>2. CASE u = After(a, v)
    <3>1. u.planner = v.planner /\ u.scene = v.scene
      BY <2>2, AfterIsVerdict
    <3> QED
      BY <3>1
  <2>3. CASE u \in Range(decisions)
    <3>1. u \in CachedVerdicts
      BY <2>3 DEF FloorTypes, Range
    <3>2. u.scene \in Scenes /\ u.planner \subseteq planOwner[u.scene]
      BY <2>3, <3>1 DEF CachedVerdicts, PlansOwned
    <3> QED
      BY <3>2
  <2> QED
    BY <2>1, <2>2, <2>3
<1>2. planned' = planned \/ (planned' = planned \cup {<<v.scene, a>>} /\ a \in v.planner)
  BY DEF Answers
<1>3. v.scene \in Scenes
  BY DEF CachedVerdicts
<1>4. planned' \subseteq Scenes \X Speakers
  BY <1>2, <1>3 DEF PlansOwned
<1>5. ASSUME NEW o \in planned' PROVE o[2] \in planOwner'[o[1]]
  <2>1. CASE o \in planned
    <3>1. o[1] \in Scenes /\ o[2] \in planOwner[o[1]]
      BY <2>1 DEF PlansOwned
    <3> QED
      BY <3>1
  <2>2. CASE o = <<v.scene, a>> /\ a \in v.planner
    BY <2>2
  <2> QED
    BY <1>2, <2>1, <2>2
<1> QED
  BY <1>1, <1>4, <1>5 DEF PlansOwned

-----------------------------------------------------------------------------
(* Turns in a plain floor.                                                 *)
LEMMA HeardIsFinite ==
    IsFiniteSet(Heard) /\ Cardinality(Heard) \in Nat /\ Cardinality(Speakers) \in Nat
<1>1. Heard \subseteq Speakers
  BY DEF Heard
<1> QED
  BY <1>1, DirectorAssumption, FS_Subset, FS_CardinalityType

(* The last speakers, one by one.                                          *)
LEMMA BlockedMeans ==
    ASSUME FloorTypes, NEW a \in Speakers
    PROVE  ConsecutiveBlocked(a) <=>
              /\ Len(recent) >= BlockTurns
              /\ \A i \in 1..BlockTurns : recent[(Len(recent) - BlockTurns) + i] = a
<1>1. recent \in Seq(Speakers) /\ Len(recent) \in Nat /\ BlockTurns \in Nat \ {0}
  BY DirectorAssumption DEF FloorTypes
<1>2. CASE Len(recent) >= BlockTurns
  <2> DEFINE from == Len(recent) - BlockTurns + 1
  <2>1. from \in 1..Len(recent) /\ Len(recent) - from + 1 = BlockTurns
    BY <1>1, <1>2
  <2> HIDE DEF from
  <2>2. \A i \in 1..BlockTurns : SubSeq(recent, from, Len(recent))[i] = recent[from + i - 1]
    BY <1>1, <2>1
  <2>3. \A i \in 1..BlockTurns : from + i - 1 = (Len(recent) - BlockTurns) + i
    BY <1>1 DEF from
  <2>4. \A i \in 1..BlockTurns :
           LastSpeakers(BlockTurns)[i] = recent[(Len(recent) - BlockTurns) + i]
    BY <2>2, <2>3 DEF LastSpeakers, from
  <2> QED
    BY <1>2, <2>4 DEF ConsecutiveBlocked
<1>3. CASE ~(Len(recent) >= BlockTurns)
  BY <1>3 DEF ConsecutiveBlocked
<1> QED
  BY <1>2, <1>3

LEMMA NoMonologueAfter ==
    ASSUME FloorTypes, RecentOnes, NEW a \in Speakers, ~ConsecutiveBlocked(a),
           recent' = Append(IF Len(recent) > BlockTurns THEN Tail(recent) ELSE recent, a),
           Len(recent') > BlockTurns, DOMAIN recent' = 1..Len(recent')
    PROVE  \E i \in DOMAIN recent' : recent'[i] # recent'[1]
<1> SUFFICES ASSUME \A i \in DOMAIN recent' : recent'[i] = recent'[1] PROVE FALSE
  OBVIOUS
<1> DEFINE gone == IF turns > BlockTurns THEN 1 ELSE 0
           rest == IF turns > BlockTurns THEN BlockTurns ELSE turns
<1>1. /\ Len(recent) = gone + rest /\ Len(recent') = rest + 1
      /\ recent'[rest + 1] = a
      /\ \A i \in 1..rest : recent'[i] = recent[gone + i]
  BY RecentStep
<1>2. turns \in Nat /\ BlockTurns \in Nat \ {0} /\ gone \in Nat /\ rest \in Nat /\ rest <= BlockTurns
  <2>1. turns \in Nat /\ BlockTurns \in Nat \ {0}
    BY DirectorAssumption DEF FloorTypes
  <2>2. gone \in Nat
    BY <2>1
  <2>3. rest \in Nat /\ rest <= BlockTurns
    BY <2>1
  <2> QED
    BY <2>1, <2>2, <2>3
<1> HIDE DEF gone, rest
<1>3. rest = BlockTurns
  BY <1>1, <1>2
<1>4. DOMAIN recent' = 1..(BlockTurns + 1)
  BY <1>1, <1>3
<1>5. \A i \in 1..(BlockTurns + 1) : recent'[i] = a
  <2>1. BlockTurns + 1 \in 1..(BlockTurns + 1)
    BY <1>2
  <2>2. recent'[BlockTurns + 1] = recent'[1]
    BY <1>4, <2>1
  <2> QED
    BY <1>1, <1>3, <1>4, <2>2
<1>6. \A i \in 1..BlockTurns : recent[(Len(recent) - BlockTurns) + i] = a
  <2>1. Len(recent) - BlockTurns = gone
    BY <1>1, <1>2, <1>3
  <2>2. \A i \in 1..BlockTurns : i \in 1..(BlockTurns + 1)
    BY <1>2
  <2> QED
    BY <1>1, <1>3, <1>5, <2>1, <2>2
<1>7. Len(recent) >= BlockTurns
  BY <1>1, <1>2, <1>3
<1> QED
  BY <1>6, <1>7, BlockedMeans

LEMMA TwoElements ==
    ASSUME NEW x, NEW y, x # y
    PROVE  IsFiniteSet({x} \cup {y}) /\ Cardinality({x} \cup {y}) = 2
<1>1. IsFiniteSet({x}) /\ Cardinality({x}) = 1 /\ y \notin {x}
  BY FS_Singleton
<1>2. IsFiniteSet({x} \cup {y}) /\ Cardinality({x} \cup {y}) = Cardinality({x}) + 1
  BY <1>1, FS_AddElement
<1>3. Cardinality({x}) + 1 = 2
  BY <1>1
<1> QED
  BY <1>2, <1>3

LEMMA HeardSoFarAfter ==
    ASSUME FloorTypes, RecentOnes, RecentOnes', HeardSoFar, NEW a \in Speakers,
           turns' = turns + 1, taken' = [taken EXCEPT ![a] = @ + 1],
           turns >= Everyone /\ Heard # Speakers => a \notin Heard,
           Len(recent') > BlockTurns => \E i \in DOMAIN recent' : recent'[i] # recent'[1],
           DOMAIN recent' = 1..Len(recent')
    PROVE  HeardSoFar'
<1>1. /\ turns \in Nat /\ BlockTurns \in Nat \ {0} /\ Everyone \in Nat
      /\ IsFiniteSet(Heard) /\ Cardinality(Heard) \in Nat
  BY HeardIsFinite, DirectorAssumption DEF FloorTypes, Everyone
<1>2. Heard' = Heard \cup {a}
  BY HeardAfter
<1>3. Cardinality(Heard') = IF a \in Heard THEN Cardinality(Heard) ELSE Cardinality(Heard) + 1
  BY <1>1, <1>2, FS_AddElement
<1> SUFFICES ASSUME Everyone > 1, Everyone > BlockTurns, turns + 1 >= Everyone, Heard' # Speakers
             PROVE  Cardinality(Heard') >= ((turns + 1) - Everyone) + 2
  BY DEF HeardSoFar, Everyone
<1>4. Heard # Speakers
  BY <1>2
<1>5. CASE turns >= Everyone
  <2>1. a \notin Heard
    BY <1>4, <1>5
  <2>2. Cardinality(Heard) >= (turns - Everyone) + 2
    BY <1>4, <1>5 DEF HeardSoFar
  <2>3. Cardinality(Heard') = Cardinality(Heard) + 1
    BY <1>3, <2>1
  <2> HIDE DEF Everyone
  <2> QED
    BY <1>1, <2>2, <2>3
<1>6. CASE turns + 1 = Everyone
  <2>1. turns' > BlockTurns
    BY <1>1, <1>6
  <2>2. Len(recent') = BlockTurns + 1
    BY <2>1 DEF RecentOnes
  <2>3. PICK i \in 1..(BlockTurns + 1) : recent'[i] # recent'[1]
    BY <1>1, <2>2
  <2>4. 1 \in 1..(BlockTurns + 1)
    BY <1>1
  <2>5. recent'[i] \in Heard' /\ recent'[1] \in Heard'
    BY <2>2, <2>3, <2>4 DEF RecentOnes
  <2> DEFINE x == recent'[i]
             y == recent'[1]
             H == Heard'
  <2>6. x \in H /\ y \in H /\ x # y
    BY <2>3, <2>5
  <2>7. IsFiniteSet(H)
    BY <1>1, <1>2, FS_AddElement
  <2> HIDE DEF x, y, H
  <2>8. IsFiniteSet({x} \cup {y}) /\ Cardinality({x} \cup {y}) = 2
    BY <2>6, TwoElements
  <2>9. Cardinality({x} \cup {y}) <= Cardinality(H)
    BY <2>6, <2>7, FS_Subset
  <2>10. Cardinality(Heard') >= 2
    BY <2>8, <2>9 DEF H
  <2>11. (turns + 1) - Everyone = 0
    BY <1>1, <1>6
  <2> QED
    BY <2>10, <2>11
<1> HIDE DEF Everyone
<1> QED
  BY <1>1, <1>5, <1>6

LEMMA SceneCapAfter ==
    ASSUME FloorTypes, NEW a \in Speakers, NEW scene \in Scenes, WithinCap(scene, a),
           \A s \in Scenes : Cardinality(sceneTurns[s]) <= SceneCap,
           sceneTurns' = [sceneTurns EXCEPT ![scene] = @ \cup {a}]
    PROVE  \A s \in Scenes : Cardinality(sceneTurns'[s]) <= SceneCap
<1>1. sceneTurns \in [Scenes -> SUBSET Speakers]
  BY DEF FloorTypes
<1> TAKE s \in Scenes
<1>2. CASE s # scene
  BY <1>1, <1>2
<1>3. CASE s = scene
  <2> DEFINE had == sceneTurns[s]
  <2>1. sceneTurns'[s] = had \cup {a} /\ Cardinality(had) <= SceneCap
    BY <1>1, <1>3
  <2>2. IsFiniteSet(had)
    BY <1>1, DirectorAssumption, FS_Subset
  <2>3. a \in had \/ Cardinality(had) < SceneCap
    BY <1>3 DEF WithinCap
  <2> HIDE DEF had
  <2>4. Cardinality(had) \in Nat /\ SceneCap \in Nat
    BY <2>2, FS_CardinalityType, DirectorAssumption
  <2>5. Cardinality(had \cup {a}) = IF a \in had THEN Cardinality(had) ELSE Cardinality(had) + 1
    BY <2>2, FS_AddElement
  <2>6. Cardinality(had \cup {a}) <= SceneCap
    BY <2>1, <2>3, <2>4, <2>5
  <2> QED
    BY <2>1, <2>6
<1> QED
  BY <1>2, <1>3

(* What holds of the floor however the cache looks.                        *)
FloorSoFar == NoMonologue /\ HeardSoFar /\ SceneCapKept

LEMMA FloorAfter ==
    ASSUME FloorTypes, FloorTypes', RecentOnes, RecentOnes', plain, FloorSoFar,
           NEW a \in Speakers, NEW v \in CachedVerdicts, Answers(a, v),
           \A b \in v.selected : MaySpeak(b, v.scene)
    PROVE  FloorSoFar'
<1>1. CASE ~TakesTurn(a, v)
  <2>1. UNCHANGED <<turns, taken, recent, sceneTurns>>
    BY <1>1, TurnOrNot
  <2>2. HeardSoFar'
    BY <2>1 DEF FloorSoFar, HeardSoFar, Heard, Everyone
  <2>3. NoMonologue' /\ SceneCapKept'
    BY <2>1 DEF FloorSoFar, NoMonologue, SceneCapKept
  <2> QED
    BY <2>2, <2>3 DEF FloorSoFar
<1>2. CASE TakesTurn(a, v)
  <2>1. /\ turns' = turns + 1
        /\ taken' = [taken EXCEPT ![a] = @ + 1]
        /\ recent' = Append(IF Len(recent) > BlockTurns THEN Tail(recent) ELSE recent, a)
        /\ sceneTurns' = [sceneTurns EXCEPT ![v.scene] = @ \cup {a}]
    BY <1>2, TurnOrNot
  <2>2. MaySpeak(a, v.scene)
    BY <1>2 DEF TakesTurn
  <2>3. ~ConsecutiveBlocked(a) /\ WithinCap(v.scene, a)
           /\ (turns >= Everyone /\ Heard # Speakers => a \notin Heard)
    BY <2>2 DEF MaySpeak
  <2>4. DOMAIN recent' = 1..Len(recent')
    BY DEF FloorTypes
  <2>5. Len(recent') > BlockTurns => \E i \in DOMAIN recent' : recent'[i] # recent'[1]
    BY <2>1, <2>3, <2>4, NoMonologueAfter
  <2>6. HeardSoFar'
    BY <2>1, <2>3, <2>4, <2>5, HeardSoFarAfter DEF FloorSoFar
  <2>7. v.scene \in Scenes
    BY DEF CachedVerdicts
  <2>8. \A s \in Scenes : Cardinality(sceneTurns'[s]) <= SceneCap
    BY <2>1, <2>3, <2>7, SceneCapAfter DEF FloorSoFar, SceneCapKept
  <2> QED
    BY <2>5, <2>6, <2>8 DEF FloorSoFar, NoMonologue, SceneCapKept
<1> QED
  BY <1>1, <1>2

(* Nobody spoke: whoever may take the turn still may.                      *)
LEMMA MaySpeakStill ==
    ASSUME UNCHANGED <<turns, taken, recent, sceneTurns>>, NEW b, NEW scene, MaySpeak(b, scene)
    PROVE  MaySpeak(b, scene)'
BY DEF MaySpeak, ConsecutiveBlocked, LastSpeakers, WithinCap, Heard, Everyone

LEMMA PlainAgain ==
    ASSUME FloorTypes, FloorTypes', CacheFits, RecentOnes, RecentOnes', PlainFloor,
           NEW a \in Speakers, NEW v \in Range(Unexpired), Answers(a, v), UNCHANGED plain
    PROVE  PlainFloor'
<1> SUFFICES ASSUME plain PROVE PlainFloor'
  BY DEF PlainFloor
<1>1. v \in Range(decisions) /\ v \in CachedVerdicts
  BY Purged DEF Range
<1>2. \A u \in Range(decisions') :
         u = After(a, v) \/ (u \in Range(decisions) /\ u.topic # v.topic)
  BY <1>1, CacheAfter, Purged
<1>3. /\ \A u, w \in Range(decisions) : Waits(u) /\ Waits(w) => u = w
      /\ \A u \in Range(decisions) : Waits(u) => \A b \in u.selected : MaySpeak(b, u.scene)
      /\ FloorSoFar
  BY DEF PlainFloor, FloorSoFar
<1>4. FitVerdict(v)
  BY <1>1 DEF CacheFits
<1>5. CASE ~TakesTurn(a, v)
  <2>1. After(a, v) = v
    BY <1>5 DEF After
  <2>2. \A u \in Range(decisions') : u \in Range(decisions)
    BY <1>1, <1>2, <2>1
  <2>3. UNCHANGED <<turns, taken, recent, sceneTurns>>
    BY <1>5, TurnOrNot
  <2>4. FloorSoFar'
    <3>1. HeardSoFar'
      BY <1>3, <2>3 DEF FloorSoFar, HeardSoFar, Heard, Everyone
    <3>2. NoMonologue' /\ SceneCapKept'
      BY <1>3, <2>3 DEF FloorSoFar, NoMonologue, SceneCapKept
    <3> QED
      BY <3>1, <3>2 DEF FloorSoFar
  <2>5. \A u \in Range(decisions') : Waits(u) => \A b \in u.selected : MaySpeak(b, u.scene)'
    BY <1>3, <2>2, <2>3, MaySpeakStill
  <2>6. \A u, w \in Range(decisions') : Waits(u) /\ Waits(w) => u = w
    BY <1>3, <2>2
  <2> QED
    BY <2>4, <2>5, <2>6 DEF PlainFloor, FloorSoFar, Waits
<1>6. CASE TakesTurn(a, v)
  <2>1. Waits(v)
    BY <1>6 DEF TakesTurn, Waits
  <2>2. FloorSoFar'
    BY <1>1, <1>3, <2>1, FloorAfter
  <2>3. ~Waits(After(a, v))
    BY <1>1, <1>4, <1>6, AfterFits
  <2>4. \A u \in Range(decisions') : ~Waits(u)
    BY <1>1, <1>2, <1>3, <2>1, <2>3
  <2> QED
    BY <2>2, <2>4 DEF PlainFloor, FloorSoFar, Waits
<1> QED
  BY <1>5, <1>6

LEMMA PlainFirst ==
    ASSUME FloorTypes, FloorTypes', CacheFits, RecentOnes, RecentOnes', PlainFloor,
           NEW a \in Speakers, NEW v \in CachedVerdicts, FitVerdict(v), Answers(a, v),
           plain' => /\ plain /\ ~Pending(Unexpired)
                     /\ \A b \in v.selected : MaySpeak(b, v.scene)
    PROVE  PlainFloor'
<1> SUFFICES ASSUME plain' PROVE PlainFloor'
  BY DEF PlainFloor
<1>1. plain /\ ~Pending(Unexpired) /\ \A b \in v.selected : MaySpeak(b, v.scene)
  OBVIOUS
<1>2. \A u \in Range(Unexpired) : ~Waits(u)
  BY <1>1 DEF Pending, Waits, Range
<1>3. \A u \in Range(decisions') : u = After(a, v) \/ ~Waits(u)
  BY <1>2, CacheAfter
<1>4. FloorSoFar'
  BY <1>1, FloorAfter DEF PlainFloor, FloorSoFar
<1>5. \A u, w \in Range(decisions') : Waits(u) /\ Waits(w) => u = w
  BY <1>3
<1>6. \A u \in Range(decisions') : Waits(u) => \A b \in u.selected : MaySpeak(b, u.scene)'
  <2>1. CASE TakesTurn(a, v)
    BY <1>3, <2>1, AfterFits
  <2>2. CASE ~TakesTurn(a, v)
    <3>1. After(a, v) = v
      BY <2>2 DEF After
    <3>2. UNCHANGED <<turns, taken, recent, sceneTurns>>
      BY <2>2, TurnOrNot
    <3> QED
      BY <1>1, <1>3, <3>1, <3>2, MaySpeakStill
  <2> QED
    BY <2>1, <2>2
<1> QED
  BY <1>4, <1>5, <1>6 DEF PlainFloor, FloorSoFar, Waits

(* The starvation rule: as soon as there were as many turns as agents, an  *)
(* agent that has not been heard goes first.                               *)
LEMMA SelectedMaySpeak ==
    ASSUME FloorTypes, RecentOnes, NEW topic \in Topics, NEW present \in Audiences,
           NEW b \in Selectable(topic, present)
    PROVE  /\ b \in Speakers /\ ~ConsecutiveBlocked(b)
           /\ Kind(topic) # "danger" /\ ~OneAddressed(topic, present)
                 /\ Eligible(topic, present) = Speakers /\ turns >= Everyone /\ Heard # Speakers
              => b \notin Heard
<1> DEFINE eligible == Eligible(topic, present)
           free == Free(topic, present)
           starved == {c \in free : Starved(c, Cardinality(eligible))}
<1>1. eligible \subseteq Speakers
  BY DirectorAssumption DEF Eligible
<1>2. b \in free
  BY DEF Selectable
<1>3. b \in Speakers /\ ~ConsecutiveBlocked(b)
  BY <1>1, <1>2 DEF Free
<1>4. ASSUME Kind(topic) # "danger", ~OneAddressed(topic, present),
             eligible = Speakers, turns >= Everyone, Heard # Speakers
      PROVE  b \notin Heard
  <2>1. PICK c \in Speakers : c \notin Heard
    BY <1>4 DEF Heard
  <2>2. taken \in [Speakers -> Nat] /\ turns \in Nat /\ BlockTurns \in Nat \ {0}
           /\ recent \in Seq(Speakers) /\ Len(recent) \in Nat
    BY DirectorAssumption DEF FloorTypes
  <2>3. taken[c] = 0
    BY <2>1, <2>2 DEF Heard
  <2>4. ~ConsecutiveBlocked(c)
    <3> SUFFICES ASSUME ConsecutiveBlocked(c) PROVE FALSE
      OBVIOUS
    <3>1. /\ Len(recent) >= BlockTurns
          /\ \A i \in 1..BlockTurns : recent[(Len(recent) - BlockTurns) + i] = c
      BY BlockedMeans
    <3>2. BlockTurns \in 1..BlockTurns /\ (Len(recent) - BlockTurns) + BlockTurns = Len(recent)
             /\ Len(recent) \in 1..Len(recent)
      BY <2>2, <3>1
    <3>3. recent[Len(recent)] = c
      BY <3>1, <3>2
    <3>4. recent[Len(recent)] \in Heard
      BY <3>2 DEF RecentOnes
    <3> QED
      BY <2>1, <3>3, <3>4
  <2>5. c \in free
    BY <1>4, <2>1, <2>4 DEF Free
  <2>6. Everyone \in Nat /\ Everyone # 0
    BY <2>1, DirectorAssumption, FS_CardinalityType, FS_EmptySet DEF Everyone
  <2>7. Max({turns, Everyone}) = turns
    <3> DEFINE top == CHOOSE x \in {turns, Everyone} : \A y \in {turns, Everyone} : x >= y
    <3>1. \A y \in {turns, Everyone} : turns >= y
      BY <1>4, <2>2, <2>6
    <3>2. top \in {turns, Everyone} /\ \A y \in {turns, Everyone} : top >= y
      BY <3>1
    <3> HIDE DEF top
    <3>3. top = turns
      BY <1>4, <2>2, <2>6, <3>2
    <3> QED
      BY <3>3 DEF Max, top
  <2>8. Starved(c, Everyone)
    <3>1. Everyone * taken[c] = 0
      BY <2>3, <2>6
    <3>2. turns > 0 /\ turns >= Everyone * taken[c]
      BY <1>4, <2>2, <2>6, <3>1
    <3>3. turns - Everyone * taken[c] = turns
      BY <2>2, <3>1
    <3>4. 100 * turns >= 95 * turns
      BY <2>2
    <3> HIDE DEF Everyone
    <3> QED
      BY <2>7, <3>2, <3>3, <3>4 DEF Starved
  <2>9. c \in starved
    BY <1>4, <2>5, <2>8 DEF Everyone
  <2>10. Selectable(topic, present) = {d \in starved : \A e \in starved : taken[d] <= taken[e]}
    BY <1>4, <2>9 DEF Selectable
  <2>11. taken[b] <= taken[c]
    BY <2>9, <2>10
  <2>12. ~(taken[b] > 0)
    BY <1>3, <2>2, <2>3, <2>11
  <2> QED
    BY <2>12 DEF Heard
<1> QED
  BY <1>3, <1>4

-----------------------------------------------------------------------------
LEMMA DirectorStart == DirectorInit => DirectorInv
<1> SUFFICES ASSUME DirectorInit PROVE DirectorInv
  OBVIOUS
<1>1. FloorTypes
  BY DEF DirectorInit, FloorTypes
<1>2. Range(decisions) = {}
  BY DEF DirectorInit, Range
<1>3. CacheFits
  BY <1>2 DEF CacheFits, OneEach
<1>4. TurnsCounted
  <2>1. Waiting(decisions) = {}
    BY <1>2 DEF Waiting
  <2>2. turns + Cardinality(Waiting(decisions)) <= made
    <3>1. Cardinality({}) = 0
      BY FS_EmptySet
    <3>2. turns = 0 /\ made = 0
      BY DEF DirectorInit
    <3> QED
      BY <2>1, <3>1, <3>2
  <2> DEFINE f == [a \in Speakers |-> 0]
  <2>3. DOMAIN f = Speakers /\ \A x \in Speakers : f[x] = 0
    OBVIOUS
  <2>4. SumFunctionOnSet(f, Speakers) = 0
    <3> HIDE DEF f
    <3> QED
      BY <2>3, SumOfZeros, DirectorAssumption
  <2>5. taken = f /\ lastTurn = f /\ turns = 0
    BY DEF DirectorInit
  <2> HIDE DEF f
  <2>6. turns = SumFunction(taken)
    BY <2>3, <2>4, <2>5 DEF SumFunction
  <2>7. \A a \in Speakers : taken[a] = 0 /\ lastTurn[a] = 0
    BY <2>3, <2>5
  <2> QED
    BY <2>2, <2>5, <2>6, <2>7 DEF TurnsCounted
<1>5. RecentOnes
  BY DirectorAssumption DEF DirectorInit, RecentOnes
<1>6. SlotsHeld
  <2>1. ActiveBuilds = {}
    BY DEF DirectorInit, ActiveBuilds
  <2>2. Cardinality(ActiveBuilds) <= BuildCap
    BY <2>1, FS_EmptySet, DirectorAssumption
  <2> QED
    BY <1>2, <2>2 DEF DirectorInit, SlotsHeld, OfferLasts
<1>7. PlainFloor
  <2>1. \A s \in Scenes : sceneTurns[s] = {}
    BY DEF DirectorInit
  <2>2. SceneCapKept
    <3>1. \A s \in Scenes : Cardinality(sceneTurns[s]) = 0
      BY <2>1, FS_EmptySet
    <3>2. SceneCap \in Nat /\ 0 <= SceneCap
      BY DirectorAssumption
    <3> QED
      BY <3>1, <3>2 DEF SceneCapKept
  <2>3. HeardSoFar
    BY HeardIsFinite DEF HeardSoFar, DirectorInit, Everyone
  <2>4. NoMonologue
    BY DirectorAssumption DEF NoMonologue, DirectorInit
  <2> QED
    BY <1>2, <2>2, <2>3, <2>4 DEF PlainFloor
<1>8. PlansOwned
  BY <1>2 DEF DirectorInit, PlansOwned
<1> QED
  BY <1>1, <1>3, <1>4, <1>5, <1>6, <1>7, <1>8 DEF DirectorInv

(* A question about an event that has a verdict.                           *)
LEMMA AskedAgain ==
    ASSUME DirectorInv, NEW a \in Speakers, NEW topic \in Topics, AskAgain(a, topic)
    PROVE  DirectorInv'
<1>1. PICK i \in CachedFor(topic) : Answers(a, Unexpired[i])
  BY DEF AskAgain
<1> DEFINE v == Unexpired[i]
<1>2. v \in Range(Unexpired) /\ Answers(a, v)
  BY <1>1 DEF CachedFor, Range
<1>3. UNCHANGED <<clock, builds, planOwner, made, plain>>
  BY DEF AskAgain
<1> HIDE DEF v
<1>4. FloorTypes /\ CacheFits /\ TurnsCounted /\ RecentOnes /\ SlotsHeld /\ PlansOwned /\ PlainFloor
  BY DEF DirectorInv
<1>5. v \in Range(decisions) /\ v \in CachedVerdicts
  BY <1>2, <1>4, Purged DEF Range
<1>6. FitVerdict(v)
  BY <1>4, <1>5 DEF CacheFits
<1>7. FloorTypes'
  <2>1. made' \in Nat /\ builds' \in [Speakers -> Nat] /\ plain' \in BOOLEAN /\ clock' = clock
    BY <1>3, <1>4 DEF FloorTypes
  <2> QED
    BY <1>2, <1>4, <1>5, <2>1, FloorTypesAfter
<1>8. CacheFits'
  BY <1>2, <1>3, <1>4, <1>5, <1>6, CacheFitsAfter
<1>9. TurnsCounted'
  BY <1>2, <1>3, <1>4, TurnsCountedAgain
<1>10. RecentOnes'
  BY <1>2, <1>4, <1>5, RecentAfter
<1>11. SlotsHeld'
  BY <1>2, <1>3, <1>4, SlotsAgain
<1>12. PlainFloor'
  BY <1>2, <1>3, <1>4, <1>7, <1>10, PlainAgain
<1>13. PlansOwned'
  <2>1. v.scene \in Scenes /\ v.planner \subseteq planOwner[v.scene]
    BY <1>4, <1>5 DEF PlansOwned, CachedVerdicts
  <2>2. /\ planOwner \in [Scenes -> SUBSET Speakers]
        /\ \A s \in Scenes : \A b, c \in planOwner[s] : b = c
    BY <1>4 DEF PlansOwned
  <2> QED
    BY <1>2, <1>3, <1>4, <1>5, <2>1, <2>2, PlansAfter
<1> QED
  BY <1>7, <1>8, <1>9, <1>10, <1>11, <1>12, <1>13 DEF DirectorInv

(* A verdict is made.                                                      *)
LEMMA Decided ==
    ASSUME DirectorInv, NEW a \in Speakers, NEW topic \in Topics, NEW scene \in Scenes,
           NEW b0 \in Speakers, NEW selected, selected \subseteq {b0},
           NEW planner, planner \subseteq selected, planner # {} => planOwner[scene] = {},
           NEW ordinary \in BOOLEAN,
           ordinary => \A b \in selected : MaySpeak(b, scene),
           Decide(a, topic, scene, selected, planner, ordinary)
    PROVE  DirectorInv'
<1>1. PICK claimants \in ClaimSets :
         LET holders == selected \cap claimants
             builders == {b \in holders : MayBuild(b)}
         IN  /\ made' = made + 1
             /\ builds' = [b \in Speakers |->
                   IF b \in builders THEN clock
                   ELSE IF holders # {} /\ b \notin ActiveBuilds THEN 0 ELSE builds[b]]
             /\ planOwner' = [planOwner EXCEPT ![scene] = @ \cup planner]
             /\ plain' = (plain /\ ordinary /\ ~Pending(Unexpired))
             /\ Answers(a, Verdict(topic, scene, selected, builders, planner))
             /\ UNCHANGED clock
  BY DEF Decide
<1> DEFINE holders == selected \cap claimants
           builders == {b \in holders : MayBuild(b)}
           v == Verdict(topic, scene, selected, builders, planner)
<1>2. FloorTypes /\ CacheFits /\ TurnsCounted /\ RecentOnes /\ SlotsHeld /\ PlansOwned /\ PlainFloor
  BY DEF DirectorInv
<1>3. /\ v.topic = topic /\ v.at = clock /\ v.scene = scene /\ v.selected = selected
      /\ v.accounted = {} /\ v.builders = builders /\ v.planner = planner
  BY DEF Verdict
<1>4. clock \in Nat /\ 1 <= clock
  BY <1>2 DEF FloorTypes
<1>5. v \in CachedVerdicts
  <2>1. selected \in SUBSET Speakers /\ builders \in SUBSET Speakers /\ planner \in SUBSET Speakers
    OBVIOUS
  <2> HIDE DEF builders
  <2> QED
    BY <1>4, <2>1 DEF Verdict, CachedVerdicts
<1>6. /\ holders \subseteq v.selected /\ v.builders = {b \in holders : MayBuild(b)}
      /\ v.builders \subseteq v.selected
  BY <1>3
<1>7. FitVerdict(v)
  <2> HIDE DEF v, builders, holders
  <2> QED
    BY <1>3, <1>4, <1>6 DEF FitVerdict
<1>8. Granted(v.builders, holders)
  BY <1>1, <1>3 DEF Granted
<1>9. made' = made + 1 /\ Answers(a, v) /\ clock' = clock
         /\ plain' = (plain /\ ordinary /\ ~Pending(Unexpired))
         /\ planOwner' = [planOwner EXCEPT ![scene] = @ \cup planner]
  BY <1>1
<1> HIDE DEF v, builders, holders
<1>10. plain' \in BOOLEAN /\ (plain' => plain /\ ordinary /\ ~Pending(Unexpired))
  BY <1>9
<1>11. builds' \in [Speakers -> Nat]
  BY <1>2, <1>4, <1>8 DEF Granted, FloorTypes
<1>12. FloorTypes'
  <2>1. made' \in Nat
    BY <1>2, <1>9 DEF FloorTypes
  <2> QED
    BY <1>2, <1>5, <1>9, <1>10, <1>11, <2>1, FloorTypesAfter
<1>13. CacheFits'
  BY <1>2, <1>5, <1>7, <1>9, CacheFitsAfter
<1>14. TurnsCounted'
  BY <1>2, <1>3, <1>5, <1>7, <1>9, TurnsCountedFirst
<1>15. RecentOnes'
  BY <1>2, <1>5, <1>9, RecentAfter
<1>16. SlotsHeld'
  BY <1>2, <1>3, <1>5, <1>6, <1>7, <1>8, <1>9, SlotsFirst
<1>17. PlainFloor'
  <2>1. plain' => /\ plain /\ ~Pending(Unexpired)
                  /\ \A b \in v.selected : MaySpeak(b, v.scene)
    BY <1>3, <1>10
  <2> QED
    BY <1>2, <1>5, <1>7, <1>9, <1>12, <1>15, <2>1, PlainFirst
<1>18. PlansOwned'
  <2>1. /\ planOwner \in [Scenes -> SUBSET Speakers]
        /\ \A s \in Scenes : \A b, c \in planOwner[s] : b = c
    BY <1>2 DEF PlansOwned
  <2>2. \A s \in Scenes :
           planOwner'[s] = IF s = scene THEN planOwner[s] \cup planner ELSE planOwner[s]
    BY <1>9, <2>1
  <2>3. planOwner' \in [Scenes -> SUBSET Speakers]
    BY <1>9, <2>1
  <2>4. ASSUME NEW s \in Scenes, NEW b \in planOwner'[s], NEW c \in planOwner'[s] PROVE b = c
    <3>1. CASE s # scene \/ planner = {}
      <4>1. planOwner'[s] = planOwner[s]
        BY <2>2, <3>1
      <4> QED
        BY <2>1, <2>4, <4>1
    <3>2. CASE s = scene /\ planner # {}
      <4>1. planOwner'[s] = planner
        BY <2>2, <3>2
      <4>2. planner \subseteq {b0}
        OBVIOUS
      <4> QED
        BY <2>4, <4>1, <4>2
    <3> QED
      BY <3>1, <3>2
  <2>5. v.planner \subseteq planOwner'[v.scene]
    BY <1>3, <2>2
  <2> QED
    BY <1>2, <1>5, <1>9, <2>2, <2>3, <2>4, <2>5, PlansAfter
<1> QED
  BY <1>12, <1>13, <1>14, <1>15, <1>16, <1>17, <1>18 DEF DirectorInv

LEMMA AskedFirst ==
    ASSUME DirectorInv, NEW a \in Speakers, NEW topic \in Topics, AskFirst(a, topic)
    PROVE  DirectorInv'
<1>1. PICK scene \in Scenes, present \in Audiences :
         LET from == Selectable(topic, present)
             urgent == Kind(topic) = "danger"
             whole == Eligible(topic, present) = Speakers /\ ~OneAddressed(topic, present)
         IN
         \/ from = {} /\ Decide(a, topic, scene, {}, {}, whole)
         \/ \E b \in from :
               LET selected == IF urgent \/ WithinCap(scene, b) THEN {b} ELSE {} IN
               Decide(a, topic, scene, selected, PlanGoesTo(topic, scene, selected),
                      ~urgent /\ whole)
  BY DEF AskFirst
<1> DEFINE urgent == Kind(topic) = "danger"
           whole == Eligible(topic, present) = Speakers /\ ~OneAddressed(topic, present)
<1>2. FloorTypes /\ RecentOnes
  BY DEF DirectorInv
<1>3. CASE Decide(a, topic, scene, {}, {}, whole)
  <2>1. whole \in BOOLEAN
    OBVIOUS
  <2> HIDE DEF whole
  <2>2. \A b \in {} : MaySpeak(b, scene)
    OBVIOUS
  <2> QED
    BY <1>3, <2>1, <2>2, Decided
<1>4. ASSUME NEW b \in Selectable(topic, present),
             LET selected == IF urgent \/ WithinCap(scene, b) THEN {b} ELSE {} IN
             Decide(a, topic, scene, selected, PlanGoesTo(topic, scene, selected),
                    ~urgent /\ whole)
      PROVE  DirectorInv'
  <2> DEFINE selected == IF urgent \/ WithinCap(scene, b) THEN {b} ELSE {}
             planner == PlanGoesTo(topic, scene, selected)
             ordinary == ~urgent /\ whole
  <2>1. /\ b \in Speakers /\ ~ConsecutiveBlocked(b)
        /\ ordinary /\ turns >= Everyone /\ Heard # Speakers => b \notin Heard
    BY <1>2, SelectedMaySpeak
  <2>2. ordinary \in BOOLEAN /\ selected \subseteq {b}
    OBVIOUS
  <2>3. ordinary => \A c \in selected : MaySpeak(c, scene)
    <3> SUFFICES ASSUME ordinary, NEW c \in selected PROVE MaySpeak(c, scene)
      OBVIOUS
    <3>1. c = b /\ WithinCap(scene, b)
      OBVIOUS
    <3> HIDE DEF ordinary
    <3> QED
      BY <2>1, <3>1 DEF MaySpeak
  <2>4. Decide(a, topic, scene, selected, planner, ordinary)
    BY <1>4
  <2> HIDE DEF selected, ordinary
  <2>5. planner \subseteq selected /\ (planner # {} => planOwner[scene] = {})
    BY DEF PlanGoesTo
  <2> HIDE DEF planner
  <2> QED
    BY <2>1, <2>2, <2>3, <2>4, <2>5, Decided
<1> QED
  BY <1>1, <1>3, <1>4

LEMMA AskedForRescue ==
    ASSUME DirectorInv, NEW a \in Speakers, NEW topic \in Topics, AskForRescue(a, topic)
    PROVE  DirectorInv'
<1>1. PICK scene \in Scenes, rescuer \in Rescuers : Decide(a, topic, scene, {rescuer}, {}, FALSE)
  BY DEF AskForRescue
<1>2. rescuer \in Speakers
  BY DirectorAssumption
<1>3. FALSE => \A b \in {rescuer} : MaySpeak(b, scene)
  OBVIOUS
<1> QED
  BY <1>1, <1>2, <1>3, Decided

LEMMA FloorTicks ==
    ASSUME DirectorInv, DirectorTick
    PROVE  DirectorInv'
<1>1. FloorTypes /\ CacheFits /\ TurnsCounted /\ RecentOnes /\ SlotsHeld /\ PlansOwned /\ PlainFloor
  BY DEF DirectorInv
<1>2. /\ clock' = clock + 1
      /\ UNCHANGED <<turns, decisions, taken, lastTurn, recent, sceneTurns, builds, planOwner,
                     made, given, planned, plain>>
  BY DEF DirectorTick
<1>3. FloorTypes'
  BY <1>1, <1>2 DEF FloorTypes
<1>4. CacheFits'
  <2>1. \A v \in Range(decisions) : FitVerdict(v)'
    <3> TAKE v \in Range(decisions)
    <3>1. v \in CachedVerdicts
      BY <1>1 DEF FloorTypes, Range
    <3>2. FitVerdict(v) /\ v.at \in Nat /\ clock \in Nat
      BY <1>1, <3>1 DEF CacheFits, FloorTypes, CachedVerdicts
    <3> QED
      BY <1>2, <3>2 DEF FitVerdict
  <2> QED
    BY <1>1, <1>2, <2>1 DEF CacheFits, OneEach
<1>5. TurnsCounted'
  BY <1>1, <1>2 DEF TurnsCounted, Waiting, Waits
<1>6. RecentOnes'
  BY <1>1, <1>2 DEF RecentOnes, Heard
<1>7. SlotsHeld'
  BY <1>1, <1>2, SlotsTick
<1>8. PlainFloor'
  <2> SUFFICES ASSUME plain PROVE PlainFloor'
    BY <1>2 DEF PlainFloor
  <2>1. \A v \in Range(decisions) : Waits(v) => \A b \in v.selected : MaySpeak(b, v.scene)'
    BY <1>1, <1>2, MaySpeakStill DEF PlainFloor
  <2>2. HeardSoFar' /\ NoMonologue' /\ SceneCapKept'
    BY <1>1, <1>2 DEF PlainFloor, HeardSoFar, Heard, Everyone, NoMonologue, SceneCapKept
  <2>3. \A v, w \in Range(decisions) : Waits(v) /\ Waits(w) => v = w
    BY <1>1 DEF PlainFloor
  <2> QED
    BY <1>2, <2>1, <2>2, <2>3 DEF PlainFloor, Waits
<1>9. PlansOwned'
  BY <1>1, <1>2 DEF PlansOwned
<1> QED
  BY <1>3, <1>4, <1>5, <1>6, <1>7, <1>8, <1>9 DEF DirectorInv

LEMMA DirectorKept == DirectorInv /\ [DirectorNext]_directorVars => DirectorInv'
<1> SUFFICES ASSUME DirectorInv, [DirectorNext]_directorVars PROVE DirectorInv'
  OBVIOUS
<1>1. CASE DirectorTick
  BY <1>1, FloorTicks
<1>2. ASSUME NEW a \in Speakers, NEW topic \in Topics, AskAgain(a, topic) PROVE DirectorInv'
  BY <1>2, AskedAgain
<1>3. ASSUME NEW a \in Speakers, NEW topic \in Topics, AskFirst(a, topic) PROVE DirectorInv'
  BY <1>3, AskedFirst
<1>4. ASSUME NEW a \in Speakers, NEW topic \in Topics, AskForRescue(a, topic) PROVE DirectorInv'
  BY <1>4, AskedForRescue
<1>5. CASE UNCHANGED directorVars
  <2>1. UNCHANGED <<clock, turns, decisions, taken, lastTurn, recent, sceneTurns, builds, planOwner,
                    made, given, planned, plain>>
    BY <1>5 DEF directorVars
  <2>2. FloorTypes' /\ CacheFits'
    BY <2>1 DEF DirectorInv, FloorTypes, CacheFits, OneEach, FitVerdict
  <2>3. TurnsCounted' /\ RecentOnes'
    BY <2>1 DEF DirectorInv, TurnsCounted, Waiting, Waits, RecentOnes, Heard
  <2>4. SlotsHeld'
    BY <2>1 DEF DirectorInv, SlotsHeld, SlotLasts, OfferLasts, ActiveBuilds
  <2>5. PlainFloor'
    BY <2>1 DEF DirectorInv, PlainFloor, Waits, MaySpeak, ConsecutiveBlocked, LastSpeakers,
           WithinCap, Heard, Everyone, NoMonologue, HeardSoFar, SceneCapKept
  <2>6. PlansOwned'
    BY <2>1 DEF DirectorInv, PlansOwned
  <2> QED
    BY <2>2, <2>3, <2>4, <2>5, <2>6 DEF DirectorInv
<1> QED
  BY <1>1, <1>2, <1>3, <1>4, <1>5 DEF DirectorNext

(* The invariant implies what was to be shown.                             *)
LEMMA InvSharesFloor == DirectorInv => FloorIsShared
<1> SUFFICES ASSUME DirectorInv PROVE FloorIsShared
  OBVIOUS
<1>1. FloorTypes /\ TurnsCounted /\ SlotsHeld /\ PlansOwned /\ PlainFloor
  BY DEF DirectorInv
<1>2. OneTurnPerVerdict
  <2>1. Cardinality(Waiting(decisions)) \in Nat /\ turns \in Nat /\ made \in Nat
    BY <1>1, WaitingIsFinite DEF FloorTypes
  <2>2. turns + Cardinality(Waiting(decisions)) <= made
    BY <1>1 DEF TurnsCounted
  <2>3. turns <= made
    BY <2>1, <2>2
  <2> QED
    BY <1>1, <2>3 DEF TurnsCounted, OneTurnPerVerdict
<1>3. NoMonologue /\ SceneCapKept
  BY <1>1 DEF PlainFloor, NoMonologue, SceneCapKept
<1>4. EveryoneHeard
  <2> SUFFICES ASSUME plain, Everyone > 1, Everyone > BlockTurns, turns >= 2 * Everyone - 2,
                      NEW a \in Speakers
               PROVE  taken[a] > 0
    BY DEF EveryoneHeard, Everyone
  <2>1. turns \in Nat /\ Everyone \in Nat /\ IsFiniteSet(Heard) /\ Cardinality(Heard) \in Nat
    BY <1>1, HeardIsFinite DEF FloorTypes, Everyone
  <2>2. HeardSoFar
    BY <1>1 DEF PlainFloor
  <2>3. turns >= Everyone
    <3> HIDE DEF Everyone
    <3> QED
      BY <2>1
  <2>4. Heard = Speakers \/ Cardinality(Heard) >= (turns - Everyone) + 2
    BY <2>2, <2>3 DEF HeardSoFar
  <2>5. Heard = Speakers \/ Cardinality(Heard) >= Everyone
    <3> HIDE DEF Everyone
    <3> QED
      BY <2>1, <2>4
  <2>6. Heard \subseteq Speakers
    BY DEF Heard
  <2>7. Cardinality(Heard) <= Everyone /\ (Cardinality(Heard) = Everyone => Heard = Speakers)
    BY <2>6, DirectorAssumption, FS_Subset DEF Everyone
  <2>8. Heard = Speakers
    <3> HIDE DEF Everyone
    <3> QED
      BY <2>1, <2>5, <2>7
  <2> QED
    BY <2>8 DEF Heard
<1>5. BuildersCapped
  <2> DEFINE offered == {a \in Speakers : given[a] # 0 /\ clock + DecisionTtl < given[a] + BuildWindow}
  <2>1. clock \in Nat /\ DecisionTtl \in Nat /\ BuildWindow \in Nat /\ BuildCap \in Nat
           /\ builds \in [Speakers -> Nat] /\ given \in [Speakers -> Nat]
    BY <1>1, DirectorAssumption DEF FloorTypes
  <2>2. offered \subseteq ActiveBuilds
    <3> SUFFICES ASSUME NEW a \in offered PROVE a \in ActiveBuilds
      OBVIOUS
    <3>1. a \in Speakers /\ given[a] # 0 /\ clock + DecisionTtl < given[a] + BuildWindow
      OBVIOUS
    <3>2. OfferLasts(a) /\ builds[a] \in Nat /\ given[a] \in Nat
      BY <1>1, <2>1, <3>1 DEF SlotsHeld
    <3>3. builds[a] # 0 /\ builds[a] + DecisionTtl >= given[a]
      BY <2>1, <3>1, <3>2 DEF OfferLasts
    <3>4. clock - builds[a] < BuildWindow
      BY <2>1, <3>1, <3>2, <3>3
    <3> QED
      BY <3>1, <3>3, <3>4 DEF ActiveBuilds
  <2> HIDE DEF offered
  <2>3. IsFiniteSet(ActiveBuilds) /\ Cardinality(ActiveBuilds) \in Nat
           /\ Cardinality(ActiveBuilds) <= BuildCap
    BY <1>1, ActiveIsFinite DEF SlotsHeld
  <2>4. IsFiniteSet(offered) /\ Cardinality(offered) <= Cardinality(ActiveBuilds)
    BY <2>2, <2>3, FS_Subset
  <2>5. Cardinality(offered) \in Nat
    BY <2>4, FS_CardinalityType
  <2>6. Cardinality(offered) <= BuildCap
    BY <2>1, <2>3, <2>4, <2>5
  <2> QED
    BY <2>6 DEF BuildersCapped, offered
<1>6. OnePlannerPerScene
  <2> SUFFICES ASSUME NEW o \in planned, NEW p \in planned, o[1] = p[1] PROVE o = p
    BY DEF OnePlannerPerScene
  <2>1. o \in Scenes \X Speakers /\ p \in Scenes \X Speakers
    BY <1>1 DEF PlansOwned
  <2>2. o[2] \in planOwner[o[1]] /\ p[2] \in planOwner[o[1]] /\ o[1] \in Scenes
    BY <1>1, <2>1 DEF PlansOwned
  <2>3. o[2] = p[2]
    BY <1>1, <2>2 DEF PlansOwned
  <2> QED
    BY <2>1, <2>3
<1> QED
  BY <1>2, <1>3, <1>4, <1>5, <1>6 DEF FloorIsShared

(* However many bots ask, however often and in whatever order, the floor   *)
(* is shared, for any number of agents, events and scenes, any block, caps,*)
(* window and life of verdicts, and any size of the cache.                 *)
THEOREM FloorStaysShared == DirectorSpec => []FloorIsShared
<1> QED
  BY DirectorStart, DirectorKept, InvSharesFloor, PTL DEF DirectorSpec

-----------------------------------------------------------------------------
(* The cache as a sequence: no two of its places are about one event, and  *)
(* it is within its limit.                                                 *)
OnePlaceEach(cache) ==
    \A i, j \in 1..Len(cache) : cache[i].topic = cache[j].topic => i = j

LEMMA OnlyIsPart ==
    ASSUME NEW S, NEW s \in Seq(S), NEW places
    PROVE  /\ Only(s, places) \in Seq(S)
           /\ Len(Only(s, places)) <= Len(s)
           /\ OnePlaceEach(s) => OnePlaceEach(Only(s, places))
<1> DEFINE r == Only(s, places)
<1>1. r = Sifted(s, places)
  BY DEF Only, Sifted
<1>2. r \in Seq(S) /\ \E src : TakenFrom(src, r, s, places, Len(s))
  BY <1>1, SiftedIsTaken
<1> HIDE DEF r
<1>3. PICK src : TakenFrom(src, r, s, places, Len(s))
  BY <1>2
<1>4. /\ src \in [1..Len(r) -> places \cap 1..Len(s)]
      /\ \A a, b \in 1..Len(r) : src[a] = src[b] => a = b
      /\ \A k \in 1..Len(r) : r[k] = s[src[k]]
  BY <1>3 DEF TakenFrom, Bijection, Injection, Surjection, IsInjective
<1>5. Len(r) \in Nat /\ Len(s) \in Nat
  BY <1>2
<1>6. Len(r) <= Len(s)
  <2>1. src \in Injection(1..Len(r), 1..Len(s))
    <3>1. src \in [1..Len(r) -> 1..Len(s)]
      BY <1>4
    <3> QED
      BY <1>4, <3>1 DEF Injection, IsInjective
  <2>2. /\ IsFiniteSet(1..Len(s)) /\ Cardinality(1..Len(s)) = Len(s)
        /\ Cardinality(1..Len(r)) = Len(r)
    <3>1. /\ Cardinality(1..Len(s)) = IF 1 > Len(s) THEN 0 ELSE Len(s) - 1 + 1
          /\ Cardinality(1..Len(r)) = IF 1 > Len(r) THEN 0 ELSE Len(r) - 1 + 1
          /\ IsFiniteSet(1..Len(s))
      <4> HIDE DEF r
      <4>1. \A n \in Nat : 1 \in Int /\ n \in Int
        OBVIOUS
      <4> QED
        BY <1>5, <4>1, FS_Interval
    <3> QED
      BY <1>5, <3>1
  <2> QED
    BY <2>1, <2>2, FS_Injection
<1>7. OnePlaceEach(s) => OnePlaceEach(r)
  <2> SUFFICES ASSUME OnePlaceEach(s), NEW i \in 1..Len(r), NEW j \in 1..Len(r), r[i].topic = r[j].topic
               PROVE  i = j
    BY DEF OnePlaceEach
  <2>1. src[i] \in 1..Len(s) /\ src[j] \in 1..Len(s) /\ s[src[i]].topic = s[src[j]].topic
    BY <1>4
  <2>2. src[i] = src[j]
    BY <2>1 DEF OnePlaceEach
  <2> QED
    BY <1>4, <2>2
<1> QED
  BY <1>2, <1>6, <1>7 DEF r

(* An answer puts its verdict last, in place of the one about the event,   *)
(* and evicts the first when there are too many.                           *)
LEMMA CachePlacesAfter ==
    ASSUME FloorTypes, NEW a \in Speakers, NEW v \in CachedVerdicts, Answers(a, v),
           OnePlaceEach(decisions), Len(decisions) <= MaxCached
    PROVE  OnePlaceEach(decisions') /\ Len(decisions') <= MaxCached
<1> DEFINE w == After(a, v)
           u == Unexpired
           o == Others(v.topic)
           long == Append(o, w)
<1>1. w \in CachedVerdicts /\ w.topic = v.topic
  BY AfterIsVerdict
<1>2. decisions \in Seq(CachedVerdicts) /\ MaxCached \in Nat
  BY DirectorAssumption DEF FloorTypes
<1>3. u \in Seq(CachedVerdicts) /\ Len(u) <= Len(decisions) /\ OnePlaceEach(u)
  BY <1>2, OnlyIsPart DEF Unexpired
<1>4. o \in Seq(CachedVerdicts) /\ Len(o) <= Len(u) /\ OnePlaceEach(o)
  BY <1>3, OnlyIsPart DEF Others
<1>5. \A i \in 1..Len(o) : o[i].topic # v.topic
  <2>1. Range(o) = {x \in Range(Unexpired) : x.topic # v.topic}
    BY OthersLeft
  <2>2. \A i \in 1..Len(o) : o[i] \in Range(o)
    BY <1>4 DEF Range
  <2> HIDE DEF o
  <2> QED
    BY <2>1, <2>2
<1>6. decisions' = Evicted(long)
  BY DEF Answers, After, TakesTurn
<1> HIDE DEF w, o, u
<1>7. /\ long \in Seq(CachedVerdicts) /\ Len(long) = Len(o) + 1
      /\ long[Len(o) + 1] = w /\ \A i \in 1..Len(o) : long[i] = o[i]
  BY <1>1, <1>4
<1>8. Len(o) \in Nat /\ Len(o) <= MaxCached
  BY <1>2, <1>3, <1>4
<1> HIDE DEF long
<1>9. OnePlaceEach(long)
  <2> SUFFICES ASSUME NEW i \in 1..Len(long), NEW j \in 1..Len(long), long[i].topic = long[j].topic
               PROVE  i = j
    BY DEF OnePlaceEach
  <2>1. 1..Len(long) = 1..Len(o) \cup {Len(o) + 1}
    BY <1>7, <1>8
  <2>2. CASE i \in 1..Len(o) /\ j \in 1..Len(o)
    BY <1>4, <1>7, <2>2 DEF OnePlaceEach
  <2>3. CASE i \in 1..Len(o) /\ j = Len(o) + 1
    BY <1>1, <1>5, <1>7, <2>3
  <2>4. CASE i = Len(o) + 1 /\ j \in 1..Len(o)
    BY <1>1, <1>5, <1>7, <2>4
  <2> QED
    BY <2>1, <2>2, <2>3, <2>4
<1>10. CASE Len(long) > MaxCached
  <2>1. decisions' = Tail(long)
    BY <1>6, <1>10 DEF Evicted
  <2>2. /\ Len(Tail(long)) = Len(o)
        /\ \A i \in 1..Len(o) : Tail(long)[i] = long[i + 1] /\ i + 1 \in 1..Len(long)
    BY <1>7, <1>8
  <2>3. OnePlaceEach(Tail(long))
    <3> SUFFICES ASSUME NEW i \in 1..Len(o), NEW j \in 1..Len(o),
                        Tail(long)[i].topic = Tail(long)[j].topic
                 PROVE  i = j
      BY <2>2 DEF OnePlaceEach
    <3>1. i + 1 = j + 1
      BY <1>9, <2>2 DEF OnePlaceEach
    <3> QED
      BY <1>8, <3>1
  <2> QED
    BY <1>8, <2>1, <2>2, <2>3
<1>11. CASE ~(Len(long) > MaxCached)
  <2>1. decisions' = long
    BY <1>6, <1>11 DEF Evicted
  <2>2. Len(long) <= MaxCached
    BY <1>2, <1>7, <1>8, <1>11
  <2> QED
    BY <1>9, <2>1, <2>2
<1> QED
  BY <1>10, <1>11

-----------------------------------------------------------------------------
(* What bounds the counts: no agent has more turns than there were, nor an *)
(* offer from later than now.                                              *)
GateInv ==
    /\ clock <= MaxClock /\ made <= MaxVerdicts
    /\ OnePlaceEach(decisions) /\ Len(decisions) <= MaxCached
    /\ \A a \in Speakers : taken[a] <= turns /\ given[a] <= clock

LEMMA GateAnswers ==
    ASSUME FloorTypes, GateInv, NEW a \in Speakers, NEW v \in CachedVerdicts, Answers(a, v),
           UNCHANGED clock, made' <= MaxVerdicts
    PROVE  GateInv'
<1>1. OnePlaceEach(decisions') /\ Len(decisions') <= MaxCached
  BY CachePlacesAfter DEF GateInv
<1>2. \A b \in Speakers : given'[b] <= clock
  <2>1. \A b \in Speakers : given[b] \in Nat /\ given[b] <= clock /\ clock \in Nat
    BY DEF FloorTypes, GateInv
  <2>2. given' = given \/ given' = [given EXCEPT ![a] = clock]
    BY DEF Answers
  <2>3. \A b \in Speakers : given'[b] = given[b] \/ given'[b] = clock
    BY <2>2 DEF FloorTypes
  <2> QED
    BY <2>1, <2>3
<1>3. \A b \in Speakers : taken'[b] <= turns'
  <2>1. \A b \in Speakers : taken[b] \in Nat /\ taken[b] <= turns /\ turns \in Nat
    BY DEF FloorTypes, GateInv
  <2>2. \/ turns' = turns + 1 /\ taken' = [taken EXCEPT ![a] = @ + 1]
        \/ turns' = turns /\ taken' = taken
    BY TurnOrNot
  <2>3. \A b \in Speakers :
           \/ turns' = turns /\ taken'[b] = taken[b]
           \/ turns' = turns + 1 /\ (taken'[b] = taken[b] \/ taken'[b] = taken[b] + 1)
    BY <2>2 DEF FloorTypes
  <2> QED
    BY <2>1, <2>3
<1> QED
  BY <1>1, <1>2, <1>3 DEF GateInv

LEMMA GateStart == DirectorInit => GateInv
<1> SUFFICES ASSUME DirectorInit PROVE GateInv
  OBVIOUS
<1>1. OnePlaceEach(<<>>) /\ Len(<<>>) = 0
  BY DEF OnePlaceEach
<1> QED
  BY <1>1, DirectorAssumption DEF DirectorInit, GateInv

LEMMA GateKept == DirectorInv /\ GateInv /\ [DirectorNext]_directorVars => GateInv'
<1> SUFFICES ASSUME DirectorInv, GateInv, [DirectorNext]_directorVars PROVE GateInv'
  OBVIOUS
<1>1. FloorTypes /\ made \in Nat /\ MaxVerdicts \in Nat /\ clock \in Nat /\ MaxClock \in Nat
  BY DirectorAssumption DEF DirectorInv, FloorTypes
<1>2. CASE DirectorTick
  <2>1. clock' = clock + 1 /\ clock < MaxClock /\ UNCHANGED <<turns, decisions, taken, made, given>>
    BY <1>2 DEF DirectorTick
  <2>2. \A a \in Speakers : given[a] \in Nat
    BY <1>1 DEF FloorTypes
  <2> QED
    BY <1>1, <2>1, <2>2 DEF GateInv
<1>3. ASSUME NEW a \in Speakers, NEW topic \in Topics, AskAgain(a, topic) PROVE GateInv'
  <2>1. PICK i \in CachedFor(topic) : Answers(a, Unexpired[i])
    BY <1>3 DEF AskAgain
  <2>2. UNCHANGED <<clock, made>>
    BY <1>3 DEF AskAgain
  <2>3. Unexpired[i] \in CachedVerdicts
    BY <1>1, <2>1, Purged DEF CachedFor
  <2>4. made' <= MaxVerdicts
    BY <2>2 DEF GateInv
  <2> QED
    BY <1>1, <2>1, <2>2, <2>3, <2>4, GateAnswers
<1>4. ASSUME NEW a \in Speakers, NEW topic \in Topics, NEW scene \in Scenes,
             NEW selected \in SUBSET Speakers, NEW planner \in SUBSET selected, NEW ordinary,
             made < MaxVerdicts, Decide(a, topic, scene, selected, planner, ordinary)
      PROVE  GateInv'
  <2>1. PICK builders \in SUBSET selected :
           Answers(a, Verdict(topic, scene, selected, builders, planner))
    BY <1>4 DEF Decide
  <2>2. made' = made + 1 /\ UNCHANGED clock
    BY <1>4 DEF Decide
  <2>3. Verdict(topic, scene, selected, builders, planner) \in CachedVerdicts
    BY <1>1, <1>4, <2>1 DEF Verdict, CachedVerdicts
  <2>4. made' <= MaxVerdicts
    BY <1>1, <1>4, <2>2
  <2> QED
    BY <1>1, <2>1, <2>2, <2>3, <2>4, GateAnswers
<1>5. ASSUME NEW a \in Speakers, NEW topic \in Topics, AskFirst(a, topic) PROVE GateInv'
  <2>1. made < MaxVerdicts
    BY <1>5 DEF AskFirst, Undecided
  <2>2. PICK scene \in Scenes, present \in Audiences :
           LET from == Selectable(topic, present)
               urgent == Kind(topic) = "danger"
               whole == Eligible(topic, present) = Speakers /\ ~OneAddressed(topic, present)
           IN
           \/ from = {} /\ Decide(a, topic, scene, {}, {}, whole)
           \/ \E b \in from :
                 LET selected == IF urgent \/ WithinCap(scene, b) THEN {b} ELSE {} IN
                 Decide(a, topic, scene, selected, PlanGoesTo(topic, scene, selected),
                        ~urgent /\ whole)
    BY <1>5 DEF AskFirst
  <2>3. PICK selected, planner, ordinary :
           /\ selected = {} \/ \E b \in Selectable(topic, present) : selected = {b}
           /\ planner \in SUBSET selected
           /\ Decide(a, topic, scene, selected, planner, ordinary)
    BY <2>2 DEF PlanGoesTo
  <2>4. selected \in SUBSET Speakers
    <3>1. Eligible(topic, present) \subseteq Speakers
      BY DirectorAssumption DEF Eligible
    <3>2. Selectable(topic, present) \subseteq Speakers
      BY <3>1 DEF Selectable, Free
    <3> QED
      BY <2>3, <3>2
  <2> QED
    BY <1>4, <2>1, <2>3, <2>4
<1>6. ASSUME NEW a \in Speakers, NEW topic \in Topics, AskForRescue(a, topic) PROVE GateInv'
  <2>1. made < MaxVerdicts
    BY <1>6 DEF AskForRescue, Undecided
  <2>2. PICK scene \in Scenes, rescuer \in Rescuers : Decide(a, topic, scene, {rescuer}, {}, FALSE)
    BY <1>6 DEF AskForRescue
  <2>3. {rescuer} \in SUBSET Speakers
    BY <2>2, DirectorAssumption
  <2> QED
    BY <1>4, <2>1, <2>2, <2>3
<1>7. CASE UNCHANGED directorVars
  BY <1>7 DEF directorVars, GateInv, OnePlaceEach
<1> QED
  BY <1>2, <1>3, <1>5, <1>6, <1>7 DEF DirectorNext

(* The gate keeps one verdict per event at most, and no more verdicts than *)
(* its cache may hold, however many bots ask about however many events, at *)
(* any time.                                                               *)
THEOREM DirectorTypesCorrect == DirectorSpec => []DirectorTypeOK
<1>1. DirectorInv /\ GateInv => DirectorTypeOK
  <2> SUFFICES ASSUME DirectorInv, GateInv PROVE DirectorTypeOK
    OBVIOUS
  <2>1. FloorTypes /\ CacheFits /\ TurnsCounted /\ RecentOnes /\ SlotsHeld /\ PlansOwned
    BY DEF DirectorInv
  <2>2. clock \in 1..MaxClock
    BY <2>1, DirectorAssumption DEF FloorTypes, GateInv
  <2>3. decisions \in Seq(Verdicts)
    <3>1. decisions \in Seq(CachedVerdicts) /\ DOMAIN decisions = 1..Len(decisions)
      BY <2>1 DEF FloorTypes
    <3>2. ASSUME NEW i \in 1..Len(decisions) PROVE decisions[i] \in Verdicts
      <4>1. decisions[i] \in CachedVerdicts /\ decisions[i] \in Range(decisions)
        BY <3>1 DEF Range
      <4>2. 1 <= decisions[i].at /\ decisions[i].at <= clock
        BY <2>1, <4>1 DEF CacheFits, FitVerdict
      <4>3. decisions[i].at \in Nat
        BY <4>1 DEF CachedVerdicts
      <4>4. decisions[i].at \in 1..MaxClock
        <5>1. clock \in Nat /\ clock <= MaxClock /\ MaxClock \in Nat
          BY <2>1, DirectorAssumption DEF FloorTypes, GateInv
        <5> HIDE DEF DirectorTypeOK
        <5>2. \A x \in Nat : 1 <= x /\ x <= clock => x \in 1..MaxClock
          BY <5>1
        <5> QED
          BY <4>2, <4>3, <5>2
      <4> QED
        BY <4>1, <4>4 DEF CachedVerdicts, Verdicts
    <3> QED
      BY <3>1, <3>2
  <2>4. \A i, j \in DOMAIN decisions : decisions[i].topic = decisions[j].topic => i = j
    <3>1. DOMAIN decisions = 1..Len(decisions)
      BY <2>1 DEF FloorTypes
    <3> QED
      BY <3>1 DEF GateInv, OnePlaceEach
  <2>5. turns \in 0..MaxVerdicts /\ made \in 0..MaxVerdicts
    <3>1. Cardinality(Waiting(decisions)) \in Nat /\ turns \in Nat /\ made \in Nat
      BY <2>1, WaitingIsFinite DEF FloorTypes
    <3> QED
      BY <2>1, <3>1, DirectorAssumption DEF TurnsCounted, GateInv
  <2>6. taken \in [Speakers -> 0..MaxVerdicts] /\ lastTurn \in [Speakers -> 0..MaxVerdicts]
    <3>1. \A a \in Speakers : /\ taken[a] \in Nat /\ taken[a] <= turns
                              /\ lastTurn[a] \in Nat /\ lastTurn[a] <= turns
      BY <2>1 DEF FloorTypes, GateInv, TurnsCounted
    <3>2. \A a \in Speakers : taken[a] \in 0..MaxVerdicts /\ lastTurn[a] \in 0..MaxVerdicts
      BY <2>5, <3>1, DirectorAssumption
    <3> QED
      BY <2>1, <3>2 DEF FloorTypes
  <2>7. recent \in Seq(Speakers) /\ Len(recent) <= BlockTurns + 1
    BY <2>1, DirectorAssumption DEF FloorTypes, RecentOnes
  <2>8. builds \in [Speakers -> 0..MaxClock] /\ given \in [Speakers -> 0..MaxClock]
    <3>1. \A a \in Speakers : /\ builds[a] \in Nat /\ builds[a] <= clock
                              /\ given[a] \in Nat /\ given[a] <= clock
      BY <2>1 DEF FloorTypes, GateInv, SlotsHeld
    <3>2. \A a \in Speakers : builds[a] \in 0..MaxClock /\ given[a] \in 0..MaxClock
      BY <2>2, <3>1, DirectorAssumption
    <3> QED
      BY <2>1, <3>2 DEF FloorTypes
  <2>9. sceneTurns \in [Scenes -> SUBSET Speakers] /\ plain \in BOOLEAN /\ Len(decisions) <= MaxCached
    BY <2>1 DEF FloorTypes, GateInv
  <2>10. planOwner \in [Scenes -> SUBSET Speakers] /\ planned \subseteq Scenes \X Speakers
    BY <2>1 DEF PlansOwned
  <2> QED
    BY <2>2, <2>3, <2>4, <2>5, <2>6, <2>7, <2>8, <2>9, <2>10 DEF DirectorTypeOK
<1> QED
  BY <1>1, DirectorStart, DirectorKept, GateStart, GateKept, PTL DEF DirectorSpec

-----------------------------------------------------------------------------
(* Spending: retries end, and no more costs are lost than calls were       *)
(* answered: a call whose cost is still to be logged has not lost it.      *)
TriesFit(entry) ==
    entry.tries <= IF entry.step = "request" THEN MaxPosts - 1
                   ELSE IF entry.step = "log" THEN MaxAttempts - 1 ELSE 0

LossInv ==
    /\ time \in 1..MaxTime
    /\ blockedTo \in Nat /\ blockedTo <= time + Window
    /\ \A e \in events : 1 <= e.at /\ e.at <= time
    /\ \A c \in Callers : TriesFit(call[c])
    /\ answered + doubted <= MaxCosts
    /\ lost + Cardinality(Logging) <= answered

LEMMA LoggersCounted ==
    /\ IsFiniteSet(Logging) /\ Cardinality(Logging) \in Nat
    /\ \A c : /\ c \in Logging => Cardinality(Logging \ {c}) = Cardinality(Logging) - 1
              /\ c \notin Logging => Cardinality(Logging \cup {c}) = Cardinality(Logging) + 1
<1>1. Logging \subseteq Callers
  BY DEF Logging
<1>2. IsFiniteSet(Logging) /\ Cardinality(Logging) \in Nat
  BY <1>1, SpendAssumption, FS_Subset, FS_CardinalityType
<1> QED
  BY <1>2, FS_AddElement, FS_RemoveElement

(* The callers whose costs are to be logged, after a step of one.          *)
LEMMA LoggersAfter ==
    ASSUME SpendInv, NEW c \in Callers, NEW entry, entry \in Calls,
           call' = [call EXCEPT ![c] = entry]
    PROVE  /\ call'[c] = entry /\ \A d \in Callers : d # c => call'[d] = call[d]
           /\ Logging' = IF entry.step = "log" THEN Logging \cup {c} ELSE Logging \ {c}
<1>1. call'[c] = entry /\ \A d \in Callers : d # c => call'[d] = call[d]
  BY DEF SpendInv, CallsOK
<1> QED
  BY <1>1 DEF Logging

(* A step of one caller that answers nothing: a cost leaves the hand of    *)
(* its caller when it is recorded or given up.                             *)
LEMMA LossCallerStep ==
    ASSUME CapInv, LossInv, NEW c \in Callers, NEW entry, entry \in Calls,
           call' = [call EXCEPT ![c] = entry], TriesFit(entry),
           UNCHANGED <<time, answered>>,
           blockedTo' = blockedTo \/ blockedTo' = time + Window,
           doubted' = doubted \/ (doubted' = doubted + 1 /\ answered + doubted < MaxCosts),
           \A e \in events' : e \in events \/ e.at = time,
           entry.step = "log" => call[c].step = "log",
           lost' = lost \/ (lost' = lost + 1 /\ call[c].step = "log" /\ entry.step # "log")
    PROVE  LossInv'
<1>1. /\ call'[c] = entry /\ \A d \in Callers : d # c => call'[d] = call[d]
      /\ Logging' = IF entry.step = "log" THEN Logging \cup {c} ELSE Logging \ {c}
  BY LoggersAfter DEF CapInv
<1>2. /\ time \in Nat \ {0} /\ Window \in Nat /\ answered \in Nat /\ doubted \in Nat /\ lost \in Nat
      /\ MaxCosts \in Nat /\ MaxTime \in Nat
  BY SpendAssumption DEF CapInv, SpendInv, LossInv
<1>3. Cardinality(Logging) \in Nat
  BY LoggersCounted
<1>4. lost' + Cardinality(Logging') <= answered
  <2>1. CASE c \in Logging /\ entry.step = "log"
    <3>1. Logging' = Logging /\ lost' = lost
      BY <1>1, <2>1
    <3> QED
      BY <3>1 DEF LossInv
  <2>2. CASE c \in Logging /\ entry.step # "log"
    <3>1. Cardinality(Logging') = Cardinality(Logging) - 1
      BY <1>1, <2>2, LoggersCounted
    <3> QED
      BY <1>2, <1>3, <3>1 DEF LossInv
  <2>3. CASE c \notin Logging
    <3>1. Logging' = Logging /\ lost' = lost
      BY <1>1, <2>3 DEF Logging
    <3> QED
      BY <3>1 DEF LossInv
  <2> QED
    BY <2>1, <2>2, <2>3
<1>5. \A e \in events' : 1 <= e.at /\ e.at <= time
  BY <1>2 DEF LossInv
<1>6. \A d \in Callers : TriesFit(call'[d])
  BY <1>1 DEF LossInv
<1>7. blockedTo' \in Nat /\ blockedTo' <= time + Window
  BY <1>2 DEF LossInv
<1>8. answered + doubted' <= MaxCosts
  BY <1>2 DEF LossInv
<1> QED
  BY <1>4, <1>5, <1>6, <1>7, <1>8 DEF LossInv, TriesFit

LEMMA LossStart == SpendInit => LossInv
<1> SUFFICES ASSUME SpendInit PROVE LossInv
  OBVIOUS
<1>1. Logging = {}
  BY DEF SpendInit, Logging, NoCall
<1>2. Cardinality(Logging) = 0
  BY <1>1, FS_EmptySet
<1>3. \A c \in Callers : TriesFit(call[c])
  BY DEF SpendInit, TriesFit, NoCall
<1> QED
  BY <1>2, <1>3, SpendAssumption DEF SpendInit, LossInv

LEMMA LossKept == CapInv /\ LossInv /\ [SpendNext]_spendVars => LossInv'
<1> SUFFICES ASSUME CapInv, LossInv, [SpendNext]_spendVars PROVE LossInv'
  OBVIOUS
<1>t. /\ answered \in Nat /\ doubted \in Nat /\ lost \in Nat /\ time \in Nat \ {0}
      /\ {MaxTime, MaxPosts, MaxAttempts} \subseteq Nat \ {0} /\ MaxCosts \in Nat /\ Window \in Nat
      /\ \A c \in Callers : call[c] \in Calls
  BY SpendAssumption DEF CapInv, SpendInv, CallsOK, LossInv
<1>n. NoCall \in Calls /\ NoCall.step = "idle" /\ TriesFit(NoCall)
  BY DEF Calls, Steps, NoCall, TriesFit
(* Steps that touch the call alone, or the block key with it.              *)
<1>1. ASSUME NEW c \in Callers, NEW entry, entry \in Calls, call' = [call EXCEPT ![c] = entry],
             TriesFit(entry), UNCHANGED <<time, events, lost, answered, doubted>>,
             blockedTo' = blockedTo \/ blockedTo' = time + Window,
             entry.step = "log" => call[c].step = "log"
      PROVE  LossInv'
  <2>1. UNCHANGED <<time, answered>> /\ lost' = lost /\ doubted' = doubted
    BY <1>1
  <2>2. \A e \in events' : e \in events \/ e.at = time
    BY <1>1
  <2> QED
    BY <1>1, <2>1, <2>2, LossCallerStep
<1>2. ASSUME NEW c \in Callers, NEW step \in Steps, step # "log",
             UNCHANGED <<time, blockedTo, events, lost, answered, doubted>>, GoTo(c, step)
      PROVE  LossInv'
  <2> DEFINE entry == [call[c] EXCEPT !.step = step, !.tries = 0]
  <2>1. call' = [call EXCEPT ![c] = entry]
    BY <1>2 DEF GoTo
  <2>2. entry \in Calls /\ entry.step = step /\ entry.tries = 0
    BY <1>t, <1>2 DEF Calls
  <2> HIDE DEF entry
  <2>3. TriesFit(entry)
    BY <1>t, <2>2 DEF TriesFit
  <2> QED
    BY <1>1, <1>2, <2>1, <2>2, <2>3
<1>3. ASSUME NEW c \in Callers, UNCHANGED <<time, events, lost, answered, doubted>>,
             blockedTo' = blockedTo \/ blockedTo' = time + Window, Over(c)
      PROVE  LossInv'
  BY <1>1, <1>n, <1>3 DEF Over
<1>4. ASSUME NEW c \in Callers, call' = [call EXCEPT ![c].tries = @ + 1]
      PROVE  /\ call' = [call EXCEPT ![c] = [call[c] EXCEPT !.tries = call[c].tries + 1]]
             /\ [call[c] EXCEPT !.tries = call[c].tries + 1] \in Calls
             /\ [call[c] EXCEPT !.tries = call[c].tries + 1].step = call[c].step
             /\ call[c].step = "request" /\ call[c].tries + 1 < MaxPosts
                  => TriesFit([call[c] EXCEPT !.tries = call[c].tries + 1])
             /\ call[c].step = "log" /\ call[c].tries + 1 < MaxAttempts
                  => TriesFit([call[c] EXCEPT !.tries = call[c].tries + 1])
  <2> DEFINE entry == [call[c] EXCEPT !.tries = call[c].tries + 1]
  <2>1. call' = [call EXCEPT ![c] = entry]
    BY <1>4
  <2>2. entry \in Calls /\ entry.step = call[c].step /\ entry.tries = call[c].tries + 1 /\ call[c].tries \in Nat
    BY <1>t DEF Calls
  <2> HIDE DEF entry
  <2>3. /\ call[c].step = "request" /\ call[c].tries + 1 < MaxPosts => TriesFit(entry)
        /\ call[c].step = "log" /\ call[c].tries + 1 < MaxAttempts => TriesFit(entry)
    BY <1>t, <2>2 DEF TriesFit
  <2> QED
    BY <2>1, <2>2, <2>3 DEF entry
<1>5. ASSUME NEW c \in Callers, Start(c) PROVE LossInv'
  <2> DEFINE entry == [NoCall EXCEPT !.step = "flag", !.over = Spend >= Cap]
  <2>1. call' = [call EXCEPT ![c] = entry] /\ UNCHANGED <<time, blockedTo, events, lost, answered, doubted>>
    BY <1>5 DEF Start
  <2>2. entry \in Calls /\ entry.step = "flag" /\ entry.tries = 0
    <3>1. (Spend >= Cap) \in BOOLEAN
      OBVIOUS
    <3> QED
      BY <3>1 DEF Calls, Steps, NoCall
  <2> HIDE DEF entry
  <2>3. TriesFit(entry)
    BY <2>2 DEF TriesFit
  <2> QED
    BY <1>1, <2>1, <2>2, <2>3
<1>6. ASSUME NEW c \in Callers, ReadFlag(c) \/ ReadSpend(c) PROVE LossInv'
  <2>1. UNCHANGED <<time, blockedTo, events, lost, answered, doubted>>
    BY <1>6 DEF ReadFlag, ReadSpend
  <2>2. Over(c) \/ GoTo(c, "spend") \/ GoTo(c, "respend") \/ GoTo(c, "trip") \/ GoTo(c, "request")
    BY <1>6 DEF ReadFlag, ReadSpend
  <2>3. {"spend", "respend", "trip", "request"} \subseteq Steps
    BY DEF Steps
  <2> QED
    BY <1>2, <1>3, <2>1, <2>2, <2>3
<1>7. ASSUME NEW c \in Callers, Trip(c) \/ CheckFails(c) PROVE LossInv'
  BY <1>3, <1>7 DEF Trip, CheckFails
<1>8. ASSUME NEW c \in Callers, PostFails(c) PROVE LossInv'
  <2>1. UNCHANGED <<time, blockedTo, events, lost, answered, doubted>> /\ call[c].step = "request"
    BY <1>8 DEF PostFails
  <2>2. CASE call[c].tries + 1 < MaxPosts /\ call' = [call EXCEPT ![c].tries = @ + 1]
    BY <1>1, <1>4, <2>1, <2>2
  <2>3. CASE Over(c)
    BY <1>3, <2>1, <2>3
  <2> QED
    BY <1>8, <2>2, <2>3 DEF PostFails
<1>9. ASSUME NEW c \in Callers, NEW price \in Prices, Answered(c, price) PROVE LossInv'
  <2> DEFINE entry == [call[c] EXCEPT !.step = "log", !.tries = 0, !.number = answered + 1, !.price = price]
  <2>1. /\ call[c].step = "request" /\ answered + doubted < MaxCosts /\ answered' = answered + 1
        /\ call' = [call EXCEPT ![c] = entry] /\ UNCHANGED <<time, blockedTo, events, lost, doubted>>
    BY <1>9 DEF Answered
  <2>2. entry \in Calls /\ entry.step = "log" /\ entry.tries = 0
    <3>1. call[c] \in Calls /\ answered + 1 \in Nat /\ 0 \in Nat /\ price \in Prices \cup {0} /\ "log" \in Steps
      BY <1>t DEF Steps
    <3> QED
      BY <3>1 DEF Calls
  <2> HIDE DEF entry
  <2>3. /\ call'[c] = entry /\ \A d \in Callers : d # c => call'[d] = call[d]
        /\ Logging' = Logging \cup {c}
    BY <2>1, <2>2, LoggersAfter DEF CapInv
  <2>4. Cardinality(Logging') = Cardinality(Logging) + 1 /\ Cardinality(Logging) \in Nat
    <3>1. c \notin Logging
      BY <2>1 DEF Logging
    <3> QED
      BY <2>3, <3>1, LoggersCounted
  <2>5. lost' + Cardinality(Logging') <= answered'
    BY <1>t, <2>1, <2>4 DEF LossInv
  <2>6. TriesFit(entry)
    BY <1>t, <2>2 DEF TriesFit
  <2>7. \A d \in Callers : TriesFit(call'[d])
    BY <2>3, <2>6 DEF LossInv
  <2>8. answered' + doubted' <= MaxCosts
    BY <1>t, <2>1
  <2> QED
    BY <2>1, <2>5, <2>7, <2>8 DEF LossInv, TriesFit
<1>10. ASSUME NEW c \in Callers, Record(c) \/ RecordFails(c) \/ RecordInDoubt(c) PROVE LossInv'
  <2>1. /\ call[c].step = "log" /\ UNCHANGED <<time, blockedTo, answered>>
        /\ doubted' = doubted \/ (doubted' = doubted + 1 /\ answered + doubted < MaxCosts)
        /\ events' = events \/ events' = events \cup {Event(c, call[c].tries)}
    BY <1>10 DEF Record, RecordFails, RecordInDoubt
  <2>5. \A e \in events' : e \in events \/ e.at = time
    <3>1. Event(c, call[c].tries).at = time
      BY DEF Event
    <3> QED
      BY <2>1, <3>1
  <2>2. CASE Record(c)
    <3> DEFINE entry == [call[c] EXCEPT !.step = "reflag", !.tries = 0]
    <3>1. call' = [call EXCEPT ![c] = entry] /\ lost' = lost
      BY <2>2 DEF Record, GoTo
    <3>2. entry \in Calls /\ entry.step = "reflag" /\ entry.tries = 0
      BY <1>t DEF Calls, Steps
    <3> HIDE DEF entry
    <3>3. TriesFit(entry)
      BY <3>2 DEF TriesFit
    <3> QED
      BY <2>1, <2>5, <3>1, <3>2, <3>3, LossCallerStep
  <2>3. CASE call[c].tries + 1 < MaxAttempts /\ call' = [call EXCEPT ![c].tries = @ + 1] /\ UNCHANGED lost
    <3> DEFINE entry == [call[c] EXCEPT !.tries = call[c].tries + 1]
    <3>1. /\ call' = [call EXCEPT ![c] = entry] /\ entry \in Calls /\ entry.step = "log"
          /\ TriesFit(entry) /\ lost' = lost
      BY <1>4, <2>1, <2>3
    <3> HIDE DEF entry
    <3> QED
      BY <2>1, <2>5, <3>1, LossCallerStep
  <2>4. CASE Over(c) /\ lost' = lost + 1
    <3>1. call' = [call EXCEPT ![c] = NoCall]
      BY <2>4 DEF Over
    <3> QED
      BY <1>n, <2>1, <2>4, <2>5, <3>1, LossCallerStep
  <2> QED
    BY <1>10, <2>2, <2>3, <2>4 DEF RecordFails, RecordInDoubt
<1>11. CASE Reset
  <2>1. blockedTo' = 0 /\ UNCHANGED <<time, events, lost, call, answered, doubted>>
    BY <1>11 DEF Reset
  <2> QED
    BY <1>t, <2>1 DEF LossInv, Logging, TriesFit
<1>12. CASE SpendTick
  <2>1. /\ time < MaxTime /\ time' = time + 1 /\ UNCHANGED <<blockedTo, events, lost, answered, doubted>>
        /\ call' = [c \in Callers |-> [call[c] EXCEPT !.over = call[c].over /\ SpendAt(time + 1) >= Cap]]
    BY <1>12 DEF SpendTick
  <2>2. \A c \in Callers : call'[c].step = call[c].step /\ call'[c].tries = call[c].tries
    <3>1. ASSUME NEW c \in Callers, NEW over
          PROVE  /\ [call[c] EXCEPT !.over = over].step = call[c].step
                 /\ [call[c] EXCEPT !.over = over].tries = call[c].tries
      BY <1>t DEF Calls
    <3> QED
      BY <2>1, <3>1
  <2>3. Logging' = Logging
    BY <2>2 DEF Logging
  <2>4. \A c \in Callers : TriesFit(call'[c])
    BY <2>2 DEF LossInv, TriesFit
  <2>5. \A e \in events : e.at \in Nat
    BY DEF CapInv, EventsOK
  <2>6. time' \in 1..MaxTime /\ blockedTo' \in Nat /\ blockedTo' <= time' + Window
    BY <1>t, <2>1 DEF LossInv
  <2>7. \A e \in events' : 1 <= e.at /\ e.at <= time'
    BY <1>t, <2>1, <2>5 DEF LossInv
  <2> QED
    BY <2>1, <2>3, <2>4, <2>6, <2>7 DEF LossInv, TriesFit
<1>13. CASE UNCHANGED spendVars
  BY <1>13 DEF spendVars, LossInv, Logging, TriesFit
<1> QED
  BY <1>5, <1>6, <1>7, <1>8, <1>9, <1>10, <1>11, <1>12, <1>13 DEF SpendNext

(* Posts and inserts are retried as often as they may be and no more, the  *)
(* block key expires within a window, and no more costs are lost than      *)
(* calls were answered.                                                    *)
THEOREM SpendTypesCorrect == SpendSpec => []SpendTypeOK
<1>1. CapInv /\ LossInv => SpendTypeOK
  <2> SUFFICES ASSUME CapInv, LossInv PROVE SpendTypeOK
    OBVIOUS
  <2>1. /\ answered \in Nat /\ lost \in Nat /\ doubted \in Nat /\ Cardinality(Logging) \in Nat
        /\ Window \in Nat /\ MaxTime \in Nat /\ MaxCosts \in Nat /\ time \in 1..MaxTime
        /\ \A c \in Callers : call[c] \in Calls
    BY SpendAssumption, LoggersCounted DEF CapInv, SpendInv, CallsOK, LossInv
  <2>2. blockedTo \in 0..(MaxTime + Window)
    BY <2>1 DEF LossInv
  <2>3. \A e \in events : e.number \in 1..answered /\ e.at \in 1..time /\ e.amount \in Prices
    BY <2>1 DEF CapInv, SpendInv, EventsOK, LossInv
  <2>4. lost \in 0..answered /\ answered + doubted \in 0..MaxCosts
    BY <2>1 DEF LossInv
  <2>5. ASSUME NEW c \in Callers
        PROVE  /\ call[c].step \in Steps
               /\ call[c].tries \in 0..(IF call[c].step = "request" THEN MaxPosts - 1
                                        ELSE IF call[c].step = "log" THEN MaxAttempts - 1 ELSE 0)
    <3>1. call[c].step \in Steps /\ call[c].tries \in Nat /\ TriesFit(call[c])
      BY <2>1 DEF Calls, LossInv
    <3>2. MaxPosts \in Nat /\ MaxAttempts \in Nat
      BY SpendAssumption
    <3> QED
      BY <3>1, <3>2 DEF TriesFit
  <2> QED
    BY <2>1, <2>2, <2>3, <2>4, <2>5 DEF SpendTypeOK
<1> QED
  BY <1>1, CapStart, CapKeeps, LossStart, LossKept, PTL DEF SpendSpec

-----------------------------------------------------------------------------
(* The buffer keeps the latest events and no more than HistorySize.        *)
LEMMA BufferStep ==
    ASSUME BusTypes, NEW e, NEW kind, StartEmit(e, kind), Len(history) <= HistorySize
    PROVE  Len(history') <= HistorySize
<1>1. history \in Seq(Events) /\ HistorySize \in Nat \ {0}
  BY BusAssumption DEF BusTypes
<1>2. history' = Remember(history, Len(kinds) + 1)
  BY DEF StartEmit
<1>3. CASE Len(history) < HistorySize
  BY <1>1, <1>2, <1>3 DEF Remember
<1>4. CASE ~(Len(history) < HistorySize)
  <2>1. Len(history) = HistorySize /\ history # <<>>
    BY <1>1, <1>4
  <2>2. Tail(history) \in Seq(Events) /\ Len(Tail(history)) = HistorySize - 1
    BY <1>1, <2>1
  <2>3. history' = Append(Tail(history), Len(kinds) + 1)
    BY <1>2, <1>4 DEF Remember
  <2> QED
    BY <1>1, <2>2, <2>3
<1> QED
  BY <1>3, <1>4

(* The bus keeps no more events than its buffer may hold, and a report of  *)
(* a failing callback never starts another: emit() is two deep at most.    *)
THEOREM BusTypesCorrect == BusSpec => []BusTypeOK
<1> DEFINE Inv == BusInv /\ Len(history) <= HistorySize
<1>1. BusInit => Inv
  BY BusStart, BusAssumption DEF BusInit
<1>2. Inv /\ [BusNext]_busVars => Inv'
  <2> SUFFICES ASSUME Inv, [BusNext]_busVars PROVE Inv'
    OBVIOUS
  <2>1. BusInv' /\ BusTypes
    BY BusKept DEF BusInv
  <2>2. ASSUME NEW e \in Emitters, Emit(e) \/ CallbackFails(e) PROVE Len(history') <= HistorySize
    BY <2>1, <2>2, BufferStep DEF Emit, CallbackFails
  <2>3. (\E e \in Emitters : Emit(e) \/ CallbackFails(e)) \/ UNCHANGED history
    <3>1. ASSUME NEW s \in Sockets, Connect(s) \/ Register(s) \/ Greet(s) \/ Disconnect(s) \/ Vanish(s)
          PROVE  UNCHANGED history
      BY <3>1 DEF Connect, Register, Greet, Disconnect, Vanish
    <3>2. ASSUME NEW e \in Emitters, Snapshot(e) \/ Broadcast(e) PROVE UNCHANGED history
      BY <3>2 DEF Snapshot, Broadcast
    <3> QED
      BY <3>1, <3>2 DEF BusNext, Shutdown, busVars
  <2> QED
    BY <2>1, <2>2, <2>3
<1>3. Inv => BusTypeOK
  <2> SUFFICES ASSUME Inv PROVE BusTypeOK
    OBVIOUS
  <2>1. ASSUME NEW e \in Emitters
        PROVE  /\ Len(emitting[e]) <= 2
               /\ \A i \in DOMAIN emitting[e] :
                     emitting[e][i] \in [step : {"callbacks", "sending"}, event : Events, to : SUBSET Sockets]
    <3>1. emitting[e] \in Seq(Frames) /\ Len(emitting[e]) <= 2
      BY DEF BusInv, BusTypes, StackOK
    <3>2. \A i \in DOMAIN emitting[e] : emitting[e][i] \in Frames
      BY <3>1
    <3> QED
      BY <3>1, <3>2 DEF Frames
  <2> QED
    BY <2>1 DEF BusInv, BusTypes, BusTypeOK
<1> HIDE DEF Inv
<1> QED
  BY <1>1, <1>2, <1>3, PTL DEF BusSpec

(* The record of objectives has its shape whatever requests overlap.       *)
THEOREM PlanTypesCorrect == PlanSpec => []PlanTypeOK
<1>1. PlanInv => PlanTypeOK
  BY DEF PlanInv
<1> QED
  BY <1>1, PlanInvHolds, PTL

-----------------------------------------------------------------------------
(* The rescue of a danger goes by its own id all the way.                  *)
RescuesNamed ==
    /\ announced \subseteq DOMAIN reports
    /\ Len(reports) <= MaxReports /\ cancelled <= MaxCancelled
    /\ \A w \in Writers : request[w].step = "announce" => request[w].id \in DOMAIN reports

LEMMA RescuesNamedKept == DangerInv /\ RescuesNamed /\ [DangerNext]_dangerVars => RescuesNamed'
<1> SUFFICES ASSUME DangerInv, RescuesNamed, [DangerNext]_dangerVars PROVE RescuesNamed'
  OBVIOUS
<1>t. /\ reports \in Seq(Villagers) /\ DOMAIN reports = 1..Len(reports) /\ Len(reports) \in Nat
      /\ request \in [Writers -> Requests]
      /\ cancelled \in Nat
  BY DEF DangerInv, DangerTypes
<1>n. \A w \in Writers : request[w].step \in {"dispatch", "task"} => request[w].id \in DOMAIN reports
  BY DEF DangerInv, NothingInvented
<1>1. ASSUME NEW w \in Writers, NEW entry, request' = [request EXCEPT ![w] = entry],
             UNCHANGED <<reports, cancelled>>, announced' \subseteq DOMAIN reports,
             entry.step = "announce" => entry.id \in DOMAIN reports
      PROVE  RescuesNamed'
  <2>1. \A v \in Writers : request'[v] = IF v = w THEN entry ELSE request[v]
    BY <1>1, <1>t
  <2> QED
    BY <1>1, <2>1 DEF RescuesNamed
<1>2. ASSUME NEW w \in Writers, NEW a \in Villagers, Report(w, a) PROVE RescuesNamed'
  <2>1. /\ Len(reports) + 1 <= MaxReports /\ reports' = Append(reports, a)
        /\ UNCHANGED <<announced, cancelled>>
        /\ request' = [request EXCEPT ![w] = Request("trim", Len(reports) + 1, a, <<>>)]
    BY <1>2 DEF Report, Begins
  <2>2. Len(reports') = Len(reports) + 1 /\ DOMAIN reports' = 1..(Len(reports) + 1)
    BY <1>t, <2>1
  <2>3. DOMAIN reports \subseteq DOMAIN reports'
    BY <1>t, <2>2
  <2>4. \A v \in Writers : request'[v].step = "announce" => request'[v] = request[v]
    <3>1. Request("trim", Len(reports) + 1, a, <<>>).step = "trim"
      BY DEF Request
    <3> QED
      BY <1>t, <2>1, <3>1
  <2> QED
    BY <2>1, <2>2, <2>3, <2>4 DEF RescuesNamed
<1>3. ASSUME NEW w \in Writers, NEW id, NEW a, Resolve(w, id, a) PROVE RescuesNamed'
  <2> DEFINE entry == Request("resolve", id, a, <<>>)
  <2>1. entry.step = "resolve"
    BY DEF Request
  <2>2. request' = [request EXCEPT ![w] = entry] /\ UNCHANGED <<announced, reports, cancelled>>
    BY <1>3 DEF Resolve, Begins
  <2> HIDE DEF entry
  <2> QED
    BY <1>1, <2>1, <2>2 DEF RescuesNamed
<1>4. ASSUME NEW w \in Writers, Trim(w) \/ DeleteList(w) PROVE RescuesNamed'
  <2>1. PICK step \in {"dispatch", "push", "repush"} :
           request' = [request EXCEPT ![w] = [request[w] EXCEPT !.step = step]]
    <3>1. CASE Trim(w)
      BY <3>1 DEF Trim
    <3>2. CASE DeleteList(w)
      BY <1>t, <3>2 DEF DeleteList
    <3> QED
      BY <1>4, <3>1, <3>2
  <2>2. [request[w] EXCEPT !.step = step].step = step
    BY <1>t DEF Requests
  <2>3. UNCHANGED <<announced, reports, cancelled>>
    BY <1>4 DEF Trim, DeleteList
  <2> QED
    BY <1>1, <2>1, <2>2, <2>3 DEF RescuesNamed
<1>i. Nothing.step = "idle"
  BY DEF Nothing, Request
<1>5. ASSUME NEW w \in Writers, ReadList(w) PROVE RescuesNamed'
  <2>1. UNCHANGED <<announced, reports, cancelled>>
    BY <1>5 DEF ReadList
  <2>2. CASE NoMatch(w)
    <3>1. CASE request[w].step = "dispatch"
      <4>1. request' = [request EXCEPT ![w] = [request[w] EXCEPT !.step = "announce"]]
        BY <2>2, <3>1 DEF NoMatch
      <4>2. [request[w] EXCEPT !.step = "announce"].id = request[w].id /\ request[w].id \in DOMAIN reports
        BY <1>t, <1>n, <3>1 DEF Requests
      <4> QED
        BY <1>1, <2>1, <4>1, <4>2 DEF RescuesNamed
    <3>2. CASE request[w].step # "dispatch"
      <4>1. request' = [request EXCEPT ![w] = Nothing]
        BY <2>2, <3>2 DEF NoMatch
      <4> QED
        BY <1>1, <1>i, <2>1, <4>1 DEF RescuesNamed
    <3> QED
      BY <3>1, <3>2
  <2>3. CASE ~NoMatch(w)
    <3> DEFINE m == Matches(dangers, request[w].id, request[w].who)
               step == IF request[w].step = "dispatch" THEN "redelete" ELSE "delete"
               new == Request(step, dangers[Latest(m)].id, request[w].who,
                              [dangers EXCEPT ![Latest(m)] = Updated(@, request[w].step)])
    <3>1. m # {}
      BY <1>5, <2>3 DEF ReadList
    <3>2. request' = [request EXCEPT ![w] = new]
      BY <1>5, <3>1 DEF ReadList
    <3>3. new.step \in {"redelete", "delete"}
      BY DEF Request
    <3> HIDE DEF new
    <3> QED
      BY <1>1, <2>1, <3>2, <3>3 DEF RescuesNamed
  <2> QED
    BY <2>2, <2>3
<1>6. ASSUME NEW w \in Writers, PushList(w) \/ PostRescue(w) PROVE RescuesNamed'
  <2>1. UNCHANGED <<announced, reports, cancelled>>
    BY <1>6 DEF PushList, PostRescue
  <2>2. CASE PushList(w)
    <3>1. \/ request' = [request EXCEPT ![w] = Nothing]
          \/ request' = [request EXCEPT ![w] = [request[w] EXCEPT !.step = "task"]]
      BY <2>2 DEF PushList
    <3>2. [request[w] EXCEPT !.step = "task"].step = "task"
      BY <1>t DEF Requests
    <3> QED
      BY <1>1, <1>i, <2>1, <3>1, <3>2 DEF RescuesNamed
  <2>3. CASE PostRescue(w)
    <3>1. request' = [request EXCEPT ![w] = [request[w] EXCEPT !.step = "announce"]]
      BY <2>3 DEF PostRescue
    <3>2. [request[w] EXCEPT !.step = "announce"].id = request[w].id /\ request[w].id \in DOMAIN reports
      BY <1>t, <1>n, <2>3 DEF Requests, PostRescue
    <3> QED
      BY <1>1, <2>1, <3>1, <3>2 DEF RescuesNamed
  <2> QED
    BY <1>6, <2>2, <2>3
<1>7. ASSUME NEW w \in Writers, Announce(w) PROVE RescuesNamed'
  <2>1. /\ request' = [request EXCEPT ![w] = Nothing] /\ UNCHANGED <<reports, cancelled>>
        /\ announced' = announced \cup {request[w].id} /\ request[w].step = "announce"
    BY <1>7 DEF Announce, Finished
  <2>2. announced' \subseteq DOMAIN reports
    BY <2>1 DEF RescuesNamed
  <2> QED
    BY <1>1, <1>i, <2>1, <2>2
<1>8. ASSUME NEW w \in Writers, Cancel(w) PROVE RescuesNamed'
  <2>1. /\ cancelled < MaxCancelled /\ cancelled' = cancelled + 1 /\ UNCHANGED <<announced, reports>>
        /\ request' = [request EXCEPT ![w] = Nothing]
    BY <1>8 DEF Cancel, Finished
  <2>2. \A v \in Writers : request'[v].step = "announce" => request'[v] = request[v]
    BY <1>t, <1>i, <2>1
  <2>3. MaxCancelled \in Nat
    BY DangerAssumption
  <2> QED
    BY <1>t, <2>1, <2>2, <2>3 DEF RescuesNamed
<1>9. CASE UNCHANGED dangerVars
  BY <1>9 DEF dangerVars, RescuesNamed
<1> QED
  BY <1>2, <1>3, <1>4, <1>5, <1>6, <1>7, <1>8, <1>9 DEF DangerNext, Continue

(* Rescue tasks and announcements are of dangers that were reported.       *)
THEOREM DangerTypesCorrect == DangerSpec => []DangerTypeOK
<1>1. DangerInit => RescuesNamed
  BY DangerAssumption DEF DangerInit, RescuesNamed, Nothing, Request
<1>2. DangerInv /\ RescuesNamed => DangerTypeOK
  <2> SUFFICES ASSUME DangerInv, RescuesNamed PROVE DangerTypeOK
    OBVIOUS
  <2> DEFINE Ids == 1..MaxReports
             Listed == [id : Ids, status : {"open", "rescue_dispatched", "resolved"}]
             List == Seq(Listed)
  <2>1. /\ reports \in Seq(Villagers) /\ DOMAIN reports = 1..Len(reports) /\ Len(reports) \in Nat
        /\ MaxReports \in Nat /\ Len(reports) <= MaxReports
    BY DangerAssumption DEF DangerInv, DangerTypes, RescuesNamed
  <2>2. DOMAIN reports \subseteq Ids
    BY <2>1
  <2>3. ASSUME NEW list \in Seq(Entries), Truthful(list, Len(reports), resolved) PROVE list \in List
    <3>1. \A i \in 1..Len(list) :
             list[i] \in Entries /\ list[i].id \in Ids
      BY <2>1, <2>2, <2>3 DEF Truthful
    <3>2. \A i \in 1..Len(list) : list[i] \in Listed
      BY <3>1 DEF Entries
    <3> HIDE DEF Listed
    <3> QED
      BY <3>2
  <2> HIDE DEF Ids, Listed, List
  <2>4. dangers \in List
    BY <2>3 DEF DangerInv, DangerTypes, NothingInvented
  <2>5. \A w \in Writers : request[w].copy \in List
    <3> TAKE w \in Writers
    <3>1. request[w].copy \in Seq(Entries) /\ Truthful(request[w].copy, Len(reports), resolved)
      BY DEF DangerInv, DangerTypes, NothingInvented, Requests
    <3> QED
      BY <2>3, <3>1
  <2>6. resolved \subseteq Ids /\ rescues \subseteq Ids /\ announced \subseteq Ids
    BY <2>2 DEF DangerInv, NothingInvented, RescuesNamed
  <2>7. cancelled \in 0..MaxCancelled /\ serial \in BOOLEAN
    BY DangerAssumption DEF DangerInv, DangerTypes, RescuesNamed
  <2> QED
    BY <2>1, <2>4, <2>5, <2>6, <2>7 DEF DangerTypeOK, Ids, Listed, List
<1> QED
  BY <1>1, <1>2, DangerStart, DangerKept, RescuesNamedKept, PTL DEF DangerSpec

=============================================================================
