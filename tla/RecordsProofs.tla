---------------------------- MODULE RecordsProofs ----------------------------
(***************************************************************************)
(* Proofs about what is recorded once by callers that overlap: the owners  *)
(* of tasks in TaskBoard, the frames, errands and memories of Bridge, the  *)
(* votes and members of Alliances, the events of SceneMemory.              *)
(***************************************************************************)
EXTENDS TaskBoard, Bridge, Alliances, SceneMemory, SumTheorems, FunctionTheorems,
        FiniteSetTheorems, SequenceTheorems, TLAPS

-----------------------------------------------------------------------------
(* The bridge: types, and what a frame in each place works for.            *)
FrameFits(f) ==
    /\ f.step # "idle" => f.verb \in Verbs
    /\ f.verb = "errand.complete" => f.errand \in Errands
    /\ f.step \in {"answer", "complete", "wait", "lookup", "compact", "store"} =>
           f.errand \in Errands

BridgeTypes ==
    /\ frame \in [Bots -> Frames]
    /\ \A b \in Bots : FrameFits(frame[b])
    /\ waiting \in Seq(Errands)
    /\ now \in Nat \ {0} /\ mishaps \in Nat /\ killed \in BOOLEAN
    /\ seen \in [Errands -> Nat] /\ memories \in [Errands -> Nat]
    /\ accepted \in [Errands -> Nat] /\ handed \in [Errands -> Nat] /\ dropped \in [Errands -> Nat]
    /\ lock \in [Errands -> Bots \cup {NoBot}]

LEMMA GotoFrame ==
    ASSUME frame \in [Bots -> Frames], NEW b \in Bots, NEW step, Goto(b, step),
           step \in {"emit", "regate", "poll", "complete", "wait", "lookup", "compact", "store"}
    PROVE  /\ frame' \in [Bots -> Frames]
           /\ frame'[b].step = step /\ frame'[b].verb = frame[b].verb
           /\ frame'[b].errand = frame[b].errand /\ frame'[b].off = frame[b].off
           /\ \A c \in Bots : c # b => frame'[c] = frame[c]
<1> DEFINE f == [frame[b] EXCEPT !.step = step]
<1>1. frame' = [frame EXCEPT ![b] = f]
  BY DEF Goto
<1>2. /\ f \in Frames /\ f.step = step /\ f.verb = frame[b].verb
      /\ f.errand = frame[b].errand /\ f.off = frame[b].off
  BY DEF Frames
<1> HIDE DEF f
<1> QED
  BY <1>1, <1>2

LEMMA AnswerFrame ==
    ASSUME frame \in [Bots -> Frames], NEW b \in Bots, Answer(b)
    PROVE  /\ frame' \in [Bots -> Frames]
           /\ frame'[b] = NoFrame /\ frame'[b].step = "idle" /\ FrameFits(NoFrame)
           /\ \A c \in Bots : c # b => frame'[c] = frame[c]
<1>1. NoFrame \in Frames /\ NoFrame.step = "idle" /\ NoFrame.verb = "none"
  BY DEF NoFrame, Frames
<1> QED
  BY <1>1 DEF Answer, FrameFits

LEMMA ReceiveFrame ==
    ASSUME frame \in [Bots -> Frames], killed \in BOOLEAN, NEW b \in Bots, NEW verb \in Verbs,
           NEW t \in Errands \cup {NoErrand}, Receive(b, verb, t)
    PROVE  /\ frame' \in [Bots -> Frames]
           /\ frame'[b].step = "gate" /\ frame'[b].verb = verb
           /\ frame'[b].errand = t /\ frame'[b].off = ~killed
           /\ frame[b].step = "idle"
           /\ \A c \in Bots : c # b => frame'[c] = frame[c]
<1> DEFINE f == [step |-> "gate", verb |-> verb, errand |-> t, off |-> ~killed]
<1>1. frame' = [frame EXCEPT ![b] = f] /\ frame[b].step = "idle"
  BY DEF Receive
<1>2. f \in Frames /\ f.step = "gate" /\ f.verb = verb /\ f.errand = t /\ f.off = ~killed
  BY DEF Frames
<1> HIDE DEF f
<1> QED
  BY <1>1, <1>2

(* The switch is noticed by every frame in flight and moves none.          *)
LEMMA SwitchFrames ==
    ASSUME frame \in [Bots -> Frames], Switch
    PROVE  /\ frame' \in [Bots -> Frames]
           /\ \A b \in Bots : /\ frame'[b].step = frame[b].step /\ frame'[b].verb = frame[b].verb
                              /\ frame'[b].errand = frame[b].errand
                              /\ frame[b].step # "idle" => frame'[b].off
<1>1. \A b \in Bots : [frame[b] EXCEPT !.off = TRUE] \in Frames
  BY DEF Frames
<1>2. \A b \in Bots : frame'[b] = IF frame[b].step = "idle" THEN frame[b]
                                  ELSE [frame[b] EXCEPT !.off = TRUE]
  BY DEF Switch
<1>3. frame' \in [Bots -> Frames]
  BY <1>1 DEF Switch
<1>4. \A b \in Bots : frame[b] \in Frames
  OBVIOUS
<1> QED
  BY <1>2, <1>3, <1>4 DEF Frames

(* A frame that the gate lets pass.                                        *)
LEMMA PassedSteps ==
    ASSUME NEW verb \in Verbs
    PROVE  /\ Passed(verb) \in {"poll", "complete", "regate", "emit"}
           /\ Passed(verb) = "complete" <=> verb = "errand.complete"
BY BridgeAssumption DEF Passed

-----------------------------------------------------------------------------
(* Counting errands in a queue.                                            *)
LEMMA CountNat ==
    ASSUME NEW q \in Seq(Errands), NEW t
    PROVE  /\ IsFiniteSet({i \in DOMAIN q : q[i] = t})
           /\ Count(q, t) \in Nat
<1>1. IsFiniteSet(1 .. Len(q)) /\ DOMAIN q = 1 .. Len(q)
  BY FS_Interval
<1>2. {i \in DOMAIN q : q[i] = t} \subseteq 1 .. Len(q)
  BY <1>1
<1> QED
  BY <1>1, <1>2, FS_Subset, FS_CardinalityType DEF Count

LEMMA CountAppend ==
    ASSUME NEW q \in Seq(Errands), NEW e \in Errands, NEW t
    PROVE  Count(Append(q, e), t) = Count(q, t) + (IF e = t THEN 1 ELSE 0)
<1> DEFINE n == Len(q) + 1
           S == {i \in DOMAIN q : q[i] = t}
<1>1. /\ DOMAIN Append(q, e) = DOMAIN q \cup {n} /\ n \notin DOMAIN q
      /\ Append(q, e)[n] = e
      /\ \A i \in DOMAIN q : Append(q, e)[i] = q[i]
  OBVIOUS
<1>2. IsFiniteSet(S) /\ Cardinality(S) \in Nat /\ n \notin S
  BY <1>1, CountNat DEF Count
<1>3. {i \in DOMAIN Append(q, e) : Append(q, e)[i] = t} = IF e = t THEN S \cup {n} ELSE S
  BY <1>1
<1>4. Cardinality(S \cup {n}) = Cardinality(S) + 1
  BY <1>2, FS_AddElement
<1>5. Count(q, t) = Cardinality(S) /\ Count(Append(q, e), t) = Cardinality(IF e = t THEN S \cup {n} ELSE S)
  BY <1>3 DEF Count
<1> HIDE DEF S, n
<1> QED
  BY <1>2, <1>4, <1>5

LEMMA CountTail ==
    ASSUME NEW q \in Seq(Errands), q # <<>>, NEW t
    PROVE  Count(q, t) = Count(Tail(q), t) + (IF Head(q) = t THEN 1 ELSE 0)
<1> DEFINE S == {i \in DOMAIN q : q[i] = t}
           T == {i \in DOMAIN Tail(q) : Tail(q)[i] = t}
           f == [i \in T |-> i + 1]
<1>1. /\ Len(q) \in Nat \ {0} /\ Tail(q) \in Seq(Errands) /\ DOMAIN q = 1 .. Len(q)
      /\ DOMAIN Tail(q) = 1 .. Len(q) - 1 /\ Head(q) = q[1]
      /\ \A i \in 1 .. Len(q) - 1 : Tail(q)[i] = q[i + 1]
  OBVIOUS
<1>2. IsFiniteSet(S) /\ IsFiniteSet(T) /\ Cardinality(S) \in Nat /\ Cardinality(T) \in Nat
  BY <1>1, CountNat DEF Count
<1>3. f \in Bijection(T, S \ {1})
  <2>1. f \in [T -> S \ {1}]
    BY <1>1
  <2>2. \A i, j \in T : f[i] = f[j] => i = j
    BY <1>1
  <2>3. \A k \in S \ {1} : \E i \in T : f[i] = k
    <3> SUFFICES ASSUME NEW k \in S \ {1} PROVE k - 1 \in T /\ f[k - 1] = k
      OBVIOUS
    <3> QED
      BY <1>1
  <2> QED
    BY <2>1, <2>2, <2>3, Fun_IsBij
<1>4. Cardinality(S \ {1}) = Cardinality(T)
  BY <1>2, <1>3, FS_Bijection DEF ExistsBijection
<1>5. Cardinality(S \ {1}) = IF 1 \in S THEN Cardinality(S) - 1 ELSE Cardinality(S)
  BY <1>2, FS_RemoveElement
<1>6. 1 \in S <=> Head(q) = t
  BY <1>1
<1>7. Count(q, t) = Cardinality(S) /\ Count(Tail(q), t) = Cardinality(T)
  BY DEF Count
<1> HIDE DEF S, T, f
<1> QED
  BY <1>2, <1>4, <1>5, <1>6, <1>7

LEMMA UndeliveredFinite ==
    ASSUME NEW t PROVE IsFiniteSet(Undelivered(t)) /\ Cardinality(Undelivered(t)) \in Nat
<1>1. Undelivered(t) \subseteq Bots /\ IsFiniteSet(Bots)
  BY BridgeAssumption DEF Undelivered
<1> QED
  BY <1>1, FS_Subset, FS_CardinalityType

(* A step of one bot's frame, or of its harness.                           *)
OfBot(b) ==
    \/ \E verb \in Verbs \ {"errand.complete"} : Receive(b, verb, NoErrand)
    \/ \E t \in Errands : "errand.complete" \in Verbs /\ Receive(b, "errand.complete", t)
    \/ GateFails(b) \/ LookupFails(b) \/ CompactFails(b) \/ Proceeds(b)

LEMMA BridgeActors ==
    BridgeNext <=> \/ \E t \in Errands : Dispatch(t)
                   \/ Tick \/ Switch \/ Restart
                   \/ \E b \in Bots : OfBot(b)
BY DEF BridgeNext, OfBot

(* Every step of a frame leaves the other frames alone.                    *)
LEMMA BotFrames ==
    ASSUME BridgeTypes, NEW b \in Bots, OfBot(b)
    PROVE  /\ frame' \in [Bots -> Frames]
           /\ FrameFits(frame'[b])
           /\ \A c \in Bots : c # b => frame'[c] = frame[c]
<1>t. /\ frame \in [Bots -> Frames] /\ killed \in BOOLEAN /\ frame[b] \in Frames
      /\ FrameFits(frame[b])
  BY DEF BridgeTypes
<1>1. ASSUME NEW verb \in Verbs \ {"errand.complete"}, Receive(b, verb, NoErrand)
      PROVE  /\ frame' \in [Bots -> Frames]
             /\ FrameFits(frame'[b])
             /\ \A c \in Bots : c # b => frame'[c] = frame[c]
  BY <1>t, <1>1, ReceiveFrame DEF FrameFits
<1>2. ASSUME NEW t \in Errands, "errand.complete" \in Verbs, Receive(b, "errand.complete", t)
      PROVE  /\ frame' \in [Bots -> Frames]
             /\ FrameFits(frame'[b])
             /\ \A c \in Bots : c # b => frame'[c] = frame[c]
  BY <1>t, <1>2, ReceiveFrame DEF FrameFits
<1>3. CASE Answer(b)
  BY <1>t, <1>3, AnswerFrame
<1>4. ASSUME NEW step \in {"emit", "regate", "poll", "complete", "wait", "lookup", "compact", "store"},
             Goto(b, step), frame[b].step # "idle",
             step \in {"complete", "wait", "lookup", "compact", "store"} => frame[b].errand \in Errands
      PROVE  /\ frame' \in [Bots -> Frames]
             /\ FrameFits(frame'[b])
             /\ \A c \in Bots : c # b => frame'[c] = frame[c]
  <2>1. /\ frame' \in [Bots -> Frames]
        /\ frame'[b].step = step /\ frame'[b].verb = frame[b].verb
        /\ frame'[b].errand = frame[b].errand /\ frame'[b].off = frame[b].off
        /\ \A c \in Bots : c # b => frame'[c] = frame[c]
    BY <1>t, <1>4, GotoFrame
  <2> QED
    BY <1>t, <1>4, <2>1 DEF FrameFits
<1>5. CASE GateFails(b) \/ CompactFails(b) \/ DispatchInbound(b) \/ SendErrand(b) \/ Store(b)
  BY <1>3, <1>5 DEF GateFails, CompactFails, DispatchInbound, SendErrand, Store
<1>6. CASE Gate(b)
  <2>1. frame[b].step = "gate" /\ frame[b].verb \in Verbs
    BY <1>t, <1>6 DEF Gate, FrameFits
  <2>2. Passed(frame[b].verb) = "complete" => frame[b].errand \in Errands
    BY <1>t, <2>1, PassedSteps DEF FrameFits
  <2>3. Passed(frame[b].verb) \in {"poll", "complete", "regate", "emit"}
    BY <2>1, PassedSteps
  <2>4. Answer(b) \/ Goto(b, Passed(frame[b].verb))
    BY <1>6 DEF Gate
  <2> QED
    BY <1>3, <1>4, <2>1, <2>2, <2>3, <2>4
<1>7. CASE Regate(b)
  BY <1>3, <1>4, <1>7 DEF Regate
<1>8. CASE Poll(b)
  <2>1. CASE waiting = <<>>
    BY <1>3, <1>8, <2>1 DEF Poll
  <2>2. CASE waiting # <<>>
    <3> DEFINE f == [frame[b] EXCEPT !.step = "answer", !.errand = Head(waiting)]
    <3>1. frame' = [frame EXCEPT ![b] = f] /\ frame[b].step = "poll"
      BY <1>8, <2>2 DEF Poll
    <3>2. Head(waiting) \in Errands
      BY <2>2 DEF BridgeTypes
    <3>3. f \in Frames /\ f.step = "answer" /\ f.errand = Head(waiting) /\ f.verb = frame[b].verb
      BY <1>t, <3>2 DEF Frames
    <3> HIDE DEF f
    <3> QED
      BY <1>t, <3>1, <3>2, <3>3 DEF FrameFits
  <2> QED
    BY <2>1, <2>2
<1>9. CASE Complete(b) \/ Lock(b) \/ Compact(b)
  BY <1>t, <1>4, <1>9 DEF Complete, Lock, Compact, FrameFits
<1>10. CASE Lookup(b) \/ LookupFails(b)
  <2>1. \E keys : LookupIn(b, keys)
    BY <1>10 DEF Lookup, LookupFails
  <2>2. frame[b].step = "lookup" /\ frame[b].errand \in Errands /\ (Answer(b) \/ Goto(b, "compact"))
    BY <1>t, <2>1 DEF LookupIn, FrameFits
  <2> QED
    BY <1>3, <1>4, <2>2
<1> QED
  BY <1>1, <1>2, <1>5, <1>6, <1>7, <1>8, <1>9, <1>10 DEF OfBot, Proceeds

LEMMA BridgeTypesStart == BridgeInit => BridgeTypes
<1> SUFFICES ASSUME BridgeInit PROVE BridgeTypes
  OBVIOUS
<1>1. NoFrame \in Frames /\ FrameFits(NoFrame)
  BY DEF NoFrame, Frames, FrameFits
<1>2. frame \in [Bots -> Frames] /\ \A b \in Bots : FrameFits(frame[b])
  BY <1>1 DEF BridgeInit
<1>3. lock \in [Errands -> Bots \cup {NoBot}] /\ waiting \in Seq(Errands)
  BY DEF BridgeInit
<1>5. killed \in BOOLEAN
  BY DEF BridgeInit
<1>4. /\ now \in Nat \ {0} /\ mishaps \in Nat
      /\ seen \in [Errands -> Nat] /\ memories \in [Errands -> Nat]
      /\ accepted \in [Errands -> Nat] /\ handed \in [Errands -> Nat] /\ dropped \in [Errands -> Nat]
  BY DEF BridgeInit
<1> QED
  BY <1>2, <1>3, <1>4, <1>5 DEF BridgeTypes

LEMMA BridgeTypesKept == BridgeTypes /\ [BridgeNext]_bridgeVars => BridgeTypes'
<1> SUFFICES ASSUME BridgeTypes, [BridgeNext]_bridgeVars PROVE BridgeTypes'
  OBVIOUS
<1>t. /\ waiting \in Seq(Errands) /\ now \in Nat \ {0} /\ mishaps \in Nat /\ killed \in BOOLEAN
      /\ seen \in [Errands -> Nat] /\ memories \in [Errands -> Nat]
      /\ accepted \in [Errands -> Nat] /\ handed \in [Errands -> Nat] /\ dropped \in [Errands -> Nat]
      /\ lock \in [Errands -> Bots \cup {NoBot}] /\ Ttl \in Nat
  BY BridgeAssumption DEF BridgeTypes
<1>1. ASSUME NEW t \in Errands, Dispatch(t) PROVE BridgeTypes'
  BY <1>1, <1>t DEF BridgeTypes, Dispatch, memoryVars
<1>2. CASE Tick
  BY <1>2, <1>t DEF BridgeTypes, Tick, queueVars, memoryVars
<1>3. CASE Switch
  <2>1. frame' \in [Bots -> Frames] /\ \A b \in Bots : FrameFits(frame'[b])
    BY <1>3, SwitchFrames DEF BridgeTypes, FrameFits
  <2> QED
    BY <1>3, <1>t, <2>1 DEF BridgeTypes, Switch, queueVars, memoryVars
<1>4. CASE Restart
  <2>1. NoFrame \in Frames /\ FrameFits(NoFrame)
    BY DEF NoFrame, Frames, FrameFits
  <2>2. dropped' \in [Errands -> Nat]
    <3>1. \A t \in Errands : Count(waiting, t) \in Nat /\ Cardinality(Undelivered(t)) \in Nat
      BY <1>t, CountNat, UndeliveredFinite, FS_CardinalityType
    <3> QED
      BY <1>4, <1>t, <3>1 DEF Restart
  <2>3. /\ waiting' = <<>> /\ seen' = [t \in Errands |-> 0] /\ lock' = [t \in Errands |-> NoBot]
        /\ frame' = [b \in Bots |-> NoFrame] /\ mishaps' = mishaps + 1
        /\ UNCHANGED <<now, killed, memories, accepted, handed>>
    BY <1>4 DEF Restart
  <2> QED
    BY <1>t, <2>1, <2>2, <2>3 DEF BridgeTypes
<1>5. ASSUME NEW b \in Bots, OfBot(b) PROVE BridgeTypes'
  <2>1. frame' \in [Bots -> Frames] /\ \A c \in Bots : FrameFits(frame'[c])
    BY <1>5, BotFrames DEF BridgeTypes
  <2>2. FrameFits(frame[b])
    BY DEF BridgeTypes
  <2>3. waiting' \in Seq(Errands) /\ UNCHANGED <<now, killed, seen, accepted>>
    <3>1. waiting' = waiting \/ (waiting # <<>> /\ waiting' = Tail(waiting))
      BY <1>5 DEF OfBot, Receive, GateFails, LookupFails, CompactFails, Proceeds, Gate, Regate,
       DispatchInbound, Poll, SendErrand, Complete, Lock, Lookup, LookupIn, Compact, Store,
       queueVars, memoryVars
    <3>2. UNCHANGED <<now, killed, seen, accepted>>
      BY <1>5 DEF OfBot, Receive, GateFails, LookupFails, CompactFails, Proceeds, Gate, Regate,
       DispatchInbound, Poll, SendErrand, Complete, Lock, Lookup, LookupIn, Compact, Store,
       queueVars, memoryVars
    <3>3. waiting # <<>> => Tail(waiting) \in Seq(Errands)
      BY <1>t
    <3> QED
      BY <1>t, <3>1, <3>2, <3>3
  <2>7. mishaps' \in Nat
    <3>1. mishaps' = mishaps \/ mishaps' = mishaps + 1
      BY <1>5 DEF OfBot, Receive, GateFails, LookupFails, CompactFails, Proceeds, Gate, Regate,
       DispatchInbound, Poll, SendErrand, Complete, Lock, Lookup, LookupIn, Compact, Store,
       queueVars, memoryVars
    <3> QED
      BY <1>t, <3>1
  <2>4. handed' \in [Errands -> Nat] /\ dropped' \in [Errands -> Nat]
    <3>1. CASE SendErrand(b)
      <4>1. frame[b].errand \in Errands
        BY <2>2, <3>1 DEF SendErrand, FrameFits
      <4>2. /\ handed[frame[b].errand] + 1 \in Nat /\ dropped[frame[b].errand] + 1 \in Nat
        BY <1>t, <4>1
      <4>3. /\ handed' = [handed EXCEPT ![frame[b].errand] = handed[frame[b].errand] + 1] \/ handed' = handed
            /\ dropped' = [dropped EXCEPT ![frame[b].errand] = dropped[frame[b].errand] + 1] \/ dropped' = dropped
        BY <3>1 DEF SendErrand
      <4> QED
        BY <1>t, <4>2, <4>3
    <3>2. SendErrand(b) \/ UNCHANGED <<handed, dropped>>
      BY <1>5 DEF OfBot, Receive, GateFails, LookupFails, CompactFails, Proceeds, Gate, Regate,
       DispatchInbound, Poll, SendErrand, Complete, Lock, Lookup, LookupIn, Compact, Store,
       queueVars, memoryVars
    <3> QED
      BY <1>t, <3>1, <3>2
  <2>5. memories' \in [Errands -> Nat]
    <3>1. CASE Compact(b)
      BY <1>t, <2>2, <3>1 DEF Compact, FrameFits
    <3>2. Compact(b) \/ UNCHANGED memories
      BY <1>5 DEF OfBot, Receive, GateFails, LookupFails, CompactFails, Proceeds, Gate, Regate,
       DispatchInbound, Poll, SendErrand, Complete, Lock, Lookup, LookupIn, Compact, Store,
       queueVars, memoryVars
    <3> QED
      BY <1>t, <3>1, <3>2
  <2>6. lock' \in [Errands -> Bots \cup {NoBot}]
    BY <1>5, <1>t DEF Unlocked, OfBot, Receive, GateFails, LookupFails, CompactFails, Proceeds, Gate, Regate,
       DispatchInbound, Poll, SendErrand, Complete, Lock, Lookup, LookupIn, Compact, Store,
       queueVars, memoryVars
  <2> QED
    BY <1>t, <2>1, <2>3, <2>4, <2>5, <2>6, <2>7 DEF BridgeTypes
<1>6. CASE UNCHANGED bridgeVars
  BY <1>6 DEF BridgeTypes, bridgeVars
<1> QED
  BY <1>1, <1>2, <1>3, <1>4, <1>5, <1>6, BridgeActors

-----------------------------------------------------------------------------
(* The kill switch: a frame that has passed the gate has seen the switch   *)
(* off, and one at the gate has unless the switch is on.                   *)
KillInv ==
    /\ \A b \in Bots :
          /\ frame[b].step \notin {"idle", "gate"} => frame[b].off
          /\ frame[b].step = "gate" /\ ~killed => frame[b].off
    /\ \A act \in world : act[2]

LEMMA KillKept == BridgeTypes /\ KillInv /\ [BridgeNext]_bridgeVars => KillInv'
<1> SUFFICES ASSUME BridgeTypes, KillInv, [BridgeNext]_bridgeVars PROVE KillInv'
  OBVIOUS
<1>t. frame \in [Bots -> Frames] /\ killed \in BOOLEAN
  BY DEF BridgeTypes
<1>1. CASE UNCHANGED <<killed, frame, world>>
  BY <1>1 DEF KillInv
<1>2. CASE Switch
  <2>1. \A b \in Bots : frame'[b].step = frame[b].step /\ (frame[b].step # "idle" => frame'[b].off)
    BY <1>t, <1>2, SwitchFrames
  <2>2. world' = world
    BY <1>2 DEF Switch
  <2> QED
    BY <2>1, <2>2 DEF KillInv
<1>3. CASE Restart
  <2>1. world' = world /\ \A b \in Bots : frame'[b].step = "idle"
    BY <1>3 DEF Restart, NoFrame
  <2> QED
    BY <2>1 DEF KillInv
<1>4. ASSUME NEW b \in Bots, OfBot(b) PROVE KillInv'
  <2>1. killed' = killed /\ \A c \in Bots : c # b => frame'[c] = frame[c]
    BY <1>4, BotFrames DEF OfBot, Receive, GateFails, LookupFails, CompactFails, Proceeds, Gate,
       Regate, DispatchInbound, Poll, SendErrand, Complete, Lock, Lookup, LookupIn, Compact, Store
  <2>2. /\ frame'[b].step \notin {"idle", "gate"} => frame'[b].off
        /\ frame'[b].step = "gate" /\ ~killed => frame'[b].off
    <3>1. CASE Answer(b)
      BY <1>t, <3>1, AnswerFrame
    <3>2. CASE \E verb \in Verbs, t \in Errands \cup {NoErrand} : Receive(b, verb, t)
      BY <1>t, <3>2, ReceiveFrame
    <3>3. CASE Poll(b)
      <4>1. frame[b].step = "poll" /\ frame[b].off
        BY <3>3 DEF Poll, KillInv
      <4>2. CASE waiting = <<>>
        BY <3>1, <3>3, <4>2 DEF Poll
      <4>3. CASE waiting # <<>>
        <5> DEFINE f == [frame[b] EXCEPT !.step = "answer", !.errand = Head(waiting)]
        <5>1. frame' = [frame EXCEPT ![b] = f]
          BY <3>3, <4>3 DEF Poll
        <5>2. f.off = frame[b].off /\ f.step = "answer"
          BY <1>t DEF Frames
        <5> HIDE DEF f
        <5> QED
          BY <1>t, <4>1, <5>1, <5>2
      <4> QED
        BY <4>2, <4>3
    <3>4. ASSUME NEW step \in {"emit", "regate", "poll", "complete", "wait", "lookup", "compact", "store"},
                 Goto(b, step), frame[b].off
          PROVE  frame'[b].step = step /\ frame'[b].off
      BY <1>t, <3>4, GotoFrame
    <3>5. CASE Gate(b)
      <4>1. frame[b].step = "gate" /\ frame[b].verb \in Verbs /\ (Answer(b) \/ Goto(b, Passed(frame[b].verb)))
        BY <3>5 DEF Gate, BridgeTypes, FrameFits
      <4>2. Answer(b) \/ ~killed
        BY <3>5 DEF Gate
      <4>3. ~killed => frame[b].off
        BY <4>1 DEF KillInv
      <4> QED
        BY <3>1, <3>4, <4>1, <4>2, <4>3, PassedSteps
    <3>6. CASE Regate(b) \/ Complete(b) \/ Lock(b) \/ Compact(b) \/ Lookup(b) \/ LookupFails(b)
      <4>1. frame[b].off
        BY <3>6 DEF Regate, Complete, Lock, Compact, Lookup, LookupFails, LookupIn, KillInv
      <4>2. Answer(b) \/ \E step \in {"emit", "wait", "lookup", "compact", "store"} : Goto(b, step)
        BY <3>6 DEF Regate, Complete, Lock, Compact, Lookup, LookupFails, LookupIn
      <4> QED
        BY <3>1, <3>4, <4>1, <4>2
    <3>7. CASE GateFails(b) \/ CompactFails(b) \/ DispatchInbound(b) \/ SendErrand(b) \/ Store(b)
      BY <3>1, <3>7 DEF GateFails, CompactFails, DispatchInbound, SendErrand, Store
    <3> QED
      BY <1>4, <3>2, <3>3, <3>5, <3>6, <3>7 DEF OfBot, Proceeds
  <2>3. \A act \in world' : act[2]
    <3>1. CASE UNCHANGED world
      BY <3>1 DEF KillInv
    <3>2. CASE Acts(b) /\ frame[b].step \in {"emit", "poll", "complete"}
      <4>1. frame[b].off
        BY <3>2 DEF KillInv
      <4>2. \A x, y : <<x, y>>[2] = y
        OBVIOUS
      <4>3. \A act \in world' : act \in world \/ act = <<frame[b].verb, frame[b].off>>
        BY <3>2 DEF Acts
      <4>4. \A act \in world : act[2]
        BY DEF KillInv
      <4>5. <<frame[b].verb, frame[b].off>>[2] = frame[b].off
        BY <4>2
      <4> QED
        BY <4>1, <4>3, <4>4, <4>5, Zenon
    <3> QED
      BY <1>4, <3>1, <3>2
      DEF OfBot, Receive, GateFails, LookupFails, CompactFails, Proceeds, Gate, Regate,
          DispatchInbound, Poll, SendErrand, Complete, Lock, Lookup, LookupIn, Compact, Store
  <2> QED
    BY <2>1, <2>2, <2>3 DEF KillInv
<1>5. (\E t \in Errands : Dispatch(t)) \/ Tick \/ UNCHANGED bridgeVars =>
          UNCHANGED <<killed, frame, world>>
  BY DEF Dispatch, Tick, bridgeVars
<1> QED
  BY <1>1, <1>2, <1>3, <1>4, <1>5, BridgeActors

(* bridge_ws and build_bridge_response_with_services: a frame acts on the  *)
(* world only when the switch was off at some moment since it came in,     *)
(* although it is read over a network that fails, and may be set while the *)
(* frame waits.                                                            *)
THEOREM KillIsHonoured == BridgeSpec => []KillHonoured
<1>1. BridgeInit => KillInv
  BY DEF BridgeInit, KillInv, NoFrame
<1>2. KillInv => KillHonoured
  BY DEF KillInv, KillHonoured
<1> QED
  BY <1>1, <1>2, BridgeTypesStart, BridgeTypesKept, KillKept, PTL DEF BridgeSpec

-----------------------------------------------------------------------------
(* Errands: handed out as often as they were accepted.                     *)
LEMMA DeliveryOf ==
    ASSUME BridgeTypes, NEW b \in Bots, NEW t, frame' \in [Bots -> Frames],
           \A c \in Bots : c # b => frame'[c] = frame[c]
    PROVE  Cardinality(Undelivered(t)') + (IF frame[b].step = "answer" /\ frame[b].errand = t THEN 1 ELSE 0)
             = Cardinality(Undelivered(t)) + (IF frame'[b].step = "answer" /\ frame'[b].errand = t THEN 1 ELSE 0)
<1> DEFINE S == Undelivered(t)
           T == Undelivered(t)'
<1>1. IsFiniteSet(S) /\ IsFiniteSet(T) /\ Cardinality(S) \in Nat /\ Cardinality(T) \in Nat
  <2>1. Undelivered(t)' \subseteq Bots /\ IsFiniteSet(Bots)
    BY BridgeAssumption DEF Undelivered
  <2> QED
    BY <2>1, UndeliveredFinite, FS_Subset, FS_CardinalityType
<1>2. S \ {b} = T \ {b}
  BY DEF Undelivered
<1>3. /\ b \in S <=> frame[b].step = "answer" /\ frame[b].errand = t
      /\ b \in T <=> frame'[b].step = "answer" /\ frame'[b].errand = t
  BY DEF Undelivered
<1>4. /\ Cardinality(S \ {b}) = IF b \in S THEN Cardinality(S) - 1 ELSE Cardinality(S)
      /\ Cardinality(T \ {b}) = IF b \in T THEN Cardinality(T) - 1 ELSE Cardinality(T)
  BY <1>1, FS_RemoveElement
<1> HIDE DEF S, T
<1>5. Cardinality(T) + (IF b \in S THEN 1 ELSE 0) = Cardinality(S) + (IF b \in T THEN 1 ELSE 0)
  BY <1>1, <1>2, <1>4
<1> QED
  BY <1>3, <1>5 DEF S, T

LEMMA HandedStart == BridgeInit => HandedOutOnce
<1> SUFFICES ASSUME BridgeInit, NEW t \in Errands
             PROVE  accepted[t] = Count(waiting, t) + Cardinality(Undelivered(t)) + handed[t] + dropped[t]
  BY DEF HandedOutOnce
<1>1. accepted[t] = 0 /\ handed[t] = 0 /\ dropped[t] = 0 /\ waiting = <<>>
      /\ \A b \in Bots : frame[b].step = "idle"
  BY DEF BridgeInit, NoFrame
<1>2. Undelivered(t) = {} /\ {i \in DOMAIN waiting : waiting[i] = t} = {}
  BY <1>1 DEF Undelivered
<1> QED
  BY <1>1, <1>2, FS_EmptySet DEF Count

LEMMA SumMoves ==
    ASSUME NEW a \in Nat, NEW c \in Nat, NEW u \in Nat, NEW h \in Nat, NEW d \in Nat, a = c + u + h + d
    PROVE  /\ a + 1 = (c + 1) + u + h + d
           /\ \A c1 \in Nat : c = c1 + 1 => a = c1 + (u + 1) + h + d
           /\ \A u1 \in Nat : u = u1 + 1 => a = c + u1 + (h + 1) + d /\ a = c + u1 + h + (d + 1)
           /\ a = 0 + 0 + h + (d + c + u)
OBVIOUS

LEMMA HandedKept ==
    BridgeTypes /\ HandedOutOnce /\ [BridgeNext]_bridgeVars => HandedOutOnce'
<1> SUFFICES ASSUME BridgeTypes, HandedOutOnce, [BridgeNext]_bridgeVars, NEW t \in Errands
             PROVE  (accepted[t] = Count(waiting, t) + Cardinality(Undelivered(t)) + handed[t] + dropped[t])'
  BY DEF HandedOutOnce
<1>t. /\ accepted[t] \in Nat /\ handed[t] \in Nat /\ dropped[t] \in Nat
      /\ Count(waiting, t) \in Nat /\ Cardinality(Undelivered(t)) \in Nat
      /\ waiting \in Seq(Errands) /\ frame \in [Bots -> Frames]
      /\ accepted \in [Errands -> Nat] /\ handed \in [Errands -> Nat] /\ dropped \in [Errands -> Nat]
  BY CountNat, UndeliveredFinite DEF BridgeTypes
<1>h. accepted[t] = Count(waiting, t) + Cardinality(Undelivered(t)) + handed[t] + dropped[t]
  BY DEF HandedOutOnce
<1>1. ASSUME NEW e \in Errands, Dispatch(e)
      PROVE  (accepted[t] = Count(waiting, t) + Cardinality(Undelivered(t)) + handed[t] + dropped[t])'
  <2>1. /\ waiting' = Append(waiting, e) /\ accepted' = [accepted EXCEPT ![e] = accepted[e] + 1]
        /\ UNCHANGED <<handed, dropped, frame>>
    BY <1>1 DEF Dispatch
  <2>2. Undelivered(t)' = Undelivered(t)
    BY <2>1 DEF Undelivered
  <2>3. Count(waiting', t) = Count(waiting, t) + (IF e = t THEN 1 ELSE 0)
    BY <1>t, <2>1, CountAppend
  <2>4. Count(waiting, t)' = Count(waiting', t)
    BY DEF Count
  <2>5. accepted'[t] = accepted[t] + (IF e = t THEN 1 ELSE 0)
    BY <1>t, <2>1
  <2> DEFINE c == Count(waiting, t)
             u == Cardinality(Undelivered(t))
             more == IF e = t THEN 1 ELSE 0
  <2>6. more \in Nat /\ c \in Nat /\ u \in Nat /\ accepted[t] = c + u + handed[t] + dropped[t]
    BY <1>t, <1>h
  <2>7. /\ accepted'[t] = accepted[t] + more /\ Count(waiting, t)' = c + more
        /\ Cardinality(Undelivered(t))' = u /\ handed'[t] = handed[t] /\ dropped'[t] = dropped[t]
    BY <2>1, <2>2, <2>3, <2>4, <2>5
  <2> HIDE DEF c, u, more
  <2>8. accepted'[t] = (c + more) + u + handed[t] + dropped[t]
    BY <1>t, <2>6, <2>7
  <2> QED
    BY <2>7, <2>8
<1>2. CASE UNCHANGED <<accepted, waiting, handed, dropped>> /\ Undelivered(t)' = Undelivered(t)
  BY <1>2, <1>h DEF Count
<1>3. CASE Switch
  <2>1. \A b \in Bots : frame'[b].step = frame[b].step /\ frame'[b].errand = frame[b].errand
    BY <1>t, <1>3, SwitchFrames DEF BridgeTypes
  <2>2. Undelivered(t)' = Undelivered(t)
    BY <2>1 DEF Undelivered
  <2> QED
    BY <1>2, <1>3, <2>2 DEF Switch, queueVars
<1>4. CASE Restart
  <2>1. /\ waiting' = <<>> /\ frame' = [b \in Bots |-> NoFrame] /\ UNCHANGED <<accepted, handed>>
        /\ dropped'[t] = dropped[t] + Count(waiting, t) + Cardinality(Undelivered(t))
    BY <1>4 DEF Restart
  <2>2. Undelivered(t)' = {} /\ {i \in DOMAIN waiting' : waiting'[i] = t} = {}
    BY <2>1 DEF Undelivered, NoFrame
  <2>3. Cardinality(Undelivered(t)') = 0 /\ Count(waiting, t)' = 0
    BY <2>2, FS_EmptySet DEF Count
  <2> QED
    BY <1>t, <1>h, <2>1, <2>3, SumMoves
<1>5. ASSUME NEW b \in Bots, OfBot(b)
      PROVE  (accepted[t] = Count(waiting, t) + Cardinality(Undelivered(t)) + handed[t] + dropped[t])'
  <2>1. frame' \in [Bots -> Frames] /\ \A c \in Bots : c # b => frame'[c] = frame[c]
    BY <1>5, BotFrames
  <2>2. CASE frame[b].step # "answer" /\ frame'[b].step # "answer"
             /\ UNCHANGED <<accepted, waiting, handed, dropped>>
    <3>1. Undelivered(t)' = Undelivered(t)
      BY <2>1, <2>2 DEF Undelivered
    <3> QED
      BY <1>2, <2>2, <3>1
  <2>3. CASE Poll(b) /\ waiting # <<>>
    <3>1. /\ waiting' = Tail(waiting) /\ frame[b].step = "poll"
          /\ frame' = [frame EXCEPT ![b].step = "answer", ![b].errand = Head(waiting)]
          /\ UNCHANGED <<accepted, handed, dropped>>
      BY <2>3 DEF Poll
    <3>2. frame'[b].step = "answer" /\ frame'[b].errand = Head(waiting)
      BY <1>t, <3>1 DEF Frames
    <3>3. Cardinality(Undelivered(t)') = Cardinality(Undelivered(t)) + (IF Head(waiting) = t THEN 1 ELSE 0)
      <4>1. Cardinality(Undelivered(t)') + 0
             = Cardinality(Undelivered(t)) + (IF Head(waiting) = t THEN 1 ELSE 0)
        BY <2>1, <3>1, <3>2, DeliveryOf
      <4>2. Cardinality(Undelivered(t)') \in Nat
        BY BridgeAssumption, FS_Subset, FS_CardinalityType DEF Undelivered
      <4> QED
        BY <4>1, <4>2
    <3>4. Count(waiting, t) = Count(Tail(waiting), t) + (IF Head(waiting) = t THEN 1 ELSE 0)
      BY <1>t, <2>3, CountTail
    <3>5. Count(waiting, t)' = Count(Tail(waiting), t) /\ Count(Tail(waiting), t) \in Nat
      <4>1. Tail(waiting) \in Seq(Errands)
        BY <1>t, <2>3
      <4> QED
        BY <3>1, <4>1, CountNat DEF Count
    <3> QED
      BY <1>t, <1>h, <3>1, <3>3, <3>4, <3>5
  <2>4. CASE SendErrand(b)
    <3>1. /\ frame[b].step = "answer" /\ frame[b].errand \in Errands
          /\ UNCHANGED <<accepted, waiting>> /\ Answer(b)
          /\ \/ handed' = [handed EXCEPT ![frame[b].errand] = handed[frame[b].errand] + 1] /\ UNCHANGED dropped
             \/ dropped' = [dropped EXCEPT ![frame[b].errand] = dropped[frame[b].errand] + 1] /\ UNCHANGED handed
      BY <2>4 DEF SendErrand, BridgeTypes, FrameFits
    <3>2. frame'[b].step = "idle"
      BY <1>t, <3>1, AnswerFrame
    <3>3. Cardinality(Undelivered(t)') + (IF frame[b].errand = t THEN 1 ELSE 0) = Cardinality(Undelivered(t)) + 0
      BY <2>1, <3>1, <3>2, DeliveryOf
    <3>4. Cardinality(Undelivered(t)') \in Nat
      BY BridgeAssumption, FS_Subset, FS_CardinalityType DEF Undelivered
    <3>5. CASE frame[b].errand # t
      <4>1. handed'[t] = handed[t] /\ dropped'[t] = dropped[t]
        BY <1>t, <3>1, <3>5
      <4>2. Cardinality(Undelivered(t)') = Cardinality(Undelivered(t))
        BY <1>t, <3>3, <3>4, <3>5
      <4> QED
        BY <1>h, <3>1, <4>1, <4>2 DEF Count
    <3>6. CASE frame[b].errand = t
      <4>1. \/ handed'[t] = handed[t] + 1 /\ dropped'[t] = dropped[t]
            \/ handed'[t] = handed[t] /\ dropped'[t] = dropped[t] + 1
        BY <1>t, <3>1, <3>6
      <4>2. Cardinality(Undelivered(t)) = Cardinality(Undelivered(t)') + 1
        BY <1>t, <3>3, <3>4, <3>6
      <4>3. accepted'[t] = accepted[t] /\ Count(waiting, t)' = Count(waiting, t)
        BY <3>1 DEF Count
      <4> DEFINE c == Count(waiting, t)
                 u == Cardinality(Undelivered(t))
                 uu == Cardinality(Undelivered(t)')
      <4>4. accepted[t] = c + u + handed[t] + dropped[t] /\ c \in Nat /\ u = uu + 1 /\ uu \in Nat
        BY <1>t, <1>h, <3>4, <4>2
      <4>5. handed[t] \in Nat /\ dropped[t] \in Nat
        BY <1>t
      <4> HIDE DEF c, u, uu
      <4>6. accepted[t] = c + uu + handed'[t] + dropped'[t]
        BY <4>1, <4>4, <4>5
      <4> QED
        BY <4>3, <4>6 DEF c, uu
    <3> QED
      BY <3>5, <3>6
  <2>5. CASE Poll(b) /\ waiting = <<>>
    <3>1. frame[b].step = "poll" /\ Answer(b) /\ UNCHANGED <<accepted, waiting, handed, dropped>>
      BY <2>5 DEF Poll
    <3> QED
      BY <1>t, <2>2, <3>1, AnswerFrame
  <2>6. ASSUME NEW step \in {"emit", "regate", "poll", "complete", "wait", "lookup", "compact", "store"},
               Goto(b, step)
        PROVE  frame'[b].step # "answer"
    BY <1>t, <2>6, GotoFrame
  <2>7. CASE Gate(b)
    <3>1. /\ frame[b].step = "gate" /\ frame[b].verb \in Verbs /\ (Answer(b) \/ Goto(b, Passed(frame[b].verb)))
          /\ UNCHANGED <<accepted, waiting, handed, dropped>>
      BY <2>7 DEF Gate, BridgeTypes, FrameFits, queueVars
    <3>2. frame'[b].step # "answer"
      BY <1>t, <2>6, <3>1, AnswerFrame, PassedSteps
    <3> QED
      BY <2>2, <3>1, <3>2
  <2>8. CASE \/ Regate(b) \/ Complete(b) \/ Lock(b) \/ Compact(b) \/ Lookup(b) \/ LookupFails(b)
             \/ GateFails(b) \/ CompactFails(b) \/ DispatchInbound(b) \/ Store(b)
    <3>1. /\ frame[b].step # "answer" /\ UNCHANGED <<accepted, waiting, handed, dropped>>
          /\ Answer(b) \/ \E step \in {"emit", "wait", "lookup", "compact", "store"} : Goto(b, step)
      BY <2>8 DEF Regate, Complete, Lock, Compact, Lookup, LookupFails, LookupIn, GateFails,
         CompactFails, DispatchInbound, Store, queueVars
    <3>2. frame'[b].step # "answer"
      BY <1>t, <2>6, <3>1, AnswerFrame
    <3> QED
      BY <2>2, <3>1, <3>2
  <2>9. CASE \E verb \in Verbs, e \in Errands \cup {NoErrand} : Receive(b, verb, e)
    <3>1. frame[b].step = "idle" /\ frame'[b].step = "gate" /\ UNCHANGED <<accepted, waiting, handed, dropped>>
      BY <1>t, <2>9, ReceiveFrame DEF Receive, queueVars, BridgeTypes
    <3> QED
      BY <2>2, <3>1
  <2> QED
    BY <1>5, <2>3, <2>4, <2>5, <2>7, <2>8, <2>9 DEF OfBot, Proceeds
<1>6. CASE Tick \/ UNCHANGED bridgeVars
  <2>1. UNCHANGED <<accepted, waiting, handed, dropped, frame>>
    BY <1>6 DEF Tick, bridgeVars, queueVars
  <2>2. Undelivered(t)' = Undelivered(t)
    BY <2>1 DEF Undelivered
  <2> QED
    BY <1>2, <2>1, <2>2
<1> QED
  BY <1>1, <1>3, <1>4, <1>5, <1>6, BridgeActors

-----------------------------------------------------------------------------
(* How many windows of Ttl ticks have begun at the time n.                 *)
Windows(n) == (n - 1) \div Ttl

LEMMA WindowsGrow ==
    ASSUME NEW n \in Nat \ {0}, NEW m \in Nat \ {0}
    PROVE  /\ Windows(n) \in Nat
           /\ n <= m => Windows(n) <= Windows(m)
           /\ Windows(n + Ttl) = Windows(n) + 1
<1>1. /\ \A a \in Nat : a \div Ttl \in Nat /\ (a + Ttl) \div Ttl = (a \div Ttl) + 1
      /\ \A a, b \in Nat : a <= b => a \div Ttl <= b \div Ttl
  BY BridgeAssumption
<1>2. n - 1 \in Nat /\ m - 1 \in Nat /\ (n + Ttl) - 1 = (n - 1) + Ttl
      /\ (n <= m => n - 1 <= m - 1)
  BY BridgeAssumption
<1> QED
  BY <1>1, <1>2 DEF Windows

(* The dispatches of an errand were accepted in windows that began before  *)
(* the last one is forgotten, or the process was restarted since.          *)
Since(t) == IF seen[t] = 0 THEN now ELSE seen[t]

TtlInv ==
    \A t \in Errands :
        /\ seen[t] <= now + Ttl
        /\ accepted[t] <= mishaps + Windows(Since(t))

LEMMA LessOrMore ==
    \A a, m, v, w \in Nat :
        a <= m + v =>
           /\ v <= w => a <= m + w /\ a + 1 <= m + (w + 1) /\ a <= (m + 1) + w
           /\ v <= w + 1 => a <= (m + 1) + w /\ a <= 1 + w + m
OBVIOUS

LEMMA TtlStart == BridgeInit => TtlInv
<1> SUFFICES ASSUME BridgeInit PROVE TtlInv
  OBVIOUS
<1>1. \A t \in Errands : seen[t] = 0 /\ accepted[t] = 0 /\ Since(t) = 1
  BY DEF BridgeInit, Since
<1>2. Windows(1) \in Nat /\ mishaps = 0 /\ now = 1 /\ Ttl \in Nat
  BY WindowsGrow, BridgeAssumption DEF BridgeInit
<1> QED
  BY <1>1, <1>2 DEF TtlInv

LEMMA TtlKept == BridgeTypes /\ TtlInv /\ [BridgeNext]_bridgeVars => TtlInv'
<1> SUFFICES ASSUME BridgeTypes, TtlInv, [BridgeNext]_bridgeVars PROVE TtlInv'
  OBVIOUS
<1>t. /\ now \in Nat \ {0} /\ mishaps \in Nat /\ Ttl \in Nat \ {0}
      /\ seen \in [Errands -> Nat] /\ accepted \in [Errands -> Nat]
  BY BridgeAssumption DEF BridgeTypes
<1>s. \A t \in Errands : /\ seen[t] \in Nat /\ accepted[t] \in Nat /\ Since(t) \in Nat \ {0}
                         /\ Windows(Since(t)) \in Nat
                         /\ seen[t] <= now + Ttl /\ accepted[t] <= mishaps + Windows(Since(t))
                         /\ Since(t) <= now + Ttl
  BY <1>t, WindowsGrow DEF TtlInv, Since
<1>w. /\ Windows(now) \in Nat /\ Windows(now + Ttl) = Windows(now) + 1
      /\ \A n \in Nat \ {0} : n <= now => Windows(n) <= Windows(now)
      /\ \A n \in Nat \ {0} : n <= now + Ttl => Windows(n) <= Windows(now) + 1
  <2>1. now + Ttl \in Nat \ {0}
    BY <1>t
  <2> QED
    BY <1>t, <2>1, WindowsGrow
<1>1. ASSUME NEW e \in Errands, Dispatch(e) PROVE TtlInv'
  <2>1. /\ seen[e] <= now /\ seen' = [seen EXCEPT ![e] = now + Ttl]
        /\ accepted' = [accepted EXCEPT ![e] = accepted[e] + 1] /\ UNCHANGED <<now, mishaps>>
    BY <1>1 DEF Dispatch
  <2>2. ASSUME NEW t \in Errands
        PROVE  seen'[t] <= now + Ttl /\ accepted'[t] <= mishaps + Windows(IF seen'[t] = 0 THEN now ELSE seen'[t])
    <3>1. CASE t # e
      <4>1. seen'[t] = seen[t] /\ accepted'[t] = accepted[t]
        BY <1>t, <2>1, <3>1
      <4> QED
        BY <1>s, <4>1 DEF Since
    <3>2. CASE t = e
      <4>1. seen'[t] = now + Ttl /\ seen'[t] # 0 /\ accepted'[t] = accepted[t] + 1
        BY <1>t, <2>1, <3>2
      <4>2. Since(t) <= now
        BY <1>t, <2>1, <3>2 DEF Since
      <4>3. Windows(Since(t)) <= Windows(now)
        BY <1>s, <1>w, <4>2
      <4>4. accepted[t] + 1 <= mishaps + (Windows(now) + 1)
        BY <1>t, <1>s, <1>w, <4>3, LessOrMore
      <4>5. now + Ttl <= now + Ttl
        BY <1>t
      <4> QED
        BY <1>w, <4>1, <4>4, <4>5
    <3> QED
      BY <3>1, <3>2
  <2> QED
    BY <2>1, <2>2 DEF TtlInv, Since, Windows
<1>2. CASE Tick
  <2>1. now' = now + 1 /\ UNCHANGED <<seen, accepted, mishaps>>
    BY <1>2 DEF Tick, queueVars
  <2>2. ASSUME NEW t \in Errands
        PROVE  seen[t] <= now' + Ttl /\ accepted[t] <= mishaps + Windows(IF seen[t] = 0 THEN now' ELSE seen[t])
    <3>1. seen[t] <= now' + Ttl
      BY <1>t, <1>s, <2>1
    <3>2. Windows(now) <= Windows(now') /\ Windows(now') \in Nat
      <4>1. now' \in Nat \ {0} /\ now <= now'
        BY <1>t, <2>1
      <4> QED
        BY <1>t, <4>1, WindowsGrow
    <3>3. CASE seen[t] = 0
      <4>1. Windows(Since(t)) <= Windows(now')
        BY <3>2, <3>3 DEF Since
      <4> QED
        BY <1>t, <1>s, <3>1, <3>2, <3>3, <4>1, LessOrMore
    <3>4. CASE seen[t] # 0
      BY <1>s, <3>1, <3>4 DEF Since
    <3> QED
      BY <3>3, <3>4
  <2> QED
    BY <2>1, <2>2 DEF TtlInv, Since, Windows
<1>3. CASE Restart
  <2>1. /\ mishaps' = mishaps + 1 /\ seen' = [t \in Errands |-> 0] /\ UNCHANGED <<now, accepted>>
    BY <1>3 DEF Restart
  <2>2. ASSUME NEW t \in Errands PROVE accepted[t] <= (mishaps + 1) + Windows(now)
    <3>1. Windows(Since(t)) <= Windows(now) + 1
      BY <1>s, <1>w
    <3> QED
      BY <1>t, <1>s, <1>w, <3>1, LessOrMore
  <2>3. 0 <= now + Ttl
    BY <1>t
  <2>4. \A t \in Errands : seen'[t] = 0 /\ Since(t)' = now
    BY <2>1 DEF Since
  <2> QED
    BY <2>1, <2>2, <2>3, <2>4 DEF TtlInv, Windows
<1>4. CASE UNCHANGED <<now, seen, accepted>> /\ (mishaps' = mishaps \/ mishaps' = mishaps + 1)
  <2>1. ASSUME NEW t \in Errands PROVE accepted[t] <= mishaps' + Windows(Since(t))
    <3>1. Windows(Since(t)) <= Windows(Since(t))
      BY <1>s
    <3>2. accepted[t] <= (mishaps + 1) + Windows(Since(t))
      BY <1>t, <1>s, <3>1, LessOrMore
    <3> QED
      BY <1>4, <1>s, <3>2
  <2>2. \A t \in Errands : Since(t)' = Since(t)
    BY <1>4 DEF Since
  <2> QED
    BY <1>4, <1>s, <2>1, <2>2 DEF TtlInv, Windows
<1>5. ASSUME NEW b \in Bots, OfBot(b)
      PROVE  UNCHANGED <<now, seen, accepted>> /\ (mishaps' = mishaps \/ mishaps' = mishaps + 1)
  BY <1>5 DEF OfBot, Receive, GateFails, LookupFails, CompactFails, Proceeds, Gate, Regate,
     DispatchInbound, Poll, SendErrand, Complete, Lock, Lookup, LookupIn, Compact, Store, queueVars
<1>6. Switch \/ UNCHANGED bridgeVars => UNCHANGED <<now, seen, accepted, mishaps>>
  BY DEF Switch, bridgeVars, queueVars
<1> QED
  BY <1>1, <1>2, <1>3, <1>4, <1>5, <1>6, BridgeActors

(* enqueue, poll and the answer to a poll: every dispatch that was         *)
(* accepted waits, is under way, was handed out, or was lost with a socket *)
(* or a process; and an errand is accepted once per TTL.                   *)
THEOREM ErrandsAreHandedOutOnce == BridgeSpec => []ErrandsOnce
<1>1. BridgeTypes /\ TtlInv => OncePerTtl
  <2> SUFFICES ASSUME BridgeTypes, TtlInv, NEW t \in Errands
               PROVE  accepted[t] <= 1 + Windows(now) + mishaps
    BY DEF OncePerTtl, Windows
  <2>1. /\ now \in Nat \ {0} /\ Ttl \in Nat \ {0} /\ mishaps \in Nat /\ seen[t] \in Nat
        /\ accepted[t] \in Nat
    BY BridgeAssumption DEF BridgeTypes
  <2>2. Since(t) \in Nat \ {0} /\ Since(t) <= now + Ttl /\ now + Ttl \in Nat \ {0}
    BY <2>1 DEF TtlInv, Since
  <2>3. Windows(Since(t)) <= Windows(now) + 1 /\ Windows(now) \in Nat /\ Windows(Since(t)) \in Nat
    BY <2>1, <2>2, WindowsGrow
  <2> QED
    BY <2>1, <2>3, LessOrMore DEF TtlInv
<1> QED
  BY <1>1, BridgeTypesStart, BridgeTypesKept, HandedStart, HandedKept, TtlStart, TtlKept, PTL
  DEF BridgeSpec, ErrandsOnce

-----------------------------------------------------------------------------
(* Memories of errands.  The lock of an errand is held exactly by the      *)
(* frame between its lookup and its answer.                                *)
Handles(b, t) == frame[b].errand = t /\ frame[b].step \in {"lookup", "compact", "store"}
Storing(t) == \E b \in Bots : frame[b].errand = t /\ frame[b].step = "store"

LocksHeld == \A b \in Bots, t \in Errands : lock[t] = b <=> Handles(b, t)

(* Before a memory is written there are no more than there were mishaps;   *)
(* an errand that is not remembered has none but the one being stored.     *)
MemoryBound ==
    /\ \A t \in Errands : memories[t] <= mishaps + 1
    /\ \A t \in Errands : t \notin remembered /\ ~Storing(t) => memories[t] <= mishaps
    /\ \A b \in Bots : frame[b].step = "compact" => memories[frame[b].errand] <= mishaps

MemoryInv == LocksHeld /\ MemoryBound

LEMMA MemoryStart == BridgeInit => MemoryInv
<1> SUFFICES ASSUME BridgeInit PROVE MemoryInv
  OBVIOUS
<1>1. \A b \in Bots : frame[b].step = "idle"
  BY DEF BridgeInit, NoFrame
<1>2. LocksHeld
  BY <1>1, BridgeAssumption DEF BridgeInit, LocksHeld, Handles
<1>3. mishaps = 0 /\ \A t \in Errands : memories[t] = 0
  BY DEF BridgeInit
<1> QED
  BY <1>1, <1>2, <1>3 DEF MemoryInv, MemoryBound

LEMMA StillLess ==
    \A x, m \in Nat : /\ x <= m => x <= m + 1 /\ x + 1 <= m + 1
                      /\ x <= m + 1 => x <= (m + 1) + 1
                      /\ m <= m + 1 /\ m + 1 \in Nat
OBVIOUS

(* Steps that write no memory and no key; a frame that answers or waits    *)
(* stores nothing unless a mishap came over it.                            *)
LEMMA BoundStays ==
    ASSUME BridgeTypes, MemoryBound, BridgeTypes',
           UNCHANGED memories, remembered \subseteq remembered',
           mishaps' = mishaps \/ mishaps' = mishaps + 1,
           \A t \in Errands : Storing(t) /\ t \notin remembered' => mishaps' = mishaps + 1 \/ Storing(t)',
           \A b \in Bots : frame'[b].step = "compact" =>
              \/ frame[b].step = "compact" /\ frame'[b].errand = frame[b].errand
              \/ frame[b].step # "store" /\ memories[frame'[b].errand] <= mishaps'
    PROVE  MemoryBound'
<1>1. \A t \in Errands : memories[t] \in Nat /\ mishaps \in Nat /\ mishaps' \in Nat
  BY DEF BridgeTypes
<1>2. \A t \in Errands : /\ memories[t] <= mishaps + 1
                         /\ t \notin remembered /\ ~Storing(t) => memories[t] <= mishaps
  BY DEF MemoryBound
<1>3. \A t \in Errands : memories[t] <= mishaps' + 1
  BY <1>1, <1>2, StillLess
<1>4. ASSUME NEW t \in Errands, t \notin remembered', ~Storing(t)' PROVE memories[t] <= mishaps'
  <2>1. mishaps' = mishaps + 1 \/ ~Storing(t)
    BY <1>4
  <2>2. CASE mishaps' = mishaps + 1
    BY <1>2, <2>2
  <2>3. CASE ~Storing(t)
    BY <1>1, <1>2, <1>4, <2>3, StillLess
  <2> QED
    BY <2>1, <2>2, <2>3
<1>5. ASSUME NEW b \in Bots, frame'[b].step = "compact" PROVE memories[frame'[b].errand] <= mishaps'
  <2>1. CASE frame[b].step = "compact" /\ frame'[b].errand = frame[b].errand
    <3>1. memories[frame[b].errand] <= mishaps /\ frame[b].errand \in Errands
      BY <2>1 DEF MemoryBound, BridgeTypes, FrameFits
    <3> QED
      BY <1>1, <2>1, <3>1, StillLess
  <2>2. CASE memories[frame'[b].errand] <= mishaps'
    BY <2>2
  <2> QED
    BY <1>5, <2>1, <2>2
<1> QED
  BY <1>3, <1>4, <1>5 DEF MemoryBound

(* A frame that begins or goes on without a lock.                          *)
LEMMA MemoryApart ==
    ASSUME BridgeTypes, MemoryInv, BridgeTypes', NEW b \in Bots,
           UNCHANGED <<memories, remembered, lock>>,
           mishaps' = mishaps \/ mishaps' = mishaps + 1,
           \A c \in Bots : c # b => frame'[c] = frame[c],
           frame[b].step \notin {"lookup", "compact", "store"},
           frame'[b].step \notin {"lookup", "compact", "store"}
    PROVE  MemoryInv'
<1>1. LocksHeld'
  BY DEF MemoryInv, LocksHeld, Handles
<1>2. \A t \in Errands : Storing(t)' <=> Storing(t)
  BY DEF Storing
<1>3. MemoryBound'
  BY <1>2, BoundStays DEF MemoryInv
<1> QED
  BY <1>1, <1>3 DEF MemoryInv

(* The answer of the frame that holds the lock of its errand.              *)
LEMMA MemoryAnswered ==
    ASSUME BridgeTypes, MemoryInv, BridgeTypes', NEW b \in Bots,
           frame[b].step \in {"lookup", "compact", "store"},
           Unlocked(b), Answer(b), UNCHANGED memories, remembered \subseteq remembered',
           mishaps' = mishaps \/ mishaps' = mishaps + 1,
           frame[b].step = "store" => frame[b].errand \in remembered' \/ mishaps' = mishaps + 1
    PROVE  MemoryInv'
<1>1. /\ frame'[b].step = "idle" /\ \A c \in Bots : c # b => frame'[c] = frame[c]
      /\ frame[b].errand \in Errands
      /\ lock \in [Errands -> Bots \cup {NoBot}] /\ lock' = [lock EXCEPT ![frame[b].errand] = NoBot]
  BY AnswerFrame DEF BridgeTypes, FrameFits, Unlocked
<1>2. Handles(b, frame[b].errand) /\ lock[frame[b].errand] = b
  BY <1>1 DEF Handles, MemoryInv, LocksHeld
<1>3. LocksHeld'
  <2> SUFFICES ASSUME NEW c \in Bots, NEW t \in Errands PROVE lock'[t] = c <=> Handles(c, t)'
    BY DEF LocksHeld
  <2>1. lock[t] = c <=> Handles(c, t)
    BY DEF MemoryInv, LocksHeld
  <2>2. CASE t = frame[b].errand
    <3>1. lock'[t] = NoBot /\ NoBot # c
      BY <1>1, <2>2, BridgeAssumption
    <3>2. ~Handles(c, t)'
      BY <1>1, <1>2, <2>1, <2>2 DEF Handles
    <3> QED
      BY <3>1, <3>2
  <2>3. CASE t # frame[b].errand
    BY <1>1, <2>1, <2>3 DEF Handles
  <2> QED
    BY <2>2, <2>3
<1>4. ASSUME NEW t \in Errands, Storing(t), t \notin remembered'
      PROVE  mishaps' = mishaps + 1 \/ Storing(t)'
  <2>1. PICK c \in Bots : frame[c].errand = t /\ frame[c].step = "store"
    BY <1>4 DEF Storing
  <2>2. CASE c = b
    BY <1>4, <2>1, <2>2
  <2>3. CASE c # b
    BY <1>1, <2>1, <2>3 DEF Storing
  <2> QED
    BY <2>2, <2>3
<1>5. \A c \in Bots : frame'[c].step = "compact" =>
         frame[c].step = "compact" /\ frame'[c].errand = frame[c].errand
  BY <1>1
<1>6. MemoryBound'
  BY <1>4, <1>5, BoundStays DEF MemoryInv
<1> QED
  BY <1>3, <1>6 DEF MemoryInv

LEMMA MemoryKept ==
    BridgeTypes /\ MemoryInv /\ [BridgeNext]_bridgeVars => MemoryInv'
<1> SUFFICES ASSUME BridgeTypes, MemoryInv, [BridgeNext]_bridgeVars PROVE MemoryInv'
  OBVIOUS
<1>t. /\ BridgeTypes' /\ frame \in [Bots -> Frames] /\ lock \in [Errands -> Bots \cup {NoBot}]
      /\ mishaps \in Nat /\ mishaps + 1 # mishaps /\ memories \in [Errands -> Nat]
  BY BridgeTypesKept DEF BridgeTypes
<1>1. CASE UNCHANGED <<remembered, lock, memories, mishaps>>
           /\ \A b \in Bots : frame'[b].step = frame[b].step /\ frame'[b].errand = frame[b].errand
  <2>1. LocksHeld'
    BY <1>1 DEF MemoryInv, LocksHeld, Handles
  <2>2. \A t \in Errands : Storing(t)' <=> Storing(t)
    BY <1>1 DEF Storing
  <2>3. MemoryBound'
    BY <1>1, <2>2 DEF MemoryInv, MemoryBound
  <2> QED
    BY <2>1, <2>3 DEF MemoryInv
<1>2. CASE Switch
  <2>1. \A b \in Bots : frame'[b].step = frame[b].step /\ frame'[b].errand = frame[b].errand
    BY <1>t, <1>2, SwitchFrames
  <2> QED
    BY <1>1, <1>2, <2>1 DEF Switch, memoryVars
<1>3. CASE Restart
  <2>1. /\ mishaps' = mishaps + 1 /\ lock' = [t \in Errands |-> NoBot] /\ UNCHANGED <<remembered, memories>>
        /\ \A b \in Bots : frame'[b].step = "idle"
    BY <1>3 DEF Restart, NoFrame
  <2>2. LocksHeld'
    BY <2>1, BridgeAssumption DEF LocksHeld, Handles
  <2>3. MemoryBound'
    BY <1>t, <2>1, BoundStays DEF MemoryInv
  <2> QED
    BY <2>2, <2>3 DEF MemoryInv
<1>4. ASSUME NEW b \in Bots, OfBot(b) PROVE MemoryInv'
  <2>1. /\ frame' \in [Bots -> Frames] /\ \A c \in Bots : c # b => frame'[c] = frame[c]
        /\ FrameFits(frame[b])
    BY <1>4, BotFrames DEF BridgeTypes
  <2>2. ASSUME NEW step \in {"emit", "regate", "poll", "complete", "wait", "lookup", "compact", "store"},
               Goto(b, step)
        PROVE  frame'[b].step = step /\ frame'[b].errand = frame[b].errand
    BY <1>t, <2>2, GotoFrame
  <2>3. Answer(b) => frame'[b].step = "idle"
    BY <1>t, AnswerFrame
  <2>4. CASE \/ GateFails(b) \/ Regate(b) \/ DispatchInbound(b) \/ SendErrand(b) \/ Complete(b)
    <3>1. /\ frame[b].step \in {"gate", "regate", "emit", "answer", "complete"}
          /\ UNCHANGED <<memories, remembered, lock>> /\ (mishaps' = mishaps \/ mishaps' = mishaps + 1)
          /\ Answer(b) \/ Goto(b, "emit") \/ Goto(b, "wait")
      BY <2>4 DEF GateFails, Regate, DispatchInbound, SendErrand, Complete, memoryVars
    <3>2. frame'[b].step \in {"idle", "emit", "wait"}
      BY <2>2, <2>3, <3>1
    <3> QED
      BY <1>t, <2>1, <3>1, <3>2, MemoryApart
  <2>5. CASE Gate(b)
    <3>1. /\ frame[b].step = "gate" /\ frame[b].verb \in Verbs
          /\ UNCHANGED <<memories, remembered, lock, mishaps>>
          /\ Answer(b) \/ Goto(b, Passed(frame[b].verb))
      BY <2>1, <2>5 DEF Gate, memoryVars, FrameFits
    <3>2. frame'[b].step \in {"idle", "poll", "complete", "regate", "emit"}
      BY <2>2, <2>3, <3>1, PassedSteps
    <3> QED
      BY <1>t, <2>1, <3>1, <3>2, MemoryApart
  <2>6. CASE Poll(b)
    <3>1. /\ frame[b].step = "poll" /\ UNCHANGED <<memories, remembered, lock, mishaps>>
          /\ \/ Answer(b)
             \/ frame' = [frame EXCEPT ![b].step = "answer", ![b].errand = Head(waiting)]
      BY <2>6 DEF Poll, memoryVars
    <3>2. frame'[b].step \in {"idle", "answer"}
      BY <1>t, <2>3, <3>1 DEF Frames
    <3> QED
      BY <1>t, <2>1, <3>1, <3>2, MemoryApart
  <2>7. CASE \E verb \in Verbs, t \in Errands \cup {NoErrand} : Receive(b, verb, t)
    <3>1. frame[b].step = "idle" /\ frame'[b].step = "gate" /\ UNCHANGED <<memories, remembered, lock, mishaps>>
      BY <1>t, <2>7, ReceiveFrame DEF Receive, memoryVars, BridgeTypes
    <3> QED
      BY <1>t, <2>1, <3>1, MemoryApart
  <2>8. CASE Lock(b)
    <3>1. /\ frame[b].step = "wait" /\ frame[b].errand \in Errands /\ lock[frame[b].errand] = NoBot
          /\ lock' = [lock EXCEPT ![frame[b].errand] = b] /\ UNCHANGED <<memories, remembered, mishaps>>
          /\ frame'[b].step = "lookup" /\ frame'[b].errand = frame[b].errand
      BY <2>1, <2>2, <2>8 DEF Lock, FrameFits
    <3>2. LocksHeld'
      <4> SUFFICES ASSUME NEW c \in Bots, NEW t \in Errands PROVE lock'[t] = c <=> Handles(c, t)'
        BY DEF LocksHeld
      <4>1. lock[t] = c <=> Handles(c, t)
        BY DEF MemoryInv, LocksHeld
      <4>2. lock[t] = b <=> Handles(b, t)
        BY DEF MemoryInv, LocksHeld
      <4>3. CASE t = frame[b].errand
        <5>1. lock'[t] = b /\ ~Handles(c, t)
          BY <1>t, <3>1, <4>1, <4>3, BridgeAssumption
        <5>2. CASE c = b
          BY <3>1, <4>3, <5>1, <5>2 DEF Handles
        <5>3. CASE c # b
          BY <2>1, <5>1, <5>3 DEF Handles
        <5> QED
          BY <5>2, <5>3
      <4>4. CASE t # frame[b].errand
        <5>1. lock'[t] = lock[t]
          BY <1>t, <3>1, <4>4
        <5>2. CASE c = b
          BY <3>1, <4>2, <4>4, <5>1, <5>2 DEF Handles
        <5>3. CASE c # b
          BY <2>1, <4>1, <5>1, <5>3 DEF Handles
        <5> QED
          BY <5>2, <5>3
      <4> QED
        BY <4>3, <4>4
    <3>3. \A t \in Errands : Storing(t) => Storing(t)'
      BY <2>1, <3>1 DEF Storing
    <3>4. \A c \in Bots : frame'[c].step = "compact" => frame'[c] = frame[c]
      BY <2>1, <3>1
    <3>5. MemoryBound'
      BY <1>t, <3>1, <3>3, <3>4, BoundStays DEF MemoryInv
    <3> QED
      BY <3>2, <3>5 DEF MemoryInv
  (* Only the holder of its lock looks an errand up, so nobody stores it.  *)
  <2>9. ASSUME frame[b].step = "lookup" PROVE frame[b].errand \in Errands /\ ~Storing(frame[b].errand)
    <3>1. frame[b].errand \in Errands /\ lock[frame[b].errand] = b
      BY <2>1, <2>9 DEF FrameFits, MemoryInv, LocksHeld, Handles
    <3>2. \A c \in Bots : Handles(c, frame[b].errand) => c = b
      BY <3>1 DEF MemoryInv, LocksHeld
    <3> QED
      BY <2>9, <3>1, <3>2 DEF Storing, Handles
  <2>10. CASE Lookup(b) \/ LookupFails(b)
    <3>1. /\ frame[b].step = "lookup" /\ UNCHANGED <<remembered, memories>>
          /\ \/ Unlocked(b) /\ Answer(b)
             \/ UNCHANGED lock /\ Goto(b, "compact") /\ (frame[b].errand \notin remembered \/ mishaps' = mishaps + 1)
          /\ mishaps' = mishaps \/ mishaps' = mishaps + 1
      BY <2>10 DEF Lookup, LookupFails, LookupIn
    <3>2. CASE Unlocked(b) /\ Answer(b)
      BY <1>t, <3>1, <3>2, MemoryAnswered
    <3>3. CASE UNCHANGED lock /\ Goto(b, "compact") /\ (frame[b].errand \notin remembered \/ mishaps' = mishaps + 1)
      <4>1. frame'[b].step = "compact" /\ frame'[b].errand = frame[b].errand
        BY <2>2, <3>3
      <4>2. LocksHeld'
        BY <2>1, <3>1, <3>3, <4>1 DEF MemoryInv, LocksHeld, Handles
      <4>3. \A t \in Errands : Storing(t) => Storing(t)'
        BY <2>1, <3>1 DEF Storing
      <4>4. memories[frame[b].errand] <= mishaps'
        <5>1. CASE frame[b].errand \notin remembered
          <6>1. memories[frame[b].errand] <= mishaps
            BY <2>9, <3>1, <5>1 DEF MemoryInv, MemoryBound
          <6> QED
            BY <1>t, <2>9, <3>1, <6>1, StillLess
        <5>2. CASE mishaps' = mishaps + 1
          BY <2>9, <3>1, <5>2 DEF MemoryInv, MemoryBound
        <5> QED
          BY <3>3, <5>1, <5>2
      <4>5. \A c \in Bots : frame'[c].step = "compact" =>
               \/ frame[c].step = "compact" /\ frame'[c].errand = frame[c].errand
               \/ frame[c].step # "store" /\ memories[frame'[c].errand] <= mishaps'
        BY <2>1, <3>1, <4>1, <4>4
      <4>6. MemoryBound'
        BY <1>t, <3>1, <4>3, <4>5, BoundStays DEF MemoryInv
      <4> QED
        BY <4>2, <4>6 DEF MemoryInv
    <3> QED
      BY <3>1, <3>2, <3>3
  <2>11. CASE Compact(b)
    <3>1. /\ frame[b].step = "compact" /\ frame[b].errand \in Errands
          /\ memories' = [memories EXCEPT ![frame[b].errand] = memories[frame[b].errand] + 1]
          /\ UNCHANGED <<mishaps, remembered, lock>>
          /\ frame'[b].step = "store" /\ frame'[b].errand = frame[b].errand
      BY <2>1, <2>2, <2>11 DEF Compact, FrameFits
    <3>2. LocksHeld'
      BY <2>1, <3>1 DEF MemoryInv, LocksHeld, Handles
    <3>3. \A c \in Bots : frame[c].step = "compact" /\ frame[c].errand = frame[b].errand => c = b
      BY <3>1 DEF MemoryInv, LocksHeld, Handles
    <3>4. memories[frame[b].errand] <= mishaps /\ memories'[frame[b].errand] = memories[frame[b].errand] + 1
          /\ \A t \in Errands : t # frame[b].errand => memories'[t] = memories[t]
      BY <1>t, <3>1 DEF MemoryInv, MemoryBound
    <3>5. memories'[frame[b].errand] <= mishaps + 1
      BY <1>t, <3>1, <3>4, StillLess
    <3>6. ASSUME NEW t \in Errands
          PROVE  /\ memories'[t] <= mishaps + 1
                 /\ t \notin remembered /\ ~Storing(t)' => memories'[t] <= mishaps
      <4>1. CASE t = frame[b].errand
        <5>1. Storing(t)'
          BY <3>1, <4>1 DEF Storing
        <5> QED
          BY <3>5, <4>1, <5>1
      <4>2. CASE t # frame[b].errand
        <5>1. Storing(t) => Storing(t)'
          BY <2>1, <3>1 DEF Storing
        <5> QED
          BY <3>4, <4>2, <5>1 DEF MemoryInv, MemoryBound
      <4> QED
        BY <4>1, <4>2
    <3>7. ASSUME NEW c \in Bots, frame'[c].step = "compact" PROVE memories'[frame'[c].errand] <= mishaps
      <4>1. c # b /\ frame'[c] = frame[c]
        BY <2>1, <3>1, <3>7
      <4>2. frame[c].errand \in Errands /\ frame[c].errand # frame[b].errand
        BY <3>3, <3>7, <4>1 DEF BridgeTypes, FrameFits
      <4> QED
        BY <3>4, <3>7, <4>1, <4>2 DEF MemoryInv, MemoryBound
    <3>8. MemoryBound'
      BY <3>1, <3>6, <3>7 DEF MemoryBound
    <3> QED
      BY <3>2, <3>8 DEF MemoryInv
  <2>12. CASE CompactFails(b)
    <3>1. /\ frame[b].step = "compact" /\ UNCHANGED <<remembered, memories>> /\ mishaps' = mishaps + 1
          /\ Unlocked(b) /\ Answer(b)
      BY <2>12 DEF CompactFails
    <3> QED
      BY <1>t, <3>1, MemoryAnswered
  <2>13. CASE Store(b)
    <3>1. /\ frame[b].step = "store" /\ UNCHANGED memories /\ Unlocked(b) /\ Answer(b)
          /\ \/ remembered' = remembered \cup {frame[b].errand} /\ UNCHANGED mishaps
             \/ UNCHANGED remembered /\ mishaps' = mishaps + 1
      BY <2>13 DEF Store
    <3> QED
      BY <1>t, <3>1, MemoryAnswered
  <2> QED
    BY <1>4, <2>4, <2>5, <2>6, <2>7, <2>8, <2>10, <2>11, <2>12, <2>13 DEF OfBot, Proceeds
<1>5. (\E t \in Errands : Dispatch(t)) \/ Tick \/ UNCHANGED bridgeVars =>
          UNCHANGED <<remembered, lock, memories, mishaps, frame>>
  BY DEF Dispatch, Tick, bridgeVars, memoryVars
<1> QED
  BY <1>1, <1>2, <1>3, <1>4, <1>5, BridgeActors

(* handle_errand_complete: completion frames of an errand may come twice   *)
(* and at the same time, but every memory beyond the first takes a failure *)
(* of Redis, of the compactor, or a restart.                               *)
THEOREM MemoriesNeedFaults == BridgeSpec => []ExtraMemoryNeedsFault
<1>1. BridgeTypes /\ MemoryInv => ExtraMemoryNeedsFault
  <2> SUFFICES ASSUME BridgeTypes, MemoryInv, NEW t \in Errands PROVE memories[t] <= 1 + mishaps
    BY DEF ExtraMemoryNeedsFault
  <2>1. memories[t] \in Nat /\ mishaps \in Nat /\ memories[t] <= mishaps + 1
    BY DEF BridgeTypes, MemoryInv, MemoryBound
  <2> QED
    BY <2>1
<1> QED
  BY <1>1, BridgeTypesStart, BridgeTypesKept, MemoryStart, MemoryKept, PTL DEF BridgeSpec

-----------------------------------------------------------------------------
(* Alliances.  The votes that ballots record on a proposal, and who cast   *)
(* them.                                                                   *)
VotesIn(B, p) == {<<b[2], b[3]>> : b \in {c \in B : c[1] = p}}
VotersIn(B, p) == {b[2] : b \in {c \in B : c[1] = p}}
Recast(B, p, a, yes) == {b \in B : b[1] # p \/ b[2] # a} \cup {<<p, a, yes>>}

LEMMA RecastVotes ==
    ASSUME NEW B, NEW p, NEW a, NEW yes
    PROVE  /\ VotesIn(Recast(B, p, a, yes), p) = Cast(VotesIn(B, p), a, yes)
           /\ \A q : q # p => VotesIn(Recast(B, p, a, yes), q) = VotesIn(B, q)
           /\ \A q : VotersIn(B, q) \subseteq VotersIn(Recast(B, p, a, yes), q)
<1> DEFINE R == Recast(B, p, a, yes)
<1>t. \A x, y, z : /\ <<x, y>>[1] = x /\ <<x, y>>[2] = y
                   /\ <<x, y, z>>[1] = x /\ <<x, y, z>>[2] = y /\ <<x, y, z>>[3] = z
  OBVIOUS
<1>1. ASSUME NEW e \in VotesIn(R, p) PROVE e \in Cast(VotesIn(B, p), a, yes)
  <2>1. PICK b \in R : b[1] = p /\ e = <<b[2], b[3]>>
    BY DEF VotesIn
  <2>2. CASE b \in B /\ b[2] # a
    <3>1. e \in VotesIn(B, p)
      BY <2>1, <2>2 DEF VotesIn
    <3>2. e[1] # a
      BY <1>t, <2>1, <2>2
    <3> QED
      BY <3>1, <3>2 DEF Cast
  <2>3. CASE b = <<p, a, yes>>
    <3>1. e = <<a, yes>>
      BY <1>t, <2>1, <2>3
    <3> QED
      BY <3>1 DEF Cast
  <2> QED
    BY <2>1, <2>2, <2>3 DEF Recast
<1>2. ASSUME NEW e \in Cast(VotesIn(B, p), a, yes) PROVE e \in VotesIn(R, p)
  <2>1. CASE e \in VotesIn(B, p) /\ e[1] # a
    <3>1. PICK b \in B : b[1] = p /\ e = <<b[2], b[3]>>
      BY <2>1 DEF VotesIn
    <3>2. b[2] # a
      BY <1>t, <2>1, <3>1
    <3>3. b \in R
      BY <3>2 DEF Recast
    <3> QED
      BY <3>1, <3>3 DEF VotesIn
  <2>2. CASE e = <<a, yes>>
    <3>1. <<p, a, yes>> \in R
      BY DEF Recast
    <3>2. /\ <<p, a, yes>>[1] = p
          /\ <<a, yes>> = <<(<<p, a, yes>>)[2], (<<p, a, yes>>)[3]>>
      BY <1>t
    <3> QED
      BY <2>2, <3>1, <3>2 DEF VotesIn
  <2> QED
    BY <2>1, <2>2 DEF Cast
<1>3. ASSUME NEW q, q # p PROVE VotesIn(R, q) = VotesIn(B, q)
  <2>1. {c \in R : c[1] = q} = {c \in B : c[1] = q}
    BY <1>t, <1>3 DEF Recast
  <2> QED
    BY <2>1 DEF VotesIn
<1>4. ASSUME NEW q, NEW m \in VotersIn(B, q) PROVE m \in VotersIn(R, q)
  <2>1. PICK b \in B : b[1] = q /\ m = b[2]
    BY DEF VotersIn
  <2>2. CASE b \in R
    BY <2>1, <2>2 DEF VotersIn
  <2>3. CASE b \notin R
    <3>1. q = p /\ m = a
      BY <2>1, <2>3 DEF Recast
    <3>2. <<p, a, yes>> \in R /\ <<p, a, yes>>[1] = p /\ <<p, a, yes>>[2] = a
      BY <1>t DEF Recast
    <3> QED
      BY <3>1, <3>2 DEF VotersIn
  <2> QED
    BY <2>2, <2>3
<1> HIDE DEF R
<1>5. VotesIn(R, p) = Cast(VotesIn(B, p), a, yes)
  BY <1>1, <1>2
<1> QED
  BY <1>3, <1>4, <1>5 DEF R

LEMMA VotersOfVotes ==
    ASSUME NEW B, NEW p PROVE Voters(VotesIn(B, p)) \subseteq VotersIn(B, p)
<1> SUFFICES ASSUME NEW m \in Voters(VotesIn(B, p)) PROVE m \in VotersIn(B, p)
  OBVIOUS
<1>1. PICK v \in VotesIn(B, p) : m = v[1]
  BY DEF Voters
<1>2. PICK b \in B : b[1] = p /\ v = <<b[2], b[3]>>
  BY DEF VotesIn
<1>3. \A x, y : <<x, y>>[1] = x
  OBVIOUS
<1>4. m = b[2]
  BY <1>1, <1>2, <1>3
<1> QED
  BY <1>2, <1>4 DEF VotersIn

(* What agents are in the middle of, and what the rows say.                *)
VoteSets == SUBSET (Allies \X BOOLEAN)

Calls ==
    [step : {"none", "propose", "vote", "tally", "reject", "create", "found", "add", "left",
             "dissolve", "empty"},
     on : Nat, yes : BOOLEAN, votes : VoteSets, formed : Nat]

ProposalRows ==
    [by : Allies, invitees : SUBSET Allies, votes : VoteSets,
     status : {"pending", "accepted", "rejected"}]

AllianceRows == [of : Nat, members : SUBSET Allies, dissolved : BOOLEAN, left : BOOLEAN]

AllianceTypes ==
    /\ proposal \in Seq(ProposalRows) /\ alliance \in Seq(AllianceRows)
    /\ rowLock \in Seq(Allies \cup {NoHolder}) /\ Len(rowLock) = Len(proposal)
    /\ doing \in [Allies -> Calls]
    /\ losses \in Nat

YesWasSaid(votes, p, said) == \A v \in votes : v[2] => <<p, v[1]>> \in said

(* A vote in its transaction has the lock and the votes of its row; a call *)
(* that founds an alliance does so for invitees that have all voted, and   *)
(* those it takes for accepting have accepted.                             *)
CallFits(a, c, ps, xs, locks, cast, said) ==
    /\ c.step \in {"vote", "tally", "reject", "create", "found", "add"} => c.on \in 1..Len(ps)
    /\ c.step \in {"left", "dissolve", "empty"} => c.on \in 1..Len(xs)
    /\ c.step = "vote" => locks[c.on] = a /\ c.votes = ps[c.on].votes
    /\ c.step \in {"create", "found", "add"} =>
           ps[c.on].invitees \subseteq VotersIn(cast, c.on) /\ YesWasSaid(c.votes, c.on, said)
    /\ c.step \in {"found", "add"} => c.formed \in 1..Len(xs) /\ xs[c.formed].of = c.on
    /\ c.step = "empty" => xs[c.on].dissolved

ProposalFits(p, row, cast, said) == row.votes = VotesIn(cast, p) /\ YesWasSaid(row.votes, p, said)

AllianceFits(row, ps, cast, said) ==
    /\ row.of \in 1..Len(ps)
    /\ ps[row.of].invitees \subseteq VotersIn(cast, row.of)
    /\ \A m \in row.members : m # ps[row.of].by => m \in ps[row.of].invitees /\ <<row.of, m>> \in said
    /\ IsFiniteSet(row.members)

IsLeaving(c, x) == c.step \in {"left", "dissolve"} /\ c.on = x
Together(row) == row.left => row.dissolved \/ Cardinality(row.members) >= 2

Loners ==
    losses = 0 =>
        \A x \in 1..Len(alliance) : Together(alliance[x]) \/ \E a \in Allies : IsLeaving(doing[a], x)

AllianceInv ==
    /\ AllianceTypes
    /\ \A a \in Allies : CallFits(a, doing[a], proposal, alliance, rowLock, ballots, consent)
    /\ \A p \in 1..Len(proposal) : ProposalFits(p, proposal[p], ballots, consent)
    /\ \A x \in 1..Len(alliance) : AllianceFits(alliance[x], proposal, ballots, consent)
    /\ \A b \in ballots : b[1] \in 1..Len(proposal)
    /\ Loners

LEMMA AllianceStart == AllianceInit => AllianceInv
<1> SUFFICES ASSUME AllianceInit PROVE AllianceInv
  OBVIOUS
<1>1. Resting \in Calls /\ Resting.step = "none"
  BY DEF Resting, Calls, VoteSets
<1>2. /\ Len(proposal) = 0 /\ Len(alliance) = 0 /\ Len(rowLock) = 0 /\ losses = 0
      /\ proposal \in Seq(ProposalRows) /\ alliance \in Seq(AllianceRows)
      /\ rowLock \in Seq(Allies \cup {NoHolder})
  BY DEF AllianceInit
<1>3. doing \in [Allies -> Calls] /\ \A a \in Allies : doing[a].step = "none"
  BY <1>1 DEF AllianceInit
<1>4. \A a \in Allies : CallFits(a, doing[a], proposal, alliance, rowLock, ballots, consent)
  BY <1>3 DEF CallFits
<1>5. ballots = {}
  BY DEF AllianceInit
<1> QED
  BY <1>2, <1>3, <1>4, <1>5 DEF AllianceInv, AllianceTypes, Loners

(* A step of one agent: rows only grow in what the others rely on, and it  *)
(* touches the votes and the lock of no proposal that another has locked.  *)
LEMMA AllySteps ==
    ASSUME AllianceInv, NEW a \in Allies, NEW c \in Calls, Continues(a, c),
           proposal' \in Seq(ProposalRows), alliance' \in Seq(AllianceRows),
           rowLock' \in Seq(Allies \cup {NoHolder}), Len(rowLock') = Len(proposal'),
           losses' \in Nat,
           Len(proposal) <= Len(proposal'), Len(alliance) <= Len(alliance'),
           \A p \in 1..Len(proposal) :
              /\ proposal'[p].invitees = proposal[p].invitees
              /\ \A b \in Allies \ {a} :
                    rowLock[p] = b => rowLock'[p] = b /\ proposal'[p].votes = proposal[p].votes,
           \A x \in 1..Len(alliance) :
              /\ alliance'[x].of = alliance[x].of
              /\ alliance[x].dissolved => alliance'[x].dissolved,
           \A p : VotersIn(ballots, p) \subseteq VotersIn(ballots', p),
           consent \subseteq consent', \A b \in ballots' : b[1] \in 1..Len(proposal'),
           CallFits(a, c, proposal', alliance', rowLock', ballots', consent'),
           \A p \in 1..Len(proposal') : ProposalFits(p, proposal'[p], ballots', consent'),
           \A x \in 1..Len(alliance') : AllianceFits(alliance'[x], proposal', ballots', consent'),
           losses' = 0 =>
              /\ losses = 0
              /\ \A x \in 1..Len(alliance') :
                    \/ Together(alliance'[x]) \/ IsLeaving(c, x)
                    \/ \E b \in Allies \ {a} : IsLeaving(doing[b], x)
    PROVE  AllianceInv'
<1>1. /\ doing' \in [Allies -> Calls] /\ doing'[a] = c
      /\ \A b \in Allies : b # a => doing'[b] = doing[b]
  BY DEF Continues, AllianceInv, AllianceTypes
<1>2. AllianceTypes'
  BY <1>1 DEF AllianceTypes
<1>3. ASSUME NEW b \in Allies
      PROVE  CallFits(b, doing'[b], proposal', alliance', rowLock', ballots', consent')
  <2>1. CASE b = a
    BY <1>1, <2>1
  <2>2. CASE b # a
    <3> DEFINE d == doing[b]
    <3>1. CallFits(b, d, proposal, alliance, rowLock, ballots, consent)
      BY DEF AllianceInv
    <3>2. Len(proposal) \in Nat /\ Len(proposal') \in Nat /\ Len(alliance) \in Nat /\ Len(alliance') \in Nat
      BY DEF AllianceInv, AllianceTypes
    <3>3. 1..Len(proposal) \subseteq 1..Len(proposal') /\ 1..Len(alliance) \subseteq 1..Len(alliance')
      BY <3>2
    <3>4. doing'[b] = d
      BY <1>1, <2>2
    <3> HIDE DEF d
    <3>5. /\ d.step \in {"vote", "tally", "reject", "create", "found", "add"} => d.on \in 1..Len(proposal')
          /\ d.step \in {"left", "dissolve", "empty"} => d.on \in 1..Len(alliance')
      BY <3>1, <3>3 DEF CallFits
    <3>6. d.step = "vote" => rowLock'[d.on] = b /\ d.votes = proposal'[d.on].votes
      BY <2>2, <3>1 DEF CallFits
    <3>7. d.step \in {"create", "found", "add"} =>
             proposal'[d.on].invitees \subseteq VotersIn(ballots', d.on) /\ YesWasSaid(d.votes, d.on, consent')
      <4>1. SUFFICES ASSUME d.step \in {"create", "found", "add"}
                     PROVE  /\ proposal'[d.on].invitees \subseteq VotersIn(ballots', d.on)
                            /\ YesWasSaid(d.votes, d.on, consent')
        OBVIOUS
      <4>2. /\ d.on \in 1..Len(proposal) /\ proposal[d.on].invitees \subseteq VotersIn(ballots, d.on)
            /\ YesWasSaid(d.votes, d.on, consent)
        BY <3>1, <4>1 DEF CallFits
      <4>3. proposal'[d.on].invitees \subseteq VotersIn(ballots', d.on)
        BY <4>2
      <4>4. YesWasSaid(d.votes, d.on, consent')
        BY <4>2, Zenon DEF YesWasSaid
      <4> QED
        BY <4>3, <4>4
    <3>8. d.step \in {"found", "add"} => d.formed \in 1..Len(alliance') /\ alliance'[d.formed].of = d.on
      BY <3>1, <3>3 DEF CallFits
    <3>9. d.step = "empty" => alliance'[d.on].dissolved
      BY <3>1 DEF CallFits
    <3>10. CallFits(b, d, proposal', alliance', rowLock', ballots', consent')
      BY <3>5, <3>6, <3>7, <3>8, <3>9 DEF CallFits
    <3> QED
      BY <3>4, <3>10
  <2> QED
    BY <2>1, <2>2
<1>4. Loners'
  <2>1. SUFFICES ASSUME losses' = 0, NEW x \in 1..Len(alliance')
                 PROVE  Together(alliance'[x]) \/ \E b \in Allies : IsLeaving(doing'[b], x)
    BY DEF Loners, Together, IsLeaving
  <2>2. IsLeaving(c, x) => IsLeaving(doing'[a], x)
    BY <1>1
  <2>3. \A b \in Allies \ {a} : IsLeaving(doing[b], x) => IsLeaving(doing'[b], x)
    BY <1>1
  <2> QED
    BY <2>1, <2>2, <2>3
<1> QED
  BY <1>2, <1>3, <1>4 DEF AllianceInv

(* A step that changes no row.                                             *)
LEMMA AllyCalls ==
    ASSUME AllianceInv, NEW a \in Allies, NEW c \in Calls, Continues(a, c),
           UNCHANGED <<proposal, alliance, ballots, consent>>,
           rowLock' \in Seq(Allies \cup {NoHolder}), Len(rowLock') = Len(rowLock),
           \A p \in 1..Len(proposal), b \in Allies \ {a} : rowLock[p] = b => rowLock'[p] = b,
           CallFits(a, c, proposal, alliance, rowLock', ballots, consent),
           losses' \in Nat,
           losses' = 0 =>
              /\ losses = 0
              /\ \A x \in 1..Len(alliance) :
                    IsLeaving(doing[a], x) => Together(alliance[x]) \/ IsLeaving(c, x)
    PROVE  AllianceInv'
<1>1. /\ proposal' = proposal /\ alliance' = alliance /\ ballots' = ballots /\ consent' = consent
      /\ proposal \in Seq(ProposalRows) /\ alliance \in Seq(AllianceRows)
      /\ Len(rowLock) = Len(proposal) /\ Len(proposal) \in Nat /\ Len(alliance) \in Nat
      /\ Len(proposal) <= Len(proposal) /\ Len(alliance) <= Len(alliance)
  BY DEF AllianceInv, AllianceTypes
<1>2. losses' = 0 =>
        /\ losses = 0
        /\ \A x \in 1..Len(alliance') :
              \/ Together(alliance'[x]) \/ IsLeaving(c, x)
              \/ \E b \in Allies \ {a} : IsLeaving(doing[b], x)
  BY <1>1 DEF AllianceInv, Loners
<1>3. /\ \A p \in 1..Len(proposal') : ProposalFits(p, proposal'[p], ballots', consent')
      /\ \A x \in 1..Len(alliance') : AllianceFits(alliance'[x], proposal', ballots', consent')
      /\ CallFits(a, c, proposal', alliance', rowLock', ballots', consent')
      /\ \A b \in ballots' : b[1] \in 1..Len(proposal')
  BY <1>1 DEF AllianceInv
<1> QED
  BY <1>1, <1>2, <1>3, AllySteps

(* A step on one alliance.                                                 *)
LEMMA AllyRows ==
    ASSUME AllianceInv, NEW a \in Allies, NEW c \in Calls, Continues(a, c),
           NEW x \in 1..Len(alliance), NEW row \in AllianceRows,
           alliance' = [alliance EXCEPT ![x] = row],
           UNCHANGED <<proposal, rowLock, ballots, consent, losses>>,
           row.of = alliance[x].of, alliance[x].dissolved => row.dissolved,
           AllianceFits(row, proposal, ballots, consent),
           CallFits(a, c, proposal, alliance', rowLock, ballots, consent),
           losses = 0 =>
              /\ Together(row) \/ IsLeaving(c, x) \/ \E b \in Allies \ {a} : IsLeaving(doing[b], x)
              /\ \A y \in 1..Len(alliance) : y # x => ~IsLeaving(doing[a], y)
    PROVE  AllianceInv'
<1>1. /\ proposal \in Seq(ProposalRows) /\ alliance \in Seq(AllianceRows)
      /\ rowLock \in Seq(Allies \cup {NoHolder}) /\ losses \in Nat
      /\ Len(rowLock) = Len(proposal) /\ Len(proposal) \in Nat /\ Len(alliance) \in Nat
      /\ Len(proposal) <= Len(proposal) /\ Len(alliance) <= Len(alliance)
  BY DEF AllianceInv, AllianceTypes
<1>2. /\ alliance' \in Seq(AllianceRows) /\ Len(alliance') = Len(alliance)
      /\ alliance'[x] = row /\ \A y \in 1..Len(alliance) : y # x => alliance'[y] = alliance[y]
  BY <1>1
<1>3. losses' = 0 =>
        /\ losses = 0
        /\ \A y \in 1..Len(alliance') :
              \/ Together(alliance'[y]) \/ IsLeaving(c, y)
              \/ \E b \in Allies \ {a} : IsLeaving(doing[b], y)
  <2>1. SUFFICES ASSUME losses = 0, NEW y \in 1..Len(alliance)
                 PROVE  \/ Together(alliance'[y]) \/ IsLeaving(c, y)
                        \/ \E b \in Allies \ {a} : IsLeaving(doing[b], y)
    BY <1>2
  <2>2. CASE y = x
    BY <1>2, <2>1, <2>2
  <2>3. CASE y # x
    <3>1. Together(alliance[y]) \/ \E b \in Allies : IsLeaving(doing[b], y)
      BY <2>1 DEF AllianceInv, Loners
    <3> QED
      BY <1>2, <2>1, <2>3, <3>1
  <2> QED
    BY <2>2, <2>3
<1>4. \A y \in 1..Len(alliance') : AllianceFits(alliance'[y], proposal', ballots', consent')
  BY <1>2 DEF AllianceInv
<1>5. \A p \in 1..Len(proposal') : ProposalFits(p, proposal'[p], ballots', consent')
  BY DEF AllianceInv
<1>6. \A y \in 1..Len(alliance) : /\ alliance'[y].of = alliance[y].of
                                  /\ alliance[y].dissolved => alliance'[y].dissolved
  BY <1>2
<1>7. /\ CallFits(a, c, proposal', alliance', rowLock', ballots', consent')
      /\ \A b \in ballots' : b[1] \in 1..Len(proposal')
  BY DEF AllianceInv
<1> QED
  BY <1>1, <1>2, <1>3, <1>4, <1>5, <1>6, <1>7, AllySteps

LEMMA OneMoreMember ==
    ASSUME NEW S, NEW m, IsFiniteSet(S)
    PROVE  IsFiniteSet(S \cup {m}) /\ (Cardinality(S) >= 2 => Cardinality(S \cup {m}) >= 2)
<1>1. IsFiniteSet(S \cup {m})
  BY FS_AddElement
<1>2. Cardinality(S \cup {m}) = IF m \in S THEN Cardinality(S) ELSE Cardinality(S) + 1
  BY FS_AddElement
<1>3. Cardinality(S) \in Nat
  BY FS_CardinalityType
<1> QED
  BY <1>1, <1>2, <1>3

LEMMA MoreTogether ==
    ASSUME NEW row \in AllianceRows, NEW m \in Allies, IsFiniteSet(row.members)
    PROVE  LET more == [row EXCEPT !.members = row.members \cup {m}] IN
           /\ more \in AllianceRows /\ more.of = row.of /\ more.dissolved = row.dissolved
           /\ more.left = row.left /\ more.members = row.members \cup {m}
           /\ IsFiniteSet(more.members)
           /\ Together(row) => Together(more)
<1> DEFINE more == [row EXCEPT !.members = row.members \cup {m}]
<1>1. /\ more \in AllianceRows /\ more.of = row.of /\ more.dissolved = row.dissolved
      /\ more.left = row.left /\ more.members = row.members \cup {m}
  BY DEF AllianceRows
<1>2. /\ IsFiniteSet(row.members \cup {m})
      /\ Cardinality(row.members) >= 2 => Cardinality(row.members \cup {m}) >= 2
  BY OneMoreMember
<1> HIDE DEF more
<1>3. Cardinality(row.members) >= 2 => Cardinality(more.members) >= 2
  BY <1>1, <1>2
<1>4. Together(row) => Together(more)
  BY <1>1, <1>3 DEF Together
<1> QED
  BY <1>1, <1>2, <1>4 DEF more

(* One step per action.                                                    *)
LEMMA AllianceKept == AllianceInv /\ [AllianceNext]_allianceVars => AllianceInv'
<1> SUFFICES ASSUME AllianceInv, [AllianceNext]_allianceVars PROVE AllianceInv'
  OBVIOUS
<1>t. /\ proposal \in Seq(ProposalRows) /\ alliance \in Seq(AllianceRows)
      /\ rowLock \in Seq(Allies \cup {NoHolder}) /\ Len(rowLock) = Len(proposal)
      /\ doing \in [Allies -> Calls] /\ losses \in Nat
      /\ Len(proposal) \in Nat /\ Len(alliance) \in Nat
  BY DEF AllianceInv, AllianceTypes
<1>f. \A b \in Allies : doing[b] \in Calls /\ CallFits(b, doing[b], proposal, alliance, rowLock, ballots, consent)
  BY <1>t DEF AllianceInv
<1>r. Resting \in Calls /\ Resting.step = "none"
  BY DEF Resting, Calls, VoteSets
<1>s. ASSUME NEW c \in Calls,
             NEW s \in {"none", "propose", "vote", "tally", "reject", "create", "found", "add",
                        "left", "dissolve", "empty"}
      PROVE  LET d == [c EXCEPT !.step = s] IN
             d \in Calls /\ d.step = s /\ d.on = c.on /\ d.yes = c.yes /\ d.votes = c.votes
             /\ d.formed = c.formed
  BY DEF Calls
<1>d. ASSUME NEW a \in Allies, Done(a) PROVE Continues(a, Resting)
  BY <1>d DEF Done
<1>1. ASSUME NEW a \in Allies, CheckProposer(a) PROVE AllianceInv'
  <2> DEFINE c == [doing[a] EXCEPT !.step = "propose"]
  <2>1. c \in Calls /\ c.step = "propose"
    BY <1>f, <1>s
  <2>2. Continues(a, c) /\ UNCHANGED <<proposal, alliance, rowLock, ballots, consent, losses>>
    BY <1>1 DEF CheckProposer, Then, ballotVars
  <2>3. doing[a].step = "none"
    BY <1>1 DEF CheckProposer, Doing
  <2> HIDE DEF c
  <2>4. CallFits(a, c, proposal, alliance, rowLock', ballots, consent)
    BY <2>1 DEF CallFits
  <2> QED
    BY <1>t, <2>1, <2>2, <2>3, <2>4, AllyCalls DEF IsLeaving
<1>2. ASSUME NEW a \in Allies, NEW p \in 1..Len(proposal), SelectForUpdate(a, p) PROVE AllianceInv'
  <2>1. PICK yes \in BOOLEAN :
           Continues(a, [Resting EXCEPT !.step = "vote", !.on = p, !.yes = yes,
                                        !.votes = proposal[p].votes])
    BY <1>2 DEF SelectForUpdate, ReadVotesOf
  <2> DEFINE c == [Resting EXCEPT !.step = "vote", !.on = p, !.yes = yes, !.votes = proposal[p].votes]
  <2>2. p \in Nat /\ proposal[p] \in ProposalRows
    BY <1>t
  <2>3. c \in Calls /\ c.step = "vote" /\ c.on = p /\ c.votes = proposal[p].votes
    BY <2>2 DEF Calls, Resting, ProposalRows
  <2>4. /\ Continues(a, c) /\ UNCHANGED <<proposal, alliance, ballots, consent, losses>>
        /\ rowLock[p] = NoHolder /\ rowLock' = [rowLock EXCEPT ![p] = a]
        /\ doing[a].step = "none"
    BY <1>2, <2>1 DEF SelectForUpdate, ballotVars, Doing
  <2> HIDE DEF c
  <2>5. /\ rowLock' \in Seq(Allies \cup {NoHolder}) /\ Len(rowLock') = Len(rowLock)
        /\ rowLock'[p] = a /\ \A q \in 1..Len(proposal) : q # p => rowLock'[q] = rowLock[q]
    BY <1>t, <2>4
  <2>6. CallFits(a, c, proposal, alliance, rowLock', ballots, consent)
    BY <2>3, <2>5 DEF CallFits
  <2>7. \A q \in 1..Len(proposal), b \in Allies \ {a} : rowLock[q] = b => rowLock'[q] = b
    <3> SUFFICES ASSUME NEW q \in 1..Len(proposal), NEW b \in Allies \ {a}, rowLock[q] = b
                 PROVE  rowLock'[q] = b
      OBVIOUS
    <3>1. CASE q = p
      <4>1. b = NoHolder
        BY <2>4, <3>1
      <4> QED
        BY <4>1, AllianceAssumption
    <3> QED
      BY <2>5, <3>1
  <2> QED
    BY <1>t, <2>3, <2>4, <2>5, <2>6, <2>7, AllyCalls DEF IsLeaving
<1>3. ASSUME NEW a \in Allies, Tally(a) PROVE AllianceInv'
  <2> DEFINE p == doing[a].on
             row == proposal[p]
  <2>1. doing[a].step = "tally" /\ UNCHANGED <<proposal, alliance, rowLock, ballots, consent, losses>>
    BY <1>3 DEF Tally, Doing, ballotVars
  <2>2. /\ p \in 1..Len(proposal) /\ row \in ProposalRows
        /\ row.votes = VotesIn(ballots, p) /\ YesWasSaid(row.votes, p, consent)
    BY <1>t, <1>f, <2>1 DEF CallFits, AllianceInv, ProposalFits
  <2>3. ASSUME NEW c \in Calls, Continues(a, c),
               CallFits(a, c, proposal, alliance, rowLock, ballots, consent)
        PROVE  AllianceInv'
    BY <1>t, <2>1, <2>3, AllyCalls DEF IsLeaving
  <2>4. CASE ~(row.invitees \subseteq Voters(row.votes))
    <3>1. Continues(a, Resting)
      BY <1>3, <2>4 DEF Tally, Done
    <3>2. CallFits(a, Resting, proposal, alliance, rowLock, ballots, consent)
      BY <1>r DEF CallFits
    <3> QED
      BY <1>r, <2>3, <3>1, <3>2
  <2>5. CASE row.invitees \subseteq Voters(row.votes)
    <3>1. \/ Continues(a, [doing[a] EXCEPT !.step = "create", !.votes = row.votes])
          \/ Continues(a, [doing[a] EXCEPT !.step = "reject"])
      BY <1>3, <2>5 DEF Tally, Then
    <3>2. CASE Continues(a, [doing[a] EXCEPT !.step = "create", !.votes = row.votes])
      <4> DEFINE c == [doing[a] EXCEPT !.step = "create", !.votes = row.votes]
      <4>1. c \in Calls /\ c.step = "create" /\ c.on = p /\ c.votes = row.votes
        BY <1>f, <2>2 DEF Calls, ProposalRows
      <4>2. row.invitees \subseteq VotersIn(ballots, p)
        BY <2>2, <2>5, VotersOfVotes
      <4> HIDE DEF c
      <4>3. CallFits(a, c, proposal, alliance, rowLock, ballots, consent)
        BY <2>2, <4>1, <4>2 DEF CallFits
      <4> QED
        BY <2>3, <3>2, <4>1, <4>3 DEF c
    <3>3. CASE Continues(a, [doing[a] EXCEPT !.step = "reject"])
      <4> DEFINE c == [doing[a] EXCEPT !.step = "reject"]
      <4>1. c \in Calls /\ c.step = "reject" /\ c.on = p
        BY <1>f, <1>s
      <4> HIDE DEF c
      <4>2. CallFits(a, c, proposal, alliance, rowLock, ballots, consent)
        BY <2>2, <4>1 DEF CallFits
      <4> QED
        BY <2>3, <3>3, <4>1, <4>2 DEF c
    <3> QED
      BY <3>1, <3>2, <3>3
  <2> QED
    BY <2>4, <2>5
<1>4. ASSUME NEW a \in Allies, GetMembers(a) PROVE AllianceInv'
  <2> DEFINE x == doing[a].on
  <2>1. doing[a].step = "left" /\ UNCHANGED <<proposal, alliance, rowLock, ballots, consent, losses>>
    BY <1>4 DEF GetMembers, Doing, ballotVars
  <2>2. x \in 1..Len(alliance) /\ alliance[x] \in AllianceRows
    BY <1>t, <1>f, <2>1 DEF CallFits
  <2>3. CASE Cardinality(alliance[x].members) < 2
    <3> DEFINE c == [doing[a] EXCEPT !.step = "dissolve"]
    <3>1. c \in Calls /\ c.step = "dissolve" /\ c.on = x
      BY <1>f, <1>s
    <3>2. Continues(a, c)
      BY <1>4, <2>3 DEF GetMembers, Then
    <3> HIDE DEF c
    <3>3. CallFits(a, c, proposal, alliance, rowLock, ballots, consent)
      BY <2>2, <3>1 DEF CallFits
    <3>4. \A y \in 1..Len(alliance) : IsLeaving(doing[a], y) => IsLeaving(c, y)
      BY <3>1 DEF IsLeaving
    <3> QED
      BY <1>t, <2>1, <3>1, <3>2, <3>3, <3>4, AllyCalls
  <2>4. CASE ~(Cardinality(alliance[x].members) < 2)
    <3>1. Continues(a, Resting)
      BY <1>4, <2>4 DEF GetMembers, Done
    <3>2. CallFits(a, Resting, proposal, alliance, rowLock, ballots, consent)
      BY <1>r DEF CallFits
    <3>3. IsFiniteSet(alliance[x].members)
      BY <2>2 DEF AllianceInv, AllianceFits
    <3>4. Cardinality(alliance[x].members) \in Nat
      BY <3>3, FS_CardinalityType
    <3>5. Cardinality(alliance[x].members) >= 2
      BY <2>4, <3>4
    <3>6. \A y \in 1..Len(alliance) : IsLeaving(doing[a], y) => Together(alliance[y])
      BY <3>5 DEF IsLeaving, Together
    <3> QED
      BY <1>t, <1>r, <2>1, <3>1, <3>2, <3>6, AllyCalls
  <2> QED
    BY <2>3, <2>4
<1>5. ASSUME NEW a \in Allies, Loses(a) PROVE AllianceInv'
  <2>1. /\ Continues(a, Resting) /\ losses' = losses + 1
        /\ rowLock' = [p \in DOMAIN rowLock |-> IF rowLock[p] = a THEN NoHolder ELSE rowLock[p]]
        /\ UNCHANGED <<proposal, alliance, ballots, consent>>
    BY <1>5 DEF Loses, Done, ballotVars
  <2>2. DOMAIN rowLock = 1..Len(proposal) /\ \A p \in 1..Len(proposal) : rowLock[p] \in Allies \cup {NoHolder}
    BY <1>t
  <2>3. /\ rowLock' \in [1..Len(proposal) -> Allies \cup {NoHolder}]
        /\ \A p \in 1..Len(proposal), b \in Allies \ {a} : rowLock[p] = b => rowLock'[p] = b
    BY <2>1, <2>2
  <2>4. rowLock' \in Seq(Allies \cup {NoHolder}) /\ Len(rowLock') = Len(rowLock)
    BY <1>t, <2>3, SeqDef
  <2>5. CallFits(a, Resting, proposal, alliance, rowLock', ballots, consent)
    BY <1>r DEF CallFits
  <2>6. losses' \in Nat /\ losses' # 0
    BY <1>t, <2>1
  <2> QED
    BY <1>r, <2>1, <2>3, <2>4, <2>5, <2>6, AllyCalls
<1>g. /\ Len(proposal) <= Len(proposal) /\ Len(alliance) <= Len(alliance)
      /\ \A b \in ballots : b[1] \in 1..Len(proposal)
      /\ \A q \in 1..Len(proposal) : ProposalFits(q, proposal[q], ballots, consent)
      /\ \A x \in 1..Len(alliance) : AllianceFits(alliance[x], proposal, ballots, consent)
  BY <1>t DEF AllianceInv
<1>l. ASSUME NEW a \in Allies, losses = 0, \A y \in 1..Len(alliance) : ~IsLeaving(doing[a], y),
             NEW y \in 1..Len(alliance)
      PROVE  Together(alliance[y]) \/ \E b \in Allies \ {a} : IsLeaving(doing[b], y)
  BY <1>l DEF AllianceInv, Loners
<1>6. ASSUME NEW a \in Allies, CreateProposal(a) PROVE AllianceInv'
  <2>1. PICK invitees \in Invitations :
           proposal' = Append(proposal, [by |-> a, invitees |-> invitees, votes |-> {},
                                         status |-> "pending"])
    BY <1>6 DEF CreateProposal
  <2> DEFINE row == [by |-> a, invitees |-> invitees, votes |-> {}, status |-> "pending"]
             n == Len(proposal) + 1
  <2>2. row \in ProposalRows /\ row.votes = {}
    BY AllianceAssumption DEF ProposalRows, VoteSets
  <2>3. /\ proposal' = Append(proposal, row) /\ rowLock' = Append(rowLock, NoHolder)
        /\ UNCHANGED <<alliance, ballots, consent, losses>> /\ Continues(a, Resting)
        /\ doing[a].step = "propose"
    BY <1>6, <2>1 DEF CreateProposal, Done, Doing, ballotVars
  <2> HIDE DEF row
  <2>4. /\ proposal' \in Seq(ProposalRows) /\ Len(proposal') = n /\ proposal'[n] = row
        /\ \A q \in 1..Len(proposal) : proposal'[q] = proposal[q]
        /\ n \notin 1..Len(proposal) /\ 1..n = (1..Len(proposal)) \cup {n}
        /\ Len(proposal) <= Len(proposal')
    BY <1>t, <2>2, <2>3
  <2>5. /\ rowLock' \in Seq(Allies \cup {NoHolder}) /\ Len(rowLock') = Len(proposal')
        /\ \A q \in 1..Len(proposal) : rowLock'[q] = rowLock[q]
    BY <1>t, <2>3, <2>4
  <2>6. VotesIn(ballots, n) = {}
    BY <1>g, <2>4 DEF VotesIn
  <2>7. \A q \in 1..Len(proposal') : ProposalFits(q, proposal'[q], ballots', consent')
    <3>1. ProposalFits(n, row, ballots, consent)
      BY <2>2, <2>6 DEF ProposalFits, YesWasSaid
    <3> QED
      BY <1>g, <2>3, <2>4, <3>1
  <2>8. \A x \in 1..Len(alliance') : AllianceFits(alliance'[x], proposal', ballots', consent')
    <3> SUFFICES ASSUME NEW x \in 1..Len(alliance)
                 PROVE  AllianceFits(alliance[x], proposal', ballots, consent)
      BY <2>3
    <3>1. AllianceFits(alliance[x], proposal, ballots, consent)
      BY <1>g
    <3>2. alliance[x].of \in 1..Len(proposal)
      BY <3>1 DEF AllianceFits
    <3>3. proposal'[alliance[x].of] = proposal[alliance[x].of] /\ alliance[x].of \in 1..Len(proposal')
      BY <2>4, <3>2
    <3> QED
      BY <3>1, <3>3 DEF AllianceFits
  <2>9. CallFits(a, Resting, proposal', alliance', rowLock', ballots', consent')
    BY <1>r DEF CallFits
  <2>10. \A b \in ballots' : b[1] \in 1..Len(proposal')
    BY <1>g, <2>3, <2>4
  <2>11. \A y \in 1..Len(alliance) : ~IsLeaving(doing[a], y)
    BY <2>3 DEF IsLeaving
  <2> HIDE DEF n
  <2> QED
    BY <1>t, <1>g, <1>l, <1>r, <2>3, <2>4, <2>5, <2>7, <2>8, <2>9, <2>10, <2>11, AllySteps
<1>7. ASSUME NEW a \in Allies, NEW step \in {"reject", "add"}, NEW status \in {"accepted", "rejected"},
             Settle(a, step, status)
      PROVE  AllianceInv'
  <2> DEFINE p == doing[a].on
             row == [proposal[p] EXCEPT !.status = status]
  <2>1. /\ doing[a].step \in {"reject", "add"} /\ Continues(a, Resting)
        /\ proposal' = [proposal EXCEPT ![p].status = status]
        /\ UNCHANGED <<alliance, rowLock, ballots, consent, losses>>
    BY <1>7 DEF Settle, Doing, Done, ballotVars
  <2>2. p \in 1..Len(proposal) /\ proposal[p] \in ProposalRows
    BY <1>t, <1>f, <2>1 DEF CallFits
  <2>3. /\ row \in ProposalRows /\ row.votes = proposal[p].votes
        /\ row.by = proposal[p].by /\ row.invitees = proposal[p].invitees
    BY <2>2 DEF ProposalRows
  <2>4. proposal' = [proposal EXCEPT ![p] = row]
    BY <2>1, <2>2
  <2> HIDE DEF row, p
  <2>5. /\ proposal' \in Seq(ProposalRows) /\ Len(proposal') = Len(proposal)
        /\ \A q \in 1..Len(proposal) : /\ proposal'[q].votes = proposal[q].votes
                                       /\ proposal'[q].by = proposal[q].by
                                       /\ proposal'[q].invitees = proposal[q].invitees
    BY <1>t, <2>2, <2>3, <2>4
  <2>6. \A q \in 1..Len(proposal') : ProposalFits(q, proposal'[q], ballots', consent')
    BY <1>g, <2>1, <2>5 DEF ProposalFits
  <2>7. \A x \in 1..Len(alliance') : AllianceFits(alliance'[x], proposal', ballots', consent')
    BY <1>g, <2>1, <2>5 DEF AllianceFits
  <2>8. CallFits(a, Resting, proposal', alliance', rowLock', ballots', consent')
    BY <1>r DEF CallFits
  <2>9. \A y \in 1..Len(alliance) : ~IsLeaving(doing[a], y)
    BY <2>1 DEF IsLeaving
  <2> QED
    BY <1>t, <1>g, <1>l, <1>r, <2>1, <2>5, <2>6, <2>7, <2>8, <2>9, AllySteps
<1>8. ASSUME NEW a \in Allies, UpdateVotes(a) PROVE AllianceInv'
  <2> DEFINE p == doing[a].on
             yes == doing[a].yes
             row == [proposal[p] EXCEPT !.votes = Cast(proposal[p].votes, a, yes)]
             c == [doing[a] EXCEPT !.step = "tally"]
  <2>1. /\ doing[a].step = "vote" /\ Continues(a, c)
        /\ proposal' = [proposal EXCEPT ![p].votes = Cast(doing[a].votes, a, yes)]
        /\ rowLock' = [rowLock EXCEPT ![p] = NoHolder]
        /\ ballots' = Recast(ballots, p, a, yes)
        /\ consent' = consent \cup (IF yes THEN {<<p, a>>} ELSE {})
        /\ UNCHANGED <<alliance, losses>>
    BY <1>8 DEF UpdateVotes, Doing, Then, Recast
  <2>2. /\ p \in 1..Len(proposal) /\ proposal[p] \in ProposalRows
        /\ doing[a].votes = proposal[p].votes /\ rowLock[p] = a
    BY <1>t, <1>f, <2>1 DEF CallFits
  <2>3. c \in Calls /\ c.step = "tally" /\ c.on = p /\ yes \in BOOLEAN
    <3>1. doing[a] \in Calls
      BY <1>f
    <3> QED
      BY <3>1, <1>s DEF Calls
  <2>4. Cast(proposal[p].votes, a, yes) \in VoteSets
    BY <2>2, <2>3 DEF Cast, VoteSets, ProposalRows
  <2>5. /\ row \in ProposalRows /\ row.votes = Cast(proposal[p].votes, a, yes)
        /\ row.by = proposal[p].by /\ row.invitees = proposal[p].invitees
    BY <2>2, <2>4 DEF ProposalRows
  <2>6. proposal' = [proposal EXCEPT ![p] = row]
    BY <2>1, <2>2
  <2> HIDE DEF row, c, p, yes
  <2>7. /\ proposal' \in Seq(ProposalRows) /\ Len(proposal') = Len(proposal)
        /\ proposal'[p] = row
        /\ \A q \in 1..Len(proposal) : q # p => proposal'[q] = proposal[q]
    BY <1>t, <2>2, <2>5, <2>6
  <2>8. /\ rowLock' \in Seq(Allies \cup {NoHolder}) /\ Len(rowLock') = Len(proposal')
        /\ \A q \in 1..Len(proposal) : q # p => rowLock'[q] = rowLock[q]
    BY <1>t, <2>1, <2>2, <2>7
  <2>9. /\ VotesIn(ballots', p) = Cast(VotesIn(ballots, p), a, yes)
        /\ \A q : q # p => VotesIn(ballots', q) = VotesIn(ballots, q)
        /\ \A q : VotersIn(ballots, q) \subseteq VotersIn(ballots', q)
    BY <2>1, RecastVotes
  <2>10. consent \subseteq consent' /\ (yes => <<p, a>> \in consent')
    BY <2>1
  <2>11. ASSUME NEW q \in 1..Len(proposal) PROVE ProposalFits(q, proposal'[q], ballots', consent')
    <3>1. proposal[q].votes = VotesIn(ballots, q) /\ YesWasSaid(proposal[q].votes, q, consent)
      BY <1>g DEF ProposalFits
    <3>2. CASE q = p
      <4>1. row.votes = VotesIn(ballots', p)
        BY <2>5, <2>9, <3>1, <3>2
      <4>2. ASSUME NEW v \in row.votes, v[2] PROVE <<p, v[1]>> \in consent'
        <5>1. v \in proposal[p].votes \/ v = <<a, yes>>
          BY <2>5 DEF Cast
        <5>2. CASE v \in proposal[p].votes
          <6>1. <<p, v[1]>> \in consent
            BY <3>1, <3>2, <4>2, <5>2 DEF YesWasSaid
          <6> QED
            BY <6>1, <2>10
        <5>3. CASE v = <<a, yes>>
          <6>1. v[1] = a /\ v[2] = yes
            BY <5>3
          <6> QED
            BY <6>1, <4>2, <2>10
        <5> QED
          BY <5>1, <5>2, <5>3
      <4>3. YesWasSaid(row.votes, p, consent')
        BY <4>2 DEF YesWasSaid
      <4> QED
        BY <2>7, <3>2, <4>1, <4>3 DEF ProposalFits
    <3>3. CASE q # p
      <4>1. YesWasSaid(proposal[q].votes, q, consent')
        BY <2>10, <3>1, Zenon DEF YesWasSaid
      <4> QED
        BY <2>7, <2>9, <3>1, <3>3, <4>1 DEF ProposalFits
    <3> QED
      BY <3>2, <3>3
  <2>12. /\ \A q \in 1..Len(proposal) : proposal'[q].invitees = proposal[q].invitees
         /\ \A q \in 1..Len(proposal) : proposal'[q].by = proposal[q].by
    BY <2>5, <2>7
  <2>13. ASSUME NEW x \in 1..Len(alliance)
         PROVE  AllianceFits(alliance'[x], proposal', ballots', consent')
    <3> DEFINE y == alliance[x]
    <3>1. AllianceFits(y, proposal, ballots, consent) /\ alliance'[x] = y
      BY <1>g, <2>1
    <3> HIDE DEF y
    <3>2. y.of \in 1..Len(proposal') /\ IsFiniteSet(y.members)
      BY <2>7, <3>1 DEF AllianceFits
    <3>3. proposal'[y.of].invitees \subseteq VotersIn(ballots', y.of)
      <4>1. proposal[y.of].invitees \subseteq VotersIn(ballots, y.of) /\ y.of \in 1..Len(proposal)
        BY <3>1 DEF AllianceFits
      <4> QED
        BY <2>9, <2>12, <4>1
    <3>4. \A m \in y.members : m # proposal'[y.of].by =>
             m \in proposal'[y.of].invitees /\ <<y.of, m>> \in consent'
      BY <2>10, <2>12, <3>1 DEF AllianceFits
    <3> QED
      BY <3>1, <3>2, <3>3, <3>4 DEF AllianceFits
  <2>14. CallFits(a, c, proposal', alliance', rowLock', ballots', consent')
    BY <2>2, <2>3, <2>7 DEF CallFits
  <2>15. \A b \in ballots' : b[1] \in 1..Len(proposal')
    <3>1. <<p, a, yes>>[1] = p
      OBVIOUS
    <3> QED
      BY <1>g, <2>1, <2>2, <2>7, <3>1 DEF Recast
  <2>16. \A q \in 1..Len(proposal) :
            /\ proposal'[q].invitees = proposal[q].invitees
            /\ \A b \in Allies \ {a} :
                  rowLock[q] = b => rowLock'[q] = b /\ proposal'[q].votes = proposal[q].votes
    BY <2>2, <2>7, <2>8, <2>12
  <2>17. \A y \in 1..Len(alliance) : ~IsLeaving(doing[a], y)
    BY <2>1 DEF IsLeaving
  <2> QED
    BY <1>t, <1>g, <1>l, <2>1, <2>3, <2>7, <2>8, <2>9, <2>10, <2>11, <2>13, <2>14, <2>15, <2>16,
       <2>17, AllySteps DEF c
<1>9. ASSUME NEW a \in Allies, CreateAlliance(a) PROVE AllianceInv'
  <2> DEFINE p == doing[a].on
             n == Len(alliance) + 1
             row == [of |-> p, members |-> {}, dissolved |-> FALSE, left |-> FALSE]
             c == [doing[a] EXCEPT !.step = "found", !.formed = n]
  <2>1. /\ doing[a].step = "create" /\ Continues(a, c) /\ alliance' = Append(alliance, row)
        /\ UNCHANGED <<proposal, rowLock, ballots, consent, losses>>
    BY <1>9 DEF CreateAlliance, Doing, ballotVars
  <2>2. /\ p \in 1..Len(proposal) /\ proposal[p].invitees \subseteq VotersIn(ballots, p)
        /\ YesWasSaid(doing[a].votes, p, consent)
    BY <1>f, <2>1 DEF CallFits
  <2>3. row \in AllianceRows /\ row.of = p /\ row.members = {} /\ ~row.left /\ IsFiniteSet(row.members)
    BY <1>t, <2>2, FS_EmptySet DEF AllianceRows
  <2>4. c \in Calls /\ c.step = "found" /\ c.on = p /\ c.formed = n /\ c.votes = doing[a].votes
    <3>1. doing[a] \in Calls /\ n \in Nat
      BY <1>t, <1>f
    <3> HIDE DEF n, p
    <3>2. c \in Calls
      BY <3>1 DEF Calls
    <3>3. c.step = "found" /\ c.on = doing[a].on /\ c.formed = n /\ c.votes = doing[a].votes
      BY <3>1 DEF Calls
    <3> QED
      BY <3>2, <3>3 DEF p
  <2> HIDE DEF row, c, p
  <2>5. /\ alliance' \in Seq(AllianceRows) /\ Len(alliance') = n /\ alliance'[n] = row
        /\ \A x \in 1..Len(alliance) : alliance'[x] = alliance[x]
        /\ 1..n = (1..Len(alliance)) \cup {n} /\ n \in 1..n /\ Len(alliance) <= Len(alliance')
    BY <1>t, <2>1, <2>3
  <2> HIDE DEF n
  <2>6. CallFits(a, c, proposal', alliance', rowLock', ballots', consent')
    BY <2>1, <2>2, <2>3, <2>4, <2>5 DEF CallFits
  <2>7. AllianceFits(row, proposal, ballots, consent)
    BY <2>2, <2>3 DEF AllianceFits
  <2>8. \A x \in 1..Len(alliance') : AllianceFits(alliance'[x], proposal', ballots', consent')
    BY <1>g, <2>1, <2>5, <2>7
  <2>9. Together(row)
    BY <2>3 DEF Together
  <2>10. \A y \in 1..Len(alliance) : ~IsLeaving(doing[a], y)
    BY <2>1 DEF IsLeaving
  <2>11. losses' = 0 =>
           /\ losses = 0
           /\ \A x \in 1..Len(alliance') :
                 \/ Together(alliance'[x]) \/ IsLeaving(c, x)
                 \/ \E b \in Allies \ {a} : IsLeaving(doing[b], x)
    BY <1>l, <2>1, <2>5, <2>9, <2>10
  <2> QED
    BY <1>t, <1>g, <2>1, <2>4, <2>5, <2>6, <2>8, <2>11, AllySteps
<1>10. ASSUME NEW a \in Allies, AddFounder(a) \/ AddInvitee(a) PROVE AllianceInv'
  <2> DEFINE x == doing[a].formed
             p == doing[a].on
  <2>1. doing[a].step \in {"found", "add"} /\ UNCHANGED <<proposal, rowLock, ballots, consent, losses>>
    BY <1>10 DEF AddFounder, AddInvitee, Doing, ballotVars
  <2>2. /\ p \in 1..Len(proposal) /\ x \in 1..Len(alliance) /\ alliance[x].of = p
        /\ proposal[p].invitees \subseteq VotersIn(ballots, p) /\ YesWasSaid(doing[a].votes, p, consent)
        /\ proposal[p] \in ProposalRows /\ alliance[x] \in AllianceRows /\ doing[a] \in Calls
    BY <1>t, <1>f, <2>1 DEF CallFits
  <2>3. PICK m \in Allies, c \in Calls :
           /\ AddMember(x, m) /\ Continues(a, c)
           /\ c.step = "add" /\ c.on = p /\ c.formed = x /\ c.votes \subseteq doing[a].votes
           /\ m # proposal[p].by => m \in proposal[p].invitees /\ <<p, m>> \in consent
    <3>1. CASE AddFounder(a)
      <4> DEFINE c == [doing[a] EXCEPT !.step = "add"]
      <4>1. c \in Calls /\ c.step = "add" /\ c.on = p /\ c.formed = x /\ c.votes = doing[a].votes
        BY <1>f, <1>s
      <4>2. AddMember(x, proposal[p].by) /\ Continues(a, c) /\ proposal[p].by \in Allies
        BY <2>2, <3>1 DEF AddFounder, Then, ProposalRows
      <4> HIDE DEF c
      <4> QED
        BY <4>1, <4>2
    <3>2. CASE AddInvitee(a)
      <4>1. PICK m \in Accepted(a) :
               AddMember(x, m) /\ Continues(a, [doing[a] EXCEPT !.votes = {v \in @ : v[1] # m}])
        BY <3>2 DEF AddInvitee
      <4> DEFINE left == {v \in doing[a].votes : v[1] # m}
                 c == [doing[a] EXCEPT !.votes = left]
      <4>2. m \in proposal[p].invitees /\ m \in Allies
        BY <2>2, <4>1 DEF Accepted, ProposalRows
      <4>3. PICK v \in doing[a].votes : v[2] /\ m = v[1]
        BY <4>1 DEF Accepted, Yes
      <4>4. <<p, m>> \in consent
        BY <2>2, <4>3 DEF YesWasSaid
      <4>5. left \subseteq doing[a].votes /\ left \in VoteSets
        BY <2>2 DEF Calls, VoteSets
      <4> HIDE DEF left
      <4>6. c \in Calls /\ c.step = doing[a].step /\ c.on = p /\ c.formed = x /\ c.votes = left
        BY <2>2, <4>5 DEF Calls
      <4>7. Continues(a, c) /\ doing[a].step = "add"
        BY <3>2, <4>1 DEF AddInvitee, Doing, left
      <4> HIDE DEF c
      <4> QED
        BY <4>1, <4>2, <4>4, <4>5, <4>6, <4>7
    <3> QED
      BY <1>10, <3>1, <3>2
  <2> DEFINE row == [alliance[x] EXCEPT !.members = alliance[x].members \cup {m}]
  <2>4. AllianceFits(alliance[x], proposal, ballots, consent)
    BY <1>g, <2>2
  <2>5. /\ row \in AllianceRows /\ row.of = p /\ row.dissolved = alliance[x].dissolved
        /\ row.members = alliance[x].members \cup {m} /\ IsFiniteSet(row.members)
        /\ Together(alliance[x]) => Together(row)
    <3>1. IsFiniteSet(alliance[x].members)
      BY <2>4 DEF AllianceFits
    <3> QED
      BY <2>2, <3>1, MoreTogether
  <2>6. alliance' = [alliance EXCEPT ![x] = row]
    BY <2>2, <2>3 DEF AddMember
  <2> HIDE DEF row, x, p
  <2>7. Len(alliance') = Len(alliance) /\ alliance'[x] = row
    BY <1>t, <2>2, <2>6
  <2>8. AllianceFits(row, proposal, ballots, consent)
    BY <2>2, <2>3, <2>4, <2>5 DEF AllianceFits
  <2>9. YesWasSaid(c.votes, p, consent)
    BY <2>2, <2>3 DEF YesWasSaid
  <2>10. CallFits(a, c, proposal, alliance', rowLock, ballots, consent)
    BY <2>2, <2>3, <2>5, <2>7, <2>9 DEF CallFits
  <2>11. \A y \in 1..Len(alliance) : ~IsLeaving(doing[a], y)
    BY <2>1 DEF IsLeaving
  <2>12. losses = 0 => Together(row) \/ \E b \in Allies \ {a} : IsLeaving(doing[b], x)
    BY <1>l, <2>2, <2>5, <2>11
  <2> QED
    BY <2>1, <2>2, <2>3, <2>5, <2>6, <2>8, <2>10, <2>11, <2>12, AllyRows
<1>11. ASSUME NEW a \in Allies, NEW x \in 1..Len(alliance), RemoveMember(a, x) PROVE AllianceInv'
  <2> DEFINE rest == alliance[x].members \ {a}
             row == [alliance[x] EXCEPT !.members = rest, !.left = TRUE]
             c == [Resting EXCEPT !.step = "left", !.on = x]
  <2>1. /\ doing[a].step = "none" /\ Continues(a, c)
        /\ alliance' = [alliance EXCEPT ![x].members = @ \ {a}, ![x].left = TRUE]
        /\ UNCHANGED <<proposal, rowLock, ballots, consent, losses>>
    BY <1>11 DEF RemoveMember, Doing, ballotVars
  <2>2. x \in Nat /\ alliance[x] \in AllianceRows /\ AllianceFits(alliance[x], proposal, ballots, consent)
    BY <1>t, <1>g
  <2>3. alliance' = [alliance EXCEPT ![x] = row]
    BY <1>t, <2>1
  <2>4. c \in Calls /\ c.step = "left" /\ c.on = x
    BY <2>2 DEF Calls, Resting, VoteSets
  <2>5. rest \subseteq alliance[x].members /\ IsFiniteSet(rest)
    BY <2>2, FS_Subset DEF AllianceFits
  <2> HIDE DEF c, rest
  <2>6. /\ row \in AllianceRows /\ row.of = alliance[x].of /\ row.members = rest
        /\ row.dissolved = alliance[x].dissolved
    BY <2>2, <2>5 DEF AllianceRows
  <2> HIDE DEF row
  <2>7. AllianceFits(row, proposal, ballots, consent)
    BY <2>2, <2>5, <2>6 DEF AllianceFits
  <2>8. Len(alliance') = Len(alliance)
    BY <1>t, <2>3
  <2>9. CallFits(a, c, proposal, alliance', rowLock, ballots, consent)
    BY <2>4, <2>8 DEF CallFits
  <2>10. IsLeaving(c, x) /\ \A y \in 1..Len(alliance) : ~IsLeaving(doing[a], y)
    BY <2>1, <2>4 DEF IsLeaving
  <2>11. Continues(a, c) /\ UNCHANGED <<proposal, rowLock, ballots, consent, losses>>
    BY <2>1 DEF c
  <2>12. row.of = alliance[x].of /\ (alliance[x].dissolved => row.dissolved)
    BY <2>6
  <2> QED
    BY <2>3, <2>4, <2>6, <2>7, <2>9, <2>10, <2>11, <2>12, AllyRows
<1>12. ASSUME NEW a \in Allies, DissolveAlliance(a) PROVE AllianceInv'
  <2> DEFINE x == doing[a].on
             row == [alliance[x] EXCEPT !.dissolved = TRUE]
             c == [doing[a] EXCEPT !.step = "empty"]
  <2>1. /\ doing[a].step = "dissolve" /\ Continues(a, c)
        /\ alliance' = [alliance EXCEPT ![x].dissolved = TRUE]
        /\ UNCHANGED <<proposal, rowLock, ballots, consent, losses>>
    BY <1>12 DEF DissolveAlliance, Doing, Then, ballotVars
  <2>2. x \in 1..Len(alliance)
    BY <1>f, <2>1 DEF CallFits
  <2>3. alliance[x] \in AllianceRows /\ AllianceFits(alliance[x], proposal, ballots, consent)
    BY <1>t, <1>g, <2>2
  <2>4. alliance' = [alliance EXCEPT ![x] = row]
    BY <1>t, <2>1, <2>2
  <2>5. c \in Calls /\ c.step = "empty" /\ c.on = x
    BY <1>f, <1>s
  <2>6. \A y \in 1..Len(alliance) : y # x => ~IsLeaving(doing[a], y)
    BY DEF IsLeaving
  <2> HIDE DEF c, x
  <2>7. /\ row \in AllianceRows /\ row.of = alliance[x].of /\ row.members = alliance[x].members
        /\ row.dissolved
    BY <2>3 DEF AllianceRows
  <2> HIDE DEF row
  <2>8. AllianceFits(row, proposal, ballots, consent)
    BY <2>3, <2>7 DEF AllianceFits
  <2>9. Len(alliance') = Len(alliance) /\ alliance'[x] = row
    BY <1>t, <2>2, <2>4
  <2>10. CallFits(a, c, proposal, alliance', rowLock, ballots, consent)
    BY <2>2, <2>5, <2>7, <2>9 DEF CallFits
  <2>11. Together(row)
    BY <2>7 DEF Together
  <2> QED
    BY <2>1, <2>2, <2>4, <2>5, <2>6, <2>7, <2>8, <2>10, <2>11, AllyRows DEF c
<1>13. ASSUME NEW a \in Allies, EmptyAlliance(a) PROVE AllianceInv'
  <2> DEFINE x == doing[a].on
             row == [alliance[x] EXCEPT !.members = {}]
  <2>1. /\ doing[a].step = "empty" /\ Continues(a, Resting)
        /\ alliance' = [alliance EXCEPT ![x].members = {}]
        /\ UNCHANGED <<proposal, rowLock, ballots, consent, losses>>
    BY <1>13 DEF EmptyAlliance, Doing, Done, ballotVars
  <2>2. x \in 1..Len(alliance) /\ alliance[x].dissolved
    BY <1>f, <2>1 DEF CallFits
  <2>3. alliance[x] \in AllianceRows /\ AllianceFits(alliance[x], proposal, ballots, consent)
    BY <1>t, <1>g, <2>2
  <2>4. alliance' = [alliance EXCEPT ![x] = row]
    BY <1>t, <2>1, <2>2
  <2> HIDE DEF x
  <2>5. row \in AllianceRows /\ row.of = alliance[x].of /\ row.members = {} /\ row.dissolved
    BY <2>2, <2>3 DEF AllianceRows
  <2> HIDE DEF row
  <2>6. AllianceFits(row, proposal, ballots, consent)
    BY <2>3, <2>5, FS_EmptySet DEF AllianceFits
  <2>7. CallFits(a, Resting, proposal, alliance', rowLock, ballots, consent)
    BY <1>r DEF CallFits
  <2>8. Together(row) /\ \A y \in 1..Len(alliance) : ~IsLeaving(doing[a], y)
    BY <2>1, <2>5 DEF Together, IsLeaving
  <2> QED
    BY <1>r, <2>1, <2>2, <2>4, <2>5, <2>6, <2>7, <2>8, AllyRows
<1>14. ASSUME UNCHANGED allianceVars PROVE AllianceInv'
  <2>1. UNCHANGED <<proposal, alliance, rowLock, doing, ballots, consent, losses>>
    BY <1>14 DEF allianceVars, ballotVars
  <2> QED
    BY <2>1 DEF AllianceInv, AllianceTypes, Loners
<1>15. \A a \in Allies : (Reject(a) => Settle(a, "reject", "rejected"))
                        /\ (Accept(a) => Settle(a, "add", "accepted"))
  BY DEF Reject, Accept
<1> QED
  BY <1>1, <1>2, <1>3, <1>4, <1>5, <1>6, <1>7, <1>8, <1>9, <1>10, <1>11, <1>12, <1>13, <1>14,
     <1>15 DEF AllianceNext

LEMMA AllianceInvHolds == AllianceSpec => []AllianceInv
<1> QED
  BY AllianceStart, AllianceKept, PTL DEF AllianceSpec

(* However the votes, formations and departures of the agents overlap, and *)
(* whatever statements fail: every proposal holds everybody's last vote,   *)
(* an alliance has only members that consented to it, and it is dissolved  *)
(* when a departure leaves less than two in it and no statement failed.    *)
THEOREM AlliancesAreSound == AllianceSpec => []AlliancesSound
<1>1. AllianceInv => AlliancesSound
  <2> SUFFICES ASSUME AllianceInv PROVE AlliancesSound
    OBVIOUS
  <2>t. DOMAIN proposal = 1..Len(proposal) /\ DOMAIN alliance = 1..Len(alliance)
    BY DEF AllianceInv, AllianceTypes
  <2>1. NoVoteLost
    BY <2>t DEF AllianceInv, ProposalFits, VotesIn, NoVoteLost
  <2>2. FormedByConsent
    BY <2>t DEF AllianceInv, AllianceFits, VotersIn, FormedByConsent
  <2>3. NoLoner
    <3> SUFFICES ASSUME losses = 0, NEW x \in 1..Len(alliance), alliance[x].left, ~InHands(x)
                 PROVE  alliance[x].dissolved \/ Cardinality(alliance[x].members) >= 2
      BY <2>t DEF NoLoner
    <3>1. Together(alliance[x]) \/ \E a \in Allies : IsLeaving(doing[a], x)
      BY DEF AllianceInv, Loners
    <3>2. \A a \in Allies : ~IsLeaving(doing[a], x)
      BY DEF InHands, IsLeaving
    <3> QED
      BY <3>1, <3>2 DEF Together
  <2> QED
    BY <2>1, <2>2, <2>3 DEF AlliancesSound
<1> QED
  BY <1>1, AllianceInvHolds, PTL

-----------------------------------------------------------------------------
(* The task board, for any number of requests in flight, any limit on      *)
(* completed tasks and any number of failures.                             *)
OnTask == {"race", "lost", "won", "own", "edit"}

(* What makes the marker of an open task decide its ownership for good.    *)
BlankBeforePost ==
    \A k \in Tasks : origin[k] = "none" =>
        /\ task[k].status = "absent" /\ task[k].owner = Nobody
        /\ marker[k] = Nobody
        /\ \A a \in Agents : <<a, k>> \notin oks

JobsOnPosted ==
    \A r \in Requests : job[r].step \in OnTask =>
        /\ job[r].task \in Tasks /\ origin[job[r].task] # "none"
        /\ job[r].step = "edit" => job[r].status \in Statuses

Claimants ==
    \A r \in Requests :
        /\ job[r].step \in {"race", "lost", "won", "own"} => job[r].agent \in Agents
        /\ job[r].step \in {"won", "own"} => marker[job[r].task] = job[r].agent
        /\ job[r].step = "lost" => marker[job[r].task] # Nobody

OpenOwner ==
    \A k \in Tasks : origin[k] = "open" => task[k].owner \in {Nobody, marker[k]}

OpenCopies ==
    \A r \in Requests : job[r].step \in {"own", "edit"} =>
        (origin[job[r].task] = "open" => job[r].copy.owner \in {Nobody, marker[job[r].task]})

OpenOks ==
    \A a \in Agents, k \in Tasks : <<a, k>> \in oks =>
        (origin[k] = "open" => a = marker[k])

ToldMarkers ==
    \A k \in Tasks, w \in Agents \cup {Nobody} : <<k, w>> \in told => w = marker[k] /\ w # Nobody

BoardInv ==
    /\ BlankBeforePost /\ JobsOnPosted /\ Claimants
    /\ OpenOwner /\ OpenCopies /\ OpenOks /\ ToldMarkers

-----------------------------------------------------------------------------
(* A job built from parts of the right types is a job.                     *)
LEMMA JobType ==
    ASSUME NEW step \in Steps, NEW a \in Agents \cup {Nobody}, NEW k \in Tasks \cup {NoTask},
           NEW copy \in Entry, NEW status \in Statuses \cup {"none"}, NEW todo \in SUBSET Tasks
    PROVE  /\ Job(step, a, k, copy, status, todo) \in Jobs
           /\ Job(step, a, k, copy, status, todo).step = step
           /\ Job(step, a, k, copy, status, todo).agent = a
           /\ Job(step, a, k, copy, status, todo).task = k
           /\ Job(step, a, k, copy, status, todo).copy = copy
           /\ Job(step, a, k, copy, status, todo).status = status
BY DEF Job, Jobs

(* The empty entry, and the request that is not running.                   *)
LEMMA BlankTypes == Absent \in Entry /\ NoJob \in Jobs /\ NoJob.step = "idle"
<1>1. Absent \in Entry
  BY DEF Absent, Entry
<1> QED
  BY <1>1, JobType DEF NoJob, Steps

(* The fields of a job have their types.                                   *)
LEMMA JobParts ==
    ASSUME NEW j \in Jobs
    PROVE  /\ j.step \in Steps /\ j.agent \in Agents \cup {Nobody}
           /\ j.task \in Tasks \cup {NoTask} /\ j.copy \in Entry
           /\ j.copy.owner \in Agents \cup {Nobody}
           /\ j.status \in Statuses \cup {"none"} /\ j.todo \in SUBSET Tasks
BY DEF Jobs, Entry

(* An entry built from a status and an owner.                              *)
LEMMA EntryType ==
    ASSUME NEW status \in {"absent", "pending", "in_progress", "blocked", "done"},
           NEW owner \in Agents \cup {Nobody}
    PROVE  [status |-> status, owner |-> owner] \in Entry
BY DEF Entry

-----------------------------------------------------------------------------
(* Every state that a first step starts from satisfies the invariant.      *)
LEMMA BoardStarts == Init => TypeOK /\ BoardInv
<1> SUFFICES ASSUME Init PROVE TypeOK /\ BoardInv
  OBVIOUS
<1> USE BoardAssumption, BlankTypes
<1>1. TypeOK
  BY DEF Init, TypeOK
<1>2. BlankBeforePost /\ OpenOwner /\ OpenOks /\ ToldMarkers
  BY DEF Init, BlankBeforePost, OpenOwner, OpenOks, ToldMarkers, Absent
<1>3. JobsOnPosted /\ Claimants /\ OpenCopies
  BY DEF Init, JobsOnPosted, Claimants, OpenCopies, OnTask
<1> QED
  BY <1>1, <1>2, <1>3 DEF BoardInv

(* Posting a task, for the first time or again.                           *)
LEMMA PostKeeps ==
    ASSUME TypeOK, BoardInv, NEW k \in Tasks, NEW owner \in Agents \cup {Nobody},
           NEW status \in {"pending", "in_progress"}, NEW kind, AddTask(k, kind, owner, status),
           \/ origin[k] = "none" /\ owner = Nobody /\ kind = "open"
           \/ origin[k] \in {"none", "owned"} /\ kind = "owned"
    PROVE  TypeOK' /\ BoardInv'
<1> USE DEF TypeOK, AddTask
<1> DEFINE new == [status |-> status, owner |-> owner]
<1>1. new \in Entry /\ new.owner = owner
  BY EntryType
<1> HIDE DEF new
<1>2. TypeOK'
  BY <1>1 DEF new
<1>3. /\ task'[k].owner = owner /\ origin'[k] = kind
      /\ \A l \in Tasks \ {k} : task'[l] = task[l] /\ origin'[l] = origin[l]
      /\ UNCHANGED <<marker, job, oks, told>>
  BY <1>1 DEF new
<1>4. BlankBeforePost' /\ OpenOwner' /\ OpenOks' /\ ToldMarkers'
  BY <1>3 DEF BoardInv, BlankBeforePost, OpenOwner, OpenOks, ToldMarkers
<1>5. JobsOnPosted' /\ Claimants'
  BY <1>3 DEF BoardInv, JobsOnPosted, Claimants, OnTask
<1>6. OpenCopies'
  BY <1>3 DEF BoardInv, JobsOnPosted, OpenCopies, OnTask
<1> QED
  BY <1>2, <1>4, <1>5, <1>6 DEF BoardInv

(* What the invariant asks of one request.                                 *)
Sound(j, m, o) ==
    /\ j.step \in OnTask => /\ j.task \in Tasks /\ o[j.task] # "none"
                            /\ j.step = "edit" => j.status \in Statuses
    /\ j.step \in {"race", "lost", "won", "own"} => j.agent \in Agents
    /\ j.step \in {"won", "own"} => m[j.task] = j.agent
    /\ j.step = "lost" => m[j.task] # Nobody
    /\ j.step \in {"own", "edit"} => (o[j.task] = "open" => j.copy.owner \in {Nobody, m[j.task]})

(* The invariant is sound requests over a consistent board.                *)
LEMMA SoundRequests ==
    ASSUME TypeOK
    PROVE  (JobsOnPosted /\ Claimants /\ OpenCopies)
             <=> \A r \in Requests : Sound(job[r], marker, origin)
BY DEF TypeOK, JobsOnPosted, Claimants, OpenCopies, Sound

(* A request that has ended, or that prunes, is sound.                     *)
LEMMA OffTaskSound ==
    ASSUME NEW j, NEW m, NEW o, j.step \in {"idle", "scan", "prune"}
    PROVE  Sound(j, m, o)
BY DEF Sound, OnTask

(* Setting a marker that was free leaves every request sound.              *)
LEMMA MarkerKeepsSound ==
    ASSUME TypeOK, BoardInv, NEW q \in Requests, NEW m,
           \A k \in Tasks : m[k] = marker[k] \/ marker[k] = Nobody
    PROVE  Sound(job[q], m, origin)
<1>1. Sound(job[q], marker, origin)
  BY SoundRequests DEF BoardInv
<1>2. job[q].step \in OnTask => job[q].task \in Tasks
  BY <1>1 DEF Sound
<1> QED
  BY <1>1, <1>2, BoardAssumption DEF Sound, OnTask

(* A step of one request that leaves it in a sound place and the board     *)
(* consistent keeps the invariant.                                         *)
LEMMA RequestMoves ==
    ASSUME TypeOK, BoardInv, NEW r \in Requests, NEW j,
           TypeOK', job' = [job EXCEPT ![r] = j], origin' = origin,
           Sound(j, marker', origin),
           \A k \in Tasks : marker'[k] = marker[k] \/ marker[k] = Nobody,
           BlankBeforePost', OpenOwner', OpenOks', ToldMarkers'
    PROVE  BoardInv'
<1>1. \A q \in Requests : Sound(job[q], marker', origin)
  BY MarkerKeepsSound
<1>2. \A q \in Requests : job'[q] = IF q = r THEN j ELSE job[q]
  BY DEF TypeOK
<1>3. \A q \in Requests : Sound(job'[q], marker', origin)
  BY <1>1, <1>2
<1>4. JobsOnPosted' /\ Claimants' /\ OpenCopies'
  BY <1>3 DEF TypeOK, JobsOnPosted, Claimants, OpenCopies, Sound
<1> QED
  BY <1>4 DEF BoardInv

(* A step that moves one request on and leaves the board alone.            *)
LEMMA JobMoves ==
    ASSUME TypeOK, BoardInv, NEW r \in Requests, NEW j \in Jobs, Sound(j, marker, origin),
           job' = [job EXCEPT ![r] = j], UNCHANGED <<task, marker, origin, oks, told>>,
           failures' \in Nat
    PROVE  TypeOK' /\ BoardInv'
<1>1. TypeOK'
  BY DEF TypeOK
<1>2. BlankBeforePost' /\ OpenOwner' /\ OpenOks' /\ ToldMarkers'
  BY DEF BoardInv, BlankBeforePost, OpenOwner, OpenOks, ToldMarkers
<1> QED
  BY <1>1, <1>2, RequestMoves

(* A request that has read its task before this step.                      *)
LEMMA SoundNow ==
    ASSUME TypeOK, BoardInv, NEW r \in Requests
    PROVE  Sound(job[r], marker, origin) /\ job[r] \in Jobs
BY SoundRequests DEF BoardInv, TypeOK

(* The requests that the claim steps and the pruning steps leave behind.   *)
LEMMA ShortJob ==
    ASSUME NEW step \in Steps, NEW a \in Agents \cup {Nobody}, NEW k \in Tasks \cup {NoTask},
           NEW todo \in SUBSET Tasks
    PROVE  /\ Job(step, a, k, Absent, "none", todo) \in Jobs
           /\ Job(step, a, k, Absent, "none", todo).step = step
           /\ Job(step, a, k, Absent, "none", todo).agent = a
           /\ Job(step, a, k, Absent, "none", todo).task = k
BY BlankTypes, JobType

(* claim_task reads the task: idempotent re-claim, or on to the race.      *)
LEMMA ClaimReadsKeeps ==
    ASSUME TypeOK, BoardInv, NEW r \in Requests, NEW a \in Agents, NEW k \in Tasks,
           ClaimReads(r, a, k)
    PROVE  TypeOK' /\ BoardInv'
<1>0. origin[k] # "none"
  BY DEF ClaimReads, Created
<1>1. CASE task[k].owner = a
  <2>1. oks' = oks \cup {<<a, k>>} /\ UNCHANGED <<job, task, marker, origin, told, failures>>
    BY <1>1 DEF ClaimReads
  <2>2. TypeOK'
    BY <2>1 DEF TypeOK
  <2>3. origin[k] = "open" => a = marker[k]
    BY <1>1, BoardAssumption DEF BoardInv, OpenOwner
  <2>4. \A b \in Agents, l \in Tasks : <<b, l>> \in oks' => <<b, l>> \in oks \/ (b = a /\ l = k)
    BY <2>1
  <2>5. OpenOks' /\ BlankBeforePost'
    BY <1>0, <2>1, <2>3, <2>4 DEF BoardInv, OpenOks, BlankBeforePost
  <2>6. OpenOwner' /\ ToldMarkers' /\ JobsOnPosted' /\ Claimants' /\ OpenCopies'
    BY <2>1 DEF BoardInv, OpenOwner, ToldMarkers, JobsOnPosted, Claimants, OpenCopies
  <2> QED
    BY <2>2, <2>5, <2>6 DEF BoardInv
<1>2. CASE task[k].owner # a
  <2> DEFINE j == Job("race", a, k, Absent, "none", {})
  <2>1. j \in Jobs /\ j.step = "race" /\ j.agent = a /\ j.task = k
    BY JobType, BlankTypes DEF Steps
  <2>2. job' = [job EXCEPT ![r] = j] /\ UNCHANGED <<task, marker, origin, oks, told, failures>>
    BY <1>2 DEF ClaimReads
  <2> HIDE DEF j
  <2>3. Sound(j, marker, origin)
    BY <1>0, <2>1 DEF Sound, OnTask
  <2> QED
    BY <2>1, <2>2, <2>3, JobMoves DEF TypeOK
<1> QED
  BY <1>1, <1>2

(* SET NX: the winner's id is the marker, the loser finds it set.          *)
LEMMA ClaimRacesKeeps ==
    ASSUME TypeOK, BoardInv, NEW r \in Requests, ClaimRaces(r)
    PROVE  TypeOK' /\ BoardInv'
<1> DEFINE a == job[r].agent
<1> DEFINE k == job[r].task
<1>1. a \in Agents /\ k \in Tasks /\ origin[k] # "none"
  BY SoundNow DEF ClaimRaces, Sound, OnTask
<1>2. UNCHANGED <<task, origin, oks, told, failures>>
  BY DEF ClaimRaces
<1>3. CASE marker[k] = Nobody
  <2> DEFINE j == Job("won", a, k, Absent, "none", {})
  <2> HIDE DEF a, k
  <2>1. j \in Jobs /\ j.step = "won" /\ j.agent = a /\ j.task = k
    BY <1>1, ShortJob DEF Steps
  <2>2. job' = [job EXCEPT ![r] = j] /\ marker' = [marker EXCEPT ![k] = a]
    BY <1>3 DEF ClaimRaces, a, k
  <2> HIDE DEF j
  <2>3. TypeOK'
    BY <1>1, <1>2, <2>1, <2>2 DEF TypeOK
  <2>4. /\ marker'[k] = a
        /\ \A l \in Tasks : marker'[l] = marker[l] \/ (l = k /\ marker[l] = Nobody)
    BY <1>1, <1>3, <2>2 DEF TypeOK
  <2>5. Sound(j, marker', origin)
    BY <1>1, <2>1, <2>4 DEF Sound, OnTask
  <2>6. BlankBeforePost' /\ OpenOwner' /\ OpenOks' /\ ToldMarkers'
    BY <1>1, <1>2, <2>4, BoardAssumption
       DEF BoardInv, BlankBeforePost, OpenOwner, OpenOks, ToldMarkers
  <2> QED
    BY <1>2, <2>2, <2>3, <2>4, <2>5, <2>6, RequestMoves
<1>4. CASE marker[k] # Nobody
  <2> DEFINE j == Job("lost", a, k, Absent, "none", {})
  <2> HIDE DEF a, k
  <2>1. j \in Jobs /\ j.step = "lost" /\ j.agent = a /\ j.task = k
    BY <1>1, ShortJob DEF Steps
  <2>2. job' = [job EXCEPT ![r] = j] /\ marker' = marker
    BY <1>4 DEF ClaimRaces, a, k
  <2> HIDE DEF j
  <2>3. Sound(j, marker, origin)
    BY <1>1, <1>4, <2>1 DEF Sound, OnTask
  <2> QED
    BY <1>2, <2>1, <2>2, <2>3, JobMoves DEF TypeOK
<1> QED
  BY <1>3, <1>4

(* The loser reads the marker, which is set and stays.                     *)
LEMMA ClaimLosesKeeps ==
    ASSUME TypeOK, BoardInv, NEW r \in Requests, ClaimLoses(r)
    PROVE  TypeOK' /\ BoardInv'
<1> DEFINE k == job[r].task
<1>1. k \in Tasks /\ marker[k] # Nobody
  BY SoundNow DEF ClaimLoses, Sound, OnTask
<1>2. /\ told' = told \cup {<<k, marker[k]>>} /\ job' = [job EXCEPT ![r] = NoJob]
      /\ UNCHANGED <<task, marker, origin, oks, failures>>
  BY DEF ClaimLoses
<1> HIDE DEF k
<1>3. TypeOK'
  BY <1>1, <1>2, BlankTypes DEF TypeOK
<1>4. \A l \in Tasks, w \in Agents \cup {Nobody} :
          <<l, w>> \in told' => <<l, w>> \in told \/ (l = k /\ w = marker[k])
  BY <1>2
<1>5. ToldMarkers'
  BY <1>1, <1>2, <1>4 DEF BoardInv, ToldMarkers
<1>6. BlankBeforePost' /\ OpenOwner' /\ OpenOks'
  BY <1>2 DEF BoardInv, BlankBeforePost, OpenOwner, OpenOks
<1>9. Sound(NoJob, marker', origin) /\ \A l \in Tasks : marker'[l] = marker[l]
  BY <1>2, BlankTypes, OffTaskSound
<1> QED
  BY <1>2, <1>3, <1>5, <1>6, <1>9, RequestMoves

(* The winner reads the task a second time.                                *)
LEMMA ClaimRereadsKeeps ==
    ASSUME TypeOK, BoardInv, NEW r \in Requests, ClaimRereads(r)
    PROVE  TypeOK' /\ BoardInv'
<1> DEFINE a == job[r].agent
<1> DEFINE k == job[r].task
<1>1. a \in Agents /\ k \in Tasks /\ origin[k] # "none" /\ marker[k] = a
  BY SoundNow DEF ClaimRereads, Sound, OnTask
<1>2. UNCHANGED <<task, marker, origin, told, failures>>
  BY DEF ClaimRereads
<1>3. CASE task[k].status = "absent"
  <2>1. oks' = oks \cup {<<a, k>>} /\ job' = [job EXCEPT ![r] = NoJob]
    BY <1>3 DEF ClaimRereads
  <2> HIDE DEF a, k
  <2>2. TypeOK'
    BY <1>1, <1>2, <2>1, BlankTypes DEF TypeOK
  <2>3. \A b \in Agents, l \in Tasks : <<b, l>> \in oks' => <<b, l>> \in oks \/ (b = a /\ l = k)
    BY <2>1
  <2>4. BlankBeforePost' /\ OpenOwner' /\ OpenOks' /\ ToldMarkers'
    BY <1>1, <1>2, <2>3 DEF BoardInv, BlankBeforePost, OpenOwner, OpenOks, ToldMarkers
  <2>9. Sound(NoJob, marker', origin) /\ \A l \in Tasks : marker'[l] = marker[l]
    BY <1>2, BlankTypes, OffTaskSound
  <2> QED
    BY <1>2, <2>1, <2>2, <2>4, <2>9, RequestMoves
<1>4. CASE task[k].status # "absent"
  <2> DEFINE j == Job("own", a, k, task[k], "none", {})
  <2>0. task[k] \in Entry
    BY <1>1 DEF TypeOK
  <2>1. job' = [job EXCEPT ![r] = j] /\ UNCHANGED oks
    BY <1>4 DEF ClaimRereads
  <2> HIDE DEF a, k
  <2>2. j \in Jobs /\ j.step = "own" /\ j.agent = a /\ j.task = k /\ j.copy = task[k]
    BY <1>1, <2>0, JobType DEF Steps
  <2> HIDE DEF j
  <2>3. Sound(j, marker, origin)
    BY <1>1, <2>2 DEF Sound, OnTask, BoardInv, OpenOwner
  <2> QED
    BY <1>2, <2>1, <2>2, <2>3, JobMoves DEF TypeOK
<1> QED
  BY <1>3, <1>4

(* The winner writes itself into the task and is answered ok.              *)
LEMMA ClaimWritesKeeps ==
    ASSUME TypeOK, BoardInv, NEW r \in Requests, ClaimWrites(r)
    PROVE  TypeOK' /\ BoardInv'
<1> DEFINE a == job[r].agent
<1> DEFINE k == job[r].task
<1> DEFINE new == [status |-> "in_progress", owner |-> a]
<1>1. a \in Agents /\ k \in Tasks /\ origin[k] # "none" /\ marker[k] = a
  BY SoundNow DEF ClaimWrites, Sound, OnTask
<1>2. /\ task' = [task EXCEPT ![k] = new]
      /\ oks' = oks \cup {<<a, k>>} /\ job' = [job EXCEPT ![r] = NoJob]
      /\ UNCHANGED <<marker, origin, told, failures>>
  BY DEF ClaimWrites
<1> HIDE DEF a, k
<1>3. new \in Entry /\ new.owner = a
  BY <1>1, EntryType
<1> HIDE DEF new
<1>4. TypeOK'
  BY <1>1, <1>2, <1>3, BlankTypes DEF TypeOK
<1>5. \A b \in Agents, l \in Tasks : <<b, l>> \in oks' => <<b, l>> \in oks \/ (b = a /\ l = k)
  BY <1>2
<1>6. task'[k].owner = a /\ \A l \in Tasks \ {k} : task'[l] = task[l]
  BY <1>1, <1>2, <1>3 DEF TypeOK
<1>7. BlankBeforePost' /\ OpenOwner' /\ OpenOks' /\ ToldMarkers'
  BY <1>1, <1>2, <1>5, <1>6 DEF BoardInv, BlankBeforePost, OpenOwner, OpenOks, ToldMarkers
<1>9. Sound(NoJob, marker', origin) /\ \A l \in Tasks : marker'[l] = marker[l]
  BY <1>2, BlankTypes, OffTaskSound
<1> QED
  BY <1>2, <1>4, <1>7, <1>9, RequestMoves

(* A status edit reads its task.                                           *)
LEMMA EditReadsKeeps ==
    ASSUME TypeOK, BoardInv, NEW r \in Requests, NEW k \in Tasks, NEW status \in Statuses,
           EditReads(r, k, status)
    PROVE  TypeOK' /\ BoardInv'
<1> DEFINE j == Job("edit", Nobody, k, task[k], status, {})
<1>1. task[k] \in Entry /\ origin[k] # "none"
  BY DEF TypeOK, EditReads, BoardInv, BlankBeforePost
<1>2. job' = [job EXCEPT ![r] = j] /\ UNCHANGED <<task, marker, origin, oks, told, failures>>
  BY DEF EditReads
<1>3. j \in Jobs /\ j.step = "edit" /\ j.task = k /\ j.copy = task[k] /\ j.status = status
  BY <1>1, JobType DEF Steps
<1> HIDE DEF j
<1>4. Sound(j, marker, origin)
  BY <1>1, <1>3 DEF Sound, OnTask, BoardInv, OpenOwner
<1> QED
  BY <1>2, <1>3, <1>4, JobMoves DEF TypeOK

(* A status edit writes its copy back: the owner it writes may be stale,   *)
(* but it is nobody or the holder of the marker.                           *)
LEMMA EditWritesKeeps ==
    ASSUME TypeOK, BoardInv, NEW r \in Requests, EditWrites(r)
    PROVE  TypeOK' /\ BoardInv'
<1> DEFINE k == job[r].task
<1> DEFINE status == job[r].status
<1> DEFINE owner == job[r].copy.owner
<1> DEFINE new == [status |-> status, owner |-> owner]
<1> DEFINE j == IF status = "done" THEN Job("scan", Nobody, NoTask, Absent, "none", {}) ELSE NoJob
<1>1. /\ k \in Tasks /\ origin[k] # "none" /\ status \in Statuses
      /\ origin[k] = "open" => owner \in {Nobody, marker[k]}
  BY SoundNow DEF EditWrites, Sound, OnTask
<1>2. owner \in Agents \cup {Nobody}
  BY SoundNow, JobParts
<1>3. /\ task' = [task EXCEPT ![k] = new] /\ job' = [job EXCEPT ![r] = j]
      /\ UNCHANGED <<marker, origin, oks, told, failures>>
  BY DEF EditWrites
<1> HIDE DEF k, status, owner
<1>4. new \in Entry /\ new.owner = owner
  BY <1>1, <1>2, EntryType, BoardAssumption
<1>5. j \in Jobs /\ j.step \in {"idle", "scan"}
  BY BlankTypes, ShortJob DEF Steps
<1> HIDE DEF new, j
<1>6. TypeOK'
  BY <1>3, <1>4, <1>5 DEF TypeOK
<1>7. task'[k].owner = owner /\ \A l \in Tasks \ {k} : task'[l] = task[l]
  BY <1>1, <1>3, <1>4 DEF TypeOK
<1>8. BlankBeforePost' /\ OpenOwner' /\ OpenOks' /\ ToldMarkers'
  BY <1>1, <1>3, <1>7 DEF BoardInv, BlankBeforePost, OpenOwner, OpenOks, ToldMarkers
<1>9. Sound(j, marker', origin) /\ \A l \in Tasks : marker'[l] = marker[l]
  BY <1>3, <1>5, OffTaskSound
<1> QED
  BY <1>3, <1>6, <1>8, <1>9, RequestMoves

(* Pruning looks at the board and picks the tasks to delete.               *)
LEMMA PruneScansKeeps ==
    ASSUME TypeOK, BoardInv, NEW r \in Requests, PruneScans(r)
    PROVE  TypeOK' /\ BoardInv'
<1> DEFINE j(old) == IF old = {} THEN NoJob
                     ELSE Job("prune", Nobody, NoTask, Absent, "none", old)
<1>1. PICK old \in SUBSET Tasks : job' = [job EXCEPT ![r] = j(old)]
  BY DEF PruneScans
<1>2. j(old) \in Jobs /\ j(old).step \in {"idle", "prune"}
  BY BlankTypes, ShortJob DEF Steps
<1> HIDE DEF j
<1>3. UNCHANGED <<task, marker, origin, oks, told>> /\ failures' \in Nat
  BY DEF PruneScans, TypeOK
<1>4. Sound(j(old), marker, origin)
  BY <1>2, OffTaskSound
<1> QED
  BY <1>1, <1>2, <1>3, <1>4, JobMoves

(* Pruning deletes a task, whatever its state by then; its marker stays.   *)
LEMMA PruneDeletesKeeps ==
    ASSUME TypeOK, BoardInv, NEW r \in Requests, PruneDeletes(r)
    PROVE  TypeOK' /\ BoardInv'
<1> DEFINE j(left) == IF left = {} THEN NoJob
                      ELSE Job("prune", Nobody, NoTask, Absent, "none", left)
<1>1. job[r].todo \in SUBSET Tasks
  BY SoundNow, JobParts
<1>2. PICK k \in job[r].todo : /\ task' = [task EXCEPT ![k] = Absent]
                               /\ job' = [job EXCEPT ![r] = j(job[r].todo \ {k})]
  BY DEF PruneDeletes
<1> DEFINE left == job[r].todo \ {k}
<1>3. k \in Tasks /\ left \in SUBSET Tasks
  BY <1>1
<1>4. job' = [job EXCEPT ![r] = j(left)]
  BY <1>2
<1> HIDE DEF left
<1>5. j(left) \in Jobs /\ j(left).step \in {"idle", "prune"}
  BY <1>3, BlankTypes, ShortJob DEF Steps
<1> HIDE DEF j
<1>6. UNCHANGED <<marker, origin, oks, told, failures>>
  BY DEF PruneDeletes
<1>7. TypeOK'
  BY <1>2, <1>4, <1>5, <1>6, BlankTypes DEF TypeOK
<1>8. task'[k] = Absent /\ \A l \in Tasks \ {k} : task'[l] = task[l]
  BY <1>2, <1>3 DEF TypeOK
<1>9. BlankBeforePost' /\ OpenOwner' /\ OpenOks' /\ ToldMarkers'
  BY <1>3, <1>6, <1>8
     DEF BoardInv, BlankBeforePost, OpenOwner, OpenOks, ToldMarkers, Absent
<1>10. Sound(j(left), marker', origin) /\ \A l \in Tasks : marker'[l] = marker[l]
  BY <1>5, <1>6, OffTaskSound
<1> QED
  BY <1>4, <1>6, <1>7, <1>9, <1>10, RequestMoves

(* Maintenance and failed requests.                                        *)
LEMMA OthersKeep ==
    ASSUME TypeOK, BoardInv, NEW r \in Requests, MaintenanceStarts(r) \/ RequestFails(r)
    PROVE  TypeOK' /\ BoardInv'
<1>1. CASE MaintenanceStarts(r)
  <2> DEFINE j == Job("scan", Nobody, NoTask, Absent, "none", {})
  <2>1. j \in Jobs /\ j.step = "scan"
    BY ShortJob DEF Steps
  <2>2. Sound(j, marker, origin)
    BY <2>1, OffTaskSound
  <2> QED
    BY <1>1, <2>1, <2>2, JobMoves DEF MaintenanceStarts, TypeOK
<1>2. CASE RequestFails(r)
  <2>1. Sound(NoJob, marker, origin)
    BY BlankTypes, OffTaskSound
  <2>2. failures' \in Nat
    BY <1>2 DEF RequestFails, TypeOK
  <2> QED
    BY <1>2, <2>1, <2>2, BlankTypes, JobMoves DEF RequestFails
<1> QED
  BY <1>1, <1>2

-----------------------------------------------------------------------------
(* The invariant is kept by every step.                                    *)
LEMMA BoardInduction == TypeOK /\ BoardInv /\ [Next]_vars => TypeOK' /\ BoardInv'
<1> SUFFICES ASSUME TypeOK, BoardInv, [Next]_vars PROVE TypeOK' /\ BoardInv'
  OBVIOUS
<1>1. ASSUME NEW k \in Tasks, Post(k) \/ Redispatch(k) PROVE TypeOK' /\ BoardInv'
  BY <1>1, PostKeeps DEF Post, Redispatch
<1>2. ASSUME NEW r \in Requests, NEW a \in Agents, NEW k \in Tasks, ClaimReads(r, a, k)
      PROVE  TypeOK' /\ BoardInv'
  BY <1>2, ClaimReadsKeeps
<1>3. ASSUME NEW r \in Requests, NEW k \in Tasks, NEW s \in Statuses, EditReads(r, k, s)
      PROVE  TypeOK' /\ BoardInv'
  BY <1>3, EditReadsKeeps
<1>4. ASSUME NEW r \in Requests, Proceed(r) PROVE TypeOK' /\ BoardInv'
  BY <1>4, ClaimRacesKeeps, ClaimLosesKeeps, ClaimRereadsKeeps, ClaimWritesKeeps,
     EditWritesKeeps, PruneScansKeeps, PruneDeletesKeeps DEF Proceed
<1>5. ASSUME NEW r \in Requests, MaintenanceStarts(r) \/ RequestFails(r)
      PROVE  TypeOK' /\ BoardInv'
  BY <1>5, OthersKeep
<1>6. CASE UNCHANGED vars
  BY <1>6 DEF vars, TypeOK, BoardInv, BlankBeforePost, JobsOnPosted, Claimants, OpenOwner,
     OpenCopies, OpenOks, ToldMarkers
<1> QED
  BY <1>1, <1>2, <1>3, <1>4, <1>5, <1>6 DEF Next

(* TaskBoard's invariant holds in every reachable state.                   *)
LEMMA BoardInvHolds == Spec => [](TypeOK /\ BoardInv)
BY BoardStarts, BoardInduction, PTL DEF Spec

(* The task hash, the markers and the requests keep their types: no        *)
(* interleaving writes an entry that SharedTask does not know.             *)
THEOREM BoardTypeCorrect == Spec => []TypeOK
BY BoardInvHolds, PTL

(* First claim wins for every number of agents, tasks and requests in      *)
(* flight: all ok answers of claim_task for an open task go to the same    *)
(* agent, however blind status writes, pruning and failures interleave.    *)
THEOREM OneWinnerHolds == Spec => []OneWinner
<1>1. TypeOK /\ BoardInv => OneWinner
  BY DEF TypeOK, BoardInv, OpenOks, OneWinner
<1> QED
  BY <1>1, BoardInvHolds, PTL

(* A loser of the race is always told the agent that holds the marker, and *)
(* no other agent is ever answered ok for that open task.                  *)
THEOREM LoserToldWinnerHolds == Spec => []LoserToldWinner
<1>1. TypeOK /\ BoardInv => LoserToldWinner
  BY DEF TypeOK, BoardInv, OpenOks, ToldMarkers, LoserToldWinner
<1> QED
  BY <1>1, BoardInvHolds, PTL

-----------------------------------------------------------------------------
(* Scenes: how often an event is held.                                     *)
InAt(scenes, n) == {i \in 1..Len(scenes) : n \in Range(scenes[i].buffer)}
Has(scene, n) == IF n \in Range(scene.buffer) THEN 1 ELSE 0

LEMMA HeldType ==
    ASSUME NEW S, NEW s \in Seq(S), NEW n
    PROVE  /\ IsFiniteSet(InAt(s, n)) /\ HeldIn(s, n) = Cardinality(InAt(s, n))
           /\ HeldIn(s, n) \in Nat
           /\ HeldIn(s, n) = 0 <=> \A i \in 1..Len(s) : n \notin Range(s[i].buffer)
<1>1. IsFiniteSet(1..Len(s))
  BY FS_Interval
<1>2. InAt(s, n) \subseteq 1..Len(s)
  BY DEF InAt
<1>3. IsFiniteSet(InAt(s, n))
  BY <1>1, <1>2, FS_Subset
<1>4. HeldIn(s, n) = Cardinality(InAt(s, n))
  BY DEF HeldIn, InAt
<1>5. Cardinality(InAt(s, n)) \in Nat /\ (Cardinality(InAt(s, n)) = 0 <=> InAt(s, n) = {})
  BY <1>3, FS_CardinalityType, FS_EmptySet
<1> QED
  BY <1>3, <1>4, <1>5 DEF InAt

LEMMA HeldInNone ==
    ASSUME NEW n
    PROVE  HeldIn(<<>>, n) = 0
<1>1. InAt(<<>>, n) = {}
  BY DEF InAt
<1> QED
  BY <1>1, FS_EmptySet DEF HeldIn, InAt

LEMMA HeldInOne ==
    ASSUME NEW scene, NEW n
    PROVE  HeldIn(<<scene>>, n) = Has(scene, n)
<1>1. InAt(<<scene>>, n) = IF n \in Range(scene.buffer) THEN {1} ELSE {}
  BY DEF InAt
<1>2. HeldIn(<<scene>>, n) = Cardinality(InAt(<<scene>>, n))
  BY DEF HeldIn, InAt
<1> QED
  BY <1>1, <1>2, FS_EmptySet, FS_Singleton DEF Has

LEMMA HeldInBoth ==
    ASSUME NEW S, NEW s \in Seq(S), NEW t \in Seq(S), NEW n
    PROVE  HeldIn(s \o t, n) = HeldIn(s, n) + HeldIn(t, n)
<1> DEFINE A == InAt(s, n)
           B == InAt(t, n)
           f == [i \in B |-> i + Len(s)]
           C == {i + Len(s) : i \in B}
<1>1. Len(s) \in Nat /\ Len(t) \in Nat /\ s \o t \in Seq(S) /\ Len(s \o t) = Len(s) + Len(t)
  OBVIOUS
<1>2. /\ \A i \in 1..Len(s) : (s \o t)[i] = s[i]
      /\ \A i \in 1..Len(t) : (s \o t)[i + Len(s)] = t[i]
  OBVIOUS
<1>3. /\ A \subseteq 1..Len(s) /\ B \subseteq 1..Len(t)
      /\ IsFiniteSet(A) /\ IsFiniteSet(B) /\ Cardinality(A) = HeldIn(s, n)
      /\ Cardinality(B) = HeldIn(t, n) /\ HeldIn(s, n) \in Nat /\ HeldIn(t, n) \in Nat
  BY HeldType DEF InAt
<1>4. IsFiniteSet(C) /\ Cardinality(C) = Cardinality(B)
  <2>1. f \in [B -> C] /\ \A c \in C : \E i \in B : f[i] = c
    OBVIOUS
  <2>2. \A i, j \in B : f[i] = f[j] => i = j
    BY <1>1, <1>3
  <2>3. f \in Bijection(B, C)
    BY <2>1, <2>2 DEF Bijection, Injection, Surjection, IsInjective
  <2>4. ExistsBijection(B, C)
    BY <2>3 DEF ExistsBijection
  <2> HIDE DEF B, C
  <2> QED
    BY <1>3, <2>4, FS_Bijection
<1>5. InAt(s \o t, n) = A \cup C
  <2>1. \A i \in 1..(Len(s) + Len(t)) : i \in 1..Len(s) \/ (i - Len(s) \in 1..Len(t) /\ i = (i - Len(s)) + Len(s))
    BY <1>1
  <2>2. ASSUME NEW i \in InAt(s \o t, n) PROVE i \in A \cup C
    <3>1. i \in 1..(Len(s) + Len(t)) /\ n \in Range((s \o t)[i].buffer)
      BY <1>1 DEF InAt
    <3>2. CASE i \in 1..Len(s)
      BY <1>2, <3>1, <3>2 DEF InAt
    <3>3. CASE i - Len(s) \in 1..Len(t) /\ i = (i - Len(s)) + Len(s)
      <4> DEFINE j == i - Len(s)
      <4>1. j \in 1..Len(t) /\ i = j + Len(s)
        BY <3>3
      <4> HIDE DEF j
      <4>2. j \in B
        BY <1>2, <3>1, <4>1 DEF InAt
      <4> QED
        BY <4>1, <4>2
    <3> QED
      BY <2>1, <3>1, <3>2, <3>3
  <2>3. A \subseteq InAt(s \o t, n)
    BY <1>1, <1>2 DEF InAt
  <2>4. C \subseteq InAt(s \o t, n)
    BY <1>1, <1>2 DEF InAt
  <2> QED
    BY <2>2, <2>3, <2>4
<1>6. A \cap C = {}
  BY <1>1, <1>3
<1> HIDE DEF A, B, C, f
<1>7. Cardinality(A \cup C) = Cardinality(A) + Cardinality(C) - Cardinality(A \cap C)
  BY <1>3, <1>4, FS_Union
<1>8. Cardinality(A \cap C) = 0
  BY <1>6, FS_EmptySet
<1>9. HeldIn(s \o t, n) = Cardinality(A \cup C)
  BY <1>1, <1>5, HeldType
<1> QED
  BY <1>3, <1>4, <1>7, <1>8, <1>9

LEMMA HeldInMore ==
    ASSUME NEW S, NEW s \in Seq(S), NEW scene \in S, NEW n
    PROVE  HeldIn(Append(s, scene), n) = HeldIn(s, n) + Has(scene, n)
<1>1. Append(s, scene) = s \o <<scene>> /\ <<scene>> \in Seq(S)
  BY AppendIsConcat
<1>2. HeldIn(s \o <<scene>>, n) = HeldIn(s, n) + HeldIn(<<scene>>, n)
  BY <1>1, HeldInBoth
<1> QED
  BY <1>1, <1>2, HeldInOne

LEMMA HeldInLess ==
    ASSUME NEW S, NEW s \in Seq(S), s # <<>>, NEW n
    PROVE  HeldIn(s, n) = Has(Head(s), n) + HeldIn(Tail(s), n)
<1>1. s = <<Head(s)>> \o Tail(s) /\ <<Head(s)>> \in Seq(S) /\ Tail(s) \in Seq(S)
  BY HeadTailProperties, SMTT(30)
<1>2. HeldIn(<<Head(s)>> \o Tail(s), n) = HeldIn(<<Head(s)>>, n) + HeldIn(Tail(s), n)
  BY <1>1, HeldInBoth
<1> QED
  BY <1>1, <1>2, HeldInOne

(* One scene is replaced.                                                  *)
LEMMA HeldInOther ==
    ASSUME NEW S, NEW s \in Seq(S), NEW t \in Seq(S), Len(t) = Len(s), NEW j \in 1..Len(s),
           \A i \in 1..Len(s) : i # j => t[i] = s[i], NEW n
    PROVE  HeldIn(t, n) = (HeldIn(s, n) - Has(s[j], n)) + Has(t[j], n)
<1> DEFINE A == InAt(s, n)
           B == InAt(t, n)
<1>1. /\ IsFiniteSet(A) /\ IsFiniteSet(B) /\ Cardinality(A) = HeldIn(s, n)
      /\ Cardinality(B) = HeldIn(t, n) /\ HeldIn(s, n) \in Nat /\ HeldIn(t, n) \in Nat
  BY HeldType
<1>2. A \ {j} = B \ {j}
  BY DEF InAt
<1>3. (j \in A <=> n \in Range(s[j].buffer)) /\ (j \in B <=> n \in Range(t[j].buffer))
  BY DEF InAt
<1> HIDE DEF A, B
<1>4. Cardinality(A \ {j}) = IF j \in A THEN Cardinality(A) - 1 ELSE Cardinality(A)
  BY <1>1, FS_RemoveElement
<1>5. Cardinality(B \ {j}) = IF j \in B THEN Cardinality(B) - 1 ELSE Cardinality(B)
  BY <1>1, FS_RemoveElement
<1>6. Cardinality(A \ {j}) = HeldIn(s, n) - Has(s[j], n)
  BY <1>1, <1>3, <1>4 DEF Has
<1>7. Cardinality(B \ {j}) = HeldIn(t, n) - Has(t[j], n) /\ Has(t[j], n) \in {0, 1}
  BY <1>1, <1>3, <1>5 DEF Has
<1>8. Has(s[j], n) \in {0, 1}
  BY DEF Has
<1>9. HeldIn(s, n) - Has(s[j], n) = HeldIn(t, n) - Has(t[j], n)
  BY <1>2, <1>6, <1>7
<1>10. HeldIn(s, n) \in Nat /\ HeldIn(t, n) \in Nat
  BY <1>1
<1> QED
  BY <1>7, <1>8, <1>9, <1>10

(* The scenes at some places and those at the others make up all.          *)
LEMMA HeldInOnly ==
    ASSUME NEW S, NEW s \in Seq(S), NEW places, NEW n
    PROVE  HeldIn(Only(s, places), n) = Cardinality(InAt(s, n) \cap places)
<1> DEFINE r == Only(s, places)
<1>1. r = Sifted(s, places)
  BY DEF Only, Sifted
<1>2. r \in Seq(S) /\ \E src : TakenFrom(src, r, s, places, Len(s))
  BY <1>1, SiftedIsTaken
<1> HIDE DEF r
<1>3. PICK src : TakenFrom(src, r, s, places, Len(s))
  BY <1>2
<1>4. /\ src \in [1..Len(r) -> places \cap 1..Len(s)]
      /\ \A a, b \in 1..Len(r) : src[a] = src[b] => a = b
      /\ \A t \in places \cap 1..Len(s) : \E k \in 1..Len(r) : src[k] = t
      /\ \A k \in 1..Len(r) : r[k] = s[src[k]]
  BY <1>3 DEF TakenFrom, Bijection, Injection, Surjection, IsInjective
<1> DEFINE A == InAt(r, n)
           B == InAt(s, n) \cap places
           f == [k \in A |-> src[k]]
<1>5. A \subseteq 1..Len(r) /\ IsFiniteSet(A) /\ HeldIn(r, n) = Cardinality(A)
  BY <1>2, HeldType DEF InAt
<1>6. f \in [A -> B]
  <2>1. \A k \in A : src[k] \in B
    BY <1>4 DEF InAt
  <2> HIDE DEF A, B
  <2> QED
    BY <2>1
<1>7. \A a, b \in A : f[a] = f[b] => a = b
  BY <1>4, <1>5
<1>8. \A t \in B : \E k \in A : f[k] = t
  <2> SUFFICES ASSUME NEW t \in B PROVE \E k \in A : f[k] = t
    OBVIOUS
  <2>1. t \in places \cap 1..Len(s) /\ n \in Range(s[t].buffer)
    BY DEF InAt
  <2>2. PICK k \in 1..Len(r) : src[k] = t
    BY <1>4, <2>1
  <2>3. k \in A
    BY <1>4, <2>1, <2>2 DEF InAt
  <2> QED
    BY <2>2, <2>3
<1>9. ExistsBijection(A, B)
  <2>1. DOMAIN f = A
    OBVIOUS
  <2> HIDE DEF A, B, f
  <2>2. f \in Bijection(A, B)
    BY <1>6, <1>7, <1>8, <2>1 DEF Bijection, Injection, Surjection, IsInjective
  <2> QED
    BY <2>2 DEF ExistsBijection
<1> HIDE DEF A, B
<1>10. Cardinality(B) = Cardinality(A)
  BY <1>5, <1>9, FS_Bijection
<1> QED
  BY <1>5, <1>10 DEF r, B

LEMMA HeldInParts ==
    ASSUME NEW S, NEW s \in Seq(S), NEW places, NEW n
    PROVE  HeldIn(s, n) = HeldIn(Only(s, places), n) + HeldIn(Only(s, (1..Len(s)) \ places), n)
<1> DEFINE A == InAt(s, n)
           P == A \cap places
           Q == A \cap ((1..Len(s)) \ places)
<1>1. IsFiniteSet(A) /\ HeldIn(s, n) = Cardinality(A) /\ A \subseteq 1..Len(s)
  BY HeldType DEF InAt
<1>2. HeldIn(Only(s, places), n) = Cardinality(P)
  BY HeldInOnly
<1>3. HeldIn(Only(s, (1..Len(s)) \ places), n) = Cardinality(Q)
  BY HeldInOnly
<1>4. A = P \cup Q /\ P \cap Q = {}
  BY <1>1
<1>5. IsFiniteSet(P) /\ IsFiniteSet(Q)
  BY <1>1, FS_Subset
<1> HIDE DEF A, P, Q
<1>6. Cardinality(P \cup Q) = Cardinality(P) + Cardinality(Q) - Cardinality(P \cap Q)
  BY <1>5, FS_Union
<1>7. Cardinality(P \cap Q) = 0 /\ Cardinality(P) \in Nat /\ Cardinality(Q) \in Nat
  BY <1>4, <1>5, FS_EmptySet, FS_CardinalityType
<1> QED
  BY <1>1, <1>2, <1>3, <1>4, <1>6, <1>7

(* What is left, with the places it came from.                             *)
ComesFrom(r, s, places) ==
    \E src \in [1..Len(r) -> places \cap 1..Len(s)] :
        /\ \A i \in 1..Len(r) : r[i] = s[src[i]]
        /\ \A i, j \in 1..Len(r) : src[i] = src[j] => i = j

LEMMA OnlyTakes ==
    ASSUME NEW S, NEW s \in Seq(S), NEW places
    PROVE  Only(s, places) \in Seq(S) /\ ComesFrom(Only(s, places), s, places)
<1> DEFINE r == Only(s, places)
<1>1. r = Sifted(s, places)
  BY DEF Only, Sifted
<1>2. r \in Seq(S) /\ \E src : TakenFrom(src, r, s, places, Len(s))
  BY <1>1, SiftedIsTaken
<1> HIDE DEF r
<1>3. PICK src : TakenFrom(src, r, s, places, Len(s))
  BY <1>2
<1>4. /\ src \in [1..Len(r) -> places \cap 1..Len(s)]
      /\ \A a, b \in 1..Len(r) : src[a] = src[b] => a = b
      /\ \A k \in 1..Len(r) : r[k] = s[src[k]]
  BY <1>3 DEF TakenFrom, Bijection, Injection, Surjection, IsInjective
<1> QED
  BY <1>2, <1>4 DEF r, ComesFrom

(* Windows of time.                                                        *)
LEMMA InWindow ==
    ASSUME NEW at \in Nat
    PROVE  LET k == at \div SceneWindow IN
           k \in Nat /\ k * SceneWindow <= at /\ at < (k + 1) * SceneWindow
BY SceneAssumption

-----------------------------------------------------------------------------
(* Scenes: what holds of them.                                             *)
EventSet == [kind : Happenings, who : Players, place : Places, at : Nat]
IdSet == (({"place"} \X Places) \cup ({"urgent"} \X Numbers)) \X Nat
SceneSet == [id : IdSet, people : SUBSET Players, last : Nat, buffer : Seq(Numbers)]

(* Scenes of one id are one scene; a scene of danger holds its own event.  *)
OneOfAnId(scenes) == \A i, j \in 1..Len(scenes) : scenes[i].id = scenes[j].id => i = j
Urgent(scene) == scene.id[1][1] = "urgent" => Range(scene.buffer) \subseteq {scene.id[1][2]}

SceneTypes ==
    /\ ticks \in Nat /\ repeated \in Nat /\ disorder \in BOOLEAN /\ flushing \in BOOLEAN
    /\ happened \in Seq(EventSet) /\ Len(happened) + repeated <= MaxHappenings
    /\ open \in Seq(SceneSet) /\ closed \in Seq(SceneSet) /\ batch \in Seq(SceneSet)
    /\ latest \in [Places -> IdSet \cup {NoScene}]
    /\ \A p \in Places : latest[p] # NoScene => latest[p][1] = <<"place", p>>
    /\ kept \in [Numbers -> Nat] /\ digested \in [Numbers -> Nat] /\ forgone \in [Numbers -> Nat]
    /\ \A n \in Numbers : n > Len(happened) => kept[n] = 0
    /\ ~flushing => batch = <<>>
    /\ OneOfAnId(open)
    /\ \A i \in 1..Len(open) : Urgent(open[i])

(* An event of some time or later was taken in at a place.                 *)
TakenAt(events, counts, place, at) ==
    \E m \in 1..Len(events) :
        /\ counts[m] > 0 /\ events[m].at >= at
        /\ events[m].place = place /\ events[m].kind # "danger"

(* A scene of a place is of its window or goes on after it; one that was   *)
(* followed by another of its place was followed after its window.         *)
GoesOn(scene, events, counts, places) ==
    scene.id[1][1] = "place" =>
        /\ scene.id[2] * SceneWindow <= scene.last
        /\ TakenAt(events, counts, scene.id[1][2], scene.last)
        /\ places[scene.id[1][2]] # scene.id =>
              TakenAt(events, counts, scene.id[1][2], (scene.id[2] + 1) * SceneWindow)

(* Whoever did an event of a scene takes part in it.                       *)
Peopled(scene, events) ==
    \A n \in Range(scene.buffer) : n \in 1..Len(events) /\ People(events[n]) \subseteq scene.people

InOrder ==
    /\ \A i \in 1..Len(open) : Peopled(open[i], happened) /\ GoesOn(open[i], happened, kept, latest)
    /\ \A i \in 1..Len(closed) : Peopled(closed[i], happened)
    /\ \A i \in 1..Len(batch) : Peopled(batch[i], happened)

SceneInv == SceneTypes /\ ScenesKept /\ (~disorder => InOrder)

LEMMA ScenesAtFirst == SceneInit => SceneInv
<1> SUFFICES ASSUME SceneInit PROVE SceneInv
  OBVIOUS
<1> USE DEF SceneInit
<1>1. /\ kept \in [Numbers -> Nat] /\ digested \in [Numbers -> Nat] /\ forgone \in [Numbers -> Nat]
      /\ \A n \in Numbers : kept[n] = 0 /\ digested[n] = 0 /\ forgone[n] = 0
  OBVIOUS
<1>2. /\ latest \in [Places -> IdSet \cup {NoScene}]
      /\ \A p \in Places : latest[p] # NoScene => latest[p][1] = <<"place", p>>
  OBVIOUS
<1>3. Len(happened) + repeated <= MaxHappenings /\ happened \in Seq(EventSet)
  BY SceneAssumption
<1>4. OneOfAnId(open) /\ \A i \in 1..Len(open) : Urgent(open[i])
  <2>1. 1..Len(open) = {}
    OBVIOUS
  <2> QED
    BY <2>1 DEF OneOfAnId
<1>8. ticks \in Nat /\ repeated \in Nat
  OBVIOUS
<1>9. disorder \in BOOLEAN /\ flushing \in BOOLEAN
  OBVIOUS
<1>5. open \in Seq(SceneSet) /\ closed \in Seq(SceneSet) /\ batch \in Seq(SceneSet)
  BY EmptySeq
<1>10. SceneTypes
  BY <1>1, <1>2, <1>3, <1>4, <1>5, <1>8, <1>9 DEF SceneTypes
<1>6. EventsAccounted
  BY <1>1, HeldInNone DEF EventsAccounted
<1>7. DoersRemember /\ InOrder
  BY DEF DoersRemember, InOrder
<1> QED
  BY <1>6, <1>7, <1>10 DEF SceneInv, ScenesKept

-----------------------------------------------------------------------------
(* A scene is put among the open ones.                                     *)
LEMMA PutAmong ==
    ASSUME open \in Seq(SceneSet), OneOfAnId(open), NEW scene \in SceneSet
    PROVE  /\ Upserted(scene) \in Seq(SceneSet)
           /\ \E j \in 1..Len(Upserted(scene)) :
                 /\ Upserted(scene)[j] = scene
                 /\ \A i \in 1..Len(Upserted(scene)) : i # j =>
                       i \in 1..Len(open) /\ Upserted(scene)[i] = open[i] /\ open[i].id # scene.id
                 /\ scene.id \in SceneIds =>
                       /\ Len(Upserted(scene)) = Len(open) /\ open[j].id = scene.id
                       /\ SceneOf(scene.id) = open[j]
                 /\ scene.id \notin SceneIds => Upserted(scene) = Append(open, scene)
<1> DEFINE u == Upserted(scene)
<1>1. CASE scene.id \in SceneIds
  <2>1. PICK j \in 1..Len(open) : open[j].id = scene.id
    BY <1>1 DEF SceneIds
  <2>2. u = [i \in 1..Len(open) |-> IF open[i].id = scene.id THEN scene ELSE open[i]]
    BY <1>1 DEF Upserted
  <2>3. u \in Seq(SceneSet) /\ Len(u) = Len(open)
    BY <2>2
  <2>4. u[j] = scene
    BY <2>1, <2>2
  <2>5. \A i \in 1..Len(u) : i # j => i \in 1..Len(open) /\ u[i] = open[i] /\ open[i].id # scene.id
    BY <2>1, <2>2, <2>3 DEF OneOfAnId
  <2>6. SceneOf(scene.id) = open[j]
    <3> DEFINE c == CHOOSE i \in 1..Len(open) : open[i].id = scene.id
    <3>1. c \in 1..Len(open) /\ open[c].id = scene.id
      BY <2>1
    <3> HIDE DEF c
    <3>2. c = j
      BY <2>1, <3>1 DEF OneOfAnId
    <3> QED
      BY <3>2 DEF SceneOf, c
  <2> QED
    BY <1>1, <2>1, <2>3, <2>4, <2>5, <2>6
<1>2. CASE scene.id \notin SceneIds
  <2>1. u = Append(open, scene)
    BY <1>2 DEF Upserted
  <2>2. u \in Seq(SceneSet) /\ Len(u) = Len(open) + 1 /\ u[Len(open) + 1] = scene
    BY <2>1
  <2>3. \A i \in 1..Len(open) : u[i] = open[i] /\ open[i].id # scene.id
    BY <1>2, <2>1 DEF SceneIds
  <2>4. \A i \in 1..Len(u) : i # Len(open) + 1 => i \in 1..Len(open)
    BY <2>2
  <2>5. Len(open) + 1 \in 1..Len(u)
    BY <2>2
  <2> HIDE DEF u
  <2> QED
    BY <1>2, <2>1, <2>2, <2>3, <2>4, <2>5 DEF u
<1> QED
  BY <1>1, <1>2

(* The oldest scene may be closed.                                         *)
Stays(scenes, cap) == IF Len(scenes) > cap THEN Tail(scenes) ELSE scenes
Leaves(scenes, queue, cap) == IF Len(scenes) > cap THEN Append(queue, Head(scenes)) ELSE queue

ClosesOldest(left, over, scenes, queue, cap) ==
    /\ \A m : HeldIn(left, m) + HeldIn(over, m) = HeldIn(scenes, m) + HeldIn(queue, m)
    /\ \A i \in 1..Len(over) :
          (i \in 1..Len(queue) /\ over[i] = queue[i]) \/ (1 \in 1..Len(scenes) /\ over[i] = scenes[1])
    /\ ~(Len(scenes) > cap) => left = scenes
    /\ Len(scenes) > cap =>
          /\ Head(scenes) = scenes[1]
          /\ \A i \in 1..Len(left) : i + 1 \in 2..Len(scenes) /\ left[i] = scenes[i + 1]

LEMMA OldestClosed ==
    ASSUME NEW S, NEW scenes \in Seq(S), NEW queue \in Seq(S), NEW cap \in Nat
    PROVE  /\ Stays(scenes, cap) \in Seq(S) /\ Leaves(scenes, queue, cap) \in Seq(S)
           /\ ClosesOldest(Stays(scenes, cap), Leaves(scenes, queue, cap), scenes, queue, cap)
<1> DEFINE left == Stays(scenes, cap)
           over == Leaves(scenes, queue, cap)
<1>1. CASE ~(Len(scenes) > cap)
  <2>1. left = scenes /\ over = queue
    BY <1>1 DEF Stays, Leaves
  <2> HIDE DEF left, over
  <2> QED
    BY <1>1, <2>1 DEF left, over, ClosesOldest
<1>2. CASE Len(scenes) > cap
  <2>1. left = Tail(scenes) /\ over = Append(queue, Head(scenes)) /\ scenes # <<>>
    BY <1>2 DEF Stays, Leaves
  <2> HIDE DEF left, over
  <2>2. /\ Head(scenes) = scenes[1] /\ Head(scenes) \in S /\ Len(scenes) \in Nat \ {0}
        /\ left \in Seq(S) /\ Len(left) = Len(scenes) - 1
        /\ \A i \in 1..Len(left) : left[i] = scenes[i + 1]
    BY <2>1
  <2>3. /\ over \in Seq(S) /\ Len(over) = Len(queue) + 1 /\ over[Len(queue) + 1] = Head(scenes)
        /\ \A i \in 1..Len(queue) : over[i] = queue[i]
    BY <2>1, <2>2
  <2>4. ASSUME NEW m
        PROVE  HeldIn(left, m) + HeldIn(over, m) = HeldIn(scenes, m) + HeldIn(queue, m)
    <3>1. HeldIn(scenes, m) = Has(Head(scenes), m) + HeldIn(left, m)
      BY <2>1, HeldInLess
    <3>2. HeldIn(over, m) = HeldIn(queue, m) + Has(Head(scenes), m)
      BY <2>1, <2>2, HeldInMore
    <3>3. HeldIn(left, m) \in Nat /\ HeldIn(queue, m) \in Nat /\ Has(Head(scenes), m) \in {0, 1}
      BY <2>2, HeldType DEF Has
    <3> QED
      BY <3>1, <3>2, <3>3
  <2>5. \A i \in 1..Len(over) :
            (i \in 1..Len(queue) /\ over[i] = queue[i]) \/ (1 \in 1..Len(scenes) /\ over[i] = scenes[1])
    BY <2>2, <2>3
  <2>6. \A i \in 1..Len(left) : i + 1 \in 2..Len(scenes) /\ left[i] = scenes[i + 1]
    BY <2>2
  <2> QED
    BY <1>2, <2>2, <2>3, <2>4, <2>5, <2>6 DEF left, over, ClosesOldest
<1> QED
  BY <1>1, <1>2

-----------------------------------------------------------------------------
(* Scenes: an event is taken in.                                           *)
Comes(e, n) ==
    /\ e \in EventSet /\ n \in Numbers
    /\ happened' \in Seq(EventSet) /\ Len(happened) <= Len(happened')
    /\ \A m \in 1..Len(happened) : happened'[m] = happened[m]
    /\ n \in 1..Len(happened') /\ happened'[n] = e

(* The scene that an event is put into: the one that goes on, or a new one *)
(* that takes over what one of its id holds.                               *)
PutInto(scene, e, n) ==
    /\ scene \in SceneSet /\ scene.last = e.at /\ People(e) \subseteq scene.people
    /\ Range(scene.buffer) = {n} \cup Range(HeldBy(scene.id))
    /\ \/ scene.id \in Continued(e) /\ SceneOf(scene.id).people \subseteq scene.people
       \/ Continued(e) = {} /\ scene.id = SceneId(e, n)

Now(scene, e) == IF e.kind = "danger" THEN latest ELSE [latest EXCEPT ![e.place] = scene.id]

PutsIn(scene, e, n) ==
    LET scenes == Upserted(scene)
        trim == Len(scenes) > MaxOpen
    IN  /\ open' = IF trim THEN Tail(scenes) ELSE scenes
        /\ closed' = IF trim THEN Append(closed, Head(scenes)) ELSE closed
        /\ latest' = IF trim THEN Forget({Head(scenes).id}, Now(scene, e)) ELSE Now(scene, e)
        /\ kept' = Plus(kept, {n} \ Range(HeldBy(scene.id)))
        /\ disorder' = (disorder \/ Late(e))

LEMMA SceneFound ==
    ASSUME SceneTypes, NEW id \in SceneIds
    PROVE  \E j \in 1..Len(open) :
              /\ open[j].id = id /\ SceneOf(id) = open[j] /\ HeldBy(id) = open[j].buffer
              /\ open[j] \in SceneSet
<1> DEFINE c == CHOOSE i \in 1..Len(open) : open[i].id = id
<1>1. c \in 1..Len(open) /\ open[c].id = id
  BY DEF SceneIds
<1>2. SceneOf(id) = open[c] /\ HeldBy(id) = open[c].buffer
  BY DEF SceneOf, HeldBy
<1> HIDE DEF c
<1>3. open[c] \in SceneSet
  BY <1>1 DEF SceneTypes
<1> QED
  BY <1>1, <1>2, <1>3

LEMMA RangeOfMore ==
    ASSUME NEW S, NEW s \in Seq(S), NEW x \in S
    PROVE  Range(Append(s, x)) = {x} \cup Range(s)
<1> DEFINE t == Append(s, x)
<1>1. Len(t) = Len(s) + 1 /\ t[Len(s) + 1] = x /\ \A i \in 1..Len(s) : t[i] = s[i]
  OBVIOUS
<1>2. DOMAIN t = 1..(Len(s) + 1) /\ DOMAIN s = 1..Len(s) /\ Len(s) \in Nat
  BY <1>1
<1>3. \A i \in 1..(Len(s) + 1) : i = Len(s) + 1 \/ i \in 1..Len(s)
  BY <1>2
<1>4. Len(s) + 1 \in 1..(Len(s) + 1) /\ 1..Len(s) \subseteq 1..(Len(s) + 1)
  BY <1>2
<1> HIDE DEF t
<1>5. Range(t) \subseteq {x} \cup Range(s)
  BY <1>1, <1>2, <1>3 DEF Range
<1>6. {x} \cup Range(s) \subseteq Range(t)
  BY <1>1, <1>2, <1>4 DEF Range
<1> QED
  BY <1>5, <1>6 DEF t

LEMMA HeldBuffer ==
    ASSUME SceneTypes, NEW id, NEW n \in Numbers
    PROVE  /\ HeldBy(id) \in Seq(Numbers) /\ Buffer(id, n) \in Seq(Numbers)
           /\ Range(Buffer(id, n)) = {n} \cup Range(HeldBy(id))
           /\ id \notin SceneIds => Range(HeldBy(id)) = {}
<1>1. HeldBy(id) \in Seq(Numbers)
  <2>1. CASE id \in SceneIds
    BY <2>1, SceneFound DEF SceneSet
  <2>2. CASE id \notin SceneIds
    BY <2>2 DEF HeldBy
  <2> QED
    BY <2>1, <2>2
<1>2. id \notin SceneIds => Range(HeldBy(id)) = {}
  BY DEF HeldBy, Range
<1>3. CASE n \in Range(HeldBy(id))
  BY <1>1, <1>2, <1>3 DEF Buffer
<1>4. CASE n \notin Range(HeldBy(id))
  <2>1. Buffer(id, n) = Append(HeldBy(id), n)
    BY <1>4 DEF Buffer
  <2>2. Buffer(id, n) \in Seq(Numbers)
    BY <1>1, <2>1
  <2> QED
    BY <1>1, <1>2, <2>1, <2>2, RangeOfMore
<1> QED
  BY <1>3, <1>4

LEMMA UpsertPuts ==
    ASSUME SceneTypes, NEW e, NEW n, Comes(e, n), NEW near \in SUBSET Players, Upsert(e, n, near)
    PROVE  \E scene : PutInto(scene, e, n) /\ PutsIn(scene, e, n)
<1> DEFINE on == Continued(e)
           id == IF on = {} THEN SceneId(e, n) ELSE CHOOSE i \in on : TRUE
           people == IF on = {} THEN {} ELSE SceneOf(id).people
           scene == [id |-> id, people |-> people \cup People(e) \cup near, last |-> e.at,
                     buffer |-> Buffer(id, n)]
<1>1. /\ scene.id = id /\ scene.last = e.at /\ scene.buffer = Buffer(id, n)
      /\ scene.people = people \cup People(e) \cup near
  OBVIOUS
<1>2. e \in EventSet /\ n \in Numbers
  BY DEF Comes
<1>3. PutsIn(scene, e, n)
  BY DEF Upsert, PutsIn, Now
<1>4. People(e) \subseteq Players /\ e.at \in Nat
  BY <1>2 DEF EventSet, People
<1>5. Buffer(id, n) \in Seq(Numbers) /\ Range(Buffer(id, n)) = {n} \cup Range(HeldBy(id))
  BY <1>2, HeldBuffer
<1>6. CASE on # {}
  <2>1. id \in on
    BY <1>6
  <2>2. id \in SceneIds
    BY <2>1 DEF Continued
  <2>3. PICK j \in 1..Len(open) : open[j].id = id /\ SceneOf(id) = open[j] /\ open[j] \in SceneSet
    BY <2>2, SceneFound
  <2>4. id \in IdSet /\ SceneOf(id).people \subseteq Players
    BY <2>3 DEF SceneSet
  <2>5. people = SceneOf(id).people
    BY <1>6
  <2> HIDE DEF id, people, on
  <2>6. scene \in SceneSet
    BY <1>4, <1>5, <2>4, <2>5 DEF SceneSet
  <2> QED
    BY <1>1, <1>3, <1>5, <2>1, <2>5, <2>6 DEF PutInto, on
<1>7. CASE on = {}
  <2>1. id = SceneId(e, n) /\ people = {}
    BY <1>7
  <2>2. e.at \div SceneWindow \in Nat
    BY <1>4, InWindow
  <2>3. id \in IdSet
    BY <1>2, <2>1, <2>2 DEF SceneId, Group, IdSet, EventSet
  <2> HIDE DEF id, people, on
  <2>4. scene \in SceneSet
    BY <1>4, <1>5, <2>1, <2>3 DEF SceneSet
  <2> QED
    BY <1>1, <1>3, <1>5, <1>7, <2>1, <2>4 DEF PutInto, on
<1> QED
  BY <1>6, <1>7

LEMMA IdsAreScenes ==
    ASSUME NEW id \in IdSet
    PROVE  id # NoScene
<1>1. PICK a, b : id = <<a, b>>
  BY DEF IdSet
<1>2. Len(<<a, b>>) = 2 /\ Len(<<>>) = 0
  OBVIOUS
<1> QED
  BY <1>1, <1>2 DEF NoScene

(* Its place, if it has one.                                               *)
LEMMA ItsPlace ==
    ASSUME SceneTypes, NEW e, NEW n, Comes(e, n), NEW scene, PutInto(scene, e, n)
    PROVE  /\ e.kind # "danger" => scene.id[1] = <<"place", e.place>>
           /\ e.kind = "danger" =>
                 scene.id = <<<<"urgent", n>>, e.at \div SceneWindow>> /\ Continued(e) = {}
           /\ Urgent(scene)
<1>1. e \in EventSet /\ n \in Numbers /\ e.place \in Places
  BY DEF Comes, EventSet
<1>2. CASE scene.id \in Continued(e)
  <2>1. e.kind # "danger" /\ scene.id = latest[e.place] /\ scene.id \in SceneIds
    BY <1>2 DEF Continued
  <2>2. scene.id # NoScene
    <3>1. scene.id \in IdSet
      BY DEF PutInto, SceneSet
    <3> QED
      BY <3>1, IdsAreScenes
  <2>3. scene.id[1] = <<"place", e.place>>
    BY <1>1, <2>1, <2>2 DEF SceneTypes
  <2> QED
    BY <2>1, <2>3 DEF Urgent
<1>3. CASE Continued(e) = {} /\ scene.id = SceneId(e, n)
  <2>1. CASE e.kind # "danger"
    BY <1>3, <2>1 DEF SceneId, Group, Urgent
  <2>2. CASE e.kind = "danger"
    <3>1. scene.id = <<<<"urgent", n>>, e.at \div SceneWindow>>
      BY <1>3, <2>2 DEF SceneId, Group
    <3>2. Range(HeldBy(scene.id)) \subseteq {n}
      <4>1. CASE scene.id \in SceneIds
        <5>1. PICK j \in 1..Len(open) : open[j].id = scene.id /\ HeldBy(scene.id) = open[j].buffer
          BY <4>1, SceneFound
        <5>2. Urgent(open[j])
          BY DEF SceneTypes
        <5>3. scene.id[1][1] = "urgent" /\ scene.id[1][2] = n
          BY <3>1
        <5>4. open[j].id[1][1] = "urgent" /\ open[j].id[1][2] = n
          BY <5>1, <5>3
        <5>5. Range(open[j].buffer) \subseteq {n}
          BY <5>2, <5>4 DEF Urgent
        <5> QED
          BY <5>1, <5>5
      <4>2. CASE scene.id \notin SceneIds
        BY <1>1, <4>2, HeldBuffer
      <4> QED
        BY <4>1, <4>2
    <3> QED
      BY <1>3, <2>2, <3>1, <3>2 DEF Urgent, PutInto
  <2> QED
    BY <2>1, <2>2
<1> QED
  BY <1>2, <1>3 DEF PutInto

(* A scene is open or closed afterwards if it is the one that the event    *)
(* was put into, or if it was there and has another id.                    *)
WasThere(s, scene) == s = scene \/ \E k \in 1..Len(open) : s = open[k] /\ open[k].id # scene.id

LEMMA PutResult ==
    ASSUME SceneTypes, NEW e, NEW n, Comes(e, n), NEW scene, PutInto(scene, e, n), PutsIn(scene, e, n)
    PROVE  /\ open' \in Seq(SceneSet) /\ closed' \in Seq(SceneSet)
           /\ \A m : HeldIn(open', m) + HeldIn(closed', m)
                        = HeldIn(Upserted(scene), m) + HeldIn(closed, m)
           /\ OneOfAnId(open')
           /\ \A i \in 1..Len(open') : WasThere(open'[i], scene)
           /\ \A i \in 1..Len(open'), p \in Places :
                 Now(scene, e)[p] = open'[i].id => latest'[p] = open'[i].id
           /\ \A i \in 1..Len(closed') :
                 (\E k \in 1..Len(closed) : closed'[i] = closed[k]) \/ WasThere(closed'[i], scene)
           /\ DOMAIN latest' = Places
           /\ \A p \in Places : latest'[p] \in {NoScene, Now(scene, e)[p]}
<1> DEFINE u == Upserted(scene)
           trim == Len(u) > MaxOpen
<1>1. open \in Seq(SceneSet) /\ closed \in Seq(SceneSet) /\ OneOfAnId(open) /\ scene \in SceneSet
  BY DEF SceneTypes, PutInto
<1>2. u \in Seq(SceneSet)
  BY <1>1, PutAmong
<1>3. PICK j \in 1..Len(u) :
        /\ u[j] = scene
        /\ \A i \in 1..Len(u) : i # j => i \in 1..Len(open) /\ u[i] = open[i] /\ open[i].id # scene.id
  BY <1>1, PutAmong
<1>4. /\ open' = IF trim THEN Tail(u) ELSE u
      /\ closed' = IF trim THEN Append(closed, Head(u)) ELSE closed
      /\ latest' = IF trim THEN Forget({Head(u).id}, Now(scene, e)) ELSE Now(scene, e)
  BY DEF PutsIn
<1>5. DOMAIN Now(scene, e) = Places
  BY DEF Now, SceneTypes
<1>6. trim \in BOOLEAN /\ (trim => u # <<>>)
  BY <1>2, SceneAssumption
<1> HIDE DEF u, trim
<1>7. /\ open' \in Seq(SceneSet) /\ closed' \in Seq(SceneSet)
      /\ \A m : HeldIn(open', m) + HeldIn(closed', m) = HeldIn(u, m) + HeldIn(closed, m)
      /\ \A i \in 1..Len(closed') :
            (i \in 1..Len(closed) /\ closed'[i] = closed[i]) \/ (1 \in 1..Len(u) /\ closed'[i] = u[1])
      /\ ~trim => open' = u
      /\ trim => /\ Head(u) = u[1]
                 /\ \A i \in 1..Len(open') : i + 1 \in 2..Len(u) /\ open'[i] = u[i + 1]
  <2> DEFINE left == Stays(u, MaxOpen)
             over == Leaves(u, closed, MaxOpen)
  <2>1. open' = left /\ closed' = over
    BY <1>4 DEF trim, Stays, Leaves
  <2>2. MaxOpen \in Nat
    BY SceneAssumption
  <2>3. left \in Seq(SceneSet) /\ over \in Seq(SceneSet) /\ ClosesOldest(left, over, u, closed, MaxOpen)
    BY <1>1, <1>2, <2>2, OldestClosed
  <2> HIDE DEF left, over
  <2> QED
    BY <2>1, <2>3 DEF trim, ClosesOldest
<1>8. \A i \in 1..Len(u) : WasThere(u[i], scene)
  BY <1>3 DEF WasThere
<1>9. OneOfAnId(u)
  <2>1. ASSUME NEW a \in 1..Len(u), NEW b \in 1..Len(u), u[a].id = u[b].id PROVE a = b
    <3>1. CASE a = j \/ b = j
      BY <1>3, <2>1, <3>1
    <3>2. CASE a # j /\ b # j
      BY <1>1, <1>3, <2>1, <3>2 DEF OneOfAnId
    <3> QED
      BY <3>1, <3>2
  <2> QED
    BY <2>1 DEF OneOfAnId
<1>10. \A p \in Places : latest'[p] \in {NoScene, Now(scene, e)[p]}
  <2>1. CASE trim
    BY <1>4, <2>1 DEF Forget
  <2>2. CASE ~trim
    BY <1>4, <2>2
  <2> QED
    BY <2>1, <2>2
<1>11. DOMAIN latest' = Places
  <2>1. CASE trim
    BY <1>4, <2>1 DEF Forget
  <2>2. CASE ~trim
    BY <1>4, <1>5, <2>2
  <2> QED
    BY <2>1, <2>2
<1>12. \A i \in 1..Len(closed') :
          (\E k \in 1..Len(closed) : closed'[i] = closed[k]) \/ WasThere(closed'[i], scene)
  BY <1>7, <1>8
<1>13. CASE ~trim
  <2>1. open' = u /\ latest' = Now(scene, e)
    BY <1>4, <1>7, <1>13
  <2> QED
    BY <1>7, <1>8, <1>9, <1>10, <1>11, <1>12, <2>1 DEF u
<1>14. CASE trim
  <2>1. /\ \A i \in 1..Len(open') : i + 1 \in 2..Len(u) /\ open'[i] = u[i + 1]
        /\ latest' = Forget({u[1].id}, Now(scene, e))
    BY <1>4, <1>7, <1>14
  <2>2. /\ \A i \in 1..Len(open') : i + 1 \in 1..Len(u) /\ i + 1 # 1 /\ i \in Int
        /\ 1 \in 1..Len(u)
    <3>1. Len(u) \in Nat /\ Len(open') \in Nat /\ Len(u) # 0
      BY <1>2, <1>6, <1>7, <1>14
    <3> QED
      BY <2>1, <3>1
  <2>3. \A i \in 1..Len(open') : WasThere(open'[i], scene)
    BY <1>8, <2>1, <2>2
  <2>4. ASSUME NEW a \in 1..Len(open'), NEW b \in 1..Len(open'), open'[a].id = open'[b].id
        PROVE  a = b
    <3>1. u[a + 1].id = u[b + 1].id
      BY <2>1, <2>4
    <3>2. a + 1 = b + 1
      BY <1>9, <2>2, <3>1 DEF OneOfAnId
    <3> QED
      BY <2>2, <3>2
  <2>5. OneOfAnId(open')
    BY <2>4 DEF OneOfAnId
  <2>6. ASSUME NEW i \in 1..Len(open'), NEW p \in Places, Now(scene, e)[p] = open'[i].id
        PROVE  latest'[p] = open'[i].id
    <3>1. u[i + 1].id # u[1].id
      BY <1>9, <2>2 DEF OneOfAnId
    <3>2. Now(scene, e)[p] \notin {u[1].id}
      BY <2>1, <2>6, <3>1
    <3> QED
      BY <2>1, <2>6, <3>2 DEF Forget
  <2> QED
    BY <1>7, <1>10, <1>11, <1>12, <2>3, <2>5, <2>6 DEF u
<1> QED
  BY <1>13, <1>14

LEMMA PutTypes ==
    ASSUME SceneTypes, NEW e, NEW n, Comes(e, n), NEW scene, PutInto(scene, e, n), PutsIn(scene, e, n)
    PROVE  /\ \A i \in 1..Len(open') : Urgent(open'[i])
           /\ latest' \in [Places -> IdSet \cup {NoScene}]
           /\ \A p \in Places : latest'[p] # NoScene => latest'[p][1] = <<"place", p>>
           /\ kept' \in [Numbers -> Nat]
           /\ \A m \in Numbers : m > Len(happened') => kept'[m] = 0
<1>1. e \in EventSet /\ n \in Numbers /\ e.place \in Places /\ scene.id \in IdSet
  BY DEF Comes, EventSet, PutInto, SceneSet
<1>2. ASSUME NEW i \in 1..Len(open') PROVE Urgent(open'[i])
  <2>1. WasThere(open'[i], scene)
    BY PutResult
  <2>2. CASE open'[i] = scene
    BY <2>2, ItsPlace
  <2>3. CASE \E k \in 1..Len(open) : open'[i] = open[k]
    BY <2>3 DEF SceneTypes
  <2> QED
    BY <2>1, <2>2, <2>3 DEF WasThere
<1>3. /\ Now(scene, e) \in [Places -> IdSet \cup {NoScene}]
      /\ \A p \in Places : Now(scene, e)[p] # NoScene => Now(scene, e)[p][1] = <<"place", p>>
  <2>1. CASE e.kind = "danger"
    BY <2>1 DEF Now, SceneTypes
  <2>2. CASE e.kind # "danger"
    <3>1. scene.id[1] = <<"place", e.place>>
      BY <2>2, ItsPlace
    <3>2. Now(scene, e) = [latest EXCEPT ![e.place] = scene.id]
      BY <2>2 DEF Now
    <3>3. /\ latest \in [Places -> IdSet \cup {NoScene}]
          /\ \A p \in Places : latest[p] # NoScene => latest[p][1] = <<"place", p>>
      BY DEF SceneTypes
    <3> QED
      BY <1>1, <3>1, <3>2, <3>3
  <2> QED
    BY <2>1, <2>2
<1>4. DOMAIN latest' = Places /\ \A p \in Places : latest'[p] \in {NoScene, Now(scene, e)[p]}
  BY PutResult
<1>5. latest' = [p \in Places |-> latest'[p]]
  <2>1. latest' = Forget({Head(Upserted(scene)).id}, Now(scene, e)) \/ latest' = Now(scene, e)
    BY DEF PutsIn
  <2>2. latest' = Forget({Head(Upserted(scene)).id}, Now(scene, e))
            => latest' = [p \in Places |-> latest'[p]]
    BY DEF Forget
  <2> QED
    BY <1>3, <2>1, <2>2
<1>6. latest' \in [Places -> IdSet \cup {NoScene}]
  BY <1>3, <1>4, <1>5
<1>7. \A p \in Places : latest'[p] # NoScene => latest'[p][1] = <<"place", p>>
  BY <1>3, <1>4
<1>8. kept' = Plus(kept, {n} \ Range(HeldBy(scene.id)))
  BY DEF PutsIn
<1>9. kept \in [Numbers -> Nat] /\ \A m \in Numbers : m > Len(happened) => kept[m] = 0
  BY DEF SceneTypes
<1>10. kept' \in [Numbers -> Nat]
  BY <1>8, <1>9 DEF Plus
<1>11. \A m \in Numbers : m > Len(happened') => kept'[m] = 0
  <2>1. n <= Len(happened') /\ Len(happened) <= Len(happened') /\ Len(happened') \in Nat /\ Len(happened) \in Nat
    BY DEF Comes, SceneTypes
  <2>2. \A m \in Numbers : m > Len(happened') => m > Len(happened) /\ m # n
    BY <2>1, SceneAssumption DEF Numbers
  <2> QED
    BY <1>8, <1>9, <2>2 DEF Plus
<1> QED
  BY <1>2, <1>6, <1>7, <1>10, <1>11

LEMMA PutAccounts ==
    ASSUME SceneTypes, EventsAccounted, NEW e, NEW n, Comes(e, n), NEW scene,
           PutInto(scene, e, n), PutsIn(scene, e, n), UNCHANGED <<batch, digested, forgone>>
    PROVE  EventsAccounted'
<1>1. SUFFICES ASSUME NEW m \in Numbers
               PROVE  kept'[m] = HeldIn(open', m) + HeldIn(closed', m) + HeldIn(batch', m)
                                    + digested'[m] + forgone'[m]
  BY DEF EventsAccounted
<1>2. HeldIn(open', m) + HeldIn(closed', m) = HeldIn(Upserted(scene), m) + HeldIn(closed, m)
  BY PutResult
<1>3. kept'[m] = kept[m] + (IF m = n /\ m \notin Range(HeldBy(scene.id)) THEN 1 ELSE 0)
  <2>1. kept' = Plus(kept, {n} \ Range(HeldBy(scene.id)))
    BY DEF PutsIn
  <2>2. m \in {n} \ Range(HeldBy(scene.id)) <=> m = n /\ m \notin Range(HeldBy(scene.id))
    OBVIOUS
  <2> QED
    BY <2>1, <2>2 DEF Plus
<1>4. /\ open \in Seq(SceneSet) /\ closed \in Seq(SceneSet) /\ batch \in Seq(SceneSet)
      /\ OneOfAnId(open) /\ scene \in SceneSet /\ kept[m] \in Nat /\ digested[m] \in Nat
      /\ forgone[m] \in Nat
  BY DEF SceneTypes, PutInto
<1>5. m \in Range(scene.buffer) <=> m = n \/ m \in Range(HeldBy(scene.id))
  BY DEF PutInto
<1>6. HeldIn(Upserted(scene), m) = HeldIn(open, m)
                        + (IF m = n /\ m \notin Range(HeldBy(scene.id)) THEN 1 ELSE 0)
  <2>0. HeldIn(open, m) \in Nat
    BY <1>4, HeldType
  <2>1. CASE scene.id \in SceneIds
    <3>1. PICK j \in 1..Len(Upserted(scene)) :
             /\ Upserted(scene)[j] = scene
             /\ \A i \in 1..Len(Upserted(scene)) : i # j =>
                   i \in 1..Len(open) /\ Upserted(scene)[i] = open[i] /\ open[i].id # scene.id
             /\ Len(Upserted(scene)) = Len(open) /\ SceneOf(scene.id) = open[j]
      BY <1>4, <2>1, PutAmong
    <3>2. HeldBy(scene.id) = open[j].buffer
      BY <2>1, <3>1 DEF HeldBy
    <3>3. Upserted(scene) \in Seq(SceneSet)
      BY <1>4, PutAmong
    <3>4. HeldIn(Upserted(scene), m) = (HeldIn(open, m) - Has(open[j], m)) + Has(Upserted(scene)[j], m)
      BY <1>4, <3>1, <3>3, HeldInOther
    <3>5. /\ Has(open[j], m) = IF m \in Range(HeldBy(scene.id)) THEN 1 ELSE 0
          /\ Has(Upserted(scene)[j], m) = IF m = n \/ m \in Range(HeldBy(scene.id)) THEN 1 ELSE 0
      BY <1>5, <3>1, <3>2 DEF Has
    <3> QED
      BY <2>0, <3>4, <3>5
  <2>2. CASE scene.id \notin SceneIds
    <3>1. Upserted(scene) = Append(open, scene)
      BY <2>2 DEF Upserted
    <3>2. Range(HeldBy(scene.id)) = {}
      BY <2>2 DEF HeldBy, Range
    <3>3. HeldIn(Upserted(scene), m) = HeldIn(open, m) + Has(scene, m)
      BY <1>4, <3>1, HeldInMore
    <3>4. Has(scene, m) = IF m = n THEN 1 ELSE 0
      BY <1>5, <3>2 DEF Has
    <3> QED
      BY <2>0, <3>2, <3>3, <3>4
  <2> QED
    BY <2>1, <2>2
<1>7. kept[m] = HeldIn(open, m) + HeldIn(closed, m) + HeldIn(batch, m) + digested[m] + forgone[m]
  BY DEF EventsAccounted
<1>8. /\ HeldIn(open, m) \in Nat /\ HeldIn(closed, m) \in Nat /\ HeldIn(batch, m) \in Nat
      /\ HeldIn(open', m) \in Nat /\ HeldIn(closed', m) \in Nat
  BY <1>4, HeldType, PutResult
<1>9. HeldIn(batch', m) = HeldIn(batch, m) /\ digested'[m] = digested[m] /\ forgone'[m] = forgone[m]
  OBVIOUS
<1> DEFINE more == IF m = n /\ m \notin Range(HeldBy(scene.id)) THEN 1 ELSE 0
<1>10. more \in Nat /\ kept'[m] = kept[m] + more /\ HeldIn(Upserted(scene), m) = HeldIn(open, m) + more
  BY <1>3, <1>6
<1> HIDE DEF more
<1>11. HeldIn(open', m) + HeldIn(closed', m) = HeldIn(open, m) + more + HeldIn(closed, m)
  BY <1>2, <1>10
<1> DEFINE o == HeldIn(open, m)
           oo == HeldIn(open', m)
           c == HeldIn(closed, m)
           cc == HeldIn(closed', m)
           rest == HeldIn(batch, m) + digested[m] + forgone[m]
<1>12. HeldIn(batch, m) \in Nat /\ digested[m] \in Nat /\ forgone[m] \in Nat
  BY <1>4, <1>8
<1>13. rest \in Nat
  BY <1>12
<1>14. /\ o \in Nat /\ oo \in Nat /\ c \in Nat /\ cc \in Nat
  BY <1>8
<1>15. kept[m] = o + c + rest
  BY <1>7, <1>8, <1>12, <1>14
<1>16. kept'[m] = kept[m] + more /\ more \in Nat /\ oo + cc = o + more + c
  BY <1>10, <1>11
<1> HIDE DEF o, oo, c, cc, rest
<1>17. kept'[m] = (oo + cc) + rest
  BY <1>13, <1>14, <1>15, <1>16
<1>18. kept'[m] = HeldIn(open', m) + HeldIn(closed', m) + (HeldIn(batch, m) + digested[m] + forgone[m])
  BY <1>17 DEF oo, cc, rest
<1>19. kept'[m] = HeldIn(open', m) + HeldIn(closed', m) + HeldIn(batch, m) + digested[m] + forgone[m]
  BY <1>8, <1>12, <1>18
<1> QED
  BY <1>9, <1>19

(* What an event that comes in its order leaves as it was.                 *)
LEMMA TakenInMore ==
    ASSUME SceneTypes, EventsAccounted, NEW e, NEW n, Comes(e, n), NEW scene,
           PutInto(scene, e, n), PutsIn(scene, e, n)
    PROVE  /\ \A p, at : TakenAt(happened, kept, p, at) => TakenAt(happened', kept', p, at)
           /\ \A at : e.kind # "danger" /\ at <= e.at => TakenAt(happened', kept', e.place, at)
           /\ \A s : Peopled(s, happened) => Peopled(s, happened')
<1>1. /\ kept \in [Numbers -> Nat] /\ Len(happened) \in Nat /\ Len(happened) <= MaxHappenings
      /\ 1..Len(happened) \subseteq Numbers
  BY SceneAssumption DEF SceneTypes, Numbers
<1>2. /\ \A m \in 1..Len(happened) : happened'[m] = happened[m]
      /\ 1..Len(happened) \subseteq 1..Len(happened')
      /\ n \in Numbers /\ n \in 1..Len(happened') /\ happened'[n] = e
  BY <1>1 DEF Comes
<1>3. kept' = Plus(kept, {n} \ Range(HeldBy(scene.id)))
  BY DEF PutsIn
<1>4. \A m \in 1..Len(happened) : kept[m] > 0 => kept'[m] > 0
  BY <1>1, <1>3 DEF Plus
<1>5. \A p, at : TakenAt(happened, kept, p, at) => TakenAt(happened', kept', p, at)
  BY <1>2, <1>4 DEF TakenAt
<1>6. kept'[n] > 0
  <2>1. CASE n \notin Range(HeldBy(scene.id))
    <3>1. n \in {n} \ Range(HeldBy(scene.id))
      BY <2>1
    <3> QED
      BY <1>1, <1>2, <1>3, <3>1 DEF Plus
  <2>2. CASE n \in Range(HeldBy(scene.id))
    <3>1. scene.id \in SceneIds
      BY <1>2, <2>2, HeldBuffer
    <3>2. PICK j \in 1..Len(open) : HeldBy(scene.id) = open[j].buffer
      BY <3>1, SceneFound
    <3>3. open \in Seq(SceneSet) /\ closed \in Seq(SceneSet) /\ batch \in Seq(SceneSet)
          /\ digested[n] \in Nat /\ forgone[n] \in Nat
      BY <1>2 DEF SceneTypes
    <3>4. HeldIn(open, n) \in Nat /\ HeldIn(open, n) # 0
      BY <2>2, <3>2, <3>3, HeldType
    <3>5. HeldIn(closed, n) \in Nat /\ HeldIn(batch, n) \in Nat
      BY <3>3, HeldType
    <3>6. kept[n] = HeldIn(open, n) + HeldIn(closed, n) + HeldIn(batch, n) + digested[n] + forgone[n]
      BY <1>2 DEF EventsAccounted
    <3>7. kept[n] > 0
      BY <3>3, <3>4, <3>5, <3>6
    <3>8. n \notin {n} \ Range(HeldBy(scene.id))
      BY <2>2
    <3>9. kept'[n] = kept[n] + 0
      BY <1>2, <1>3, <3>8 DEF Plus
    <3> QED
      BY <1>1, <1>2, <3>7, <3>9
  <2> QED
    BY <2>1, <2>2
<1>7. \A at : e.kind # "danger" /\ at <= e.at => TakenAt(happened', kept', e.place, at)
  BY <1>2, <1>6 DEF TakenAt
<1>8. \A s : Peopled(s, happened) => Peopled(s, happened')
  BY <1>2 DEF Peopled
<1> QED
  BY <1>5, <1>7, <1>8

(* A scene that an event in order replaces is the one that goes on, or the *)
(* scene of the same danger.                                               *)
LEMMA NoneReplaced ==
    ASSUME SceneTypes, InOrder, NEW e, NEW n, Comes(e, n), NEW scene, PutInto(scene, e, n),
           ~Late(e), e.kind # "danger", scene.id \in SceneIds
    PROVE  scene.id \in Continued(e)
<1> SUFFICES ASSUME Continued(e) = {}, scene.id = SceneId(e, n)
             PROVE  FALSE
  BY DEF PutInto
<1>1. e \in EventSet /\ e.at \in Nat /\ e.place \in Places
  BY DEF Comes, EventSet
<1> DEFINE k == e.at \div SceneWindow
<1>2. k \in Nat /\ k * SceneWindow <= e.at /\ e.at < (k + 1) * SceneWindow
  BY <1>1, InWindow
<1>3. scene.id = <<<<"place", e.place>>, k>>
  BY DEF SceneId, Group
<1> HIDE DEF k
<1>4. scene.id[1][1] = "place" /\ scene.id[1][2] = e.place /\ scene.id[2] = k
  BY <1>3
<1>5. PICK j \in 1..Len(open) :
         open[j].id = scene.id /\ SceneOf(scene.id) = open[j] /\ open[j] \in SceneSet
  BY SceneFound
<1>6. GoesOn(open[j], happened, kept, latest) /\ open[j].last \in Nat
  BY <1>5 DEF InOrder, SceneSet
<1>7. /\ k * SceneWindow <= open[j].last
      /\ latest[e.place] # scene.id => TakenAt(happened, kept, e.place, (k + 1) * SceneWindow)
  BY <1>4, <1>5, <1>6 DEF GoesOn
<1>8. k * SceneWindow \in Nat /\ (k + 1) * SceneWindow = k * SceneWindow + SceneWindow
      /\ SceneWindow \in Nat
  BY <1>2, SceneAssumption
<1>9. latest[e.place] = scene.id
  <2>1. ASSUME NEW m \in 1..Len(happened), happened[m].at >= (k + 1) * SceneWindow
        PROVE  e.at < happened[m].at
    <3>1. happened[m].at \in Nat
      <4>1. happened \in Seq(EventSet)
        BY DEF SceneTypes
      <4>2. happened[m] \in EventSet
        BY <4>1, ElementOfSeq
      <4> QED
        BY <4>2 DEF EventSet
    <3> QED
      BY <1>1, <1>2, <1>8, <2>1, <3>1
  <2>2. ~TakenAt(happened, kept, e.place, (k + 1) * SceneWindow)
    BY <2>1 DEF TakenAt, Late
  <2> QED
    BY <1>7, <2>2
<1>10. e.at - open[j].last <= SceneWindow
  <2> DEFINE w == k * SceneWindow
  <2>1. w \in Nat /\ w <= open[j].last /\ e.at < w + SceneWindow
    BY <1>2, <1>7, <1>8
  <2> HIDE DEF w
  <2> QED
    BY <1>1, <1>6, <1>8, <2>1
<1>11. scene.id \in Continued(e)
  BY <1>5, <1>9, <1>10 DEF Continued
<1> QED
  BY <1>11

LEMMA PutPeople ==
    ASSUME SceneTypes, InOrder, NEW e, NEW n, Comes(e, n), NEW scene, PutInto(scene, e, n), ~Late(e)
    PROVE  Peopled(scene, happened')
<1>1. /\ \A m \in 1..Len(happened) : happened'[m] = happened[m]
      /\ 1..Len(happened) \subseteq 1..Len(happened')
      /\ n \in Numbers /\ n \in 1..Len(happened') /\ happened'[n] = e
  <2>1. Len(happened) \in Nat /\ Len(happened') \in Nat /\ Len(happened) <= Len(happened')
    BY LenProperties DEF Comes, SceneTypes
  <2>2. 1..Len(happened) \subseteq 1..Len(happened')
    BY <2>1
  <2> QED
    BY <2>2 DEF Comes
<1>2. Range(scene.buffer) = {n} \cup Range(HeldBy(scene.id)) /\ People(e) \subseteq scene.people
  BY DEF PutInto
<1>3. CASE scene.id \notin SceneIds
  <2>1. Range(HeldBy(scene.id)) = {}
    BY <1>1, <1>3, HeldBuffer
  <2> QED
    BY <1>1, <1>2, <2>1 DEF Peopled
<1>4. CASE scene.id \in Continued(e)
  <2>1. scene.id \in SceneIds
    BY <1>4 DEF Continued
  <2>2. PICK j \in 1..Len(open) : SceneOf(scene.id) = open[j] /\ HeldBy(scene.id) = open[j].buffer
    BY <2>1, SceneFound
  <2>3. Peopled(open[j], happened)
    BY DEF InOrder
  <2>4. Continued(e) # {}
    BY <1>4
  <2>5. open[j].people \subseteq scene.people
    BY <2>2, <2>4 DEF PutInto
  <2>6. \A m \in Range(HeldBy(scene.id)) :
           m \in 1..Len(happened') /\ People(happened'[m]) \subseteq scene.people
    BY <1>1, <2>2, <2>3, <2>5 DEF Peopled
  <2> QED
    BY <1>1, <1>2, <2>6 DEF Peopled
<1>5. CASE scene.id \in SceneIds /\ e.kind = "danger"
  <2>1. scene.id[1][1] = "urgent" /\ scene.id[1][2] = n
    BY <1>5, ItsPlace
  <2>2. Range(scene.buffer) \subseteq {n}
    BY <2>1, ItsPlace DEF Urgent
  <2> QED
    BY <1>1, <1>2, <2>2 DEF Peopled
<1> QED
  BY <1>3, <1>4, <1>5, NoneReplaced

LEMMA PutGoesOn ==
    ASSUME SceneTypes, EventsAccounted, InOrder, NEW e, NEW n, Comes(e, n), NEW scene,
           PutInto(scene, e, n), PutsIn(scene, e, n), ~Late(e)
    PROVE  GoesOn(scene, happened', kept', Now(scene, e))
<1> SUFFICES ASSUME scene.id[1][1] = "place"
             PROVE  /\ scene.id[2] * SceneWindow <= scene.last
                    /\ TakenAt(happened', kept', scene.id[1][2], scene.last)
                    /\ Now(scene, e)[scene.id[1][2]] = scene.id
  BY DEF GoesOn
<1>1. e.at \in Nat /\ e.place \in Places /\ scene.last = e.at
  BY DEF Comes, EventSet, PutInto
<1>2. e.kind # "danger"
  <2>1. e.kind = "danger" => scene.id[1][1] = "urgent"
    BY ItsPlace
  <2> QED
    BY <2>1
<1>3. scene.id[1][2] = e.place
  BY <1>2, ItsPlace
<1>4. TakenAt(happened', kept', e.place, e.at)
  BY <1>1, <1>2, TakenInMore
<1>5. Now(scene, e)[e.place] = scene.id
  BY <1>1, <1>2 DEF Now, SceneTypes
<1>6. CASE scene.id = SceneId(e, n)
  <2>1. scene.id[2] = e.at \div SceneWindow
    BY <1>6 DEF SceneId
  <2>2. scene.id[2] * SceneWindow <= e.at
    BY <1>1, <2>1, InWindow
  <2> QED
    BY <1>1, <1>3, <1>4, <1>5, <2>2
<1>7. CASE scene.id \in Continued(e)
  <2>1. scene.id \in SceneIds
    BY <1>7 DEF Continued
  <2>2. PICK j \in 1..Len(open) : open[j].id = scene.id /\ open[j] \in SceneSet
    BY <2>1, SceneFound
  <2>3. GoesOn(open[j], happened, kept, latest)
    BY DEF InOrder
  <2>4. /\ scene.id[2] * SceneWindow <= open[j].last
        /\ TakenAt(happened, kept, e.place, open[j].last)
    BY <1>3, <2>2, <2>3 DEF GoesOn
  <2>5. PICK m \in 1..Len(happened) :
           /\ kept[m] > 0 /\ happened[m].at >= open[j].last
           /\ happened[m].place = e.place /\ happened[m].kind # "danger"
    BY <2>4 DEF TakenAt
  <2>6. ~(e.at < happened[m].at)
    BY <1>2, <2>5 DEF Late
  <2>7. happened[m].at \in Nat /\ open[j].last \in Nat /\ scene.id[2] * SceneWindow \in Nat
    <3>1. happened \in Seq(EventSet)
      BY DEF SceneTypes
    <3>2. happened[m] \in EventSet
      BY <3>1, ElementOfSeq
    <3>3. scene.id \in IdSet /\ open[j].last \in Nat
      BY <2>2 DEF SceneSet
    <3>4. scene.id[2] \in Nat
      BY <3>3 DEF IdSet
    <3>5. happened[m].at \in Nat
      BY <3>2 DEF EventSet
    <3>6. scene.id[2] * SceneWindow \in Nat
      BY <3>4, SceneAssumption
    <3> QED
      BY <3>3, <3>5, <3>6
  <2> DEFINE w == scene.id[2] * SceneWindow
  <2>8. w \in Nat /\ w <= open[j].last
    BY <2>4, <2>7
  <2> HIDE DEF w
  <2>9. w <= e.at
    BY <1>1, <2>5, <2>6, <2>7, <2>8
  <2> QED
    BY <1>1, <1>3, <1>4, <1>5, <2>9 DEF w
<1> QED
  BY <1>6, <1>7 DEF PutInto

LEMMA OthersGoOn ==
    ASSUME SceneTypes, EventsAccounted, InOrder, NEW e, NEW n, Comes(e, n), NEW scene,
           PutInto(scene, e, n), PutsIn(scene, e, n), NEW i \in 1..Len(open), open[i].id # scene.id
    PROVE  GoesOn(open[i], happened', kept', Now(scene, e))
<1> DEFINE s == open[i]
           p == s.id[1][2]
           k == s.id[2]
<1>1. s \in SceneSet /\ s.id \in IdSet /\ s.last \in Nat
  <2>1. open \in Seq(SceneSet)
    BY DEF SceneTypes
  <2>2. open[i] \in SceneSet
    BY <2>1, ElementOfSeq
  <2> QED
    BY <2>2 DEF SceneSet
<1> SUFFICES ASSUME s.id[1][1] = "place"
             PROVE  /\ k * SceneWindow <= s.last
                    /\ TakenAt(happened', kept', p, s.last)
                    /\ Now(scene, e)[p] # s.id => TakenAt(happened', kept', p, (k + 1) * SceneWindow)
  BY DEF GoesOn
<1>2. /\ k * SceneWindow <= s.last
      /\ TakenAt(happened, kept, p, s.last)
      /\ latest[p] # s.id => TakenAt(happened, kept, p, (k + 1) * SceneWindow)
  BY DEF InOrder, GoesOn
<1>3. p \in Places /\ k \in Nat
  BY <1>1 DEF IdSet
<1>4. e.at \in Nat /\ e.place \in Places
  BY DEF Comes, EventSet
<1> HIDE DEF p, k
<1>5. k * SceneWindow \in Nat /\ (k + 1) * SceneWindow = k * SceneWindow + SceneWindow /\ SceneWindow \in Nat
  BY <1>3, SceneAssumption
<1>6. ASSUME Now(scene, e)[p] # s.id, latest[p] = s.id
      PROVE  TakenAt(happened', kept', p, (k + 1) * SceneWindow)
  <2>1. e.kind # "danger" /\ p = e.place
    BY <1>3, <1>6 DEF Now, SceneTypes
  <2>2. scene.id \notin Continued(e)
    BY <1>6, <2>1 DEF Continued
  <2>3. Continued(e) = {}
    BY <2>2 DEF PutInto
  <2>4. s.id \in SceneIds
    BY DEF SceneIds
  <2>5. PICK j \in 1..Len(open) : open[j].id = s.id /\ SceneOf(s.id) = open[j]
    BY <2>4, SceneFound
  <2>6. SceneOf(s.id) = s
    BY <2>5 DEF SceneTypes, OneOfAnId
  <2>7. ~(e.at - s.last <= SceneWindow)
    BY <1>6, <2>1, <2>3, <2>4, <2>6 DEF Continued
  <2> DEFINE w == k * SceneWindow
  <2>8. w \in Nat /\ w <= s.last
    BY <1>2, <1>5
  <2> HIDE DEF w
  <2>9. w + SceneWindow <= e.at
    BY <1>1, <1>4, <1>5, <2>7, <2>8
  <2>10. (k + 1) * SceneWindow <= e.at
    BY <1>5, <2>9 DEF w
  <2> QED
    BY <2>1, <2>10, TakenInMore
<1>7. TakenAt(happened', kept', p, s.last)
  BY <1>2, TakenInMore
<1>8. latest[p] # s.id => TakenAt(happened', kept', p, (k + 1) * SceneWindow)
  BY <1>2, TakenInMore
<1> QED
  BY <1>2, <1>6, <1>7, <1>8

LEMMA PutInOrder ==
    ASSUME SceneTypes, EventsAccounted, InOrder, NEW e, NEW n, Comes(e, n), NEW scene,
           PutInto(scene, e, n), PutsIn(scene, e, n), ~Late(e), UNCHANGED batch
    PROVE  InOrder'
<1>1. ASSUME NEW s, WasThere(s, scene)
      PROVE  Peopled(s, happened') /\ GoesOn(s, happened', kept', Now(scene, e))
  <2>1. CASE s = scene
    BY <2>1, PutPeople, PutGoesOn
  <2>2. ASSUME NEW k \in 1..Len(open), s = open[k], open[k].id # scene.id
        PROVE  Peopled(s, happened') /\ GoesOn(s, happened', kept', Now(scene, e))
    <3>1. Peopled(s, happened)
      BY <2>2 DEF InOrder
    <3> QED
      BY <2>2, <3>1, TakenInMore, OthersGoOn
  <2> QED
    BY <1>1, <2>1, <2>2 DEF WasThere
<1>2. ASSUME NEW i \in 1..Len(open')
      PROVE  Peopled(open'[i], happened') /\ GoesOn(open'[i], happened', kept', latest')
  <2>1. WasThere(open'[i], scene) /\ open'[i] \in SceneSet
    BY PutResult
  <2>2. Peopled(open'[i], happened') /\ GoesOn(open'[i], happened', kept', Now(scene, e))
    BY <1>1, <2>1
  <2>3. \A p \in Places : Now(scene, e)[p] = open'[i].id => latest'[p] = open'[i].id
    BY PutResult
  <2>4. open'[i].id[1][1] = "place" => open'[i].id[1][2] \in Places
    BY <2>1 DEF SceneSet, IdSet
  <2>5. GoesOn(open'[i], happened', kept', latest')
    BY <2>2, <2>3, <2>4 DEF GoesOn
  <2> QED
    BY <2>2, <2>5
<1>3. ASSUME NEW i \in 1..Len(closed')
      PROVE  Peopled(closed'[i], happened')
  <2>1. (\E k \in 1..Len(closed) : closed'[i] = closed[k]) \/ WasThere(closed'[i], scene)
    BY PutResult
  <2>2. ASSUME NEW k \in 1..Len(closed), closed'[i] = closed[k]
        PROVE  Peopled(closed'[i], happened')
    <3>1. Peopled(closed[k], happened)
      BY DEF InOrder
    <3> QED
      BY <2>2, <3>1, TakenInMore
  <2> QED
    BY <1>1, <2>1, <2>2
<1>4. ASSUME NEW i \in 1..Len(batch)
      PROVE  Peopled(batch[i], happened')
  <2>1. Peopled(batch[i], happened)
    BY DEF InOrder
  <2> QED
    BY <2>1, TakenInMore
<1> QED
  BY <1>2, <1>3, <1>4 DEF InOrder

-----------------------------------------------------------------------------
(* Scenes: what the steps keep.                                            *)
LEMMA SameScenes ==
    ASSUME SceneInv, ticks' \in Nat, flushing' \in BOOLEAN, ~flushing' => batch' = <<>>,
           UNCHANGED <<happened, open, latest, closed, batch, kept, digested, forgone, aware,
                       repeated, disorder>>
    PROVE  SceneInv'
<1>1. SceneTypes'
  BY DEF SceneInv, SceneTypes
<1>2. EventsAccounted'
  BY DEF SceneInv, ScenesKept, EventsAccounted
<1>3. DoersRemember'
  BY DEF SceneInv, ScenesKept, DoersRemember
<1>4. ~disorder' => InOrder'
  BY DEF SceneInv, InOrder
<1> QED
  BY <1>1, <1>2, <1>3, <1>4 DEF SceneInv, ScenesKept

LEMMA DoersStay ==
    ASSUME SceneTypes, EventsAccounted, DoersRemember, NEW e, NEW n, Comes(e, n),
           Len(happened') <= MaxHappenings, UNCHANGED <<digested, aware>>, ~disorder' => ~disorder
    PROVE  DoersRemember'
<1> SUFFICES ASSUME ~disorder', NEW m \in 1..Len(happened'), digested[m] > 0
             PROVE  \A who \in People(happened'[m]) : <<m, who>> \in aware
  BY DEF DoersRemember
<1>1. Len(happened) \in Nat /\ Len(happened') \in Nat /\ m \in Numbers
  BY SceneAssumption DEF SceneTypes, Comes, Numbers
<1>2. m \in 1..Len(happened)
  <2>1. SUFFICES ASSUME m > Len(happened) PROVE FALSE
    BY <1>1
  <2>2. kept[m] = 0 /\ digested[m] \in Nat /\ forgone[m] \in Nat
    BY <1>1, <2>1 DEF SceneTypes
  <2>3. HeldIn(open, m) \in Nat /\ HeldIn(closed, m) \in Nat /\ HeldIn(batch, m) \in Nat
    BY HeldType DEF SceneTypes
  <2>4. kept[m] = HeldIn(open, m) + HeldIn(closed, m) + HeldIn(batch, m) + digested[m] + forgone[m]
    BY <1>1 DEF EventsAccounted
  <2> QED
    BY <2>2, <2>3, <2>4
<1>3. happened'[m] = happened[m]
  BY <1>2 DEF Comes
<1> QED
  BY <1>2, <1>3 DEF DoersRemember

LEMMA TakeInKeeps ==
    ASSUME SceneInv, NEW e, NEW n, Comes(e, n), TakeIn(e, n), repeated' \in Nat,
           Len(happened') + repeated' <= MaxHappenings
    PROVE  SceneInv'
<1>1. /\ SceneTypes /\ EventsAccounted /\ DoersRemember /\ (~disorder => InOrder)
      /\ UNCHANGED <<ticks, batch, flushing, digested, forgone, aware>>
  BY DEF SceneInv, ScenesKept, TakeIn
<1>2. /\ happened' \in Seq(EventSet) /\ Len(happened) <= Len(happened') /\ Len(happened) \in Nat
      /\ Len(happened') \in Nat
  BY <1>1 DEF Comes, SceneTypes
<1>3. /\ ticks' \in Nat /\ flushing' \in BOOLEAN /\ batch' \in Seq(SceneSet)
      /\ (~flushing' => batch' = <<>>)
      /\ digested' \in [Numbers -> Nat] /\ forgone' \in [Numbers -> Nat]
  BY <1>1 DEF SceneTypes
<1>4. Len(happened') <= MaxHappenings
  BY <1>2, SceneAssumption
<1>5. CASE Suppressed(e)
  <2>1. UNCHANGED <<open, latest, closed, kept, disorder>>
    BY <1>5 DEF TakeIn
  <2>2. \A m \in Numbers : m > Len(happened') => m > Len(happened)
    BY <1>2, SceneAssumption DEF Numbers
  <2>3. SceneTypes'
    <3>1. /\ open' \in Seq(SceneSet) /\ closed' \in Seq(SceneSet) /\ OneOfAnId(open')
          /\ \A i \in 1..Len(open') : Urgent(open'[i])
      BY <1>1, <2>1 DEF SceneTypes
    <3>2. /\ latest' \in [Places -> IdSet \cup {NoScene}]
          /\ \A p \in Places : latest'[p] # NoScene => latest'[p][1] = <<"place", p>>
      BY <1>1, <2>1 DEF SceneTypes
    <3>3. kept' \in [Numbers -> Nat] /\ \A m \in Numbers : m > Len(happened') => kept'[m] = 0
      BY <1>1, <2>1, <2>2 DEF SceneTypes
    <3>4. disorder' \in BOOLEAN
      BY <1>1, <2>1 DEF SceneTypes
    <3> QED
      BY <1>2, <1>3, <3>1, <3>2, <3>3, <3>4 DEF SceneTypes
  <2>4. EventsAccounted'
    BY <1>1, <2>1 DEF EventsAccounted
  <2>5. DoersRemember'
    BY <1>1, <1>4, <2>1, DoersStay
  <2>6. ASSUME ~disorder' PROVE InOrder'
    <3>1. InOrder
      BY <1>1, <2>1, <2>6
    <3>2. \A s : Peopled(s, happened) => Peopled(s, happened')
      BY <1>2 DEF Peopled, Comes
    <3>3. \A p, at : TakenAt(happened, kept, p, at) => TakenAt(happened', kept', p, at)
      <4>1. /\ \A m \in 1..Len(happened) : happened'[m] = happened[m]
            /\ 1..Len(happened) \subseteq 1..Len(happened')
        BY <1>2 DEF Comes
      <4> QED
        BY <2>1, <4>1 DEF TakenAt
    <3>4. \A s : GoesOn(s, happened, kept, latest) => GoesOn(s, happened', kept', latest')
      BY <2>1, <3>3 DEF GoesOn
    <3> QED
      BY <1>1, <2>1, <3>1, <3>2, <3>4 DEF InOrder
  <2> QED
    BY <2>3, <2>4, <2>5, <2>6 DEF SceneInv, ScenesKept
<1>6. CASE ~Suppressed(e)
  <2>1. PICK near \in SUBSET (Players \ {e.who}) : Upsert(e, n, near)
    BY <1>6 DEF TakeIn
  <2>2. near \in SUBSET Players
    OBVIOUS
  <2>3. PICK scene : PutInto(scene, e, n) /\ PutsIn(scene, e, n)
    BY <1>1, <2>1, <2>2, UpsertPuts
  <2>4. disorder' = (disorder \/ Late(e))
    BY <2>3 DEF PutsIn
  <2>5. disorder' \in BOOLEAN
    BY <2>4
  <2>6. SceneTypes'
    <3>1. /\ open' \in Seq(SceneSet) /\ closed' \in Seq(SceneSet) /\ OneOfAnId(open')
      BY <1>1, <2>3, PutResult
    <3>2. /\ \A i \in 1..Len(open') : Urgent(open'[i])
          /\ latest' \in [Places -> IdSet \cup {NoScene}]
          /\ \A p \in Places : latest'[p] # NoScene => latest'[p][1] = <<"place", p>>
          /\ kept' \in [Numbers -> Nat]
          /\ \A m \in Numbers : m > Len(happened') => kept'[m] = 0
      BY <1>1, <2>3, PutTypes
    <3> QED
      BY <1>2, <1>3, <2>5, <3>1, <3>2 DEF SceneTypes
  <2>7. EventsAccounted'
    BY <1>1, <2>3, PutAccounts
  <2>8. DoersRemember'
    BY <1>1, <1>4, <2>4, DoersStay
  <2>9. ~disorder' => InOrder'
    BY <1>1, <2>3, <2>4, PutInOrder
  <2> QED
    BY <2>6, <2>7, <2>8, <2>9 DEF SceneInv, ScenesKept
<1> QED
  BY <1>5, <1>6

(* The event that is taken in is the newest one, or one of the past.       *)
LEMMA IngestComes ==
    ASSUME SceneInv, Ingest
    PROVE  /\ \E e, n : Comes(e, n) /\ TakeIn(e, n)
           /\ Len(happened') + repeated' <= MaxHappenings /\ repeated' \in Nat
<1>1. PICK kind \in Happenings, who \in Players, place \in Places, delay \in Delays :
         LET e == [kind |-> kind, who |-> who, place |-> place,
                   at |-> IF delay > ticks THEN 0 ELSE ticks - delay]
         IN happened' = Append(happened, e) /\ TakeIn(e, Len(happened) + 1)
  BY DEF Ingest
<1> DEFINE e == [kind |-> kind, who |-> who, place |-> place,
                 at |-> IF delay > ticks THEN 0 ELSE ticks - delay]
           n == Len(happened) + 1
<1>2. happened' = Append(happened, e) /\ TakeIn(e, n)
  BY <1>1
<1>3. /\ ticks \in Nat /\ happened \in Seq(EventSet) /\ Len(happened) \in Nat /\ repeated \in Nat
      /\ Len(happened) + repeated < MaxHappenings /\ repeated' = repeated /\ MaxHappenings \in Nat
  BY SceneAssumption DEF SceneInv, SceneTypes, Ingest
<1>4. e \in EventSet
  <2>1. delay \in Nat
    BY SceneAssumption
  <2>2. (IF delay > ticks THEN 0 ELSE ticks - delay) \in Nat
    BY <1>3, <2>1
  <2> QED
    BY <2>2 DEF EventSet
<1> HIDE DEF e
<1>5. /\ happened' \in Seq(EventSet) /\ Len(happened') = n /\ happened'[n] = e
      /\ \A m \in 1..Len(happened) : happened'[m] = happened[m]
  BY <1>2, <1>3, <1>4
<1>6. Comes(e, n)
  BY <1>3, <1>4, <1>5 DEF Comes, Numbers
<1>7. Len(happened') + repeated' <= MaxHappenings /\ repeated' \in Nat
  BY <1>3, <1>5
<1> QED
  BY <1>2, <1>6, <1>7

LEMMA IngestAgainComes ==
    ASSUME SceneInv, IngestAgain
    PROVE  /\ \E e, n : Comes(e, n) /\ TakeIn(e, n)
           /\ Len(happened') + repeated' <= MaxHappenings /\ repeated' \in Nat
<1>1. PICK n \in 1..Len(happened) : TakeIn(happened[n], n)
  BY DEF IngestAgain
<1>2. /\ happened \in Seq(EventSet) /\ Len(happened) \in Nat /\ repeated \in Nat
      /\ Len(happened) + repeated < MaxHappenings /\ repeated' = repeated + 1
      /\ happened' = happened /\ MaxHappenings \in Nat
  BY SceneAssumption DEF SceneInv, SceneTypes, IngestAgain
<1>3. happened[n] \in EventSet
  BY <1>2, ElementOfSeq
<1>4. Comes(happened[n], n)
  BY <1>2, <1>3 DEF Comes, Numbers
<1>5. Len(happened') + repeated' <= MaxHappenings /\ repeated' \in Nat
  BY <1>2
<1> QED
  BY <1>1, <1>4, <1>5

LEMMA IngestKeeps == SceneInv /\ (Ingest \/ IngestAgain) => SceneInv'
<1> SUFFICES ASSUME SceneInv, Ingest \/ IngestAgain PROVE SceneInv'
  OBVIOUS
<1>1. /\ \E e, n : Comes(e, n) /\ TakeIn(e, n)
      /\ Len(happened') + repeated' <= MaxHappenings /\ repeated' \in Nat
  BY IngestComes, IngestAgainComes
<1> QED
  BY <1>1, TakeInKeeps

LEMMA FlushKeeps == SceneInv /\ FlushDue => SceneInv'
<1> SUFFICES ASSUME SceneInv, FlushDue PROVE SceneInv'
  OBVIOUS
<1> DEFINE due == {i \in 1..Len(open) : IsOver(open[i], FlushAt)}
           over == Only(open, due)
           rest == (1..Len(open)) \ due
           left == Only(open, rest)
<1>1. /\ SceneTypes /\ EventsAccounted /\ DoersRemember /\ (~disorder => InOrder)
  BY DEF SceneInv, ScenesKept
<1>2. /\ ~flushing /\ flushing' = TRUE /\ open' = left /\ batch' = closed \o over /\ closed' = <<>>
      /\ latest' = Forget({open[i].id : i \in due}, latest)
      /\ UNCHANGED <<ticks, happened, repeated, disorder, kept, digested, forgone, aware>>
  BY DEF FlushDue, Flush, sceneGhosts
<1> HIDE DEF due, rest
<1>3. open \in Seq(SceneSet) /\ closed \in Seq(SceneSet) /\ batch = <<>> /\ OneOfAnId(open)
  BY <1>1, <1>2 DEF SceneTypes
<1>4. /\ over \in Seq(SceneSet) /\ left \in Seq(SceneSet)
      /\ ComesFrom(over, open, due) /\ ComesFrom(left, open, rest)
  BY <1>3, OnlyTakes
<1> HIDE DEF over, left
<1>5. \A i \in 1..Len(over) : \E k \in 1..Len(open) : over[i] = open[k]
  <2>1. PICK src \in [1..Len(over) -> due \cap 1..Len(open)] :
           \A i \in 1..Len(over) : over[i] = open[src[i]]
    BY <1>4 DEF ComesFrom
  <2> QED
    BY <2>1
<1>6. PICK src \in [1..Len(left) -> rest \cap 1..Len(open)] :
         /\ \A i \in 1..Len(left) : left[i] = open[src[i]]
         /\ \A i, j \in 1..Len(left) : src[i] = src[j] => i = j
  BY <1>4 DEF ComesFrom
<1>7. \A i \in 1..Len(left) : src[i] \in 1..Len(open) /\ src[i] \notin due
  BY <1>6 DEF rest
<1>8. batch' \in Seq(SceneSet) /\ closed' \in Seq(SceneSet)
  BY <1>2, <1>3, <1>4, EmptySeq
<1>9. OneOfAnId(open') /\ \A i \in 1..Len(open') : Urgent(open'[i])
  <2>1. ASSUME NEW i \in 1..Len(left), NEW j \in 1..Len(left), left[i].id = left[j].id PROVE i = j
    <3>1. open[src[i]].id = open[src[j]].id
      BY <1>6, <2>1
    <3>2. src[i] = src[j]
      BY <1>3, <1>7, <3>1 DEF OneOfAnId
    <3> QED
      BY <1>6, <3>2
  <2>2. \A i \in 1..Len(left) : Urgent(left[i])
    BY <1>1, <1>6, <1>7 DEF SceneTypes
  <2> QED
    BY <1>2, <2>1, <2>2 DEF OneOfAnId
<1>10. /\ latest' \in [Places -> IdSet \cup {NoScene}]
       /\ \A p \in Places : latest'[p] # NoScene => latest'[p][1] = <<"place", p>>
       /\ \A p \in Places : latest'[p] = latest[p] \/ \E k \in due : latest[p] = open[k].id
  BY <1>1, <1>2 DEF SceneTypes, Forget
<1>11. SceneTypes'
  <2>1. /\ ticks' \in Nat /\ repeated' \in Nat /\ happened' \in Seq(EventSet)
        /\ Len(happened') + repeated' <= MaxHappenings
        /\ kept' \in [Numbers -> Nat] /\ digested' \in [Numbers -> Nat] /\ forgone' \in [Numbers -> Nat]
        /\ \A n \in Numbers : n > Len(happened') => kept'[n] = 0
    BY <1>1, <1>2 DEF SceneTypes
  <2>2. disorder' \in BOOLEAN
    BY <1>1, <1>2 DEF SceneTypes
  <2>3. flushing' \in BOOLEAN /\ (~flushing' => batch' = <<>>)
    BY <1>2
  <2>4. open' \in Seq(SceneSet)
    BY <1>2, <1>4
  <2> QED
    BY <1>8, <1>9, <1>10, <2>1, <2>2, <2>3, <2>4 DEF SceneTypes
<1>12. EventsAccounted'
  <2>1. SUFFICES ASSUME NEW n \in Numbers
                 PROVE  kept[n] = HeldIn(left, n) + HeldIn(<<>>, n) + HeldIn(closed \o over, n)
                                     + digested[n] + forgone[n]
    BY <1>2 DEF EventsAccounted
  <2>2. kept[n] = HeldIn(open, n) + HeldIn(closed, n) + HeldIn(<<>>, n) + digested[n] + forgone[n]
    BY <1>1, <1>3 DEF EventsAccounted
  <2>3. HeldIn(<<>>, n) = 0
    BY HeldInNone
  <2>4. HeldIn(closed \o over, n) = HeldIn(closed, n) + HeldIn(over, n)
    BY <1>3, <1>4, HeldInBoth
  <2>5. HeldIn(open, n) = HeldIn(over, n) + HeldIn(left, n)
    BY <1>3, HeldInParts DEF over, left, rest
  <2>6. /\ HeldIn(over, n) \in Nat /\ HeldIn(left, n) \in Nat /\ HeldIn(closed, n) \in Nat
        /\ HeldIn(open, n) \in Nat
    BY <1>3, <1>4, HeldType
  <2>7. digested[n] \in Nat /\ forgone[n] \in Nat
    BY <1>1 DEF SceneTypes
  <2> QED
    BY <2>2, <2>3, <2>4, <2>5, <2>6, <2>7
<1>13. DoersRemember'
  BY <1>1, <1>2 DEF DoersRemember
<1>14. ASSUME ~disorder' PROVE InOrder'
  <2>1. InOrder
    BY <1>1, <1>2, <1>14
  <2>2. ASSUME NEW i \in 1..Len(left)
        PROVE  Peopled(left[i], happened) /\ GoesOn(left[i], happened, kept, latest')
    <3>1. Peopled(left[i], happened) /\ GoesOn(left[i], happened, kept, latest)
      BY <1>6, <1>7, <2>1 DEF InOrder
    <3>2. ASSUME NEW p \in Places, latest[p] = left[i].id
          PROVE  latest'[p] = latest[p]
      <4>1. \A k \in due : open[k].id # left[i].id
        <5>1. due \subseteq 1..Len(open)
          BY DEF due
        <5> QED
          BY <1>3, <1>6, <1>7, <5>1 DEF OneOfAnId
      <4> QED
        BY <1>10, <3>2, <4>1
    <3>3. left[i].id[1][1] = "place" => left[i].id[1][2] \in Places
      <4>1. left[i] \in SceneSet
        BY <1>4, ElementOfSeq
      <4> QED
        BY <4>1 DEF SceneSet, IdSet
    <3>4. GoesOn(left[i], happened, kept, latest')
      BY <3>1, <3>2, <3>3 DEF GoesOn
    <3> QED
      BY <3>1, <3>4
  <2>3. ASSUME NEW i \in 1..Len(batch')
        PROVE  Peopled(batch'[i], happened)
    <3>1. /\ \A k \in 1..Len(closed) : Peopled(closed[k], happened)
          /\ \A k \in 1..Len(over) : Peopled(over[k], happened)
      BY <1>5, <2>1 DEF InOrder
    <3>2. batch' = closed \o over
      BY <1>2
    <3>3. /\ Len(batch') = Len(closed) + Len(over) /\ Len(closed) \in Nat /\ Len(over) \in Nat
          /\ batch'[i] = IF i <= Len(closed) THEN closed[i] ELSE over[i - Len(closed)]
      BY <1>3, <1>4, <3>2, ConcatProperties
    <3>4. IF i <= Len(closed) THEN i \in 1..Len(closed) ELSE i - Len(closed) \in 1..Len(over)
      BY <3>3
    <3> QED
      BY <3>1, <3>3, <3>4
  <2>4. \A i \in 1..Len(closed') : Peopled(closed'[i], happened)
    BY <1>2
  <2> QED
    BY <1>2, <2>2, <2>3, <2>4 DEF InOrder
<1> QED
  BY <1>11, <1>12, <1>13, <1>14 DEF SceneInv, ScenesKept

LEMMA PlusAdds ==
    ASSUME NEW f \in [Numbers -> Nat], NEW set
    PROVE  /\ Plus(f, set) \in [Numbers -> Nat]
           /\ \A n \in Numbers : Plus(f, set)[n] = f[n] + (IF n \in set THEN 1 ELSE 0)
BY DEF Plus

LEMMA CompactKeeps == SceneInv /\ CompactScene => SceneInv'
<1> SUFFICES ASSUME SceneInv, CompactScene PROVE SceneInv'
  OBVIOUS
<1> DEFINE scene == Head(batch)
           events == Range(scene.buffer)
<1>1. /\ SceneTypes /\ EventsAccounted /\ DoersRemember /\ (~disorder => InOrder)
  BY DEF SceneInv, ScenesKept
<1>2. /\ flushing /\ batch # <<>> /\ batch' = Tail(batch)
      /\ UNCHANGED <<ticks, happened, open, latest, closed, flushing, kept, repeated, disorder>>
  BY DEF CompactScene
<1>3. \/ digested' = Plus(digested, events) /\ forgone' = forgone
            /\ aware' = aware \cup (events \X scene.people)
      \/ digested' = digested /\ forgone' = Plus(forgone, events) /\ aware \subseteq aware'
  BY DEF CompactScene
<1>4. batch \in Seq(SceneSet) /\ digested \in [Numbers -> Nat] /\ forgone \in [Numbers -> Nat]
  BY <1>1 DEF SceneTypes
<1>5. /\ batch' \in Seq(SceneSet) /\ Len(batch) \in Nat \ {0} /\ scene = batch[1]
      /\ Len(batch') = Len(batch) - 1 /\ \A i \in 1..Len(batch') : batch'[i] = batch[i + 1]
  BY <1>2, <1>4
<1> HIDE DEF scene, events
<1>6. digested' \in [Numbers -> Nat] /\ forgone' \in [Numbers -> Nat]
  BY <1>3, <1>4, PlusAdds
<1>7. \A n \in Numbers : digested'[n] + forgone'[n]
                            = digested[n] + forgone[n] + (IF n \in events THEN 1 ELSE 0)
  <2>1. ASSUME NEW n \in Numbers
        PROVE  digested'[n] + forgone'[n] = digested[n] + forgone[n] + (IF n \in events THEN 1 ELSE 0)
    <3>1. digested[n] \in Nat /\ forgone[n] \in Nat /\ (IF n \in events THEN 1 ELSE 0) \in Nat
      BY <1>4
    <3>2. CASE digested' = Plus(digested, events) /\ forgone' = forgone
      <4>1. digested'[n] = digested[n] + (IF n \in events THEN 1 ELSE 0) /\ forgone'[n] = forgone[n]
        BY <1>4, <3>2, PlusAdds
      <4> QED
        BY <3>1, <4>1
    <3>3. CASE digested' = digested /\ forgone' = Plus(forgone, events)
      <4>1. forgone'[n] = forgone[n] + (IF n \in events THEN 1 ELSE 0) /\ digested'[n] = digested[n]
        BY <1>4, <3>3, PlusAdds
      <4> QED
        BY <3>1, <4>1
    <3> QED
      BY <1>3, <3>2, <3>3
  <2> QED
    BY <2>1
<1>8. SceneTypes'
  <2>1. /\ ticks' \in Nat /\ repeated' \in Nat /\ happened' \in Seq(EventSet)
        /\ Len(happened') + repeated' <= MaxHappenings
        /\ kept' \in [Numbers -> Nat] /\ \A n \in Numbers : n > Len(happened') => kept'[n] = 0
    BY <1>1, <1>2 DEF SceneTypes
  <2>2. disorder' \in BOOLEAN
    BY <1>1, <1>2 DEF SceneTypes
  <2>3. flushing' \in BOOLEAN /\ (~flushing' => batch' = <<>>)
    BY <1>2
  <2>4. /\ open' \in Seq(SceneSet) /\ closed' \in Seq(SceneSet) /\ OneOfAnId(open')
        /\ \A i \in 1..Len(open') : Urgent(open'[i])
    BY <1>1, <1>2 DEF SceneTypes
  <2>5. /\ latest' \in [Places -> IdSet \cup {NoScene}]
        /\ \A p \in Places : latest'[p] # NoScene => latest'[p][1] = <<"place", p>>
    BY <1>1, <1>2 DEF SceneTypes
  <2> QED
    BY <1>5, <1>6, <2>1, <2>2, <2>3, <2>4, <2>5 DEF SceneTypes
<1>9. EventsAccounted'
  <2>1. SUFFICES ASSUME NEW n \in Numbers
                 PROVE  kept[n] = HeldIn(open, n) + HeldIn(closed, n) + HeldIn(batch', n)
                                     + digested'[n] + forgone'[n]
    BY <1>2 DEF EventsAccounted
  <2>2. kept[n] = HeldIn(open, n) + HeldIn(closed, n) + HeldIn(batch, n) + digested[n] + forgone[n]
    BY <1>1 DEF EventsAccounted
  <2>3. HeldIn(batch, n) = Has(scene, n) + HeldIn(batch', n)
    BY <1>2, <1>4, HeldInLess DEF scene
  <2>4. Has(scene, n) = IF n \in events THEN 1 ELSE 0
    BY DEF Has, events
  <2>5. /\ HeldIn(open, n) \in Nat /\ HeldIn(closed, n) \in Nat /\ HeldIn(batch, n) \in Nat
        /\ HeldIn(batch', n) \in Nat
    BY <1>1, <1>5, HeldType DEF SceneTypes
  <2>6. /\ digested[n] \in Nat /\ forgone[n] \in Nat /\ digested'[n] \in Nat /\ forgone'[n] \in Nat
        /\ Has(scene, n) \in Nat
    BY <1>4, <1>6, <2>4
  <2>7. digested'[n] + forgone'[n] = digested[n] + forgone[n] + Has(scene, n)
    BY <1>7, <2>4
  <2> QED
    BY <2>2, <2>3, <2>5, <2>6, <2>7
<1>10. DoersRemember'
  <2> SUFFICES ASSUME ~disorder, NEW n \in 1..Len(happened), digested'[n] > 0,
                      NEW who \in People(happened[n])
               PROVE  <<n, who>> \in aware'
    BY <1>2 DEF DoersRemember
  <2>1. aware \subseteq aware'
    BY <1>3
  <2>2. CASE digested[n] > 0
    BY <1>1, <2>1, <2>2 DEF DoersRemember
  <2>3. CASE ~(digested[n] > 0)
    <3>1. n \in Numbers
      BY <1>1, SceneAssumption DEF SceneTypes, Numbers
    <3>2. digested' # digested
      BY <2>3
    <3>3. digested' = Plus(digested, events) /\ aware' = aware \cup (events \X scene.people)
      BY <1>3, <3>2
    <3>4. n \in events
      <4>1. n \notin events => digested'[n] = digested[n] + 0
        <5>1. digested'[n] = digested[n] + (IF n \in events THEN 1 ELSE 0)
          BY <1>4, <3>1, <3>3, PlusAdds
        <5> QED
          BY <5>1
      <4>2. digested[n] \in Nat
        BY <1>4, <3>1
      <4> QED
        BY <2>3, <4>1, <4>2
    <3>5. Peopled(scene, happened)
      BY <1>1, <1>5 DEF InOrder
    <3>6. who \in scene.people
      BY <3>4, <3>5 DEF Peopled, events
    <3> QED
      BY <3>3, <3>4, <3>6
  <2> QED
    BY <2>2, <2>3
<1>11. ~disorder' => InOrder'
  BY <1>1, <1>2, <1>5 DEF InOrder
<1> QED
  BY <1>8, <1>9, <1>10, <1>11 DEF SceneInv, ScenesKept

LEMMA StopKeeps == SceneInv /\ StopListening => SceneInv'
<1> SUFFICES ASSUME SceneInv, StopListening PROVE SceneInv'
  OBVIOUS
<1>1. /\ SceneTypes /\ EventsAccounted /\ DoersRemember
  BY DEF SceneInv, ScenesKept
<1>2. /\ open' = <<>> /\ closed' = <<>> /\ batch' = <<>> /\ flushing' = FALSE
      /\ latest' = [p \in Places |-> NoScene]
      /\ forgone' = [n \in Numbers |-> kept[n] - digested[n]]
      /\ UNCHANGED <<ticks, happened, kept, digested, aware, repeated, disorder>>
  BY DEF StopListening
<1>3. ASSUME NEW n \in Numbers
      PROVE  /\ forgone'[n] \in Nat /\ kept[n] = digested[n] + forgone'[n]
             /\ kept[n] \in Nat /\ digested[n] \in Nat
  <2>1. kept[n] = HeldIn(open, n) + HeldIn(closed, n) + HeldIn(batch, n) + digested[n] + forgone[n]
    BY <1>1 DEF EventsAccounted
  <2>2. HeldIn(open, n) \in Nat /\ HeldIn(closed, n) \in Nat /\ HeldIn(batch, n) \in Nat
    BY <1>1, HeldType DEF SceneTypes
  <2>3. kept[n] \in Nat /\ digested[n] \in Nat /\ forgone[n] \in Nat
    BY <1>1 DEF SceneTypes
  <2>4. forgone'[n] = kept[n] - digested[n]
    BY <1>2
  <2> QED
    BY <2>1, <2>2, <2>3, <2>4
<1>4. SceneTypes'
  <2>1. /\ ticks' \in Nat /\ repeated' \in Nat /\ happened' \in Seq(EventSet)
        /\ Len(happened') + repeated' <= MaxHappenings
        /\ kept' \in [Numbers -> Nat] /\ digested' \in [Numbers -> Nat]
        /\ \A n \in Numbers : n > Len(happened') => kept'[n] = 0
    BY <1>1, <1>2 DEF SceneTypes
  <2>2. forgone' \in [Numbers -> Nat]
    BY <1>2, <1>3
  <2>3. disorder' \in BOOLEAN
    BY <1>1, <1>2 DEF SceneTypes
  <2>4. flushing' \in BOOLEAN /\ batch' = <<>>
    BY <1>2
  <2>5. open' \in Seq(SceneSet) /\ closed' \in Seq(SceneSet) /\ batch' \in Seq(SceneSet)
    BY <1>2, EmptySeq
  <2>6. OneOfAnId(open') /\ \A i \in 1..Len(open') : Urgent(open'[i])
    <3>1. 1..Len(open') = {}
      BY <1>2
    <3> QED
      BY <3>1 DEF OneOfAnId
  <2>7. /\ latest' \in [Places -> IdSet \cup {NoScene}]
        /\ \A p \in Places : latest'[p] # NoScene => latest'[p][1] = <<"place", p>>
    BY <1>2
  <2> QED
    BY <2>1, <2>2, <2>3, <2>4, <2>5, <2>6, <2>7 DEF SceneTypes
<1>5. EventsAccounted'
  <2>1. SUFFICES ASSUME NEW n \in Numbers
                 PROVE  kept[n] = HeldIn(<<>>, n) + HeldIn(<<>>, n) + HeldIn(<<>>, n)
                                     + digested[n] + forgone'[n]
    BY <1>2 DEF EventsAccounted
  <2>2. HeldIn(<<>>, n) = 0
    BY HeldInNone
  <2> QED
    BY <1>3, <2>2
<1>6. DoersRemember'
  BY <1>1, <1>2 DEF DoersRemember
<1>7. InOrder'
  BY <1>2 DEF InOrder
<1> QED
  BY <1>4, <1>5, <1>6, <1>7 DEF SceneInv, ScenesKept

LEMMA SceneStepsKeep == SceneInv /\ [SceneNext]_sceneVars => SceneInv'
<1> SUFFICES ASSUME SceneInv, [SceneNext]_sceneVars PROVE SceneInv'
  OBVIOUS
<1>1. ticks \in Nat /\ flushing \in BOOLEAN /\ (~flushing => batch = <<>>)
  BY DEF SceneInv, SceneTypes
<1>2. CASE Ingest \/ IngestAgain
  BY <1>2, IngestKeeps
<1>4. CASE FlushDue
  BY <1>4, FlushKeeps
<1>5. CASE CompactScene
  BY <1>5, CompactKeeps
<1>6. CASE EndFlush
  BY <1>1, <1>6, SameScenes DEF EndFlush, sceneGhosts
<1>7. CASE PollDue
  BY <1>1, <1>7, SameScenes DEF PollDue, sceneGhosts
<1>8. CASE StopListening
  BY <1>8, StopKeeps
<1>9. CASE SceneTick
  BY <1>1, <1>9, SameScenes DEF SceneTick, sceneGhosts
<1>10. CASE UNCHANGED sceneVars
  BY <1>1, <1>10, SameScenes DEF sceneVars, sceneGhosts
<1> QED
  BY <1>2, <1>4, <1>5, <1>6, <1>7, <1>8, <1>9, <1>10 DEF SceneNext, FlushStep

(* For any agents, places, kinds of events, windows, delays and numbers of *)
(* open scenes: an event taken into the inbox is in one scene, one digest  *)
(* or given up, as often as it was taken in, and whoever did something     *)
(* that is in a digest remembers it, if events come in the order of their  *)
(* times (scene_inbox.py, scene_memory.py).                                *)
THEOREM ScenesStayKept == SceneSpec => []ScenesKept
<1>1. SceneInv => ScenesKept
  BY DEF SceneInv
<1> QED
  BY <1>1, ScenesAtFirst, SceneStepsKeep, PTL DEF SceneSpec

-----------------------------------------------------------------------------
(* The bridge within its bounds: what Redis and the cache know are errands *)
(* and the world knows the verbs that bots send.                           *)
BridgeBounds ==
    /\ now <= MaxNow /\ mishaps <= MaxMishaps
    /\ remembered \subseteq Errands /\ cached \subseteq Errands
    /\ \A t \in Errands : accepted[t] <= MaxDispatch /\ memories[t] <= MaxMemories
    /\ world \subseteq Verbs \X BOOLEAN

LEMMA BoundsStart == BridgeInit => BridgeBounds
BY BridgeAssumption DEF BridgeInit, BridgeBounds

(* What a step may do to them.                                             *)
LEMMA BoundsStep ==
    ASSUME BridgeTypes, BridgeBounds, NEW b \in Bots, OfBot(b)
    PROVE  BridgeBounds'
<1>t. /\ mishaps \in Nat /\ memories \in [Errands -> Nat] /\ MaxMishaps \in Nat /\ MaxMemories \in Nat
      /\ frame[b] \in Frames /\ FrameFits(frame[b])
  BY BridgeAssumption DEF BridgeTypes
<1>1. UNCHANGED <<now, accepted>>
  BY DEF OfBot, Receive, GateFails, LookupFails, CompactFails, Proceeds, Gate, Regate,
         DispatchInbound, Poll, SendErrand, Complete, Lock, Lookup, LookupIn, Compact, Store,
         queueVars, memoryVars
<1>2. mishaps' = mishaps \/ (mishaps < MaxMishaps /\ mishaps' = mishaps + 1)
  BY DEF OfBot, Receive, GateFails, LookupFails, CompactFails, Proceeds, Gate, Regate,
         DispatchInbound, Poll, SendErrand, Complete, Lock, Lookup, LookupIn, Compact, Store,
         queueVars, memoryVars
<1>3. remembered' \subseteq Errands /\ cached' \subseteq Errands
  <2>1. CASE Store(b)
    BY <1>t, <2>1 DEF Store, FrameFits, BridgeBounds
  <2>2. Store(b) \/ UNCHANGED <<remembered, cached>>
    BY DEF OfBot, Receive, GateFails, LookupFails, CompactFails, Proceeds, Gate, Regate,
           DispatchInbound, Poll, SendErrand, Complete, Lock, Lookup, LookupIn, Compact,
           queueVars, memoryVars
  <2> QED
    BY <2>1, <2>2 DEF BridgeBounds
<1>4. \A t \in Errands : memories'[t] <= MaxMemories
  <2>1. CASE Compact(b)
    <3>1. frame[b].errand \in Errands
      BY <1>t, <2>1 DEF Compact, FrameFits
    <3>2. /\ memories[frame[b].errand] < MaxMemories
          /\ memories' = [memories EXCEPT ![frame[b].errand] = @ + 1]
      BY <2>1 DEF Compact
    <3> QED
      BY <1>t, <3>1, <3>2 DEF BridgeBounds
  <2>2. Compact(b) \/ UNCHANGED memories
    BY DEF OfBot, Receive, GateFails, LookupFails, CompactFails, Proceeds, Gate, Regate,
           DispatchInbound, Poll, SendErrand, Complete, Lock, Lookup, LookupIn, Store,
           queueVars, memoryVars
  <2> QED
    BY <2>1, <2>2 DEF BridgeBounds
<1>5. world' \subseteq Verbs \X BOOLEAN
  <2>1. CASE Acts(b) /\ frame[b].step # "idle"
    BY <1>t, <2>1 DEF Acts, FrameFits, Frames, BridgeBounds
  <2>2. (Acts(b) /\ frame[b].step # "idle") \/ UNCHANGED world
    BY DEF OfBot, Receive, GateFails, LookupFails, CompactFails, Proceeds, Gate, Regate,
           DispatchInbound, Poll, SendErrand, Complete, Lock, Lookup, LookupIn, Compact, Store,
           queueVars, memoryVars
  <2> QED
    BY <2>1, <2>2 DEF BridgeBounds
<1> QED
  BY <1>t, <1>1, <1>2, <1>3, <1>4, <1>5 DEF BridgeBounds

LEMMA BoundsKept == BridgeTypes /\ BridgeBounds /\ [BridgeNext]_bridgeVars => BridgeBounds'
<1> SUFFICES ASSUME BridgeTypes, BridgeBounds, [BridgeNext]_bridgeVars PROVE BridgeBounds'
  OBVIOUS
<1>t. /\ now \in Nat /\ mishaps \in Nat /\ accepted \in [Errands -> Nat]
      /\ {MaxNow, MaxMishaps, MaxDispatch} \subseteq Nat
  BY BridgeAssumption DEF BridgeTypes
<1>1. ASSUME NEW t \in Errands, Dispatch(t) PROVE BridgeBounds'
  BY <1>1, <1>t DEF Dispatch, BridgeBounds, memoryVars
<1>2. CASE Tick
  BY <1>2, <1>t DEF Tick, BridgeBounds, queueVars, memoryVars
<1>3. CASE Switch
  BY <1>3 DEF Switch, BridgeBounds, queueVars, memoryVars
<1>4. CASE Restart
  BY <1>4, <1>t DEF Restart, BridgeBounds
<1>5. CASE UNCHANGED bridgeVars
  BY <1>5 DEF bridgeVars, BridgeBounds
<1> QED
  BY <1>1, <1>2, <1>3, <1>4, <1>5, BoundsStep, BridgeActors

(* The lock of an errand's completion is held exactly by the frame that is *)
(* between its lookup and its answer, whatever fails on the way and        *)
(* whenever the process restarts.                                          *)
THEOREM BridgeTypesCorrect == BridgeSpec => []BridgeTypeOK
<1>1. BridgeTypes /\ BridgeBounds /\ TtlInv /\ MemoryInv => BridgeTypeOK
  <2> SUFFICES ASSUME BridgeTypes, BridgeBounds, TtlInv, MemoryInv PROVE BridgeTypeOK
    OBVIOUS
  <2>t. /\ now \in Nat \ {0} /\ now <= MaxNow /\ mishaps \in Nat /\ mishaps <= MaxMishaps
        /\ {Ttl, MaxNow, MaxDispatch, MaxMemories, MaxMishaps} \subseteq Nat
        /\ seen \in [Errands -> Nat] /\ memories \in [Errands -> Nat] /\ accepted \in [Errands -> Nat]
    BY BridgeAssumption DEF BridgeTypes, BridgeBounds
  <2>1. now \in 1..MaxNow /\ mishaps \in 0..MaxMishaps
    BY <2>t
  <2>2. seen \in [Errands -> 0..(MaxNow + Ttl)]
    <3>1. \A t \in Errands : seen[t] \in 0..(MaxNow + Ttl)
      BY <2>t DEF TtlInv
    <3> QED
      BY <2>t, <3>1
  <2>3. memories \in [Errands -> 0..MaxMemories] /\ accepted \in [Errands -> 0..MaxDispatch]
    <3>1. \A t \in Errands : memories[t] \in 0..MaxMemories /\ accepted[t] \in 0..MaxDispatch
      BY <2>t DEF BridgeBounds
    <3> QED
      BY <2>t, <3>1
  <2>4. \A b \in Bots, t \in Errands :
           lock[t] = b <=> frame[b].errand = t /\ frame[b].step \in {"lookup", "compact", "store"}
    BY DEF MemoryInv, LocksHeld, Handles
  <2> QED
    BY <2>1, <2>2, <2>3, <2>4 DEF BridgeTypes, BridgeBounds, BridgeTypeOK
<1> QED
  BY <1>1, BridgeTypesStart, BridgeTypesKept, BoundsStart, BoundsKept, TtlStart, TtlKept,
     MemoryStart, MemoryKept, PTL DEF BridgeSpec

-----------------------------------------------------------------------------
(* Alliances within the bound on failed statements.                        *)
LossesBounded == losses <= MaxLosses

(* Every proposal keeps its row lock and every alliance its agents.        *)
THEOREM AllianceTypesCorrect == AllianceSpec => []AllianceTypeOK
<1>1. AllianceInit => LossesBounded
  BY AllianceAssumption DEF AllianceInit, LossesBounded
<1>2. AllianceInv /\ LossesBounded /\ [AllianceNext]_allianceVars => LossesBounded'
  <2> SUFFICES ASSUME AllianceInv, LossesBounded, [AllianceNext]_allianceVars
               PROVE  LossesBounded'
    OBVIOUS
  <2>1. losses' = losses \/ (losses < MaxLosses /\ losses' = losses + 1)
    BY DEF AllianceNext, allianceVars, CheckProposer, CreateProposal, UpdateVotes, Tally, Reject,
           Settle, CreateAlliance, AddFounder, AddInvitee, Accept, GetMembers, DissolveAlliance,
           EmptyAlliance, Loses, SelectForUpdate, RemoveMember
  <2> QED
    BY <2>1, AllianceAssumption DEF AllianceInv, AllianceTypes, LossesBounded
<1>3. AllianceInv /\ LossesBounded => AllianceTypeOK
  <2> SUFFICES ASSUME AllianceInv, LossesBounded PROVE AllianceTypeOK
    OBVIOUS
  <2>1. /\ DOMAIN proposal = 1..Len(proposal) /\ DOMAIN alliance = 1..Len(alliance)
        /\ DOMAIN rowLock = DOMAIN proposal
        /\ \A p \in 1..Len(proposal) : proposal[p] \in ProposalRows
        /\ \A x \in 1..Len(alliance) : alliance[x] \in AllianceRows
    BY DEF AllianceInv, AllianceTypes
  <2> QED
    BY <2>1 DEF AllianceTypeOK, ProposalRows, AllianceRows, LossesBounded
<1> QED
  BY <1>1, <1>2, <1>3, AllianceStart, AllianceKept, PTL DEF AllianceSpec

-----------------------------------------------------------------------------
(* The inbox holds no more scenes than it may, none of them empty, and the *)
(* scene that goes on at a place is open.                                  *)
InboxFits ==
    /\ Len(open) <= MaxOpen
    /\ \A i \in 1..Len(open) : open[i].buffer # <<>>
    /\ \A p \in Places : latest[p] = NoScene \/ \E i \in 1..Len(open) : open[i].id = latest[p]

LEMMA PutFits ==
    ASSUME SceneTypes, InboxFits, NEW e, NEW n, Comes(e, n), NEW scene, PutInto(scene, e, n),
           PutsIn(scene, e, n)
    PROVE  InboxFits'
<1> DEFINE u == Upserted(scene)
           trim == Len(u) > MaxOpen
<1>1. /\ open \in Seq(SceneSet) /\ OneOfAnId(open) /\ scene \in SceneSet /\ Len(open) \in Nat
      /\ MaxOpen \in Nat
  BY SceneAssumption DEF SceneTypes, PutInto
<1>2. u \in Seq(SceneSet) /\ Len(u) \in Nat
  BY <1>1, PutAmong
<1>3. PICK j \in 1..Len(u) :
        /\ u[j] = scene
        /\ \A i \in 1..Len(u) : i # j => i \in 1..Len(open) /\ u[i] = open[i] /\ open[i].id # scene.id
        /\ scene.id \in SceneIds => Len(u) = Len(open) /\ open[j].id = scene.id
        /\ scene.id \notin SceneIds => u = Append(open, scene)
  BY <1>1, PutAmong
<1>4. /\ open' = IF trim THEN Tail(u) ELSE u
      /\ latest' = IF trim THEN Forget({Head(u).id}, Now(scene, e)) ELSE Now(scene, e)
  BY DEF PutsIn
<1>5. scene.buffer # <<>>
  <2>1. n \in Range(scene.buffer)
    BY DEF PutInto
  <2> QED
    BY <2>1 DEF Range
<1> HIDE DEF u
<1>6. \A k \in 1..Len(open) : k \in 1..Len(u) /\ u[k].id = open[k].id
  <2>1. CASE scene.id \in SceneIds
    BY <1>3, <2>1
  <2>2. CASE scene.id \notin SceneIds
    BY <1>1, <1>3, <2>2
  <2> QED
    BY <2>1, <2>2
<1>7. Len(u) <= MaxOpen + 1
  <2>1. CASE scene.id \in SceneIds
    BY <1>1, <1>3, <2>1 DEF InboxFits
  <2>2. CASE scene.id \notin SceneIds
    <3>1. Len(u) = Len(open) + 1
      BY <1>1, <1>3, <2>2
    <3> QED
      BY <1>1, <3>1 DEF InboxFits
  <2> QED
    BY <2>1, <2>2
<1>8. \A i \in 1..Len(u) : u[i].buffer # <<>>
  BY <1>3, <1>5 DEF InboxFits
<1>9. \A p \in Places : Now(scene, e)[p] = NoScene \/ \E i \in 1..Len(u) : u[i].id = Now(scene, e)[p]
  <2> SUFFICES ASSUME NEW p \in Places
               PROVE  Now(scene, e)[p] = NoScene \/ \E i \in 1..Len(u) : u[i].id = Now(scene, e)[p]
    OBVIOUS
  <2>1. Now(scene, e)[p] \in {scene.id, latest[p]}
    BY DEF Now, SceneTypes
  <2>2. u[j].id = scene.id
    BY <1>3
  <2>3. latest[p] = NoScene \/ \E i \in 1..Len(open) : open[i].id = latest[p]
    BY DEF InboxFits
  <2> QED
    BY <1>3, <1>6, <2>1, <2>2, <2>3
<1>10. CASE ~trim
  <2>1. open' = u /\ latest' = Now(scene, e) /\ Len(u) <= MaxOpen
    BY <1>1, <1>2, <1>4, <1>10
  <2> QED
    BY <1>8, <1>9, <2>1 DEF InboxFits
<1>11. CASE trim
  <2>1. u # <<>> /\ open' = Tail(u) /\ latest' = Forget({Head(u).id}, Now(scene, e))
    BY <1>1, <1>2, <1>4, <1>11
  <2>2. /\ Len(open') = Len(u) - 1 /\ Head(u) = u[1]
        /\ \A i \in 1..Len(open') : i + 1 \in 1..Len(u) /\ open'[i] = u[i + 1]
        /\ \A i \in 1..Len(u) : i # 1 => i - 1 \in 1..Len(open') /\ open'[i - 1] = u[i]
    BY <1>2, <2>1
  <2>3. Len(open') <= MaxOpen
    BY <1>1, <1>2, <1>7, <2>2
  <2>4. \A i \in 1..Len(open') : open'[i].buffer # <<>>
    BY <1>8, <2>2
  <2>5. ASSUME NEW p \in Places
        PROVE  latest'[p] = NoScene \/ \E i \in 1..Len(open') : open'[i].id = latest'[p]
    <3>1. latest'[p] = IF Now(scene, e)[p] = u[1].id THEN NoScene ELSE Now(scene, e)[p]
      BY <2>1, <2>2 DEF Forget
    <3>2. CASE Now(scene, e)[p] # u[1].id /\ Now(scene, e)[p] # NoScene
      <4>1. PICK i \in 1..Len(u) : u[i].id = Now(scene, e)[p]
        BY <1>9, <3>2
      <4>2. i # 1
        BY <3>2, <4>1
      <4> QED
        BY <2>2, <3>1, <3>2, <4>1, <4>2
    <3> QED
      BY <3>1, <3>2
  <2> QED
    BY <2>3, <2>4, <2>5 DEF InboxFits
<1> QED
  BY <1>10, <1>11

LEMMA TakeInFits ==
    ASSUME SceneInv, InboxFits, NEW e, NEW n, Comes(e, n), TakeIn(e, n)
    PROVE  InboxFits'
<1>1. CASE Suppressed(e)
  BY <1>1 DEF TakeIn, InboxFits
<1>2. CASE ~Suppressed(e)
  <2>1. PICK near \in SUBSET (Players \ {e.who}) : Upsert(e, n, near)
    BY <1>2 DEF TakeIn
  <2>2. SceneTypes /\ near \in SUBSET Players
    BY DEF SceneInv
  <2>3. PICK scene : PutInto(scene, e, n) /\ PutsIn(scene, e, n)
    BY <2>1, <2>2, UpsertPuts
  <2> QED
    BY <2>2, <2>3, PutFits
<1> QED
  BY <1>1, <1>2

(* What is left open by a flush is all that was not due.                   *)
LEMMA OnlyKeeps ==
    ASSUME NEW S, NEW s \in Seq(S), NEW places
    PROVE  /\ Len(Only(s, places)) <= Len(s)
           /\ \A k \in places \cap 1..Len(s) : \E i \in 1..Len(Only(s, places)) : Only(s, places)[i] = s[k]
<1> DEFINE r == Only(s, places)
<1>1. r = Sifted(s, places)
  BY DEF Only, Sifted
<1>2. r \in Seq(S) /\ \E src : TakenFrom(src, r, s, places, Len(s))
  BY <1>1, SiftedIsTaken
<1> HIDE DEF r
<1>3. PICK src : TakenFrom(src, r, s, places, Len(s))
  BY <1>2
<1>4. /\ src \in [1..Len(r) -> places \cap 1..Len(s)]
      /\ \A a, b \in 1..Len(r) : src[a] = src[b] => a = b
      /\ \A t \in places \cap 1..Len(s) : \E k \in 1..Len(r) : src[k] = t
      /\ \A k \in 1..Len(r) : r[k] = s[src[k]]
  BY <1>3 DEF TakenFrom, Bijection, Injection, Surjection, IsInjective
<1>5. src \in [1..Len(r) -> 1..Len(s)]
  BY <1>4
<1>6. src \in Injection(1..Len(r), 1..Len(s))
  BY <1>4, <1>5 DEF Injection, IsInjective
<1>7. /\ IsFiniteSet(1..Len(s)) /\ Cardinality(1..Len(s)) = Len(s)
      /\ Cardinality(1..Len(r)) = Len(r)
  <2>1. Len(r) \in Nat /\ Len(s) \in Nat
    BY <1>2
  <2>2. \A k \in Nat : IsFiniteSet(1..k) /\ Cardinality(1..k) = k
    BY FS_Interval
  <2> QED
    BY <2>1, <2>2
<1>8. Len(r) <= Len(s)
  BY <1>6, <1>7, FS_Injection
<1> QED
  BY <1>4, <1>8 DEF r

LEMMA FlushFits == SceneInv /\ InboxFits /\ FlushDue => InboxFits'
<1> SUFFICES ASSUME SceneInv, InboxFits, FlushDue PROVE InboxFits'
  OBVIOUS
<1> DEFINE due == {i \in 1..Len(open) : IsOver(open[i], FlushAt)}
           rest == (1..Len(open)) \ due
           left == Only(open, rest)
<1>1. open \in Seq(SceneSet) /\ OneOfAnId(open) /\ Len(open) \in Nat /\ MaxOpen \in Nat
  BY SceneAssumption DEF SceneInv, SceneTypes
<1>2. open' = left /\ latest' = Forget({open[i].id : i \in due}, latest) /\ due \subseteq 1..Len(open)
  BY DEF FlushDue, Flush
<1> HIDE DEF due
<1>3. /\ left \in Seq(SceneSet) /\ Len(left) <= Len(open) /\ ComesFrom(left, open, rest)
      /\ \A k \in rest \cap 1..Len(open) : \E i \in 1..Len(left) : left[i] = open[k]
  BY <1>1, OnlyTakes, OnlyKeeps
<1> HIDE DEF left
<1>4. Len(left) <= MaxOpen
  BY <1>1, <1>3 DEF InboxFits
<1>5. \A i \in 1..Len(left) : left[i].buffer # <<>>
  <2>1. \A i \in 1..Len(left) : \E k \in 1..Len(open) : left[i] = open[k]
    BY <1>3 DEF ComesFrom
  <2> QED
    BY <2>1 DEF InboxFits
<1>6. ASSUME NEW p \in Places, latest'[p] # NoScene
      PROVE  \E i \in 1..Len(left) : left[i].id = latest'[p]
  <2>1. latest'[p] = latest[p] /\ latest[p] \notin {open[i].id : i \in due} /\ latest[p] # NoScene
    BY <1>2, <1>6 DEF Forget
  <2>2. PICK k \in 1..Len(open) : open[k].id = latest[p]
    BY <2>1 DEF InboxFits
  <2>3. k \in rest \cap 1..Len(open)
    BY <2>1, <2>2
  <2> QED
    BY <1>3, <2>1, <2>2, <2>3
<1> QED
  BY <1>2, <1>4, <1>5, <1>6 DEF InboxFits

LEMMA InboxStays == SceneInv /\ InboxFits /\ [SceneNext]_sceneVars => InboxFits'
<1> SUFFICES ASSUME SceneInv, InboxFits, [SceneNext]_sceneVars PROVE InboxFits'
  OBVIOUS
<1>1. CASE Ingest \/ IngestAgain
  <2>1. PICK e, n : Comes(e, n) /\ TakeIn(e, n)
    BY <1>1, IngestComes, IngestAgainComes
  <2> QED
    BY <2>1, TakeInFits
<1>3. CASE FlushDue
  BY <1>3, FlushFits
<1>4. CASE CompactScene \/ EndFlush \/ PollDue \/ SceneTick \/ UNCHANGED sceneVars
  BY <1>4 DEF CompactScene, EndFlush, PollDue, SceneTick, sceneVars, InboxFits
<1>5. CASE StopListening
  <2>1. open' = <<>> /\ latest' = [p \in Places |-> NoScene]
    BY <1>5 DEF StopListening
  <2>2. Len(open') = 0 /\ 1..Len(open') = {}
    BY <2>1
  <2> QED
    BY <2>1, <2>2, SceneAssumption DEF InboxFits
<1> QED
  BY <1>1, <1>3, <1>4, <1>5 DEF SceneNext, FlushStep

(* For any limit of open scenes: the inbox holds no more, no two of one id *)
(* and none empty, and the scene that goes on at a place is among them, so *)
(* that nothing is added to a scene that was closed.                       *)
THEOREM SceneTypesCorrect == SceneSpec => []SceneTypeOK
<1>1. SceneInit => InboxFits
  <2> SUFFICES ASSUME SceneInit PROVE InboxFits
    OBVIOUS
  <2>1. Len(open) = 0 /\ 1..Len(open) = {} /\ \A p \in Places : latest[p] = NoScene
    BY DEF SceneInit
  <2> QED
    BY <2>1, SceneAssumption DEF InboxFits
<1>2. SceneInv /\ InboxFits => SceneTypeOK
  <2> SUFFICES ASSUME SceneInv, InboxFits PROVE SceneTypeOK
    OBVIOUS
  <2>1. open \in Seq(SceneSet) /\ OneOfAnId(open) /\ Len(open) \in Nat
    BY DEF SceneInv, SceneTypes
  <2>2. Cardinality(SceneIds) = Len(open)
    <3> DEFINE f == [i \in 1..Len(open) |-> open[i].id]
    <3>1. f \in [1..Len(open) -> SceneIds] /\ \A i \in 1..Len(open) : f[i] = open[i].id
      BY DEF SceneIds
    <3>2. \A y \in SceneIds : \E i \in 1..Len(open) : f[i] = y
      BY <3>1 DEF SceneIds
    <3>3. \A i, k \in 1..Len(open) : f[i] = f[k] => i = k
      BY <2>1, <3>1 DEF OneOfAnId
    <3> HIDE DEF f
    <3>4. f \in Bijection(1..Len(open), SceneIds)
      BY <3>1, <3>2, <3>3 DEF Bijection, Injection, Surjection, IsInjective
    <3>5. IsFiniteSet(1..Len(open)) /\ Cardinality(1..Len(open)) = Len(open)
      BY <2>1, FS_Interval
    <3> QED
      BY <3>4, <3>5, FS_Bijection DEF ExistsBijection
  <2>3. \A p \in Places : latest[p] \in SceneIds \cup {NoScene}
    BY DEF InboxFits, SceneIds
  <2>4. \A i \in 1..Len(open) : open[i].people \subseteq Players /\ open[i].buffer # <<>>
    <3>1. \A i \in 1..Len(open) : open[i] \in SceneSet
      BY <2>1
    <3> QED
      BY <3>1 DEF InboxFits, SceneSet
  <2> QED
    BY <2>2, <2>3, <2>4 DEF SceneTypeOK, InboxFits
<1> QED
  BY <1>1, <1>2, InboxStays, ScenesAtFirst, SceneStepsKeep, PTL DEF SceneSpec

=============================================================================
