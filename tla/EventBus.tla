------------------------------ MODULE EventBus ------------------------------
(***************************************************************************)
(* The WebSocket event bus (core/event_bus.py): emit appends an event to   *)
(* the history, runs the callbacks and broadcasts; connect checks the      *)
(* limit, accepts, registers the client and sends it the history.  Both    *)
(* are coroutines: every await (accept, a callback, a send) lets the       *)
(* others run.  _lock is only held over code without an await, so it never *)
(* blocks.                                                                 *)
(***************************************************************************)
EXTENDS Naturals, Sequences, FiniteSets

CONSTANTS Sockets,         \* WebSockets that may connect
          Emitters,        \* coroutines that emit
          MaxConnections,  \* MAX_CONNECTIONS
          HistorySize,     \* HISTORY_BUFFER_SIZE
          MaxEvents        \* bound on the events emitted

ASSUME BusAssumption ==
    /\ IsFiniteSet(Sockets)
    /\ MaxConnections \in Nat /\ HistorySize \in Nat \ {0} /\ MaxEvents \in Nat

VARIABLES clients,  \* _clients
          socket,   \* how far connect() has got with each socket
          welcome,  \* the history message under way to each new client
          history,  \* _history: numbers of the buffered events
          kinds,    \* the events so far: "normal" or "error" (SIMULATION_ERROR)
          emitting, \* per coroutine, the stack of emit() calls it is in
          got,      \* ghost: events each socket has received
          missed,   \* ghost: events that had left the buffer when each one joined
          raced     \* ghost: a connect passed the limit check during another one

busVars == <<clients, socket, welcome, history, kinds, emitting, got, missed, raced>>

Events == 1..MaxEvents

(* emit() is in its callbacks, or awaits the sends to a snapshot of the    *)
(* clients.                                                                *)
Call(step, n, to) == [step |-> step, event |-> n, to |-> to]

BusInit ==
    /\ clients = {}
    /\ socket = [s \in Sockets |-> "new"]
    /\ welcome = [s \in Sockets |-> {}]
    /\ history = <<>>
    /\ kinds = <<>>
    /\ emitting = [e \in Emitters |-> <<>>]
    /\ got = [s \in Sockets |-> {}]
    /\ missed = [s \in Sockets |-> {}]
    /\ raced = FALSE

-----------------------------------------------------------------------------
(* connect: the limit and the origin are checked, then accept is awaited.  *)
Connect(s) ==
    /\ socket[s] = "new"
    /\ socket' = [socket EXCEPT ![s] =
          IF Cardinality(clients) >= MaxConnections THEN "gone" ELSE "accepting"]
    /\ raced' = (raced \/ \E other \in Sockets : socket[other] = "accepting")
    /\ UNCHANGED <<clients, welcome, history, kinds, emitting, got, missed>>

Buffered == {history[i] : i \in DOMAIN history}

(* Mutant: the history message is made before accept is awaited, here when *)
(* the buffer is still empty.                                              *)
RegisterWithoutHistory(s) ==
    /\ socket[s] = "accepting"
    /\ clients' = clients \cup {s}
    /\ socket' = [socket EXCEPT ![s] = "live"]
    /\ missed' = [missed EXCEPT ![s] = (1..Len(kinds)) \ Buffered]
    /\ UNCHANGED <<welcome, history, kinds, emitting, got, raced>>

(* accept returns: the client is registered, and the history as it is now  *)
(* is under way to it.                                                     *)
Register(s) ==
    /\ socket[s] = "accepting"
    /\ clients' = clients \cup {s}
    /\ welcome' = [welcome EXCEPT ![s] = Buffered]
    /\ socket' = [socket EXCEPT ![s] = IF history = <<>> THEN "live" ELSE "greeting"]
    /\ missed' = [missed EXCEPT ![s] = (1..Len(kinds)) \ Buffered]
    /\ UNCHANGED <<history, kinds, emitting, got, raced>>

(* The history arrives, or the send raises and the client is dropped.      *)
Greet(s) ==
    /\ socket[s] = "greeting"
    /\ socket' = [socket EXCEPT ![s] = "live"]
    /\ got' = [got EXCEPT ![s] = @ \cup welcome[s]]
    /\ UNCHANGED <<clients, welcome, history, kinds, emitting, missed, raced>>

(* The socket closes: accept, the send of the history or the receive loop  *)
(* of the endpoint raises, and the client is popped.                       *)
Disconnect(s) ==
    /\ socket[s] \in {"accepting", "greeting", "live"}
    /\ socket' = [socket EXCEPT ![s] = "gone"]
    /\ clients' = clients \ {s}
    /\ UNCHANGED <<welcome, history, kinds, emitting, got, missed, raced>>

(* The peer vanishes without a close: only a failing send will tell.       *)
Vanish(s) ==
    /\ socket[s] = "live"
    /\ socket' = [socket EXCEPT ![s] = "dead"]
    /\ UNCHANGED <<clients, welcome, history, kinds, emitting, got, missed, raced>>

(* shutdown: all clients are forgotten, then closed.                       *)
Shutdown ==
    /\ clients # {}
    /\ clients' = {}
    /\ socket' = [s \in Sockets |-> IF s \in clients THEN "gone" ELSE socket[s]]
    /\ UNCHANGED <<welcome, history, kinds, emitting, got, missed, raced>>

-----------------------------------------------------------------------------
(* deque(maxlen=HistorySize).append.                                       *)
Remember(h, n) == IF Len(h) < HistorySize THEN Append(h, n) ELSE Append(Tail(h), n)

(* emit called by coroutine e, at the top or from a failing callback.      *)
StartEmit(e, kind) ==
    LET n == Len(kinds) + 1 IN
    /\ n <= MaxEvents
    /\ kinds' = Append(kinds, kind)
    /\ history' = Remember(history, n)
    /\ emitting' = [emitting EXCEPT ![e] = Append(@, Call("callbacks", n, {}))]
    /\ UNCHANGED <<clients, socket, welcome, got, missed, raced>>

Emit(e) == emitting[e] = <<>> /\ StartEmit(e, "normal")

Top(e) == emitting[e][Len(emitting[e])]
Pop(e) == SubSeq(emitting[e], 1, Len(emitting[e]) - 1)

InCallbacks(e) == emitting[e] # <<>> /\ Top(e).step = "callbacks"

(* A callback raises: reported by an event of its own, unless the event is *)
(* such a report itself.                                                   *)
CallbackFails(e) == InCallbacks(e) /\ kinds[Top(e).event] # "error" /\ StartEmit(e, "error")

(* The callbacks are through: _broadcast takes its snapshot of the clients.*)
Snapshot(e) ==
    /\ InCallbacks(e)
    /\ emitting' = [emitting EXCEPT ![e] = Append(Pop(e), Call("sending", Top(e).event, clients))]
    /\ UNCHANGED <<clients, socket, welcome, history, kinds, got, missed, raced>>

(* The sends are through, with whatever clients have become: those whose   *)
(* send raised are popped; emit returns to the callback it was called in,  *)
(* if any.                                                                 *)
Broadcast(e) ==
    /\ emitting[e] # <<>>
    /\ Top(e).step = "sending"
    /\ \E failed \in SUBSET Top(e).to :
          /\ {s \in Top(e).to : socket[s] \in {"gone", "dead"}} \subseteq failed
          /\ got' = [s \in Sockets |->
                IF s \in Top(e).to \ failed THEN got[s] \cup {Top(e).event} ELSE got[s]]
          /\ clients' = clients \ failed
    /\ emitting' = [emitting EXCEPT ![e] = Pop(e)]
    /\ UNCHANGED <<socket, welcome, history, kinds, missed, raced>>

-----------------------------------------------------------------------------
BusNext ==
    \/ \E s \in Sockets :
          Connect(s) \/ Register(s) \/ Greet(s) \/ Disconnect(s) \/ Vanish(s)
    \/ \E e \in Emitters : Emit(e) \/ CallbackFails(e) \/ Snapshot(e) \/ Broadcast(e)
    \/ Shutdown

BusSpec == BusInit /\ [][BusNext]_busVars

-----------------------------------------------------------------------------
(* Types of all the variables; emit() is never more than one level deep in *)
(* reports of failing callbacks.                                           *)
BusTypeOK ==
    /\ clients \subseteq Sockets
    /\ socket \in [Sockets -> {"new", "accepting", "greeting", "live", "dead", "gone"}]
    /\ welcome \in [Sockets -> SUBSET Events]
    /\ history \in Seq(Events) /\ Len(history) <= HistorySize
    /\ kinds \in Seq({"normal", "error"}) /\ Len(kinds) <= MaxEvents
    /\ \A e \in Emitters :
          /\ Len(emitting[e]) <= 2
          /\ \A i \in DOMAIN emitting[e] :
                emitting[e][i] \in [step : {"callbacks", "sending"}, event : Events,
                                    to : SUBSET Sockets]
    /\ got \in [Sockets -> SUBSET Events]
    /\ missed \in [Sockets -> SUBSET Events]
    /\ raced \in BOOLEAN

InFlight ==
    {n \in Events : \E e \in Emitters : \E i \in DOMAIN emitting[e] : emitting[e][i].event = n}

(* A connected client has every event: those still buffered when it joined *)
(* come with the history, all later ones by broadcast.  Nothing falls      *)
(* between the two although emit and connect interleave at every await.    *)
NoEventMissed ==
    \A s \in clients : socket[s] = "live" =>
        (1..Len(kinds)) \ InFlight \subseteq got[s] \cup missed[s]

(* The connection limit is checked before accept is awaited: it can only   *)
(* be exceeded by handshakes that overlap.                                 *)
LimitNeedsRace == ~raced => Cardinality(clients) <= MaxConnections

(* Clients get every event, and there are as many as are allowed.          *)
BusSound == NoEventMissed /\ LimitNeedsRace

=============================================================================
