------------------------------ MODULE Updates -------------------------------
(***************************************************************************)
(* What becomes of an update TDLib delivers: UpdateRouter::onUpdate        *)
(* (src/src/ws/update_router.cpp) on the receiver thread numbers it, fans  *)
(* it out to the WebSocket subscribers and hands it to the Kafka sink.     *)
(* Composes WsRegistry and KafkaSink with the receiver and the shutdown    *)
(* tail of src/src/main.cpp, over restarts of the process.                 *)
(*                                                                         *)
(* The branches of onUpdate that do not forward (authorization and         *)
(* connection state, confirmations, the webhook hook) are in Session,      *)
(* TdBridge, SendMessage and OwnerTrigger.                                 *)
(***************************************************************************)
EXTENDS WsRegistry, KafkaSink, SequencesExt

CONSTANTS
    Incoming,    \* updates TDLib may deliver: [kind, chat, whole], where whole
                 \* says that the object inside it is there
    NoChat,      \* the key of an event without a chat
    MaxUpdates,  \* bound: updates forwarded in all
    MaxRestarts  \* bound: restarts of the process

ASSUME UpdatesAssumption == MaxUpdates \in Nat /\ MaxRestarts \in Nat

VARIABLES
    receiver,  \* "idle", "busy" with an update, or "joined"
    seq,       \* seq_
    current,   \* the update under way
    seen,      \* history: updates forwarded in all
    boot,      \* restarts so far
    shutdown   \* the tail of main: "none", "flush", "ended"

routerVars == <<receiver, seq, current>>
worldVars == <<seen, boot, shutdown>>
vars == <<connVars, sinkVars, routerVars, worldVars>>

RouterInit ==
    /\ receiver = "idle" /\ seq = 0 /\ current = {}
    /\ shutdown = "none"

Init == ConnInit /\ SinkInit /\ RouterInit /\ seen = 0 /\ boot = 0

-----------------------------------------------------------------------------
(* onUpdate *)

\* buildForwardable: the allowlist.  A message or a chat that is missing makes
\* the update internal; the other kinds do without what is missing.
Forwardable(u) ==
    u.kind \in Types /\ (u.kind \in {"updateNewMessage", "updateNewChat"} => u.whole)

\* The chat in the key of the event: a chat knows its id as "id", a status has
\* none, and a confirmation has it in its message.
KeyOf(u) ==
    IF \/ u.kind \in {"updateNewChat", "updateUserStatus"}
       \/ u.kind \in {"updateMessageSendSucceeded", "updateMessageSendFailed"} /\ ~u.whole
    THEN NoChat ELSE u.chat

Event(s, u) == [seq |-> s, key |-> KeyOf(u), nr |-> seen]

\* The number is taken, and fanOut() begins.
Receive(u) ==
    /\ receiver = "idle" /\ Forwardable(u) /\ seen < MaxUpdates
    /\ seq' = seq + 1 /\ seen' = seen + 1 /\ current' = {u}
    /\ Snapshot(seq + 1, u.kind)
    /\ receiver' = "busy"
    /\ UNCHANGED <<sinkVars, boot, shutdown>>

Publish ==
    /\ receiver = "busy" /\ FanOutDone
    /\ \E u \in current : Produce(Event(seq, u))
    /\ receiver' = "idle" /\ current' = {} /\ payload' = {}
    /\ UNCHANGED <<linkVars, slow, alive, seq, worldVars>>

ReceiverStep ==
    \/ \E u \in Incoming : Receive(u)
    \/ \E c \in Conns : (ForceClose(c) \/ SendUpdate(c))
                          /\ UNCHANGED <<sinkVars, routerVars, worldVars>>
    \/ Publish

-----------------------------------------------------------------------------
(* Shutdown and restart *)

\* run() has returned, so the loops of the connections are gone, and
\* bridge.stop() has joined the receiver; flush() stops the worker.
Flush ==
    /\ shutdown = "none" /\ receiver = "idle"
    /\ receiver' = "joined" /\ shutdown' = "flush"
    /\ DropAll /\ StopWorker
    /\ UNCHANGED <<seq, current, seen, boot>>

\* It returns when the worker has ended and librdkafka has had its 10 s.
FlushReturns ==
    /\ shutdown = "flush" /\ worker = "done"
    /\ shutdown' = "ended"
    /\ UNCHANGED <<connVars, sinkVars, routerVars, seen, boot>>

\* The next process, after the end of this one or a crash: no connection is
\* left, the queue is empty and the numbers start anew.
Restart ==
    /\ boot < MaxRestarts /\ boot' = boot + 1
    /\ DropAll /\ Forget
    /\ receiver' = "idle" /\ seq' = 0 /\ current' = {}
    /\ shutdown' = "none" /\ UNCHANGED seen

\* The last process has ended; nothing else may ever be stuck.
Done == shutdown = "ended" /\ boot = MaxRestarts /\ UNCHANGED vars

Next ==
    \/ ReceiverStep
    \/ ConnStep /\ UNCHANGED <<sinkVars, routerVars, worldVars>>
    \/ WorkerStep /\ UNCHANGED <<connVars, routerVars, worldVars>>
    \/ Flush \/ FlushReturns \/ Restart \/ Done

Spec == Init /\ [][Next]_vars

-----------------------------------------------------------------------------
(* Properties *)

Events == [seq : 1 .. MaxUpdates, key : {u.chat : u \in Incoming} \cup {NoChat},
           nr : 1 .. MaxUpdates]

TypeOK ==
    /\ ConnTypeOK /\ SinkTypeOK(Events)
    /\ receiver \in {"idle", "busy", "joined"}
    /\ seq \in 0 .. MaxUpdates
    /\ current = {} \/ \E u \in Incoming : current = {u}
    /\ seen \in seq .. MaxUpdates /\ boot \in 0 .. MaxRestarts
    /\ shutdown \in {"none", "flush", "ended"}

\* A subscriber gets the updates in the order of their numbers (ws_registry.hpp:
\* 13-15) and, while it has not asked for a filter, without a gap from its first one
\* on: slow, closing and arriving connections cost the others nothing.
Subscribed(c) == Ack(filter[c]) \in handler[c] \/ Places(c, "subscribed") # {}
InOrder ==
    \A c \in Conns : link[c] = "open" =>
        LET sent == Places(c, "update")
            nr(i) == wire[c][i].seq
            last == IF c \in alive \cup slow THEN seq - 1 ELSE seq
        IN  /\ \A i, j \in sent : i < j => nr(i) < nr(j)
            /\ ~Subscribed(c) =>
                 \A i \in sent : \A s \in nr(i) .. last : \E j \in sent : nr(j) = s

\* Behind the acknowledgement of its filter a client meets at most one update
\* the filter excludes, the one being sent when it was set (updates_ws.cpp:104-110).
\* Said of an open connection once its handler has sent the acknowledgement.
LastAck(c, k) ==
    k \in Places(c, "subscribed") /\ \A n \in Places(c, "subscribed") : n <= k
Stale(c, n) == n \in Places(c, "update") /\ ~Admits(filter[c], wire[c][n].type)
OneStaleFrame ==
    \A c \in Conns : link[c] = "open" /\ ~Busy(c) =>
        \A k, m, n \in DOMAIN wire[c] :
            LastAck(c, k) /\ k < m /\ Stale(c, m) /\ k < n /\ Stale(c, n) => m = n

\* A client that has stopped reading is cut off at the limit: since its last pong it
\* is sent no more than the limit and the frame that was under way when the
\* pong came, whatever is being sent to others (ws_registry.cpp:70-84).
SlowIsCut ==
    MaxPending # 0 =>
        \A c \in Conns : Cardinality(Places(c, "update")) - pongAt[c] <= MaxPending

\* Kafka is handed every update of the process once and in order, but for the
\* dropped ones, although queue and batch are swapped to and fro; and flush()
\* leaves none behind that produce() had accepted (kafka_sink.cpp:71-133).
OnTheWay == batch \o queue
HandedOverOnce ==
    LET events == topic \o OnTheWay
        published == IF receiver = "busy" THEN seen - 1 ELSE seen
    IN  /\ \A i, j \in DOMAIN events : i < j => events[i].nr < events[j].nr
        /\ seen - seq + 1 .. published =
             {e.nr : e \in {e \in ToSet(events) \cup dropped : e.nr > seen - seq}}
        /\ shutdown = "ended" => OnTheWay = <<>>

\* One claim about the state of the whole: the types, and the way of the events.
UpdatesInv == TypeOK /\ HandedOverOnce
=============================================================================
