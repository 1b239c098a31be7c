----------------------------- MODULE WsRegistry -----------------------------
(***************************************************************************)
(* WsSubscriberRegistry (src/src/ws/ws_registry.cpp) and the connection    *)
(* handlers of src/src/ws/updates_ws.cpp.  What the registry does under    *)
(* its mutex is one step.  Frames are sent outside of it, updates by the   *)
(* receiver and the rest by the loop of the connection.  The frame of an   *)
(* update counts one byte; pings are left out.                             *)
(***************************************************************************)
EXTENDS Integers, Sequences, FiniteSets, SequencesExt

CONSTANTS
    Conns,
    Types,         \* update types that are forwarded
    Filters,       \* filters clients subscribe with; {} admits every type
    MaxPending,    \* max_pending_bytes_; 0: no back-pressure
    MaxSubscribes  \* bound: subscriptions of one connection

ASSUME RegistryAssumption ==
    /\ Filters \subseteq SUBSET Types
    /\ MaxPending \in Nat /\ MaxSubscribes \in Nat

VARIABLES
    link,       \* the connection: "new", "open", "closed"
    registered, \* connections_
    filter,     \* Subscriber.filter and Subscriber.bytes_since_pong, of no
    bytes,      \* meaning once c is not registered any more
    handler,    \* what the handler running on the loop of c has still to send
    wire,       \* every frame sent to c, in order
    pongAt,     \* history: updates sent to c, or under way to it, at its last pong
    payload,    \* the update fanOut() is sending
    slow,       \* its connections still to be closed
    alive       \* and those it has still to send to

linkVars == <<link, registered, filter, bytes, handler, wire, pongAt>>
fanOutVars == <<payload, slow, alive>>
connVars == <<linkVars, fanOutVars>>

Update(s, t) == [kind |-> "update", seq |-> s, type |-> t]
Hello == [kind |-> "hello"]
Ack(f) == [kind |-> "subscribed", types |-> f]

ConnInit ==
    /\ link = [c \in Conns |-> "new"]
    /\ registered = {}
    /\ filter = [c \in Conns |-> {}]
    /\ bytes = [c \in Conns |-> 0]
    /\ handler = [c \in Conns |-> {}]
    /\ wire = [c \in Conns |-> <<>>]
    /\ pongAt = [c \in Conns |-> 0]
    /\ payload = {} /\ slow = {} /\ alive = {}

\* Where the frames of a kind stand among those sent to c.
Places(c, kind) == {i \in DOMAIN wire[c] : wire[c][i].kind = kind}
Busy(c) == handler[c] # {}

\* Drogon drops what is sent to a closed connection.
Send(c, m) == wire' = IF link[c] = "open" THEN [wire EXCEPT ![c] = Append(@, m)] ELSE wire
-----------------------------------------------------------------------------
\* A handshake, with a token that may read or without one.  The connection is
\* in the registry before its hello is sent.
Connect(c, mayRead) ==
    /\ link[c] = "new"
    /\ IF mayRead
       THEN /\ link' = [link EXCEPT ![c] = "open"]
            /\ registered' = registered \cup {c}
            /\ handler' = [handler EXCEPT ![c] = {Hello}]
       ELSE /\ link' = [link EXCEPT ![c] = "closed"]
            /\ UNCHANGED <<registered, handler>>
    /\ UNCHANGED <<filter, bytes, wire, pongAt>>

\* The last line of a handler: its hello or its acknowledgement.
Reply(c) ==
    /\ \E m \in handler[c] : Send(c, m)
    /\ handler' = [handler EXCEPT ![c] = {}]
    /\ UNCHANGED <<link, registered, filter, bytes, pongAt>>

\* Pings go out every 15 seconds, answered or not, so a pong may come any time.
HandlePong(c) ==
    /\ link[c] = "open" /\ ~Busy(c) /\ bytes[c] > 0
    /\ bytes' = [bytes EXCEPT ![c] = 0]
    /\ pongAt' = [pongAt EXCEPT ![c] = Cardinality(Places(c, "update"))
                                          + IF c \in alive THEN 1 ELSE 0]
    /\ UNCHANGED <<link, registered, filter, handler, wire>>

\* A subscribe frame: the filter is set, then the acknowledgement sent.  Every
\* other frame of a client is ignored.
Subscribe(c, f) ==
    /\ link[c] = "open" /\ ~Busy(c)
    /\ Cardinality(Places(c, "subscribed")) < MaxSubscribes
    /\ filter' = [filter EXCEPT ![c] = f]
    /\ handler' = [handler EXCEPT ![c] = {Ack(f)}]
    /\ UNCHANGED <<link, registered, bytes, wire, pongAt>>

Hangup(c) ==
    /\ link[c] = "open"
    /\ link' = [link EXCEPT ![c] = "closed"]
    /\ UNCHANGED <<registered, filter, bytes, handler, wire, pongAt>>

\* The entry goes, if fanOut() has not erased it, and with it the histories.
Disconnect(c) ==
    /\ link[c] = "closed" /\ (c \in registered \/ wire[c] # <<>>) /\ ~Busy(c)
    /\ registered' = registered \ {c}
    /\ filter' = [filter EXCEPT ![c] = {}] /\ bytes' = [bytes EXCEPT ![c] = 0]
    /\ wire' = [wire EXCEPT ![c] = <<>>] /\ pongAt' = [pongAt EXCEPT ![c] = 0]
    /\ UNCHANGED <<link, handler>>

-----------------------------------------------------------------------------
(* fanOut(), on the thread of the receiver *)

Admits(f, t) == f = {} \/ t \in f
MutUnfiltered(t) == {c \in registered : link[c] = "open"}
Takers(t) == {c \in registered : link[c] = "open" /\ Admits(filter[c], t)}
MutSlowOffByOne(t) == {c \in Takers(t) : MaxPending # 0 /\ bytes[c] > MaxPending}
Slow(t) == {c \in Takers(t) : MaxPending # 0 /\ bytes[c] + 1 > MaxPending}
FanOutDone == slow = {} /\ alive = {}

MutGiveUpOnSlow(s, t) ==
    /\ payload' = {Update(s, t)}
    /\ bytes' = [c \in Conns |-> bytes[c] + IF c \in Takers(t) THEN 1 ELSE 0]
    /\ registered' = registered \ Slow(t)
    /\ slow' = Slow(t) /\ alive' = IF Slow(t) = {} THEN Takers(t) ELSE {}
    /\ UNCHANGED <<link, filter, handler, wire, pongAt>>
\* Under the lock: whom a frame of type t is for, and who of them exceeds the
\* limit with it.
Snapshot(s, t) ==
    /\ payload' = {Update(s, t)}
    /\ bytes' = [c \in Conns |-> bytes[c] + IF c \in Takers(t) THEN 1 ELSE 0]
    /\ registered' = registered \ Slow(t)
    /\ slow' = Slow(t) /\ alive' = Takers(t) \ Slow(t)
    /\ UNCHANGED <<link, filter, handler, wire, pongAt>>

\* And outside of it.
ForceClose(c) ==
    /\ c \in slow
    /\ slow' = slow \ {c}
    /\ link' = [link EXCEPT ![c] = "closed"]
    /\ UNCHANGED <<registered, filter, bytes, handler, wire, pongAt, payload, alive>>

SendUpdate(c) ==
    /\ slow = {} /\ c \in alive
    /\ \E m \in payload : Send(c, m)
    /\ alive' = alive \ {c}
    /\ UNCHANGED <<link, registered, filter, bytes, handler, pongAt, payload, slow>>

\* The process is gone, and every connection with it.
DropAll ==
    /\ link' = [c \in Conns |-> IF link[c] = "new" THEN "new" ELSE "closed"]
    /\ registered' = {}
    /\ filter' = [c \in Conns |-> {}]
    /\ bytes' = [c \in Conns |-> 0]
    /\ handler' = [c \in Conns |-> {}]
    /\ wire' = [c \in Conns |-> <<>>]
    /\ pongAt' = [c \in Conns |-> 0]
    /\ payload' = {} /\ slow' = {} /\ alive' = {}

ConnStep ==
    /\ \E c \in Conns :
         \/ \E mayRead \in BOOLEAN : Connect(c, mayRead)
         \/ \E f \in Filters : Subscribe(c, f)
         \/ Reply(c) \/ HandlePong(c) \/ Hangup(c) \/ Disconnect(c)
    /\ UNCHANGED fanOutVars

-----------------------------------------------------------------------------
ConnTypeOK ==
    /\ link \in [Conns -> {"new", "open", "closed"}]
    /\ registered \subseteq Conns
    /\ filter \in [Conns -> {{}} \cup Filters]
    /\ bytes \in [Conns -> Nat]
    /\ handler \in [Conns -> {{}, {Hello}} \cup {{Ack(f)} : f \in Filters}]
    /\ wire \in [Conns -> Seq([kind : {"update"}, seq : Nat \ {0}, type : Types]
                              \cup {Hello} \cup {Ack(f) : f \in Filters})]
    /\ pongAt \in [Conns -> Nat]
    /\ slow \subseteq Conns /\ alive \subseteq Conns
=============================================================================
