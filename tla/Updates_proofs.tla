--------------------------- MODULE Updates_proofs ---------------------------
(***************************************************************************)
(* What holds of the updates for any number of connections, filters,       *)
(* updates and restarts, and any limits of the queue and of the backlog.   *)
(***************************************************************************)
EXTENDS Updates, SequenceTheorems, FiniteSetTheorems, TLAPS

USE DEF linkVars, fanOutVars, connVars, sinkVars, routerVars, worldVars

\* Where the worker, the receiver and main are relative to each other.
WorkerState ==
    /\ worker = "hand" <=> batch # <<>>
    /\ worker = "done" => stop /\ queue = <<>>
    /\ stop => receiver = "joined"
    /\ shutdown = "ended" => worker = "done"

\* While an update is fanned out it is the one with the last number; at other
\* times nothing is left to be sent or closed.
FanOutState ==
    /\ receiver = "busy" =>
         /\ seq > 0
         /\ \E u \in Incoming : u.kind \in Types /\ current = {u} /\ payload = {Update(seq, u.kind)}
    /\ receiver # "busy" => FanOutDone
    /\ slow \cap registered = {} /\ slow \cap alive = {}

\* A connection is registered while it is open, unless it is about to be closed.
LinkOf(c) ==
    /\ link[c] = "open" => c \in registered \cup slow
    /\ link[c] = "new" => /\ c \notin registered \cup slow \cup alive
                          /\ filter[c] = {} /\ handler[c] = {} /\ wire[c] = <<>>
    /\ handler[c] = {Hello} => Places(c, "subscribed") = {}
    /\ \A f \in Filters : handler[c] = {Ack(f)} => f = filter[c]
    /\ link[c] = "open" /\ ~Subscribed(c) => filter[c] = {}
LinkState == \A c \in Conns : LinkOf(c)

\* No number is sent before its turn; what is sent stands in order and, for a
\* connection without a filter, without a gap up to the last number it has had its turn
\* for.
UpTo(c) == IF c \in alive \cup slow THEN seq - 1 ELSE seq
OrderOf(c) ==
    /\ \A i \in Places(c, "update") : wire[c][i].seq <= UpTo(c)
    /\ link[c] = "open" =>
         /\ \A i, j \in Places(c, "update") : i < j => wire[c][i].seq < wire[c][j].seq
         /\ ~Subscribed(c) =>
              \A i \in Places(c, "update") : \A n \in wire[c][i].seq .. UpTo(c) :
                  \E j \in Places(c, "update") : wire[c][j].seq = n

\* Behind the last acknowledgement stands one excluded frame at most, and none if one is
\* still under way.
StaleOf(c) ==
    link[c] = "open" /\ ~Busy(c) =>
        /\ \A k, m, n \in DOMAIN wire[c] :
             LastAck(c, k) /\ k < m /\ Stale(c, m) /\ k < n /\ Stale(c, n) => m = n
        /\ c \in alive => \A u \in payload : ~Admits(filter[c], u.type) =>
             \A k, n \in DOMAIN wire[c] : LastAck(c, k) /\ k < n => ~Stale(c, n)

\* What was sent to c since its last pong, or is about to be, is counted while c is
\* registered, and is never above the limit.
Backlog(c) == Cardinality(Places(c, "update")) + (IF c \in alive THEN 1 ELSE 0) - pongAt[c]
BacklogOf(c) ==
    MaxPending # 0 => /\ Backlog(c) <= MaxPending
                      /\ c \in registered => Backlog(c) <= bytes[c]

FramesState == \A c \in Conns : OrderOf(c) /\ StaleOf(c) /\ BacklogOf(c)

IInv ==
    TypeOK /\ WorkerState /\ FanOutState /\ LinkState /\ HandedOverOnce /\ FramesState
-----------------------------------------------------------------------------
(* The way of the events to Kafka *)

\* The places of three lists put behind one another.
LEMMA ThreeParts ==
    ASSUME NEW S, NEW a \in Seq(S), NEW b \in Seq(S), NEW c \in Seq(S)
    PROVE  /\ a \o (b \o c) \in Seq(S)
           /\ Len(a \o (b \o c)) = Len(a) + Len(b) + Len(c)
           /\ \A i \in 1 .. Len(a) + Len(b) + Len(c) :
                (a \o (b \o c))[i] =
                  IF i <= Len(a) THEN a[i]
                  ELSE IF i <= Len(a) + Len(b) THEN b[i - Len(a)]
                  ELSE c[i - Len(a) - Len(b)]
<1> DEFINE d == b \o c
           t == a \o d
<1>1. Len(a) \in Nat /\ Len(b) \in Nat /\ Len(c) \in Nat
  BY LenProperties
<1>2. /\ d \in Seq(S) /\ Len(d) = Len(b) + Len(c)
      /\ \A i \in 1 .. Len(b) + Len(c) : d[i] = IF i <= Len(b) THEN b[i] ELSE c[i - Len(b)]
  BY ConcatProperties
<1> HIDE DEF d
<1>3. /\ t \in Seq(S) /\ Len(t) = Len(a) + Len(d)
      /\ \A i \in 1 .. Len(a) + Len(d) : t[i] = IF i <= Len(a) THEN a[i] ELSE d[i - Len(a)]
  <2>1. d \in Seq(S)
    BY <1>2
  <2> QED BY <2>1, ConcatProperties
<1> HIDE DEF t
<1>4. ASSUME NEW i \in 1 .. Len(a) + Len(b) + Len(c)
      PROVE  t[i] = IF i <= Len(a) THEN a[i]
                    ELSE IF i <= Len(a) + Len(b) THEN b[i - Len(a)]
                    ELSE c[i - Len(a) - Len(b)]
  <2>1. CASE i <= Len(a)
    BY <1>1, <1>2, <1>3, <2>1
  <2>2. CASE ~ (i <= Len(a))
    <3>1. i - Len(a) \in 1 .. Len(b) + Len(c) /\ i \in 1 .. Len(a) + Len(d)
      BY <1>1, <1>2, <2>2
    <3>2. t[i] = d[i - Len(a)]
      BY <1>3, <2>2, <3>1
    <3>3. d[i - Len(a)] = IF i - Len(a) <= Len(b) THEN b[i - Len(a)]
                          ELSE c[i - Len(a) - Len(b)]
      BY <1>2, <3>1
    <3>4. i - Len(a) <= Len(b) <=> i <= Len(a) + Len(b)
      BY <1>1
    <3> QED BY <2>2, <3>2, <3>3, <3>4
  <2> QED BY <2>1, <2>2
<1>5. Len(t) = Len(a) + Len(b) + Len(c)
  BY <1>1, <1>2, <1>3
<1> QED BY <1>3, <1>4, <1>5 DEF t, d

\* The event that is handed over passes from the head of the batch to the end of the
\* topic, and so keeps its place.
LEMMA HandedStays ==
    ASSUME NEW a \in Seq(Events), NEW b \in Seq(Events), NEW c \in Seq(Events), b # <<>>
    PROVE  Append(a, Head(b)) \o (Tail(b) \o c) = a \o (b \o c)
<1> DEFINE a2 == Append(a, Head(b))
           t == a \o (b \o c)
           u == a2 \o (Tail(b) \o c)
<1>1. Len(a) \in Nat /\ Len(b) \in Nat /\ Len(c) \in Nat /\ Len(b) >= 1
  BY LenProperties, EmptySeq
<1>2. /\ Head(b) = b[1] /\ Tail(b) \in Seq(Events) /\ Head(b) \in Events /\ Len(Tail(b)) = Len(b) - 1
      /\ \A i \in 1 .. Len(b) - 1 : Tail(b)[i] = b[i + 1]
  BY HeadTailProperties
<1>3. /\ a2 \in Seq(Events) /\ Len(a2) = Len(a) + 1
      /\ \A i \in 1 .. Len(a) : a2[i] = a[i]
      /\ a2[Len(a) + 1] = b[1]
  BY <1>2, AppendProperties
<1> HIDE DEF a2
<1>4. /\ t \in Seq(Events) /\ Len(t) = Len(a) + Len(b) + Len(c)
      /\ \A i \in 1 .. Len(a) + Len(b) + Len(c) :
           t[i] = IF i <= Len(a) THEN a[i]
                  ELSE IF i <= Len(a) + Len(b) THEN b[i - Len(a)]
                  ELSE c[i - Len(a) - Len(b)]
  BY ThreeParts
<1>5. /\ u \in Seq(Events) /\ Len(u) = Len(a2) + Len(Tail(b)) + Len(c)
      /\ \A i \in 1 .. Len(a2) + Len(Tail(b)) + Len(c) :
           u[i] = IF i <= Len(a2) THEN a2[i]
                  ELSE IF i <= Len(a2) + Len(Tail(b)) THEN Tail(b)[i - Len(a2)]
                  ELSE c[i - Len(a2) - Len(Tail(b))]
  <2>1. a2 \in Seq(Events) /\ Tail(b) \in Seq(Events)
    BY <1>2, <1>3
  <2> QED BY <2>1, ThreeParts
<1> HIDE DEF t, u
<1>6. Len(u) = Len(t)
  BY <1>1, <1>2, <1>3, <1>4, <1>5
<1>7. ASSUME NEW i \in 1 .. Len(t) PROVE u[i] = t[i]
  <2>0. i \in 1 .. Len(a) + Len(b) + Len(c) /\ i \in 1 .. Len(a2) + Len(Tail(b)) + Len(c)
    BY <1>1, <1>2, <1>3, <1>4
  <2>1. CASE i <= Len(a)
    <3>1. t[i] = a[i]
      BY <1>4, <2>0, <2>1
    <3>2. i \in 1 .. Len(a) /\ i <= Len(a2)
      BY <1>1, <1>3, <2>0, <2>1
    <3>3. u[i] = a2[i]
      BY <1>5, <2>0, <3>2
    <3> QED BY <1>3, <3>1, <3>2, <3>3
  <2>2. CASE i = Len(a) + 1
    BY <1>1, <1>3, <1>4, <1>5, <2>0, <2>2
  <2>3. CASE i > Len(a) + 1 /\ i <= Len(a) + Len(b)
    <3>1. t[i] = b[i - Len(a)]
      BY <1>1, <1>4, <2>0, <2>3
    <3>2. u[i] = Tail(b)[i - Len(a) - 1]
      <4>1. ~ (i <= Len(a2)) /\ i <= Len(a2) + Len(Tail(b)) /\ i - Len(a2) = i - Len(a) - 1
        BY <1>1, <1>2, <1>3, <2>0, <2>3
      <4> QED BY <1>5, <2>0, <4>1
    <3>3. i - Len(a) - 1 \in 1 .. Len(b) - 1 /\ (i - Len(a) - 1) + 1 = i - Len(a)
      BY <1>1, <2>0, <2>3
    <3> QED BY <1>2, <3>1, <3>2, <3>3
  <2>4. CASE i > Len(a) + Len(b)
    <3>1. t[i] = c[i - Len(a) - Len(b)]
      BY <1>1, <1>4, <2>0, <2>4
    <3>2. u[i] = c[i - Len(a2) - Len(Tail(b))]
      BY <1>1, <1>2, <1>3, <1>5, <2>0, <2>4
    <3>3. i - Len(a2) - Len(Tail(b)) = i - Len(a) - Len(b)
      BY <1>1, <1>2, <1>3, <2>0
    <3> QED BY <3>1, <3>2, <3>3
  <2>5. \/ i <= Len(a) \/ i = Len(a) + 1
        \/ i > Len(a) + 1 /\ i <= Len(a) + Len(b)
        \/ i > Len(a) + Len(b)
    BY <1>1, <2>0
  <2> QED BY <2>1, <2>2, <2>3, <2>4, <2>5
<1>8. u = t
  BY <1>4, <1>5, <1>6, <1>7, SeqEqual
<1> QED BY <1>8 DEF t, u, a2

\* One that is refused leaves a gap that closes, and is the only one to go.
LEMMA RefusedGoes ==
    ASSUME NEW a \in Seq(Events), NEW b \in Seq(Events), NEW c \in Seq(Events), b # <<>>
    PROVE  LET t == a \o (b \o c)
               u == a \o (Tail(b) \o c)
           IN  /\ t \in Seq(Events) /\ u \in Seq(Events) /\ Len(u) = Len(t) - 1
               /\ Len(a) + 1 \in 1 .. Len(t) /\ t[Len(a) + 1] = Head(b)
               /\ \A i \in 1 .. Len(u) :
                    u[i] = IF i <= Len(a) THEN t[i] ELSE t[i + 1]
<1> DEFINE t == a \o (b \o c)
           u == a \o (Tail(b) \o c)
<1>1. Len(a) \in Nat /\ Len(b) \in Nat /\ Len(c) \in Nat /\ Len(b) >= 1
  BY LenProperties, EmptySeq
<1>2. /\ Head(b) = b[1] /\ Tail(b) \in Seq(Events) /\ Len(Tail(b)) = Len(b) - 1
      /\ \A i \in 1 .. Len(b) - 1 : Tail(b)[i] = b[i + 1]
  BY HeadTailProperties
<1>4. /\ t \in Seq(Events) /\ Len(t) = Len(a) + Len(b) + Len(c)
      /\ \A i \in 1 .. Len(a) + Len(b) + Len(c) :
           t[i] = IF i <= Len(a) THEN a[i]
                  ELSE IF i <= Len(a) + Len(b) THEN b[i - Len(a)]
                  ELSE c[i - Len(a) - Len(b)]
  BY ThreeParts
<1>5. /\ u \in Seq(Events) /\ Len(u) = Len(a) + Len(Tail(b)) + Len(c)
      /\ \A i \in 1 .. Len(a) + Len(Tail(b)) + Len(c) :
           u[i] = IF i <= Len(a) THEN a[i]
                  ELSE IF i <= Len(a) + Len(Tail(b)) THEN Tail(b)[i - Len(a)]
                  ELSE c[i - Len(a) - Len(Tail(b))]
  BY <1>2, ThreeParts
<1> HIDE DEF t, u
<1>6. Len(u) = Len(t) - 1 /\ Len(a) + 1 \in 1 .. Len(t)
  BY <1>1, <1>2, <1>4, <1>5
<1>7. t[Len(a) + 1] = Head(b)
  BY <1>1, <1>2, <1>4, <1>6
<1>8. ASSUME NEW i \in 1 .. Len(u)
      PROVE  u[i] = IF i <= Len(a) THEN t[i] ELSE t[i + 1]
  <2>0. /\ i \in 1 .. Len(a) + Len(b) + Len(c) /\ i + 1 \in 1 .. Len(a) + Len(b) + Len(c)
        /\ i \in 1 .. Len(a) + Len(Tail(b)) + Len(c)
    BY <1>1, <1>2, <1>4, <1>5
  <2>1. CASE i <= Len(a)
    BY <1>1, <1>4, <1>5, <2>0, <2>1
  <2>2. CASE i > Len(a) /\ i <= Len(a) + Len(b) - 1
    <3>1. u[i] = Tail(b)[i - Len(a)]
      BY <1>1, <1>2, <1>5, <2>0, <2>2
    <3>2. t[i + 1] = b[i + 1 - Len(a)]
      BY <1>1, <1>4, <2>0, <2>2
    <3>3. i - Len(a) \in 1 .. Len(b) - 1 /\ (i - Len(a)) + 1 = i + 1 - Len(a)
      BY <1>1, <2>0, <2>2
    <3> QED BY <1>1, <1>2, <2>0, <2>2, <3>1, <3>2, <3>3
  <2>3. CASE i > Len(a) + Len(b) - 1
    <3>0. ~ (i <= Len(a))
      BY <1>1, <2>0, <2>3
    <3>1. u[i] = c[i - Len(a) - Len(Tail(b))]
      BY <1>1, <1>2, <1>5, <2>0, <2>3
    <3>4. ~ (i + 1 <= Len(a)) /\ ~ (i + 1 <= Len(a) + Len(b))
      BY <1>1, <2>0, <2>3
    <3>2. t[i + 1] = c[i + 1 - Len(a) - Len(b)]
      BY <1>4, <2>0, <3>4
    <3>3. i - Len(a) - Len(Tail(b)) = i + 1 - Len(a) - Len(b)
      BY <1>1, <1>2, <2>0
    <3> QED BY <3>0, <3>1, <3>2, <3>3
  <2>4. \/ i <= Len(a)
        \/ i > Len(a) /\ i <= Len(a) + Len(b) - 1
        \/ i > Len(a) + Len(b) - 1
    BY <1>1, <2>0
  <2> QED BY <2>1, <2>2, <2>3, <2>4
<1> QED BY <1>4, <1>5, <1>6, <1>7, <1>8 DEF t, u

\* Behind the last of three lists is behind all of them.
LEMMA AppendIsBehind ==
    ASSUME NEW a \in Seq(Events), NEW b \in Seq(Events), NEW c \in Seq(Events), NEW e \in Events
    PROVE  a \o (b \o Append(c, e)) = Append(a \o (b \o c), e)
<1>1. <<e>> \in Seq(Events)
  OBVIOUS
<1>2. Append(c, e) = c \o <<e>>
  BY AppendIsConcat
<1>3. b \o c \in Seq(Events) /\ a \o (b \o c) \in Seq(Events)
  BY ConcatProperties, ThreeParts
<1>4. b \o (c \o <<e>>) = (b \o c) \o <<e>>
  BY <1>1, ConcatAssociative
<1>5. a \o ((b \o c) \o <<e>>) = (a \o (b \o c)) \o <<e>>
  BY <1>1, <1>3, ConcatAssociative
<1>6. Append(a \o (b \o c), e) = (a \o (b \o c)) \o <<e>>
  BY <1>3, AppendIsConcat
<1> QED BY <1>2, <1>4, <1>5, <1>6

\* All the events that are with Kafka or on their way to it, in order; and those that
\* were dropped besides.
Way == topic \o OnTheWay
Had == ToSet(Way) \cup dropped
Published == IF receiver = "busy" THEN seen - 1 ELSE seen

Rising(s) == \A i, j \in 1 .. Len(s) : i < j => s[i].nr < s[j].nr
Covered ==
    \A n : n \in seen - seq + 1 .. Published <=> \E e \in Had : e.nr = n /\ e.nr > seen - seq

\* The events are those of the types.
LEMMA WayTypes ==
    ASSUME SinkTypeOK(Events)
    PROVE  /\ topic \in Seq(Events) /\ batch \in Seq(Events) /\ queue \in Seq(Events)
           /\ Way \in Seq(Events) /\ Len(Way) \in Nat
           /\ DOMAIN Way = 1 .. Len(Way)
           /\ ToSet(Way) = {Way[i] : i \in 1 .. Len(Way)}
           /\ Had \subseteq Events
<1>1. topic \in Seq(Events) /\ batch \in Seq(Events) /\ queue \in Seq(Events)
  BY DEF SinkTypeOK
<1>2. Way \in Seq(Events)
  BY <1>1, ThreeParts DEF Way, OnTheWay
<1>3. Len(Way) \in Nat /\ DOMAIN Way = 1 .. Len(Way) /\ \A i \in 1 .. Len(Way) : Way[i] \in Events
  BY <1>2, LenProperties
<1>4. ToSet(Way) = {Way[i] : i \in 1 .. Len(Way)}
  BY <1>3 DEF ToSet
<1>5. Had \subseteq Events
  BY <1>3, <1>4 DEF Had, SinkTypeOK
<1> QED BY <1>1, <1>2, <1>3, <1>4, <1>5

\* The numbers are integers.
LEMMA EventNumbers == \A e \in Events : e.nr \in 1 .. MaxUpdates /\ e.nr \in Int
  BY UpdatesAssumption DEF Events, UpdatesAssumption

\* The property in these words.
LEMMA WayRestated ==
    ASSUME SinkTypeOK(Events)
    PROVE  HandedOverOnce <=>
             Rising(Way) /\ Covered /\ (shutdown = "ended" => OnTheWay = <<>>)
<1>1. DOMAIN Way = 1 .. Len(Way)
  BY WayTypes
<1>2. /\ (\A i, j \in DOMAIN Way : i < j => Way[i].nr < Way[j].nr) <=> Rising(Way)
  BY <1>1 DEF Rising
<1>3. (seen - seq + 1 .. Published = {e.nr : e \in {e \in Had : e.nr > seen - seq}})
        <=> Covered
  BY DEF Covered
<1> QED BY <1>2, <1>3 DEF HandedOverOnce, Way, Had, Published

\* No event is with Kafka before it is published.
LEMMA HadIsPublished ==
    ASSUME TypeOK, FanOutState, Covered
    PROVE  \A e \in Had : e.nr <= Published
<1> SUFFICES ASSUME NEW e \in Had PROVE e.nr <= Published
  OBVIOUS
<1>1. e.nr \in Int /\ seen \in Int /\ seq \in Int /\ seen >= seq /\ seq >= 0
  BY WayTypes, EventNumbers, UpdatesAssumption DEF TypeOK, UpdatesAssumption
<1>2. CASE e.nr > seen - seq
  BY <1>1, <1>2 DEF Covered
<1>3. CASE ~ (e.nr > seen - seq)
  BY <1>1, <1>3 DEF Published, FanOutState
<1> QED BY <1>2, <1>3

\* The swap moves nothing past anything.
LEMMA TakeBatchKeeps ==
    ASSUME SinkTypeOK(Events), WorkerState, TakeBatch
    PROVE  SinkTypeOK(Events)' /\ Way' = Way /\ Had' = Had
<1>1. batch = <<>> /\ batch' = queue /\ queue' = <<>> /\ topic' = topic /\ dropped' = dropped
  BY DEF TakeBatch, WorkerState
<1>2. OnTheWay' = OnTheWay
  BY <1>1, ConcatEmptySeq DEF OnTheWay, SinkTypeOK
<1>3. Way' = Way
  BY <1>1, <1>2 DEF Way
<1>4. SinkTypeOK(Events)'
  <2>1. queue' \in Seq(Events) /\ Len(queue') <= MaxQueue
    BY <1>1, SinkAssumption DEF SinkAssumption
  <2> QED BY <1>1, <2>1 DEF SinkTypeOK, TakeBatch
<1> QED BY <1>1, <1>3, <1>4 DEF Had

\* An event that is taken stays where it is; one that is refused is dropped.
LEMMA HandOverKeeps ==
    ASSUME SinkTypeOK(Events), WorkerState, Rising(Way), NEW taken \in BOOLEAN, HandOver(taken)
    PROVE  SinkTypeOK(Events)' /\ Rising(Way)' /\ Had' = Had
<1>0. topic \in Seq(Events) /\ batch \in Seq(Events) /\ queue \in Seq(Events)
  BY WayTypes
<1> USE WayTypes
<1>1. batch # <<>> /\ batch' = Tail(batch) /\ queue' = queue /\ stop' = stop
  BY DEF HandOver, WorkerState
<1>2. /\ Head(batch) \in Events /\ Tail(batch) \in Seq(Events)
  BY <1>1, HeadTailProperties
<1>3. SinkTypeOK(Events)'
  <2>1. topic' \in Seq(Events) /\ dropped' \subseteq Events
    <3>1. CASE taken
      <4>1. topic' = Append(topic, Head(batch)) /\ dropped' = dropped
        BY <3>1 DEF HandOver
      <4>2. topic' \in Seq(Events)
        BY <1>2, <4>1, AppendProperties
      <4> QED BY <4>1, <4>2 DEF SinkTypeOK
    <3>2. CASE ~ taken
      BY <1>2, <3>2 DEF HandOver, SinkTypeOK
    <3> QED BY <3>1, <3>2
  <2>2. worker' \in {"wait", "hand"}
    BY DEF HandOver
  <2> QED BY <1>1, <1>2, <2>1, <2>2 DEF SinkTypeOK
<1>4. CASE taken
  <2>1. topic' = Append(topic, Head(batch)) /\ dropped' = dropped
    BY <1>4 DEF HandOver
  <2>2. Way' = Way
    <3>1. Append(topic, Head(batch)) \o (Tail(batch) \o queue) = topic \o (batch \o queue)
      BY <1>0, <1>1, HandedStays, Zenon
    <3>2. Way' = Append(topic, Head(batch)) \o (Tail(batch) \o queue)
      BY <1>1, <2>1, Zenon DEF Way, OnTheWay
    <3> QED BY <3>1, <3>2, Zenon DEF Way, OnTheWay
  <2> QED BY <1>3, <2>1, <2>2 DEF Had, Rising
<1>5. CASE ~ taken
  <2> DEFINE a == Len(topic)
  <2>0. topic' = topic /\ dropped' = dropped \cup {Head(batch)}
    BY <1>5 DEF HandOver
  <2>1. /\ Way' \in Seq(Events) /\ Len(Way') = Len(Way) - 1
        /\ a + 1 \in 1 .. Len(Way) /\ Way[a + 1] = Head(batch)
        /\ \A i \in 1 .. Len(Way') : Way'[i] = IF i <= a THEN Way[i] ELSE Way[i + 1]
    <3>1. Way = topic \o (batch \o queue) /\ Way' = topic \o (Tail(batch) \o queue)
      BY <1>1, <2>0, Zenon DEF Way, OnTheWay
    <3>2. batch # <<>>
      BY <1>1
    <3>3. LET t == topic \o (batch \o queue)
              u == topic \o (Tail(batch) \o queue)
          IN  /\ u \in Seq(Events) /\ Len(u) = Len(t) - 1
              /\ a + 1 \in 1 .. Len(t) /\ t[a + 1] = Head(batch)
              /\ \A i \in 1 .. Len(u) : u[i] = IF i <= a THEN t[i] ELSE t[i + 1]
      BY <1>0, <3>2, RefusedGoes, ZenonT(40)
    <3> QED BY <3>1, <3>3, Zenon
  <2>2. a \in Nat /\ Len(Way') \in Nat /\ DOMAIN Way' = 1 .. Len(Way')
    BY <2>1, LenProperties
  <2>3. ToSet(Way') = {Way'[i] : i \in 1 .. Len(Way')}
    BY <2>2 DEF ToSet
  <2> HIDE DEF a
  <2>4. Rising(Way')
    BY <2>1, <2>2 DEF Rising
  <2>5. ASSUME NEW e PROVE e \in ToSet(Way') \cup {Head(batch)} <=> e \in ToSet(Way)
    <3>1. ASSUME NEW i \in 1 .. Len(Way'), Way'[i] = e PROVE e \in ToSet(Way)
      BY <2>1, <2>2, <3>1
    <3>2. ASSUME NEW i \in 1 .. Len(Way), Way[i] = e, i # a + 1 PROVE e \in ToSet(Way')
      <4>1. CASE i <= a
        <5>1. i \in 1 .. Len(Way') /\ Way'[i] = e
          BY <2>1, <2>2, <3>2, <4>1
        <5> QED BY <2>3, <5>1
      <4>2. CASE i > a + 1
        <5>1. i - 1 \in 1 .. Len(Way') /\ ~ (i - 1 <= a) /\ (i - 1) + 1 = i
          BY <2>1, <2>2, <4>2
        <5>2. Way'[i - 1] = e
          BY <2>1, <3>2, <5>1
        <5> QED BY <2>3, <5>1, <5>2
      <4>3. i <= a \/ i > a + 1
        BY <2>2, <3>2
      <4> QED BY <4>1, <4>2, <4>3
    <3>3. Head(batch) \in ToSet(Way)
      BY <2>1
    <3> QED BY <2>1, <2>3, <3>1, <3>2, <3>3
  <2>6. Had' = Had
    BY <2>0, <2>5 DEF Had
  <2> QED BY <1>3, <2>4, <2>6
<1> QED BY <1>4, <1>5

\* produce() puts the event behind all others, or drops it.
LEMMA ProduceKeeps ==
    ASSUME SinkTypeOK(Events), Rising(Way), NEW e \in Events, Produce(e),
           \A d \in Had : d.nr < e.nr
    PROVE  SinkTypeOK(Events)' /\ Rising(Way)' /\ Had' = Had \cup {e}
<1>0. topic \in Seq(Events) /\ batch \in Seq(Events) /\ queue \in Seq(Events)
  BY WayTypes
<1> USE WayTypes
<1>1. topic' = topic /\ batch' = batch
  BY DEF Produce
<1>2. CASE Len(queue) >= MaxQueue
  <2>1. Way' = Way /\ dropped' = dropped \cup {e}
    BY <1>1, <1>2 DEF Produce, Way, OnTheWay
  <2> QED BY <1>1, <1>2, <2>1 DEF Produce, SinkTypeOK, Had, Rising
<1>3. CASE Len(queue) < MaxQueue
  <2>1. queue' = Append(queue, e) /\ dropped' = dropped /\ stop' = stop /\ worker' = worker
    BY <1>3, SinkAssumption, LenProperties DEF Produce, SinkAssumption
  <2>2. queue' \in Seq(Events) /\ Len(queue') = Len(queue) + 1
    BY <2>1, AppendProperties
  <2>3. SinkTypeOK(Events)'
    <3>1. Len(queue') <= MaxQueue
      BY <1>3, <2>2, SinkAssumption, LenProperties DEF SinkAssumption
    <3> QED BY <1>1, <2>1, <2>2, <3>1 DEF SinkTypeOK
  <2>4. Way' = Append(Way, e)
    <3>1. topic \o (batch \o Append(queue, e)) = Append(topic \o (batch \o queue), e)
      BY <1>0, AppendIsBehind, ZenonT(40)
    <3> QED BY <1>1, <2>1, <3>1, Zenon DEF Way, OnTheWay
  <2>5. /\ Len(Way') = Len(Way) + 1 /\ Way' \in Seq(Events)
        /\ \A i \in 1 .. Len(Way) : Way'[i] = Way[i]
        /\ Way'[Len(Way) + 1] = e
    BY <2>4, AppendProperties
  <2>6. ToSet(Way') = {Way'[i] : i \in 1 .. Len(Way')}
    BY <2>5, LenProperties DEF ToSet
  <2>7. ToSet(Way') = ToSet(Way) \cup {e}
    <3>1. \A i \in 1 .. Len(Way') : i \in 1 .. Len(Way) \/ i = Len(Way) + 1
      BY <2>5
    <3>2. \A i \in 1 .. Len(Way) : i \in 1 .. Len(Way')
      BY <2>5
    <3>3. Len(Way) + 1 \in 1 .. Len(Way')
      BY <2>5
    <3> QED BY <2>5, <2>6, <3>1, <3>2, <3>3
  <2>8. Rising(Way')
    <3> SUFFICES ASSUME NEW i \in 1 .. Len(Way'), NEW j \in 1 .. Len(Way'), i < j
                 PROVE  Way'[i].nr < Way'[j].nr
      BY DEF Rising
    <3>1. i \in 1 .. Len(Way) /\ Way[i] \in Had
      BY <2>5 DEF Had
    <3>2. CASE j \in 1 .. Len(Way)
      BY <2>5, <3>1, <3>2 DEF Rising
    <3>3. CASE j = Len(Way) + 1
      BY <2>5, <3>1, <3>3
    <3> QED BY <2>5, <3>2, <3>3
  <2> QED BY <2>1, <2>3, <2>7, <2>8 DEF Had
<1>4. Len(queue) \in Nat /\ MaxQueue \in Nat
  BY SinkAssumption, LenProperties DEF SinkAssumption
<1> QED BY <1>2, <1>3, <1>4

\* What is covered stays so while neither the events nor the numbers change.
LEMMA CoveredSame ==
    ASSUME Covered, Had' = Had, Published' = Published, seen' - seq' = seen - seq
    PROVE  Covered'
  BY DEF Covered

\* The worker, the receiver and main keep their order: nobody publishes behind
\* flush(), and the worker ends on an empty queue.
LEMMA WorkerStateStep ==
    ASSUME TypeOK, WorkerState, [Next]_vars
    PROVE  WorkerState'
<1>0. batch \in Seq(Events) /\ queue \in Seq(Events)
  BY DEF TypeOK, SinkTypeOK
<1> USE DEF WorkerState
<1>1. ASSUME NEW u \in Incoming, Receive(u) PROVE WorkerState'
  BY <1>1 DEF Receive
<1>2. CASE Publish
  BY <1>2 DEF Publish, Produce
<1>3. CASE TakeBatch /\ UNCHANGED <<connVars, routerVars, worldVars>>
  BY <1>3 DEF TakeBatch
<1>4. ASSUME NEW taken \in BOOLEAN, HandOver(taken), UNCHANGED <<connVars, routerVars, worldVars>>
      PROVE  WorkerState'
  BY <1>4 DEF HandOver
<1>5. CASE Flush
  BY <1>5 DEF Flush, StopWorker
<1>6. CASE FlushReturns
  BY <1>6 DEF FlushReturns
<1>7. CASE Restart
  BY <1>7 DEF Restart, Forget
<1>8. CASE UNCHANGED <<sinkVars, routerVars, worldVars>>
  BY <1>8
<1> QED BY <1>1, <1>2, <1>3, <1>4, <1>5, <1>6, <1>7, <1>8
        DEF Next, ReceiverStep, WorkerStep, Done, vars

\* Every event is taken once and in order, or dropped; flush() leaves none behind.
LEMMA WayStep ==
    ASSUME TypeOK, WorkerState, FanOutState, HandedOverOnce, [Next]_vars
    PROVE  SinkTypeOK(Events)' /\ HandedOverOnce'
<1>0. /\ SinkTypeOK(Events) /\ Rising(Way) /\ Covered
      /\ shutdown = "ended" => OnTheWay = <<>>
      /\ WorkerState'
      /\ seen \in Int /\ seq \in Int /\ seen >= seq /\ seq >= 0 /\ seen <= MaxUpdates
  BY WayRestated, WorkerStateStep, UpdatesAssumption DEF TypeOK, UpdatesAssumption
<1>a. SUFFICES /\ SinkTypeOK(Events)' /\ Rising(Way)' /\ Covered'
               /\ (shutdown = "ended" => OnTheWay = <<>>)'
  <2>1. (SinkTypeOK(Events) => (HandedOverOnce <=>
             Rising(Way) /\ Covered /\ (shutdown = "ended" => OnTheWay = <<>>)))'
    BY WayRestated, PTL
  <2> QED BY <2>1
<1>b. (shutdown = "ended" => OnTheWay = <<>>)'
  <2> SUFFICES ASSUME shutdown' = "ended" PROVE OnTheWay' = <<>>
    OBVIOUS
  <2>1. batch' = <<>> /\ queue' = <<>>
    BY <1>0 DEF WorkerState
  <2>2. <<>> \o <<>> = <<>>
    BY ConcatEmptySeq, EmptySeq
  <2> QED BY <2>1, <2>2 DEF OnTheWay
<1> USE <1>b
<1>1. ASSUME NEW u \in Incoming, Receive(u) PROVE SinkTypeOK(Events)' /\ Rising(Way)' /\ Covered'
  <2>1. UNCHANGED sinkVars /\ seen' - seq' = seen - seq
    BY <1>0, <1>1 DEF Receive
  <2>2. Published' = Published
    BY <1>0, <1>1 DEF Receive, Published
  <2> QED BY <1>0, <2>1, <2>2, CoveredSame DEF SinkTypeOK, Way, OnTheWay, Had, Rising
<1>2. CASE Publish
  <2>1. PICK u \in current : Produce(Event(seq, u))
    BY <1>2 DEF Publish
  <2> DEFINE e == Event(seq, u)
  <2>2. receiver = "busy" /\ receiver' = "idle" /\ seen' = seen /\ seq' = seq
    BY <1>2 DEF Publish
  <2>3. e.nr = seen /\ e \in Events
    <3>1. seq \in 1 .. MaxUpdates /\ seen \in 1 .. MaxUpdates /\ u \in Incoming
      BY <1>0, <2>1, <2>2, UpdatesAssumption DEF FanOutState, UpdatesAssumption
    <3> QED BY <3>1 DEF Event, KeyOf, Events
  <2>4. Produce(e)
    BY <2>1
  <2> HIDE DEF e
  <2>5. \A d \in Had : d.nr < e.nr
    <3>1. \A d \in Had : d.nr <= seen - 1 /\ d.nr \in Int
      BY <1>0, <2>2, HadIsPublished, WayTypes, EventNumbers DEF Published
    <3> QED BY <1>0, <2>3, <3>1
  <2>6. SinkTypeOK(Events)' /\ Rising(Way)' /\ Had' = Had \cup {e}
    BY <1>0, <2>3, <2>4, <2>5, ProduceKeeps
  <2>7. Published = seen - 1 /\ Published' = seen /\ seq > 0
    BY <2>2 DEF Published, FanOutState
  <2>8. \A n : n \in seen - seq + 1 .. seen <=> n \in seen - seq + 1 .. seen - 1 \/ n = seen
    BY <1>0, <2>7
  <2>9. Covered'
    <3>1. e.nr > seen - seq
      BY <1>0, <2>3, <2>7
    <3> QED BY <1>0, <2>2, <2>3, <2>6, <2>7, <2>8, <3>1 DEF Covered
  <2> QED BY <2>6, <2>9
<1>3. CASE TakeBatch /\ UNCHANGED <<connVars, routerVars, worldVars>>
  BY <1>0, <1>3, TakeBatchKeeps, CoveredSame DEF Published, Rising
<1>4. ASSUME NEW taken \in BOOLEAN, HandOver(taken), UNCHANGED <<connVars, routerVars, worldVars>>
      PROVE  SinkTypeOK(Events)' /\ Rising(Way)' /\ Covered'
  BY <1>0, <1>4, HandOverKeeps, CoveredSame DEF Published
<1>5. CASE Flush
  <2>1. UNCHANGED <<queue, worker, batch, topic, dropped, seen, seq>> /\ stop' = TRUE
    BY <1>5 DEF Flush, StopWorker
  <2>2. Published' = Published
    BY <1>5 DEF Flush, Published
  <2> QED BY <1>0, <2>1, <2>2, CoveredSame DEF SinkTypeOK, Way, OnTheWay, Had, Rising
<1>6. CASE FlushReturns
  BY <1>0, <1>6, CoveredSame DEF FlushReturns, SinkTypeOK, Way, OnTheWay, Had, Rising, Published
<1>7. CASE Restart
  <2>1. /\ queue' = <<>> /\ batch' = <<>> /\ topic' = topic /\ dropped' = {}
        /\ stop' = FALSE /\ worker' = "wait"
        /\ seen' = seen /\ seq' = 0 /\ receiver' = "idle"
    BY <1>7 DEF Restart, Forget
  <2>2. SinkTypeOK(Events)'
    <3>1. queue' \in Seq(Events) /\ batch' \in Seq(Events) /\ Len(queue') <= MaxQueue
      BY <2>1, SinkAssumption, EmptySeq DEF SinkAssumption
    <3>2. topic' \in Seq(Events) /\ dropped' \subseteq Events
      BY <1>0, <2>1 DEF SinkTypeOK
    <3> QED BY <2>1, <3>1, <3>2 DEF SinkTypeOK
  <2>3. Way' = topic
    <3>1. <<>> \o <<>> = <<>> /\ topic \o <<>> = topic
      BY ConcatEmptySeq, EmptySeq, WayTypes, <1>0
    <3> QED BY <2>1, <3>1 DEF Way, OnTheWay
  <2>4. \A i \in 1 .. Len(topic) : i \in 1 .. Len(Way) /\ topic[i] = Way[i]
    <3>1. /\ Len(Way) = Len(topic) + Len(batch) + Len(queue)
          /\ \A i \in 1 .. Len(topic) + Len(batch) + Len(queue) :
               i <= Len(topic) => Way[i] = topic[i]
      BY <1>0, WayTypes, ThreeParts DEF Way, OnTheWay
    <3>2. Len(topic) \in Nat /\ Len(batch) \in Nat /\ Len(queue) \in Nat
      BY <1>0, WayTypes, LenProperties
    <3> QED BY <3>1, <3>2
  <2>5. Rising(Way)'
    BY <1>0, <2>3, <2>4 DEF Rising
  <2>6. \A e \in Had' : e.nr <= seen /\ e.nr \in Int
    <3>1. ToSet(topic) = {topic[i] : i \in 1 .. Len(topic)}
      BY <1>0, WayTypes, LenProperties DEF ToSet
    <3>2. \A e \in Had' : e \in Had
      BY <1>0, <2>1, <2>3, <2>4, <3>1, WayTypes DEF Had
    <3>3. \A e \in Had : e.nr <= Published /\ e.nr \in Int
      BY <1>0, HadIsPublished, WayTypes, EventNumbers
    <3>4. Published \in Int /\ Published <= seen
      BY <1>0 DEF Published
    <3> QED BY <1>0, <3>2, <3>3, <3>4
  <2>7. Published' = seen
    BY <2>1 DEF Published
  <2>8. \A n : n \notin seen - 0 + 1 .. seen
    BY <1>0
  <2>9. Covered'
    BY <1>0, <2>1, <2>6, <2>7, <2>8 DEF Covered
  <2> QED BY <2>2, <2>5, <2>9
<1>8. CASE UNCHANGED <<sinkVars, routerVars, worldVars>>
  BY <1>0, <1>8, CoveredSame DEF SinkTypeOK, Way, OnTheWay, Had, Rising, Published
<1> QED BY <1>1, <1>2, <1>3, <1>4, <1>5, <1>6, <1>7, <1>8
        DEF Next, ReceiverStep, WorkerStep, Done, vars
-----------------------------------------------------------------------------
(* The connections *)

\* What a step does to the connections and the router.
LEMMA Steps ==
    [Next]_vars =>
        \/ \E u \in Incoming : Receive(u)
        \/ Publish
        \/ \E c \in Conns : ForceClose(c) /\ UNCHANGED routerVars
        \/ \E c \in Conns : SendUpdate(c) /\ UNCHANGED routerVars
        \/ \E c \in Conns, mayRead \in BOOLEAN :
             Connect(c, mayRead) /\ UNCHANGED <<fanOutVars, routerVars>>
        \/ \E c \in Conns, f \in Filters :
             Subscribe(c, f) /\ UNCHANGED <<fanOutVars, routerVars>>
        \/ \E c \in Conns : Reply(c) /\ UNCHANGED <<fanOutVars, routerVars>>
        \/ \E c \in Conns : HandlePong(c) /\ UNCHANGED <<fanOutVars, routerVars>>
        \/ \E c \in Conns : Hangup(c) /\ UNCHANGED <<fanOutVars, routerVars>>
        \/ \E c \in Conns : Disconnect(c) /\ UNCHANGED <<fanOutVars, routerVars>>
        \/ DropAll /\ receiver' \in {"idle", "joined"} /\ seq' \in {0, seq}
        \/ UNCHANGED <<connVars, routerVars>>
<1> SUFFICES ASSUME [Next]_vars
             PROVE  \/ \E u \in Incoming : Receive(u)
                    \/ Publish
                    \/ \E c \in Conns : ForceClose(c) /\ UNCHANGED routerVars
                    \/ \E c \in Conns : SendUpdate(c) /\ UNCHANGED routerVars
                    \/ ConnStep /\ UNCHANGED routerVars
                    \/ DropAll /\ receiver' \in {"idle", "joined"} /\ seq' \in {0, seq}
                    \/ UNCHANGED <<connVars, routerVars>>
  BY DEF ConnStep
<1>1. CASE ReceiverStep
  BY <1>1 DEF ReceiverStep
<1>2. CASE ConnStep /\ UNCHANGED <<sinkVars, routerVars, worldVars>>
  BY <1>2
<1>3. CASE WorkerStep /\ UNCHANGED <<connVars, routerVars, worldVars>>
  BY <1>3
<1>4. CASE Flush \/ Restart
  BY <1>4 DEF Flush, Restart
<1>5. CASE FlushReturns \/ Done \/ UNCHANGED vars
  BY <1>5 DEF FlushReturns, Done, vars
<1> QED BY <1>1, <1>2, <1>3, <1>4, <1>5 DEF Next

\* Every frame there is.
WireFrames == [kind : {"update"}, seq : Nat \ {0}, type : Types]
              \cup {Hello} \cup {Ack(f) : f \in Filters}

\* The frames are told apart by their kind.
LEMMA FrameKinds ==
    /\ Hello \in WireFrames /\ Hello.kind = "hello"
    /\ \A f : Ack(f).kind = "subscribed" /\ Ack(f) # Hello
    /\ \A f, g : Ack(f) = Ack(g) => f = g
    /\ \A f \in Filters : Ack(f) \in WireFrames
    /\ \A n \in Nat \ {0}, t \in Types :
         LET m == Update(n, t)
         IN  m \in WireFrames /\ m.kind = "update" /\ m.seq = n /\ m.type = t
    /\ \A m \in WireFrames : m.kind = "update" => m.seq \in Nat \ {0} /\ m.type \in Types
<1>1. /\ Hello.kind = "hello"
      /\ \A f : Ack(f).kind = "subscribed" /\ Ack(f).types = f
      /\ \A n \in Nat \ {0}, t \in Types :
           LET m == Update(n, t) IN m.kind = "update" /\ m.seq = n /\ m.type = t
  BY DEF Hello, Ack, Update
<1>2. \A n \in Nat \ {0}, t \in Types : Update(n, t) \in WireFrames
  BY DEF WireFrames, Update
<1>3. Hello \in WireFrames /\ \A f \in Filters : Ack(f) \in WireFrames
  BY DEF WireFrames
<1>4. ASSUME NEW m \in WireFrames, m.kind = "update"
      PROVE  m.seq \in Nat \ {0} /\ m.type \in Types
  <2>1. m \in [kind : {"update"}, seq : Nat \ {0}, type : Types]
    BY <1>1, <1>4 DEF WireFrames
  <2> QED BY <2>1
<1>5. \A f : Ack(f) # Hello
  BY <1>1
<1>6. \A f, g : Ack(f) = Ack(g) => f = g
  BY <1>1
<1> QED BY <1>1, <1>2, <1>3, <1>4, <1>5, <1>6

\* The history of one connection.
LEMMA WireTypes ==
    ASSUME wire \in [Conns -> Seq(WireFrames)], NEW c \in Conns
    PROVE  /\ wire[c] \in Seq(WireFrames) /\ Len(wire[c]) \in Nat
           /\ DOMAIN wire[c] = 1 .. Len(wire[c])
           /\ \A i \in 1 .. Len(wire[c]) : wire[c][i] \in WireFrames
           /\ \A k : Places(c, k) = {i \in 1 .. Len(wire[c]) : wire[c][i].kind = k}
<1>1. wire[c] \in Seq(WireFrames)
  OBVIOUS
<1>2. /\ Len(wire[c]) \in Nat /\ DOMAIN wire[c] = 1 .. Len(wire[c])
      /\ \A i \in 1 .. Len(wire[c]) : wire[c][i] \in WireFrames
  BY <1>1, LenProperties
<1> QED BY <1>1, <1>2 DEF Places

\* A frame is sent behind the others, or nowhere.
LEMMA SendAppends ==
    ASSUME link \in [Conns -> {"new", "open", "closed"}],
           wire \in [Conns -> Seq(WireFrames)],
           NEW c \in Conns, NEW m \in WireFrames, Send(c, m)
    PROVE  /\ wire' \in [Conns -> Seq(WireFrames)]
           /\ \A d \in Conns \ {c} : wire'[d] = wire[d] /\ \A k : Places(d, k)' = Places(d, k)
           /\ link[c] # "open" => wire' = wire /\ \A d, k : Places(d, k)' = Places(d, k)
           /\ link[c] = "open" =>
                /\ Len(wire'[c]) = Len(wire[c]) + 1
                /\ \A i \in 1 .. Len(wire[c]) : wire'[c][i] = wire[c][i]
                /\ wire'[c][Len(wire[c]) + 1] = m
                /\ \A k : Places(c, k)' = Places(c, k)
                                          \cup IF m.kind = k THEN {Len(wire[c]) + 1} ELSE {}
<1>1. CASE link[c] # "open"
  <2>1. wire' = wire
    BY <1>1 DEF Send
  <2> QED BY <1>1, <2>1 DEF Places
<1>2. CASE link[c] = "open"
  <2>1. wire' = [wire EXCEPT ![c] = Append(wire[c], m)]
    BY <1>2 DEF Send
  <2>2. wire[c] \in Seq(WireFrames) /\ Len(wire[c]) \in Nat
    BY WireTypes
  <2>3. /\ Append(wire[c], m) \in Seq(WireFrames)
        /\ Len(Append(wire[c], m)) = Len(wire[c]) + 1
        /\ \A i \in 1 .. Len(wire[c]) : Append(wire[c], m)[i] = wire[c][i]
        /\ Append(wire[c], m)[Len(wire[c]) + 1] = m
    BY <2>2, AppendProperties
  <2>4. wire' \in [Conns -> Seq(WireFrames)]
    BY <2>1, <2>3
  <2>5. wire'[c] = Append(wire[c], m)
    BY <2>1
  <2>6. \A d \in Conns \ {c} : wire'[d] = wire[d]
    BY <2>1
  <2>7. \A d \in Conns \ {c} : \A k : Places(d, k)' = Places(d, k)
    BY <2>6 DEF Places
  <2>8. ASSUME NEW k
        PROVE  Places(c, k)' = Places(c, k) \cup IF m.kind = k THEN {Len(wire[c]) + 1} ELSE {}
    <3>1. Places(c, k) = {i \in 1 .. Len(wire[c]) : wire[c][i].kind = k}
      BY WireTypes
    <3>2. Places(c, k)' = {i \in 1 .. Len(wire'[c]) : wire'[c][i].kind = k}
      <4>1. wire'[c] \in Seq(WireFrames)
        BY <2>3, <2>5
      <4>2. DOMAIN wire'[c] = 1 .. Len(wire'[c])
        BY <4>1, LenProperties
      <4> QED BY <4>2 DEF Places
    <3>3. \A i : i \in 1 .. Len(wire'[c]) <=> i \in 1 .. Len(wire[c]) \/ i = Len(wire[c]) + 1
      BY <2>2, <2>3, <2>5
    <3>4. \A i : i \in Places(c, k)' <=>
                   i \in Places(c, k) \/ (i = Len(wire[c]) + 1 /\ m.kind = k)
      BY <2>2, <2>3, <2>5, <3>1, <3>2, <3>3
    <3>5. \A i : i \in Places(c, k) \cup (IF m.kind = k THEN {Len(wire[c]) + 1} ELSE {})
                 <=> i \in Places(c, k) \/ (i = Len(wire[c]) + 1 /\ m.kind = k)
      OBVIOUS
    <3> QED BY <3>4, <3>5
  <2> QED BY <1>2, <2>3, <2>4, <2>5, <2>6, <2>7, <2>8
<1> QED BY <1>1, <1>2

\* Without a frame nothing stands anywhere.
LEMMA NothingSent == \A c, k : wire[c] = <<>> => Places(c, k) = {}
  BY DEF Places

\* The places are finitely many.
LEMMA PlacesFinite ==
    ASSUME wire \in [Conns -> Seq(WireFrames)], NEW c \in Conns, NEW k
    PROVE  /\ IsFiniteSet(Places(c, k)) /\ Cardinality(Places(c, k)) \in Nat
           /\ Len(wire[c]) + 1 \notin Places(c, k)
<1>1. Places(c, k) \subseteq 1 .. Len(wire[c]) /\ Len(wire[c]) \in Nat
  BY WireTypes
<1>2. IsFiniteSet(1 .. Len(wire[c]))
  BY <1>1, FS_Interval
<1>3. IsFiniteSet(Places(c, k))
  BY <1>1, <1>2, FS_Subset
<1> QED BY <1>1, <1>3, FS_CardinalityType

\* What is under way to a connection is the update with the last number.
LEMMA UnderWay ==
    ASSUME TypeOK, FanOutState, alive \cup slow # {}
    PROVE  \E t \in Types : payload = {Update(seq, t)} /\ seq \in Nat \ {0} /\ seq \in Int
<1>1. receiver = "busy"
  BY DEF FanOutState, FanOutDone
<1>2. seq \in Nat \ {0}
  BY <1>1, UpdatesAssumption DEF FanOutState, TypeOK, UpdatesAssumption
<1> QED BY <1>1, <1>2 DEF FanOutState

\* A step keeps the types of the connections.
LEMMA ConnTypeStep ==
    ASSUME TypeOK, FanOutState, [Next]_vars
    PROVE  ConnTypeOK'
<1>0. ConnTypeOK /\ wire \in [Conns -> Seq(WireFrames)]
  BY DEF TypeOK, ConnTypeOK, WireFrames
<1>a. SUFFICES /\ (wire \in [Conns -> Seq(WireFrames)])'
               /\ (link \in [Conns -> {"new", "open", "closed"}])'
               /\ (registered \subseteq Conns)'
               /\ (filter \in [Conns -> {{}} \cup Filters])'
               /\ (bytes \in [Conns -> Nat])'
               /\ (handler \in [Conns -> {{}, {Hello}} \cup {{Ack(f)} : f \in Filters}])'
               /\ (pongAt \in [Conns -> Nat])'
               /\ (slow \subseteq Conns /\ alive \subseteq Conns)'
  BY DEF ConnTypeOK, WireFrames
<1> DEFINE Goal == /\ (wire \in [Conns -> Seq(WireFrames)])'
               /\ (link \in [Conns -> {"new", "open", "closed"}])'
               /\ (registered \subseteq Conns)'
               /\ (filter \in [Conns -> {{}} \cup Filters])'
               /\ (bytes \in [Conns -> Nat])'
               /\ (handler \in [Conns -> {{}, {Hello}} \cup {{Ack(f)} : f \in Filters}])'
               /\ (pongAt \in [Conns -> Nat])'
               /\ (slow \subseteq Conns /\ alive \subseteq Conns)'
<1>b. SUFFICES Goal
  OBVIOUS
<1> USE <1>0 DEF ConnTypeOK
<1>1. ASSUME NEW u \in Incoming, Receive(u) PROVE Goal
  <2>1. \A c \in Conns : bytes[c] + (IF c \in Takers(u.kind) THEN 1 ELSE 0) \in Nat
    OBVIOUS
  <2>2. Takers(u.kind) \subseteq registered
    BY DEF Takers
  <2>3. bytes' = [c \in Conns |-> bytes[c] + IF c \in Takers(u.kind) THEN 1 ELSE 0]
    BY <1>1 DEF Receive, Snapshot
  <2>4. bytes' \in [Conns -> Nat]
    BY <2>1, <2>3
  <2>5. /\ UNCHANGED <<link, filter, handler, wire, pongAt>> /\ registered' \subseteq registered
        /\ slow' \subseteq registered /\ alive' \subseteq registered
    BY <1>1, <2>2 DEF Receive, Snapshot, Slow
  <2> QED BY <2>4, <2>5
<1>2. CASE Publish
  BY <1>2 DEF Publish
<1>3. ASSUME NEW c \in Conns, ForceClose(c), UNCHANGED routerVars PROVE Goal
  BY <1>3 DEF ForceClose
<1>4. ASSUME NEW c \in Conns, SendUpdate(c), UNCHANGED routerVars PROVE Goal
  <2>1. PICK m \in payload : Send(c, m)
    BY <1>4 DEF SendUpdate
  <2>2. m \in WireFrames
    BY <1>4, <2>1, UnderWay, FrameKinds DEF SendUpdate
  <2>3. wire' \in [Conns -> Seq(WireFrames)]
    BY <2>1, <2>2, SendAppends
  <2> QED BY <1>4, <2>3 DEF SendUpdate
<1>5. ASSUME NEW c \in Conns, NEW mayRead \in BOOLEAN, Connect(c, mayRead),
             UNCHANGED <<fanOutVars, routerVars>>
      PROVE  Goal
  BY <1>5 DEF Connect
<1>6. ASSUME NEW c \in Conns, NEW f \in Filters, Subscribe(c, f),
             UNCHANGED <<fanOutVars, routerVars>>
      PROVE  Goal
  BY <1>6 DEF Subscribe
<1>7. ASSUME NEW c \in Conns, Reply(c), UNCHANGED <<fanOutVars, routerVars>> PROVE Goal
  <2>1. PICK m \in handler[c] : Send(c, m)
    BY <1>7 DEF Reply
  <2>2. m \in WireFrames
    <3>1. m = Hello \/ \E f \in Filters : m = Ack(f)
      BY <2>1
    <3> QED BY <3>1, FrameKinds
  <2>3. wire' \in [Conns -> Seq(WireFrames)]
    BY <2>1, <2>2, SendAppends
  <2> QED BY <1>7, <2>3 DEF Reply
<1>8. ASSUME NEW c \in Conns, HandlePong(c), UNCHANGED <<fanOutVars, routerVars>>
      PROVE  Goal
  <2>1. Cardinality(Places(c, "update")) \in Nat
    BY PlacesFinite
  <2>2. Cardinality(Places(c, "update")) + (IF c \in alive THEN 1 ELSE 0) \in Nat
    BY <2>1
  <2> QED BY <1>8, <2>2 DEF HandlePong
<1>9. ASSUME NEW c \in Conns, Hangup(c), UNCHANGED <<fanOutVars, routerVars>> PROVE Goal
  BY <1>9 DEF Hangup
<1>10. ASSUME NEW c \in Conns, Disconnect(c), UNCHANGED <<fanOutVars, routerVars>>
      PROVE  Goal
  <2>1. <<>> \in Seq(WireFrames)
    BY EmptySeq
  <2> QED BY <1>10, <2>1 DEF Disconnect
<1>11. ASSUME DropAll, receiver' \in {"idle", "joined"}, seq' \in {0, seq} PROVE Goal
  <2>1. <<>> \in Seq(WireFrames)
    BY EmptySeq
  <2> QED BY <1>11, <2>1 DEF DropAll
<1>12. CASE UNCHANGED <<connVars, routerVars>>
  BY <1>12
<1> QED BY <1>1, <1>2, <1>3, <1>4, <1>5, <1>6, <1>7, <1>8, <1>9, <1>10,
       <1>11, <1>12, Steps

\* The rest of the types: the receiver, main and the bounds.
LEMMA RouterTypeStep ==
    ASSUME TypeOK, [Next]_vars
    PROVE  /\ (receiver \in {"idle", "busy", "joined"})'
           /\ (seq \in 0 .. MaxUpdates)'
           /\ (current = {} \/ \E u \in Incoming : current = {u})'
           /\ (seen \in seq .. MaxUpdates /\ boot \in 0 .. MaxRestarts)'
           /\ (shutdown \in {"none", "flush", "ended"})'
<1> USE UpdatesAssumption DEF UpdatesAssumption, TypeOK
<1>1. ASSUME NEW u \in Incoming, Receive(u)
      PROVE  /\ seq' \in 0 .. MaxUpdates /\ seen' \in seq' .. MaxUpdates
             /\ UNCHANGED <<boot, shutdown>> /\ receiver' = "busy" /\ current' = {u}
  BY <1>1 DEF Receive
<1>2. CASE Publish
  BY <1>2 DEF Publish
<1>3. CASE Flush
  BY <1>3 DEF Flush
<1>4. CASE FlushReturns
  BY <1>4 DEF FlushReturns
<1>5. CASE Restart
  BY <1>5 DEF Restart
<1>6. CASE UNCHANGED <<routerVars, worldVars>>
  BY <1>6
<1> QED BY <1>1, <1>2, <1>3, <1>4, <1>5, <1>6 DEF Next, ReceiverStep, Done, vars

\* A step starts a fan-out only behind the last one.
LEMMA FanOutStep ==
    ASSUME TypeOK, FanOutState, LinkState, [Next]_vars
    PROVE  FanOutState'
<1>0. seq \in Nat /\ ConnTypeOK
  BY UpdatesAssumption DEF TypeOK, UpdatesAssumption
<1> USE DEF FanOutState, FanOutDone
<1>1. ASSUME NEW u \in Incoming, Receive(u) PROVE FanOutState'
  BY <1>1, <1>0 DEF Receive, Snapshot, Forwardable
<1>2. CASE Publish
  BY <1>2 DEF Publish
<1>3. ASSUME NEW c \in Conns, ForceClose(c), UNCHANGED routerVars PROVE FanOutState'
  BY <1>3 DEF ForceClose
<1>4. ASSUME NEW c \in Conns, SendUpdate(c), UNCHANGED routerVars PROVE FanOutState'
  BY <1>4 DEF SendUpdate
<1>5. ASSUME NEW c \in Conns, NEW mayRead \in BOOLEAN, Connect(c, mayRead),
             UNCHANGED <<fanOutVars, routerVars>>
      PROVE  FanOutState'
  BY <1>5 DEF Connect, LinkState, LinkOf
<1>6. ASSUME NEW c \in Conns, NEW f \in Filters, Subscribe(c, f),
             UNCHANGED <<fanOutVars, routerVars>>
      PROVE  FanOutState'
  BY <1>6 DEF Subscribe
<1>7. ASSUME NEW c \in Conns, Reply(c), UNCHANGED <<fanOutVars, routerVars>>
      PROVE  FanOutState'
  BY <1>7 DEF Reply
<1>8. ASSUME NEW c \in Conns, HandlePong(c), UNCHANGED <<fanOutVars, routerVars>>
      PROVE  FanOutState'
  BY <1>8 DEF HandlePong
<1>9. ASSUME NEW c \in Conns, Hangup(c), UNCHANGED <<fanOutVars, routerVars>>
      PROVE  FanOutState'
  BY <1>9 DEF Hangup
<1>10. ASSUME NEW c \in Conns, Disconnect(c), UNCHANGED <<fanOutVars, routerVars>>
      PROVE  FanOutState'
  BY <1>10 DEF Disconnect
<1>11. ASSUME DropAll, receiver' \in {"idle", "joined"}, seq' \in {0, seq}
      PROVE  FanOutState'
  BY <1>11 DEF DropAll
<1>12. CASE UNCHANGED <<connVars, routerVars>>
  BY <1>12
<1> QED BY <1>1, <1>2, <1>3, <1>4, <1>5, <1>6, <1>7, <1>8, <1>9, <1>10,
       <1>11, <1>12, Steps

\* A connection that a step does not touch stays as it was.
LEMMA LinkUntouched ==
    ASSUME NEW d, LinkOf(d),
           link'[d] = link[d], filter'[d] = filter[d], handler'[d] = handler[d],
           wire'[d] = wire[d], d \in registered \cup slow => d \in registered' \cup slow',
           d \in registered' \cup slow' \cup alive' => d \in registered \cup slow \cup alive
    PROVE  LinkOf(d)'
  BY DEF LinkOf, Subscribed, Places

\* Connections are opened, closed and registered together, and a filter is in force
\* only with its acknowledgement under way or sent.
LEMMA LinkStep ==
    ASSUME TypeOK, FanOutState, LinkState, [Next]_vars
    PROVE  LinkState'
<1>0. /\ ConnTypeOK /\ wire \in [Conns -> Seq(WireFrames)]
      /\ link \in [Conns -> {"new", "open", "closed"}]
      /\ handler \in [Conns -> {{}, {Hello}} \cup {{Ack(f)} : f \in Filters}]
      /\ filter \in [Conns -> {{}} \cup Filters]
  BY DEF TypeOK, ConnTypeOK, WireFrames
<1>1. ASSUME NEW u \in Incoming, Receive(u) PROVE LinkState'
  <2>1. UNCHANGED <<link, filter, handler, wire>> /\ slow = {} /\ alive = {}
    BY <1>1 DEF Receive, Snapshot, FanOutState, FanOutDone
  <2>2. registered' \cup slow' = registered /\ alive' \subseteq registered
    BY <1>1 DEF Receive, Snapshot, Takers, Slow
  <2> QED BY <2>1, <2>2 DEF LinkState, LinkOf, Subscribed, Places
<1>2. CASE Publish
  BY <1>2 DEF Publish, LinkState, LinkOf, Subscribed, Places
<1>3. ASSUME NEW c \in Conns, ForceClose(c), UNCHANGED routerVars PROVE LinkState'
  <2>1. ASSUME NEW d \in Conns \ {c} PROVE LinkOf(d)'
    BY <1>3, <1>0, LinkUntouched DEF ForceClose, LinkState
  <2>2. LinkOf(c)'
    BY <1>3, <1>0 DEF ForceClose, LinkState, LinkOf, Places
  <2> QED BY <2>1, <2>2 DEF LinkState
<1>4. ASSUME NEW c \in Conns, SendUpdate(c), UNCHANGED routerVars PROVE LinkState'
  <2>1. PICK m \in payload : Send(c, m)
    BY <1>4 DEF SendUpdate
  <2>2. m \in WireFrames /\ m.kind # "subscribed"
    BY <1>4, <2>1, UnderWay, FrameKinds DEF SendUpdate
  <2>3. ASSUME NEW d \in Conns \ {c} PROVE LinkOf(d)'
    <3>1. wire'[d] = wire[d]
      BY <1>0, <2>1, <2>2, SendAppends
    <3> QED BY <1>4, <1>0, <3>1, LinkUntouched DEF SendUpdate, LinkState
  <2>4. LinkOf(c)'
    <3>1. link[c] # "new"
      BY <1>4 DEF SendUpdate, LinkState, LinkOf
    <3>2. Places(c, "subscribed")' = Places(c, "subscribed")
      <4>1. CASE link[c] # "open"
        BY <1>0, <2>1, <2>2, <4>1, SendAppends
      <4>2. CASE link[c] = "open"
        <5>1. Places(c, "subscribed")'
                = Places(c, "subscribed")
                    \cup IF m.kind = "subscribed" THEN {Len(wire[c]) + 1} ELSE {}
          BY <1>0, <2>1, <2>2, <4>2, SendAppends
        <5> QED BY <2>2, <5>1
      <4> QED BY <4>1, <4>2
    <3> QED BY <1>4, <3>1, <3>2 DEF SendUpdate, LinkState, LinkOf, Subscribed
  <2> QED BY <2>3, <2>4 DEF LinkState
<1>5. ASSUME NEW c \in Conns, NEW mayRead \in BOOLEAN, Connect(c, mayRead),
             UNCHANGED <<fanOutVars, routerVars>>
      PROVE  LinkState'
  <2>1. ASSUME NEW d \in Conns \ {c} PROVE LinkOf(d)'
    BY <1>5, <1>0, LinkUntouched DEF Connect, LinkState
  <2>2. LinkOf(c)'
    <3>1. /\ link[c] = "new" /\ wire'[c] = wire[c] /\ filter' = filter
          /\ IF mayRead THEN link'[c] = "open" /\ c \in registered' /\ handler'[c] = {Hello}
             ELSE link'[c] = "closed" /\ handler' = handler
      BY <1>5, <1>0 DEF Connect
    <3>2. wire[c] = <<>> /\ handler[c] = {} /\ filter[c] = {}
      BY <3>1 DEF LinkState, LinkOf
    <3>3. Places(c, "subscribed")' = {}
      BY <3>1, <3>2 DEF Places
    <3>5. CASE mayRead
      BY <3>1, <3>2, <3>3, <3>5, FrameKinds DEF LinkOf, Subscribed
    <3>6. CASE ~ mayRead
      BY <3>1, <3>2, <3>3, <3>6 DEF LinkOf, Subscribed
    <3> QED BY <3>5, <3>6
  <2> QED BY <2>1, <2>2 DEF LinkState
<1>6. ASSUME NEW c \in Conns, NEW f \in Filters, Subscribe(c, f),
             UNCHANGED <<fanOutVars, routerVars>>
      PROVE  LinkState'
  <2>1. ASSUME NEW d \in Conns \ {c} PROVE LinkOf(d)'
    BY <1>6, <1>0, LinkUntouched DEF Subscribe, LinkState
  <2>2. LinkOf(c)'
    <3>1. /\ link[c] = "open" /\ link' = link /\ wire' = wire
          /\ filter'[c] = f /\ handler'[c] = {Ack(f)} /\ registered' = registered /\ slow' = slow
      BY <1>6, <1>0 DEF Subscribe
    <3> QED BY <3>1, FrameKinds DEF LinkState, LinkOf, Subscribed
  <2> QED BY <2>1, <2>2 DEF LinkState
<1>7. ASSUME NEW c \in Conns, Reply(c), UNCHANGED <<fanOutVars, routerVars>>
      PROVE  LinkState'
  <2>1. PICK m \in handler[c] : Send(c, m)
    BY <1>7 DEF Reply
  <2>2. handler[c] = {m} /\ (m = Hello \/ \E f \in Filters : m = Ack(f))
    BY <1>0, <2>1
  <2>3. m \in WireFrames
    BY <2>2, FrameKinds
  <2>4. ASSUME NEW d \in Conns \ {c} PROVE LinkOf(d)'
    <3>1. wire'[d] = wire[d]
      BY <1>0, <2>1, <2>3, SendAppends
    <3> QED BY <1>7, <1>0, <3>1, LinkUntouched DEF Reply, LinkState
  <2>5. LinkOf(c)'
    <3>1. /\ link' = link /\ registered' = registered /\ slow' = slow /\ alive' = alive
          /\ filter' = filter /\ handler'[c] = {}
      BY <1>7, <1>0 DEF Reply
    <3>2. link[c] # "new"
      BY <2>2 DEF LinkState, LinkOf
    <3>3. CASE m = Hello
      BY <2>2, <3>1, <3>2, <3>3, FrameKinds DEF LinkState, LinkOf, Subscribed
    <3>4. CASE m # Hello
      <4>1. m.kind = "subscribed"
        BY <2>2, <3>4, FrameKinds
      <4>2. link[c] = "open" => Len(wire[c]) + 1 \in Places(c, "subscribed")'
        BY <1>0, <2>1, <2>3, <4>1, SendAppends
      <4> QED BY <3>1, <3>2, <4>2 DEF LinkState, LinkOf, Subscribed
    <3> QED BY <3>3, <3>4
  <2> QED BY <2>4, <2>5 DEF LinkState
<1>8. ASSUME NEW c \in Conns, HandlePong(c), UNCHANGED <<fanOutVars, routerVars>>
      PROVE  LinkState'
  BY <1>8 DEF HandlePong, LinkState, LinkOf, Subscribed, Places
<1>9. ASSUME NEW c \in Conns, Hangup(c), UNCHANGED <<fanOutVars, routerVars>>
      PROVE  LinkState'
  <2>1. ASSUME NEW d \in Conns \ {c} PROVE LinkOf(d)'
    BY <1>9, <1>0, LinkUntouched DEF Hangup, LinkState
  <2>2. LinkOf(c)'
    BY <1>9, <1>0 DEF Hangup, LinkState, LinkOf, Places
  <2> QED BY <2>1, <2>2 DEF LinkState
<1>10. ASSUME NEW c \in Conns, Disconnect(c), UNCHANGED <<fanOutVars, routerVars>>
      PROVE  LinkState'
  <2>1. ASSUME NEW d \in Conns \ {c} PROVE LinkOf(d)'
    BY <1>10, <1>0, LinkUntouched DEF Disconnect, LinkState, ConnTypeOK
  <2>2. LinkOf(c)'
    BY <1>10, FrameKinds DEF Disconnect, LinkOf, Busy
  <2> QED BY <2>1, <2>2 DEF LinkState
<1>11. ASSUME DropAll, receiver' \in {"idle", "joined"}, seq' \in {0, seq}
      PROVE  LinkState'
  <2>1. ASSUME NEW d \in Conns PROVE LinkOf(d)'
    BY <1>11, FrameKinds DEF DropAll, LinkOf
  <2> QED BY <2>1 DEF LinkState
<1>12. CASE UNCHANGED <<connVars, routerVars>>
  BY <1>12 DEF LinkState, LinkOf, Subscribed, Places
<1> QED BY <1>1, <1>2, <1>3, <1>4, <1>5, <1>6, <1>7, <1>8, <1>9, <1>10,
       <1>11, <1>12, Steps

\* The types that matter to the frames of a connection.
ConnTypes ==
    /\ wire \in [Conns -> Seq(WireFrames)]
    /\ link \in [Conns -> {"new", "open", "closed"}]
    /\ filter \in [Conns -> {{}} \cup Filters]
    /\ bytes \in [Conns -> Nat] /\ pongAt \in [Conns -> Nat]
    /\ handler \in [Conns -> {{}, {Hello}} \cup {{Ack(f)} : f \in Filters}]
    /\ seq \in Nat /\ MaxPending \in Nat

\* They are among the types.
LEMMA ConnTypesHold == TypeOK => ConnTypes
<1> SUFFICES ASSUME TypeOK PROVE ConnTypes
  OBVIOUS
<1>1. seq \in Nat /\ MaxPending \in Nat
  BY UpdatesAssumption, RegistryAssumption
     DEF TypeOK, UpdatesAssumption, RegistryAssumption
<1>2. ConnTypeOK
  BY DEF TypeOK
<1> QED BY <1>1, <1>2 DEF ConnTypeOK, ConnTypes, WireFrames

\* The number of a frame.
LEMMA FrameNumber ==
    ASSUME ConnTypes, NEW c \in Conns, NEW i \in Places(c, "update")
    PROVE  i \in 1 .. Len(wire[c]) /\ wire[c][i].seq \in Nat /\ Len(wire[c]) \in Nat
  BY WireTypes, FrameKinds DEF ConnTypes

\* A connection that a step does not touch keeps its frames in order.
LEMMA OrderUntouched ==
    ASSUME NEW d, OrderOf(d), UpTo(d)' = UpTo(d), wire'[d] = wire[d],
           link[d] = "open" \/ link'[d] # "open", Subscribed(d) => Subscribed(d)'
    PROVE  OrderOf(d)'
<1>1. Places(d, "update")' = Places(d, "update")
  BY DEF Places
<1> QED BY <1>1 DEF OrderOf

\* Whether it has asked for a filter, and whether its loop is busy.
LEMMA SubscribedUntouched ==
    ASSUME NEW d, wire'[d] = wire[d], filter'[d] = filter[d], handler'[d] = handler[d]
    PROVE  Subscribed(d)' = Subscribed(d) /\ Busy(d)' = Busy(d)
  BY DEF Subscribed, Places, Busy

\* Nor does a step to another connection send it a stale frame.
LEMMA StaleUntouched ==
    ASSUME NEW d, StaleOf(d), wire'[d] = wire[d], filter'[d] = filter[d],
           handler'[d] = handler[d], link[d] = "open" \/ link'[d] # "open",
           d \in alive' => d \in alive /\ payload' = payload
    PROVE  StaleOf(d)'
<1>1. \A k : Places(d, k)' = Places(d, k)
  BY DEF Places
<1>2. \A k : /\ LastAck(d, k)' <=> LastAck(d, k)
             /\ Stale(d, k)' <=> Stale(d, k)
  BY <1>1 DEF LastAck, Stale
<1> QED BY <1>2 DEF StaleOf, Busy

\* What is counted for it stays too.
LEMMA BacklogUntouched ==
    ASSUME NEW d, BacklogOf(d), wire'[d] = wire[d], pongAt'[d] = pongAt[d],
           bytes'[d] = bytes[d], d \in registered' => d \in registered,
           d \in alive' <=> d \in alive
    PROVE  BacklogOf(d)'
<1>1. Places(d, "update")' = Places(d, "update")
  BY DEF Places
<1>2. Backlog(d)' = Backlog(d)
  BY <1>1 DEF Backlog
<1> QED BY <1>2 DEF BacklogOf

\* To a connection that is not open nothing is sent, so all its frames are in order.
LEMMA NoFrames ==
    ASSUME ConnTypes, ConnTypes', NEW d \in Conns, wire'[d] = <<>>,
           d \in registered' => d \notin alive'
    PROVE  OrderOf(d)' /\ StaleOf(d)' /\ BacklogOf(d)'
<1>1. \A k : Places(d, k)' = {}
  BY DEF Places
<1>2. OrderOf(d)'
  BY <1>1 DEF OrderOf
<1>3. StaleOf(d)'
  BY <1>1 DEF StaleOf, LastAck
<1>4. BacklogOf(d)'
  <2>1. Cardinality(Places(d, "update"))' = 0
    BY <1>1, FS_EmptySet
  <2>2. pongAt'[d] \in Nat /\ bytes'[d] \in Nat /\ MaxPending \in Nat
    BY DEF ConnTypes
  <2>3. Backlog(d)' <= IF d \in alive' THEN 1 ELSE 0
    BY <2>1, <2>2 DEF Backlog
  <2> QED BY <2>1, <2>2, <2>3 DEF BacklogOf, Backlog
<1> QED BY <1>2, <1>3, <1>4

\* The snapshot: whoever is without a filter is among those it is for, nobody is above
\* the limit with it, and nobody's filter excludes it.
LEMMA FramesOfReceive ==
    ASSUME TypeOK, FanOutState, LinkState, FramesState, NEW u \in Incoming, Receive(u)
    PROVE  FramesState'
<1> SUFFICES ASSUME NEW c \in Conns PROVE OrderOf(c)' /\ StaleOf(c)' /\ BacklogOf(c)'
  BY DEF FramesState
<1>0. ConnTypes /\ OrderOf(c) /\ StaleOf(c) /\ BacklogOf(c) /\ LinkOf(c)
  BY ConnTypesHold DEF FramesState, LinkState
<1>1. /\ UNCHANGED <<link, filter, handler, wire, pongAt>>
      /\ seq' = seq + 1 /\ alive = {} /\ slow = {}
      /\ alive' = Takers(u.kind) \ Slow(u.kind) /\ slow' = Slow(u.kind)
      /\ registered' = registered \ Slow(u.kind)
      /\ bytes' = [d \in Conns |-> bytes[d] + IF d \in Takers(u.kind) THEN 1 ELSE 0]
      /\ payload' = {Update(seq + 1, u.kind)} /\ u.kind \in Types
  BY DEF Receive, Snapshot, Forwardable, FanOutState, FanOutDone
<1>2. Slow(u.kind) \subseteq Takers(u.kind) /\ Takers(u.kind) \subseteq registered
  BY DEF Slow, Takers
<1>3. Places(c, "update")' = Places(c, "update")
  BY <1>1 DEF Places
<1>4. CASE c \in Takers(u.kind)
  <2>1. UpTo(c)' = UpTo(c)
    BY <1>0, <1>1, <1>2, <1>4 DEF UpTo, ConnTypes
  <2>2. OrderOf(c)'
    BY <1>0, <1>1, <2>1, OrderUntouched, SubscribedUntouched
  <2> DEFINE new == Update(seq + 1, u.kind)
  <2>3. new.type = u.kind
    <3>1. seq + 1 \in Nat \ {0} /\ u.kind \in Types
      BY <1>0, <1>1 DEF ConnTypes
    <3> QED BY <3>1, FrameKinds
  <2>4. Admits(filter'[c], new.type)
    BY <1>1, <1>4, <2>3 DEF Takers
  <2> HIDE DEF new
  <2>5. StaleOf(c)'
    <3>1. \A m \in payload' : Admits(filter'[c], m.type)
      BY <1>1, <2>4 DEF new
    <3>2. \A k : Places(c, k)' = Places(c, k)
      BY <1>1 DEF Places
    <3>3. \A k : /\ LastAck(c, k)' <=> LastAck(c, k)
                 /\ Stale(c, k)' <=> Stale(c, k)
      BY <1>1, <3>2 DEF LastAck, Stale
    <3> QED BY <1>0, <1>1, <3>1, <3>3 DEF StaleOf, Busy
  <2>6. BacklogOf(c)'
    <3>1. Cardinality(Places(c, "update")) \in Nat /\ bytes[c] \in Nat /\ pongAt[c] \in Nat
          /\ MaxPending \in Nat
      BY <1>0, PlacesFinite DEF ConnTypes
    <3>2. Backlog(c)' = IF c \in Slow(u.kind) THEN Backlog(c) ELSE Backlog(c) + 1
      BY <1>1, <1>3, <1>4, <3>1 DEF Backlog
    <3>3. bytes'[c] = bytes[c] + 1 /\ c \in registered
      BY <1>1, <1>2, <1>4
    <3>4. MaxPending # 0 /\ c \notin Slow(u.kind) => bytes[c] + 1 <= MaxPending
      BY <1>4, <3>1 DEF Slow
    <3>5. Backlog(c) \in Int
      BY <3>1 DEF Backlog
    <3>6. c \in registered' <=> c \notin Slow(u.kind)
      BY <1>1, <3>3
    <3> QED BY <1>0, <3>1, <3>2, <3>3, <3>4, <3>5, <3>6 DEF BacklogOf
  <2> QED BY <2>2, <2>5, <2>6
<1>5. CASE c \notin Takers(u.kind)
  <2>1. c \notin alive' \cup slow'
    BY <1>1, <1>2, <1>5
  <2>2. UpTo(c) = seq /\ UpTo(c)' = seq + 1
    BY <1>1, <2>1 DEF UpTo
  <2>3. link[c] = "open" => Subscribed(c)
    BY <1>0, <1>1, <1>5 DEF LinkOf, Takers, Admits
  <2>4. OrderOf(c)'
    <3>1. Subscribed(c)' = Subscribed(c)
      BY <1>1, SubscribedUntouched
    <3>2. \A i \in Places(c, "update") : wire[c][i].seq <= seq + 1
      <4> SUFFICES ASSUME NEW i \in Places(c, "update") PROVE wire[c][i].seq <= seq + 1
        OBVIOUS
      <4>1. wire[c][i].seq \in Nat /\ seq \in Nat
        BY <1>0, FrameNumber DEF ConnTypes
      <4>2. wire[c][i].seq <= seq
        BY <1>0, <2>2 DEF OrderOf
      <4> QED BY <4>1, <4>2
    <3> QED BY <1>0, <1>1, <1>3, <2>2, <2>3, <3>1, <3>2 DEF OrderOf
  <2>5. StaleOf(c)'
    BY <1>0, <1>1, <2>1, StaleUntouched
  <2>6. bytes'[c] = bytes[c]
    BY <1>0, <1>1, <1>5 DEF ConnTypes
  <2>7. BacklogOf(c)'
    BY <1>0, <1>1, <2>1, <2>6, BacklogUntouched
  <2> QED BY <2>4, <2>5, <2>7
<1> QED BY <1>4, <1>5

\* What one more frame does to a connection's list.
GrowsBy(c, m, L) ==
    /\ L \in Nat /\ DOMAIN wire[c] = 1 .. L /\ DOMAIN wire'[c] = 1 .. L + 1
    /\ \A i \in 1 .. L : wire'[c][i] = wire[c][i]
    /\ wire'[c][L + 1] = m
    /\ \A k : /\ Places(c, k) \subseteq 1 .. L
              /\ m.kind # k => Places(c, k)' = Places(c, k)
              /\ m.kind = k => Places(c, k)' = Places(c, k) \cup {L + 1}

\* A frame that is sent stands behind all others of an open connection.
LEMMA Appended ==
    ASSUME ConnTypes, NEW c \in Conns, NEW m \in WireFrames, Send(c, m), link[c] = "open"
    PROVE  GrowsBy(c, m, Len(wire[c]))
<1> DEFINE L == Len(wire[c])
<1>1. /\ wire' \in [Conns -> Seq(WireFrames)]
      /\ Len(wire'[c]) = L + 1
      /\ \A i \in 1 .. L : wire'[c][i] = wire[c][i]
      /\ wire'[c][L + 1] = m
      /\ \A k : Places(c, k)' = Places(c, k) \cup IF m.kind = k THEN {L + 1} ELSE {}
  BY SendAppends DEF ConnTypes
<1>2. L \in Nat /\ DOMAIN wire[c] = 1 .. L /\ \A k : Places(c, k) \subseteq 1 .. L
  BY WireTypes DEF ConnTypes
<1>3. DOMAIN wire'[c] = 1 .. L + 1
  BY <1>1, LenProperties
<1>4. ASSUME NEW k
      PROVE  /\ m.kind # k => Places(c, k)' = Places(c, k)
             /\ m.kind = k => Places(c, k)' = Places(c, k) \cup {L + 1}
  <2>1. Places(c, k)' = Places(c, k) \cup IF m.kind = k THEN {L + 1} ELSE {}
    BY <1>1
  <2>2. CASE m.kind = k
    BY <2>1, <2>2
  <2>3. CASE m.kind # k
    <3>1. Places(c, k)' = Places(c, k) \cup {}
      BY <2>1, <2>3
    <3> QED BY <2>3, <3>1
  <2> QED BY <2>2, <2>3
<1> QED BY <1>1, <1>2, <1>3, <1>4 DEF GrowsBy

\* The update is sent: in its turn, behind everything with a smaller number.
LEMMA FramesOfSend ==
    ASSUME TypeOK, FanOutState, LinkState, FramesState,
           NEW c \in Conns, SendUpdate(c), UNCHANGED routerVars
    PROVE  FramesState'
<1>0. ConnTypes /\ OrderOf(c) /\ StaleOf(c) /\ BacklogOf(c) /\ LinkOf(c)
  BY ConnTypesHold DEF FramesState, LinkState
<1>1. PICK m \in payload : Send(c, m)
  BY DEF SendUpdate
<1>2. PICK t \in Types : payload = {Update(seq, t)} /\ seq \in Nat \ {0} /\ seq \in Int
  BY UnderWay DEF SendUpdate
<1>3. m \in WireFrames /\ m.kind = "update" /\ m.seq = seq /\ m.type = t /\ payload = {m}
  BY <1>1, <1>2, FrameKinds
<1>4. /\ UNCHANGED <<link, registered, filter, bytes, handler, pongAt, payload, slow, seq>>
      /\ alive' = alive \ {c} /\ c \in alive /\ slow = {}
  BY DEF SendUpdate
<1>5. ASSUME NEW d \in Conns \ {c} PROVE OrderOf(d)' /\ StaleOf(d)' /\ BacklogOf(d)'
  <2>1. wire'[d] = wire[d]
    BY <1>0, <1>1, <1>3, SendAppends DEF ConnTypes
  <2>2. UpTo(d)' = UpTo(d)
    BY <1>4 DEF UpTo
  <2> QED BY <1>4, <2>1, <2>2, OrderUntouched, StaleUntouched, BacklogUntouched,
             SubscribedUntouched DEF FramesState
<1>6. UpTo(c) = seq - 1 /\ UpTo(c)' = seq
  BY <1>4 DEF UpTo
<1>7. /\ Cardinality(Places(c, "update")) \in Nat /\ bytes[c] \in Nat /\ pongAt[c] \in Nat
      /\ IsFiniteSet(Places(c, "update")) /\ Len(wire[c]) + 1 \notin Places(c, "update")
      /\ MaxPending \in Nat
  BY <1>0, PlacesFinite DEF ConnTypes
<1>8. CASE link[c] # "open"
  <2>1. wire' = wire
    BY <1>0, <1>1, <1>3, <1>8, SendAppends DEF ConnTypes
  <2>2. Places(c, "update")' = Places(c, "update")
    BY <2>1 DEF Places
  <2>3. OrderOf(c)'
    <3>1. ASSUME NEW i \in Places(c, "update") PROVE wire[c][i].seq <= seq
      <4>1. wire[c][i].seq \in Nat
        BY <1>0, FrameNumber
      <4> QED BY <1>0, <1>2, <1>6, <4>1 DEF OrderOf
    <3> QED BY <1>4, <1>6, <1>8, <2>1, <2>2, <3>1 DEF OrderOf
  <2>4. StaleOf(c)'
    BY <1>4, <1>8 DEF StaleOf
  <2>5. Backlog(c)' <= Backlog(c) /\ Backlog(c) \in Int /\ Backlog(c)' \in Int
    BY <1>4, <1>7, <2>2 DEF Backlog
  <2>6. BacklogOf(c)'
    BY <1>0, <1>4, <1>7, <2>5 DEF BacklogOf
  <2> QED BY <1>5, <2>3, <2>4, <2>6 DEF FramesState
<1>9. CASE link[c] = "open"
  <2> DEFINE P == Places(c, "update")
  <2>0. PICK L \in Nat : L = Len(wire[c])
    BY <1>0, WireTypes DEF ConnTypes
  <2>1. /\ L \in Nat /\ DOMAIN wire[c] = 1 .. L /\ DOMAIN wire'[c] = 1 .. L + 1
        /\ \A i \in 1 .. L : wire'[c][i] = wire[c][i]
        /\ wire'[c][L + 1] = m
        /\ P \subseteq 1 .. L /\ P' = P \cup {L + 1}
        /\ Places(c, "subscribed") \subseteq 1 .. L
        /\ Places(c, "subscribed")' = Places(c, "subscribed")
    <3>1. GrowsBy(c, m, L)
      BY <1>0, <1>1, <1>3, <1>9, <2>0, Appended, Zenon
    <3> QED BY <1>3, <3>1 DEF GrowsBy
  <2>2. \A i \in P : i \in 1 .. L /\ i # L + 1 /\ wire'[c][i].seq = wire[c][i].seq
                     /\ wire[c][i].seq \in Nat /\ wire[c][i].seq <= seq - 1
    BY <1>0, <1>6, <2>1, FrameNumber DEF OrderOf
  <2> HIDE DEF P
  <2>3. OrderOf(c)'
    <3>1. ASSUME NEW i \in P' PROVE wire'[c][i].seq <= seq
      <4>1. CASE i = L + 1
        BY <1>2, <1>3, <2>1, <4>1
      <4>2. CASE i \in P
        <5>1. wire'[c][i].seq \in Nat /\ wire'[c][i].seq <= seq - 1
          BY <2>2, <4>2
        <5> QED BY <1>2, <5>1
      <4> QED BY <2>1, <4>1, <4>2
    <3>2. ASSUME NEW i \in P', NEW j \in P', i < j
          PROVE  wire'[c][i].seq < wire'[c][j].seq
      <4>1. i \in P
        BY <2>1, <3>2
      <4>2. CASE j \in P
        BY <1>0, <1>9, <2>2, <3>2, <4>1, <4>2 DEF OrderOf, P
      <4>3. CASE j = L + 1
        <5>1. wire'[c][i].seq \in Nat /\ wire'[c][i].seq <= seq - 1
          BY <2>2, <4>1
        <5>2. wire'[c][j].seq = seq
          BY <1>3, <2>1, <4>3
        <5> QED BY <1>2, <5>1, <5>2
      <4> QED BY <2>1, <4>2, <4>3
    <3>3. Subscribed(c)' = Subscribed(c)
      BY <1>4, <2>1 DEF Subscribed
    <3>4. ASSUME ~Subscribed(c), NEW i \in P', NEW n \in wire'[c][i].seq .. seq
          PROVE  \E j \in P' : wire'[c][j].seq = n
      <4>1. CASE n = seq
        BY <1>3, <2>1, <4>1
      <4>2. CASE n # seq
        <5>1. i \in P
          BY <1>2, <1>3, <2>1, <4>2
        <5>2. n \in wire[c][i].seq .. UpTo(c)
          BY <1>2, <1>6, <2>2, <4>2, <5>1
        <5>3. \E j \in P : wire[c][j].seq = n
          BY <1>0, <1>9, <3>4, <5>1, <5>2 DEF OrderOf, P
        <5> QED BY <2>1, <2>2, <5>3
      <4> QED BY <4>1, <4>2
    <3> QED BY <1>4, <1>6, <3>1, <3>2, <3>3, <3>4 DEF OrderOf, P
  <2>4. StaleOf(c)'
    <3>1. \A k : LastAck(c, k)' <=> LastAck(c, k)
      BY <2>1 DEF LastAck
    <3>2. \A n \in 1 .. L : Stale(c, n)' <=> Stale(c, n)
      BY <1>4, <2>1 DEF Stale, P
    <3>3. Stale(c, L + 1)' <=> ~Admits(filter[c], t)
      <4>1. /\ L + 1 \in Places(c, "update")' /\ wire'[c][L + 1].type = t
            /\ filter'[c] = filter[c]
        BY <1>3, <1>4, <2>1 DEF P
      <4> QED BY <4>1 DEF Stale, Admits
    <3>4. \A k : LastAck(c, k) => k \in 1 .. L
      BY <2>1 DEF LastAck
    <3> SUFFICES ASSUME ~Busy(c), NEW k \in 1 .. L + 1, NEW a \in 1 .. L + 1, NEW b \in 1 .. L + 1,
                        LastAck(c, k), k < a, Stale(c, a)', k < b, Stale(c, b)'
                 PROVE  a = b
      BY <1>4, <1>9, <2>1, <3>1 DEF StaleOf, Busy
    <3>5. \A n \in 1 .. L + 1 : n \in 1 .. L \/ n = L + 1
      BY <2>1
    <3>8. k \in 1 .. L
      BY <3>4
    <3>9. \A x, y \in 1 .. L : k < x /\ Stale(c, x) /\ k < y /\ Stale(c, y) => x = y
      BY <1>0, <1>9, <2>1, <3>8 DEF StaleOf
    <3>6. CASE Admits(filter[c], t)
      BY <3>2, <3>3, <3>5, <3>6, <3>9
    <3>7. CASE ~Admits(filter[c], t)
      <4>1. \A n \in 1 .. L : k < n => ~Stale(c, n)
        BY <1>0, <1>3, <1>4, <1>9, <2>1, <3>7, <3>8 DEF StaleOf
      <4> QED BY <3>2, <3>5, <4>1
    <3> QED BY <3>6, <3>7
  <2>5. BacklogOf(c)'
    <3>1. Cardinality(P') = Cardinality(P) + 1
      <4>1. IsFiniteSet(P) /\ L + 1 \notin P
        BY <1>7, <2>0 DEF P
      <4>2. Cardinality(P \cup {L + 1}) = Cardinality(P) + 1
        BY <4>1, FS_AddElement, Zenon
      <4> QED BY <2>1, <4>2, Zenon
    <3>2. Backlog(c)' = Backlog(c)
      BY <1>4, <1>7, <3>1 DEF Backlog, P
    <3> QED BY <1>0, <1>4, <3>2 DEF BacklogOf
  <2> QED BY <1>5, <2>3, <2>4, <2>5 DEF FramesState
<1> QED BY <1>8, <1>9

\* A handler's last line: its frame is no update, and nothing stands behind a new
\* acknowledgement.
LEMMA FramesOfReply ==
    ASSUME TypeOK, FanOutState, LinkState, FramesState,
           NEW c \in Conns, Reply(c), UNCHANGED <<fanOutVars, routerVars>>
    PROVE  FramesState'
<1>0. ConnTypes /\ OrderOf(c) /\ StaleOf(c) /\ BacklogOf(c) /\ LinkOf(c)
  BY ConnTypesHold DEF FramesState, LinkState
<1>1. PICK m \in handler[c] : Send(c, m)
  BY DEF Reply
<1>2. handler[c] = {m} /\ (m = Hello \/ \E f \in Filters : m = Ack(f))
  <2>1. m \in handler[c] /\ handler[c] \in {{}, {Hello}} \cup {{Ack(f)} : f \in Filters}
    BY <1>0, <1>1, Zenon DEF ConnTypes
  <2>2. handler[c] = {Hello} \/ \E f \in Filters : handler[c] = {Ack(f)}
    BY <2>1
  <2> QED BY <2>1, <2>2
<1>3. /\ m \in WireFrames /\ m.kind # "update"
      /\ m # Hello => m.kind = "subscribed"
      /\ m = Hello => m.kind # "subscribed"
  BY <1>2, FrameKinds
<1>4. /\ UNCHANGED <<link, registered, filter, bytes, pongAt, payload, slow, alive, seq>>
      /\ handler' = [handler EXCEPT ![c] = {}]
  BY DEF Reply
<1>5. ASSUME NEW d \in Conns \ {c} PROVE OrderOf(d)' /\ StaleOf(d)' /\ BacklogOf(d)'
  <2>1. wire'[d] = wire[d] /\ handler'[d] = handler[d]
    BY <1>0, <1>1, <1>3, <1>4, SendAppends DEF ConnTypes
  <2>2. UpTo(d)' = UpTo(d)
    BY <1>4 DEF UpTo
  <2> QED BY <1>4, <2>1, <2>2, OrderUntouched, StaleUntouched, BacklogUntouched,
             SubscribedUntouched DEF FramesState
<1>6. UpTo(c)' = UpTo(c)
  BY <1>4 DEF UpTo
<1>8. CASE link[c] # "open"
  <2>1. wire' = wire
    BY <1>0, <1>1, <1>3, <1>8, SendAppends DEF ConnTypes
  <2>2. Places(c, "update")' = Places(c, "update")
    BY <2>1 DEF Places
  <2>3. OrderOf(c)' /\ StaleOf(c)'
    BY <1>0, <1>4, <1>6, <1>8, <2>1, <2>2 DEF OrderOf, StaleOf
  <2>4. BacklogOf(c)'
    BY <1>0, <1>4, <2>1, BacklogUntouched
  <2> QED BY <1>5, <2>3, <2>4 DEF FramesState
<1>9. CASE link[c] = "open"
  <2> DEFINE L == Len(wire[c])
             P == Places(c, "update")
             Q == Places(c, "subscribed")
  <2>1. /\ L \in Nat /\ DOMAIN wire[c] = 1 .. L /\ DOMAIN wire'[c] = 1 .. L + 1
        /\ \A i \in 1 .. L : wire'[c][i] = wire[c][i]
        /\ P \subseteq 1 .. L /\ P' = P /\ Q \subseteq 1 .. L
        /\ m # Hello => Q' = Q \cup {L + 1}
        /\ m = Hello => Q' = Q
    <3>1. GrowsBy(c, m, L)
      BY <1>0, <1>1, <1>3, <1>9, Appended, Zenon
    <3> HIDE DEF L
    <3> QED BY <1>3, <3>1 DEF GrowsBy
  <2>2. m = Hello => Q = {}
    BY <1>0, <1>2 DEF LinkOf
  <2> HIDE DEF L, P, Q
  <2>3. Subscribed(c) => Subscribed(c)'
    <3>1. m # Hello => Q' # {}
      BY <2>1
    <3>2. m = Hello => ~Subscribed(c)
      BY <1>2, <2>2, FrameKinds DEF Subscribed, Q
    <3> QED BY <3>1, <3>2 DEF Subscribed, Q
  <2>4. OrderOf(c)'
    BY <1>0, <1>4, <1>6, <1>9, <2>1, <2>3 DEF OrderOf, P
  <2>5. StaleOf(c)'
    <3>1. ASSUME NEW k, LastAck(c, k)' PROVE k = L + 1
      <4>1. k \in Q' /\ \A n \in Q' : n <= k
        BY <3>1 DEF LastAck, Q
      <4>2. Q' = Q \cup {L + 1}
        BY <2>1, <2>2, <4>1
      <4>3. L + 1 <= k
        BY <4>1, <4>2
      <4> QED BY <2>1, <4>1, <4>2, <4>3
    <3>2. \A k, n \in DOMAIN wire'[c] : ~ (LastAck(c, k)' /\ k < n)
      BY <2>1, <3>1
    <3> QED BY <3>2 DEF StaleOf
  <2>6. BacklogOf(c)'
    BY <1>0, <1>4, <2>1 DEF BacklogOf, Backlog, P
  <2> QED BY <1>5, <2>4, <2>5, <2>6 DEF FramesState
<1> QED BY <1>8, <1>9

\* No other step sends a frame.
LEMMA FramesStep ==
    ASSUME TypeOK, TypeOK', FanOutState, LinkState, FramesState, [Next]_vars
    PROVE  FramesState'
<1> DEFINE Kept(d) == OrderOf(d)' /\ StaleOf(d)' /\ BacklogOf(d)'
<1>0. /\ ConnTypes /\ ConnTypes'
      /\ \A d \in Conns : OrderOf(d) /\ StaleOf(d) /\ BacklogOf(d) /\ LinkOf(d)
  <2>1. ConnTypes
    BY ConnTypesHold
  <2>2. ConnTypes'
    <3>1. (TypeOK => ConnTypes)'
      BY ConnTypesHold, PTL
    <3> QED BY <3>1
  <2> QED BY <2>1, <2>2 DEF FramesState, LinkState
<1>a. ASSUME NEW d \in Conns, wire'[d] = wire[d], filter'[d] = filter[d],
             handler'[d] = handler[d], link'[d] = link[d] \/ link'[d] # "open",
             bytes'[d] = bytes[d], pongAt'[d] = pongAt[d],
             d \in registered' => d \in registered, d \in alive' <=> d \in alive,
             d \in alive => payload' = payload, UpTo(d)' = UpTo(d)
      PROVE  Kept(d)
  <2>1. OrderOf(d) /\ StaleOf(d) /\ BacklogOf(d)
    BY <1>0
  <2>2. Subscribed(d)' = Subscribed(d)
    BY <1>a, SubscribedUntouched
  <2>3. OrderOf(d)'
    BY <1>a, <2>1, <2>2, OrderUntouched
  <2>4. StaleOf(d)'
    BY <1>a, <2>1, StaleUntouched
  <2>5. BacklogOf(d)'
    BY <1>a, <2>1, BacklogUntouched
  <2> QED BY <2>3, <2>4, <2>5
<1>b. SUFFICES \A d \in Conns : Kept(d)
  BY DEF FramesState
<1> HIDE DEF Kept
<1>1. ASSUME NEW u \in Incoming, Receive(u) PROVE \A d \in Conns : Kept(d)
  BY <1>1, FramesOfReceive DEF FramesState, Kept
<1>2. CASE Publish
  <2>1. UNCHANGED <<linkVars, slow, alive, seq>> /\ alive = {}
    BY <1>2 DEF Publish, FanOutDone
  <2>2. \A d \in Conns : UpTo(d)' = UpTo(d)
    BY <2>1 DEF UpTo
  <2> QED BY <1>a, <2>1, <2>2
<1>3. ASSUME NEW c \in Conns, ForceClose(c), UNCHANGED routerVars
      PROVE  \A d \in Conns : Kept(d)
  <2>1. /\ UNCHANGED <<registered, filter, bytes, handler, wire, pongAt, payload, alive, seq>>
        /\ slow' = slow \ {c} /\ link' = [link EXCEPT ![c] = "closed"] /\ link'[c] = "closed"
    BY <1>3, <1>0 DEF ForceClose, ConnTypes
  <2>2. ASSUME NEW d \in Conns \ {c} PROVE Kept(d)
    <3>1. UpTo(d)' = UpTo(d) /\ link'[d] = link[d]
      BY <2>1 DEF UpTo
    <3> QED BY <1>a, <2>1, <3>1
  <2>3. OrderOf(c)'
    <3>1. ASSUME NEW i \in Places(c, "update") PROVE wire[c][i].seq <= UpTo(c)'
      <4>1. wire[c][i].seq \in Nat /\ wire[c][i].seq <= UpTo(c) /\ seq \in Nat
        BY <1>0, FrameNumber DEF OrderOf, ConnTypes
      <4> QED BY <2>1, <4>1 DEF UpTo
    <3>2. Places(c, "update")' = Places(c, "update")
      BY <2>1 DEF Places
    <3> QED BY <2>1, <3>1, <3>2 DEF OrderOf
  <2>4. StaleOf(c)'
    BY <2>1 DEF StaleOf
  <2>5. BacklogOf(c)'
    BY <1>0, <2>1, BacklogUntouched
  <2> QED BY <2>2, <2>3, <2>4, <2>5 DEF Kept
<1>4. ASSUME NEW c \in Conns, SendUpdate(c), UNCHANGED routerVars
      PROVE  \A d \in Conns : Kept(d)
  BY <1>4, FramesOfSend DEF FramesState, Kept
<1>5. ASSUME NEW c \in Conns, NEW mayRead \in BOOLEAN, Connect(c, mayRead),
             UNCHANGED <<fanOutVars, routerVars>>
      PROVE  \A d \in Conns : Kept(d)
  <2>1. /\ UNCHANGED <<filter, bytes, wire, pongAt, payload, slow, alive, seq>>
        /\ link[c] = "new"
        /\ \A d \in Conns \ {c} : /\ link'[d] = link[d] /\ handler'[d] = handler[d]
                                  /\ d \in registered' <=> d \in registered
    BY <1>5, <1>0 DEF Connect, ConnTypes
  <2>2. ASSUME NEW d \in Conns \ {c} PROVE Kept(d)
    <3>1. UpTo(d)' = UpTo(d)
      BY <2>1 DEF UpTo
    <3> QED BY <1>a, <2>1, <3>1
  <2>3. wire'[c] = <<>> /\ c \notin alive'
    BY <1>0, <2>1 DEF LinkOf
  <2>4. Kept(c)
    BY <1>0, <2>3, NoFrames DEF Kept
  <2> QED BY <2>2, <2>4
<1>6. ASSUME NEW c \in Conns, NEW f \in Filters, Subscribe(c, f),
             UNCHANGED <<fanOutVars, routerVars>>
      PROVE  \A d \in Conns : Kept(d)
  <2>1. /\ UNCHANGED <<link, registered, bytes, wire, pongAt, payload, slow, alive, seq>>
        /\ filter'[c] = f /\ handler'[c] = {Ack(f)} /\ link[c] = "open"
        /\ \A d \in Conns \ {c} : filter'[d] = filter[d] /\ handler'[d] = handler[d]
    BY <1>6, <1>0 DEF Subscribe, ConnTypes
  <2>2. \A d \in Conns : UpTo(d)' = UpTo(d)
    BY <2>1 DEF UpTo
  <2>3. ASSUME NEW d \in Conns \ {c} PROVE Kept(d)
    BY <1>a, <2>1, <2>2
  <2>4. OrderOf(c)'
    <3>1. Subscribed(c)'
      BY <2>1 DEF Subscribed
    <3> QED BY <1>0, <2>1, <2>2, <3>1, OrderUntouched
  <2>5. StaleOf(c)'
    BY <2>1 DEF StaleOf, Busy
  <2>6. BacklogOf(c)'
    BY <1>0, <2>1, BacklogUntouched
  <2> QED BY <2>3, <2>4, <2>5, <2>6 DEF Kept
<1>7. ASSUME NEW c \in Conns, Reply(c), UNCHANGED <<fanOutVars, routerVars>>
      PROVE  \A d \in Conns : Kept(d)
  BY <1>7, FramesOfReply DEF FramesState, Kept
<1>8. ASSUME NEW c \in Conns, HandlePong(c), UNCHANGED <<fanOutVars, routerVars>>
      PROVE  \A d \in Conns : Kept(d)
  <2>1. /\ UNCHANGED <<link, registered, filter, handler, wire, payload, slow, alive, seq>>
        /\ bytes'[c] = 0 /\ link[c] = "open"
        /\ pongAt'[c] = Cardinality(Places(c, "update")) + IF c \in alive THEN 1 ELSE 0
        /\ \A d \in Conns \ {c} : bytes'[d] = bytes[d] /\ pongAt'[d] = pongAt[d]
    BY <1>8, <1>0 DEF HandlePong, ConnTypes
  <2>2. \A d \in Conns : UpTo(d)' = UpTo(d)
    BY <2>1 DEF UpTo
  <2>3. ASSUME NEW d \in Conns \ {c} PROVE Kept(d)
    BY <1>a, <2>1, <2>2
  <2>4. OrderOf(c)'
    <3>1. Subscribed(c)' = Subscribed(c)
      BY <2>1, SubscribedUntouched
    <3> QED BY <1>0, <2>1, <2>2, <3>1, OrderUntouched
  <2>5. StaleOf(c)'
    BY <1>0, <2>1, StaleUntouched
  <2>6. BacklogOf(c)'
    <3>1. Cardinality(Places(c, "update")) \in Nat /\ MaxPending \in Nat
      BY <1>0, PlacesFinite DEF ConnTypes
    <3>2. Places(c, "update")' = Places(c, "update")
      BY <2>1 DEF Places
    <3>3. Backlog(c)' = 0
      BY <2>1, <3>1, <3>2 DEF Backlog
    <3> QED BY <2>1, <3>1, <3>3 DEF BacklogOf
  <2> QED BY <2>3, <2>4, <2>5, <2>6 DEF Kept
<1>9. ASSUME NEW c \in Conns, Hangup(c), UNCHANGED <<fanOutVars, routerVars>>
      PROVE  \A d \in Conns : Kept(d)
  <2>1. /\ UNCHANGED <<registered, filter, bytes, handler, wire, pongAt, payload, slow, alive, seq>>
        /\ \A d \in Conns : link'[d] = link[d] \/ link'[d] # "open"
    BY <1>9, <1>0 DEF Hangup, ConnTypes
  <2>2. \A d \in Conns : UpTo(d)' = UpTo(d)
    BY <2>1 DEF UpTo
  <2> QED BY <1>a, <2>1, <2>2
<1>10. ASSUME NEW c \in Conns, Disconnect(c), UNCHANGED <<fanOutVars, routerVars>>
      PROVE  \A d \in Conns : Kept(d)
  <2>1. /\ UNCHANGED <<link, handler, payload, slow, alive, seq>>
        /\ registered' = registered \ {c} /\ wire'[c] = <<>>
        /\ \A d \in Conns \ {c} : /\ filter'[d] = filter[d] /\ bytes'[d] = bytes[d]
                                  /\ wire'[d] = wire[d] /\ pongAt'[d] = pongAt[d]
    BY <1>10, <1>0 DEF Disconnect, ConnTypes
  <2>2. \A d \in Conns : UpTo(d)' = UpTo(d)
    BY <2>1 DEF UpTo
  <2>3. ASSUME NEW d \in Conns \ {c} PROVE Kept(d)
    BY <1>a, <2>1, <2>2
  <2>4. Kept(c)
    BY <1>0, <2>1, NoFrames DEF Kept
  <2> QED BY <2>3, <2>4
<1>11. ASSUME DropAll, receiver' \in {"idle", "joined"}, seq' \in {0, seq}
      PROVE  \A d \in Conns : Kept(d)
  <2>1. ASSUME NEW d \in Conns PROVE wire'[d] = <<>> /\ d \notin alive'
    BY <1>11 DEF DropAll
  <2> QED BY <1>0, <2>1, NoFrames DEF Kept
<1>12. CASE UNCHANGED <<connVars, routerVars>>
  <2>1. \A d \in Conns : UpTo(d)' = UpTo(d)
    BY <1>12 DEF UpTo
  <2> QED BY <1>a, <1>12, <2>1
<1> QED BY <1>1, <1>2, <1>3, <1>4, <1>5, <1>6, <1>7, <1>8, <1>9, <1>10,
       <1>11, <1>12, Steps

-----------------------------------------------------------------------------
(* The theorems *)

\* Every process starts with nothing sent, nothing published and nobody connected.
LEMMA InitInv == Init => IInv
<1> SUFFICES ASSUME Init PROVE IInv
  OBVIOUS
<1> USE DEF Init, ConnInit, SinkInit, RouterInit
<1>1. TypeOK
  <2>1. ConnTypeOK
    BY EmptySeq DEF ConnTypeOK
  <2>2. SinkTypeOK(Events)
    <3>1. <<>> \in Seq(Events) /\ Len(<<>>) <= MaxQueue
      BY EmptySeq, SinkAssumption DEF SinkAssumption
    <3> QED BY <3>1 DEF SinkTypeOK
  <2> QED BY <2>1, <2>2, UpdatesAssumption DEF TypeOK, UpdatesAssumption
<1>2. WorkerState /\ FanOutState
  BY DEF WorkerState, FanOutState, FanOutDone
<1>3. LinkState
  BY FrameKinds DEF LinkState, LinkOf
<1>4. HandedOverOnce
  <2>1. topic \o OnTheWay = <<>> /\ OnTheWay = <<>>
    BY EmptySeq, ConcatEmptySeq DEF OnTheWay
  <2>2. ToSet(<<>>) = {}
    BY DEF ToSet
  <2>3. seen - seq + 1 .. seen = {}
    OBVIOUS
  <2> QED BY <2>1, <2>2, <2>3 DEF HandedOverOnce
<1>5. FramesState
  <2> SUFFICES ASSUME NEW c \in Conns PROVE OrderOf(c) /\ StaleOf(c) /\ BacklogOf(c)
    BY DEF FramesState
  <2>1. \A k : Places(c, k) = {}
    BY NothingSent
  <2>2. Backlog(c) = 0
    BY <2>1, FS_EmptySet DEF Backlog
  <2>3. MaxPending \in Nat
    BY RegistryAssumption DEF RegistryAssumption
  <2> QED BY <2>1, <2>2, <2>3 DEF OrderOf, StaleOf, LastAck, BacklogOf
<1> QED BY <1>1, <1>2, <1>3, <1>4, <1>5 DEF IInv

\* Every step keeps the inductive invariant.
LEMMA StepInv == IInv /\ [Next]_vars => IInv'
<1> SUFFICES ASSUME IInv, [Next]_vars PROVE IInv'
  OBVIOUS
<1>0. TypeOK /\ WorkerState /\ FanOutState /\ LinkState /\ HandedOverOnce /\ FramesState
  BY DEF IInv
<1>1. SinkTypeOK(Events)' /\ HandedOverOnce'
  BY <1>0, WayStep
<1>2. TypeOK'
  BY <1>0, <1>1, ConnTypeStep, RouterTypeStep DEF TypeOK
<1>3. WorkerState' /\ FanOutState' /\ LinkState'
  BY <1>0, WorkerStateStep, FanOutStep, LinkStep
<1>4. FramesState'
  BY <1>0, <1>2, FramesStep
<1> QED BY <1>1, <1>2, <1>3, <1>4 DEF IInv

\* IInv is an inductive invariant of the router, the registry and the sink.
THEOREM Inductive == Spec => []IInv
  BY InitInv, StepInv, PTL DEF Spec

\* Kafka is handed every update of a process once and in order, but for the dropped
\* ones, over any number of restarts (kafka_sink.cpp:71-133).
THEOREM UpdatesReachKafka == Spec => []UpdatesInv
<1>1. IInv => UpdatesInv
  BY DEF IInv, UpdatesInv
<1> QED BY <1>1, Inductive, PTL

\* A subscriber gets the updates in order and, without a filter, without a gap
\* (ws_registry.hpp:13-15).
THEOREM FramesInOrder == Spec => []InOrder
<1>1. IInv => InOrder
  <2> SUFFICES ASSUME IInv, NEW c \in Conns, link[c] = "open"
               PROVE  /\ \A i, j \in Places(c, "update") :
                           i < j => wire[c][i].seq < wire[c][j].seq
                      /\ ~Subscribed(c) =>
                           \A i \in Places(c, "update") : \A n \in wire[c][i].seq .. UpTo(c) :
                               \E j \in Places(c, "update") : wire[c][j].seq = n
    BY DEF InOrder, UpTo
  <2>1. OrderOf(c)
    BY DEF IInv, FramesState
  <2> QED BY <2>1 DEF OrderOf
<1> QED BY <1>1, Inductive, PTL

\* Behind an acknowledgement at most one frame is sent that the filter excludes
\* (updates_ws.cpp:104-110).
THEOREM FilterBites == Spec => []OneStaleFrame
<1>1. IInv => OneStaleFrame
  <2> SUFFICES ASSUME IInv, NEW c \in Conns, link[c] = "open", ~Busy(c)
               PROVE  \A k, m, n \in DOMAIN wire[c] :
                        LastAck(c, k) /\ k < m /\ Stale(c, m) /\ k < n /\ Stale(c, n) => m = n
    BY DEF OneStaleFrame
  <2>1. StaleOf(c)
    BY DEF IInv, FramesState
  <2> QED BY <2>1 DEF StaleOf
<1> QED BY <1>1, Inductive, PTL

\* Since its last pong nobody is sent more than the limit (ws_registry.cpp:70-84).
THEOREM SlowIsCutOff == Spec => []SlowIsCut
<1>1. IInv => SlowIsCut
  <2> SUFFICES ASSUME IInv, MaxPending # 0, NEW c \in Conns
               PROVE  Cardinality(Places(c, "update")) - pongAt[c] <= MaxPending
    BY DEF SlowIsCut
  <2>1. BacklogOf(c) /\ ConnTypes
    BY ConnTypesHold DEF IInv, FramesState
  <2>2. Cardinality(Places(c, "update")) \in Nat /\ pongAt[c] \in Nat /\ MaxPending \in Nat
    BY <2>1, PlacesFinite DEF ConnTypes
  <2> QED BY <2>1, <2>2 DEF BacklogOf, Backlog
<1> QED BY <1>1, Inductive, PTL

\* No open connection is missing from the registry, but for one that is found slow and
\* about to be closed: the fan-out, which works on a copy, forgets nobody.
THEOREM OpenIsRegistered ==
    Spec => [](\A c \in Conns : link[c] = "open" => c \in registered \cup slow)
<1>1. IInv => (\A c \in Conns : link[c] = "open" => c \in registered \cup slow)
  BY DEF IInv, LinkState, LinkOf
<1> QED BY <1>1, Inductive, PTL
=============================================================================
