----------------------------- MODULE KafkaSink ------------------------------
(***************************************************************************)
(* KafkaSink (src/src/events/kafka_sink.cpp): produce() queues an event,   *)
(* the worker takes the queue as a batch and hands it to librdkafka one by *)
(* one, flush() ends the worker.  librdkafka may refuse an event; what it  *)
(* does with one it has taken is not modelled.                             *)
(***************************************************************************)
EXTENDS Integers, Sequences

CONSTANTS
    MaxQueue  \* kMaxQueue

ASSUME SinkAssumption == MaxQueue \in Nat \ {0}

VARIABLES
    queue,    \* queue_
    stop,     \* stop_
    worker,   \* "wait", "hand" (handing over), "done"
    batch,    \* what of its batch is still to be handed over
    topic,    \* what librdkafka has taken, in order
    dropped   \* history: events of this process refused by the queue or by librdkafka

sinkVars == <<queue, stop, worker, batch, topic, dropped>>

SinkInit ==
    /\ queue = <<>> /\ stop = FALSE
    /\ worker = "wait" /\ batch = <<>>
    /\ topic = <<>> /\ dropped = {}

Produce(e) ==
    /\ IF Len(queue) >= MaxQueue
       THEN dropped' = dropped \cup {e} /\ UNCHANGED queue
       ELSE queue' = Append(queue, e) /\ UNCHANGED dropped
    /\ UNCHANGED <<stop, worker, batch, topic>>

\* The wait and the swap behind it.  The worker also wakes every 100 ms to poll
\* while reports are outstanding: with an empty queue that changes nothing.
TakeBatch ==
    /\ worker = "wait" /\ (stop \/ queue # <<>>)
    /\ batch' = queue /\ queue' = batch
    /\ worker' = IF queue = <<>> /\ stop THEN "done" ELSE "hand"
    /\ UNCHANGED <<stop, topic, dropped>>

MutBatchKept(taken) ==
    /\ worker = "hand"
    /\ IF taken
       THEN topic' = Append(topic, Head(batch)) /\ UNCHANGED dropped
       ELSE dropped' = dropped \cup {Head(batch)} /\ UNCHANGED topic
    /\ worker' = IF Tail(batch) = <<>> THEN "wait" ELSE "hand"
    /\ UNCHANGED <<queue, stop, batch>>
\* One event of the batch is handed over, and taken or not.  No other thread sees
\* the batch, which is cleared behind the last one: it holds what is still to be
\* handed over, and the next swap leaves an empty queue behind.
HandOver(taken) ==
    /\ worker = "hand"
    /\ IF taken
       THEN topic' = Append(topic, Head(batch)) /\ UNCHANGED dropped
       ELSE dropped' = dropped \cup {Head(batch)} /\ UNCHANGED topic
    /\ batch' = Tail(batch)
    /\ worker' = IF batch' = <<>> THEN "wait" ELSE "hand"
    /\ UNCHANGED <<queue, stop>>

StopWorker ==
    /\ stop' = TRUE
    /\ UNCHANGED <<queue, worker, batch, topic, dropped>>

\* The process is gone: what librdkafka had not taken is lost.
Forget ==
    /\ queue' = <<>> /\ stop' = FALSE
    /\ worker' = "wait" /\ batch' = <<>>
    /\ dropped' = {} /\ UNCHANGED topic

WorkerStep ==
    \/ TakeBatch
    \/ \E taken \in BOOLEAN : HandOver(taken)

-----------------------------------------------------------------------------
SinkTypeOK(Events) ==
    /\ queue \in Seq(Events) /\ Len(queue) <= MaxQueue
    /\ stop \in BOOLEAN
    /\ worker \in {"wait", "hand", "done"}
    /\ batch \in Seq(Events)
    /\ topic \in Seq(Events) /\ dropped \subseteq Events
=============================================================================
