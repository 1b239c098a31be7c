---------------------------- MODULE OwnerTrigger ----------------------------
(***************************************************************************)
(* Which incoming message becomes a webhook event, and with what thread    *)
(* above it: the hook that src/src/main.cpp gives the update router,       *)
(* detect() of src/src/ws/owner_mention_detector.hpp and the coroutine     *)
(* buildEvent() of src/src/webhook/context_builder.cpp, which climbs the   *)
(* thread by one getMessage after another.  Meanwhile getMe may be         *)
(* answered and tell who the owner is.                                     *)
(*                                                                         *)
(* A thread is the senders of the messages from the parent upwards, as far *)
(* as each names the next.  A reply names no message when its message_id_  *)
(* is 0, so a reply may have an empty thread.                              *)
(***************************************************************************)
EXTENDS Integers, SequencesExt

CONSTANTS
    Owner, Other,
    Unknown,     \* owner_id before getMe is answered: no sender has it
    ChainLimit   \* chain_limit

ASSUME TriggerAssumption == ChainLimit \in Nat /\ Unknown \notin {Owner, Other}

Messages == [outgoing : BOOLEAN, post : BOOLEAN, private : BOOLEAN,
             mention : BOOLEAN, reply : BOOLEAN, sender : {Owner, Other}]
Threads == BoundedSeq({Owner, Other}, ChainLimit + 1)

VARIABLES
    ownerId,     \* the atomic owner_id of main
    message, thread,
    oid,         \* owner_id as the hook has read it
    climb,        \* "none", "new", "up", or how it ended: "quiet", "event"
    reason, chain, truncated,
    failed       \* a getMessage failed

triggerVars == <<ownerId, message, thread, oid, climb, reason, chain, truncated, failed>>

TriggerStart ==
    /\ ownerId = Unknown /\ oid = Unknown /\ reason = "none"
    /\ chain = <<>> /\ truncated = FALSE /\ failed = FALSE
TriggerInit ==
    /\ TriggerStart /\ climb = "new"
    /\ message \in Messages /\ thread \in Threads
    /\ thread # <<>> => message.reply
TriggerIdle ==
    TriggerStart /\ message = Unknown /\ thread = <<>> /\ climb = "none"

\* The coroutine of setOnReady() has its answer.
OwnerKnown ==
    /\ climb \in {"new", "up"} /\ ownerId' = Owner
    /\ UNCHANGED <<message, thread, oid, climb, reason, chain, truncated, failed>>

-----------------------------------------------------------------------------
MutOwnMessages(m, id) ==
    IF m.post \/ m.sender = id THEN "none"
    ELSE IF m.mention THEN "mention"
    ELSE IF m.reply THEN "reply"
    ELSE IF m.private THEN "dm" ELSE "none"
\* detect(): the reasons by their priority; a reply has still to be confirmed.
Detect(m, id) ==
    IF m.post \/ m.outgoing \/ m.sender = id THEN "none"
    ELSE IF m.mention THEN "mention"
    ELSE IF m.reply THEN "reply"
    ELSE IF m.private THEN "dm" ELSE "none"

MutClimbPastLimit(hops) == hops < Len(thread) /\ hops <= ChainLimit
\* The loop goes on below the limit while there is a message to name (cur != 0).
Climbs(hops) == hops < Len(thread) /\ hops < ChainLimit

\* The hook, and buildEvent() up to its first call, or to its end where there is none:
\* a reply that names no message leaves the loop at once and is an event.
Hook ==
    /\ climb = "new" /\ oid' = ownerId
    /\ reason' = Detect(message, ownerId)
    /\ climb' = IF reason' = "none" \/ (reason' = "reply" /\ ChainLimit <= 0) THEN "quiet"
               ELSE IF Climbs(0) THEN "up" ELSE "event"
    /\ truncated' = (climb' = "event" /\ thread # <<>>)
    /\ UNCHANGED <<ownerId, message, thread, chain, failed>>

AfterHop(hops) == IF Climbs(hops) THEN "up" ELSE "event"

\* A reply is confirmed by the sender of its parent, or is no event at all.
Unconfirmed == reason = "reply" /\ chain = <<>>

Parent ==
    /\ climb = "up"
    /\ IF Unconfirmed /\ thread[1] # oid
       THEN climb' = "quiet" /\ UNCHANGED <<chain, truncated>>
       ELSE /\ chain' = Append(chain, thread[Len(chain) + 1])
            /\ climb' = AfterHop(Len(chain'))
            /\ truncated' = (Len(chain') < Len(thread) /\ Len(chain') >= ChainLimit)
    /\ UNCHANGED <<ownerId, message, thread, oid, reason, failed>>

\* The message is gone, the call timed out, or the process is stopping.
ParentFails ==
    /\ climb = "up" /\ failed' = TRUE
    /\ IF Unconfirmed THEN climb' = "quiet" /\ UNCHANGED truncated
       ELSE climb' = "event" /\ truncated' = TRUE
    /\ UNCHANGED <<ownerId, message, thread, oid, reason, chain>>

TriggerNext == OwnerKnown \/ Hook \/ Parent \/ ParentFails

TriggerSpec == TriggerInit /\ [][TriggerNext]_triggerVars

-----------------------------------------------------------------------------
(* Properties *)

TriggerTypeOK ==
    /\ {ownerId, oid} \subseteq {Owner, Unknown}
    /\ climb \in {"none", "new", "up", "quiet", "event"}
    /\ Len(chain) <= ChainLimit /\ truncated \in BOOLEAN /\ failed \in BOOLEAN

\* A reply to a message it does not name: nothing says whose that is.
UnknownParent == message.reply /\ thread = <<>>

\* An event goes out for a message of somebody else, outside of a broadcast
\* channel, that mentions the owner, answers a message found to be the owner's,
\* or is private and answers nothing, and for no other, a reply that names no
\* message excepted, which README.md:186-188 does not except.  A private
\* reply to somebody else's message is silenced, which README.md:185 does not
\* say.  The chain is the thread up to the top, to the limit or to a call that
\* failed, and it is marked truncated when the top is missing
\* (README.md:183-189, context_builder.cpp:56-105).
EventIsDueAndWhole ==
    /\ climb = "event" =>
          /\ ~message.outgoing /\ ~message.post /\ message.sender # oid
          /\ \/ message.mention
             \/ message.private /\ ~message.reply
             \/ thread # <<>> /\ thread[1] = Owner /\ oid = Owner
             \/ UnknownParent /\ ChainLimit > 0
          /\ IsPrefix(chain, thread)
          /\ Len(chain) < Len(thread) => Len(chain) = ChainLimit \/ failed
          /\ truncated <=> Len(chain) < Len(thread)
    /\ climb = "quiet" =>
          \/ message.outgoing \/ message.post \/ message.sender = oid
          \/ /\ ~message.mention
             /\ ~message.reply => ~message.private
             /\ message.reply => \/ thread # <<>> /\ (failed \/ thread[1] # oid)
                                 \/ ChainLimit <= 0

=============================================================================
