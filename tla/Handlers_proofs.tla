--------------------------- MODULE Handlers_proofs ---------------------------
(***************************************************************************)
(* What holds of the handlers for every chain limit, every list of chats   *)
(* and every number of uploads.  A behaviour of Handlers is one of a       *)
(* single part, so each part has an invariant of its own, which its idle   *)
(* state satisfies too.                                                    *)
(***************************************************************************)
EXTENDS Requests_proofs, FiniteSetTheorems, SequenceTheorems

\* A step of Handlers is a step of each part, or leaves it alone.
LEMMA PartsStep ==
    [Next]_vars => /\ [TriggerNext]_triggerVars /\ [UploadsNext]_uploadVars
                   /\ [PagesNext]_pageVars /\ [RequestNext]_requestVars
  BY DEF Next, vars

\* A part starts, or is idle.
LEMMA PartsInit ==
    Init => /\ TriggerInit \/ TriggerIdle
            /\ UploadsInit \/ UploadsIdle
            /\ PagesInit \/ PagesIdle
            /\ RequestInit \/ RequestIdle
  BY DEF Init
-----------------------------------------------------------------------------
(* The webhook event (OwnerTrigger) *)

\* The chain is what has been climbed of the thread.
ChainState ==
    /\ {ownerId, oid} \subseteq {Owner, Unknown}
    /\ truncated \in BOOLEAN /\ failed \in BOOLEAN
    /\ climb \in {"none", "new", "up", "quiet", "event"}
    /\ climb # "none" => message \in Messages /\ (thread # <<>> => message.reply)
    /\ thread \in Seq({Owner, Other}) /\ chain \in Seq({Owner, Other})
    /\ Len(chain) <= Len(thread) /\ Len(chain) <= ChainLimit
    /\ \A i \in 1 .. Len(chain) : chain[i] = thread[i]
    /\ climb \in {"none", "new"} => chain = <<>>

\* The reason for the event is the one the hook found, and a reply is confirmed by
\* the first hop.
ReasonState ==
    /\ climb \in {"up", "event"} =>
          /\ reason = Detect(message, oid) /\ reason # "none"
          /\ reason = "reply" /\ chain # <<>> => thread[1] = oid
    /\ climb = "up" => Climbs(Len(chain))
    /\ climb = "event" =>
          /\ reason = "reply" /\ thread # <<>> => chain # <<>>
          /\ reason = "reply" => ChainLimit > 0
          /\ Len(chain) < Len(thread) => Len(chain) = ChainLimit \/ failed
          /\ truncated <=> Len(chain) < Len(thread)

\* No event: the reason was none, or the reply is not confirmed.
QuietState ==
    climb = "quiet" =>
        \/ Detect(message, oid) = "none"
        \/ /\ Detect(message, oid) = "reply"
           /\ \/ thread # <<>> /\ (failed \/ thread[1] # oid)
              \/ ChainLimit <= 0

TriggerInv == ChainState /\ ReasonState /\ QuietState

\* A thread without a reply is the one of length 0.
LEMMA EmptyThread ==
    ASSUME NEW s \in Seq({Owner, Other}) PROVE s = <<>> <=> Len(s) = 0
  OBVIOUS

\* The outcome is as due and as whole as the reason and the chain say.
LEMMA OutcomeFollows == TriggerInv => EventIsDueAndWhole
<1> SUFFICES ASSUME TriggerInv PROVE EventIsDueAndWhole
  OBVIOUS
<1> USE TriggerAssumption DEF TriggerAssumption, TriggerInv
<1>1. ASSUME climb = "event"
      PROVE  /\ ~ message.outgoing /\ ~ message.post /\ message.sender # oid
             /\ \/ message.mention
                \/ message.private /\ ~ message.reply
                \/ thread # <<>> /\ thread[1] = Owner /\ oid = Owner
                \/ UnknownParent /\ ChainLimit > 0
             /\ IsPrefix(chain, thread)
  <2>1. /\ ~ message.outgoing /\ ~ message.post /\ message.sender # oid
        /\ \/ message.mention
           \/ message.private /\ ~ message.reply
           \/ thread # <<>> /\ reason = "reply"
           \/ UnknownParent /\ ChainLimit > 0
    BY <1>1 DEF ReasonState, Detect, UnknownParent
  <2>2. thread # <<>> /\ reason = "reply" => thread[1] = Owner /\ oid = Owner
    BY <1>1, EmptyThread DEF ChainState, ReasonState
  <2>3. SubSeq(chain, 1, Len(chain)) = SubSeq(thread, 1, Len(chain))
    BY DEF ChainState
  <2> QED BY <2>1, <2>2, <2>3 DEF IsPrefix, ChainState
<1>2. ASSUME climb = "quiet"
      PROVE  \/ message.outgoing \/ message.post \/ message.sender = oid
             \/ /\ ~ message.mention
                /\ ~ message.reply => ~ message.private
                /\ message.reply => \/ thread # <<>> /\ (failed \/ thread[1] # oid)
                                    \/ ChainLimit <= 0
  BY <1>2 DEF QuietState, Detect, ChainState, Messages
<1> QED BY <1>1, <1>2 DEF EventIsDueAndWhole, ReasonState

\* The detector and the climb begin with their invariant, or idle in it.
LEMMA TriggerStarts == TriggerInit \/ TriggerIdle => TriggerInv
<1> SUFFICES ASSUME TriggerInit \/ TriggerIdle PROVE TriggerInv
  OBVIOUS
<1>1. thread \in Seq({Owner, Other})
  <2>1. CASE TriggerInit
    <3>1. PICK m \in 0 .. ChainLimit + 1 : thread \in [1 .. m -> {Owner, Other}]
      BY <2>1 DEF TriggerInit, Threads, BoundedSeq, SeqOf
    <3> QED BY <3>1, TriggerAssumption DEF TriggerAssumption
  <2>2. CASE TriggerIdle
    BY <2>2 DEF TriggerIdle
  <2> QED BY <2>1, <2>2
<1>2. /\ ownerId = Unknown /\ oid = Unknown /\ chain = <<>>
      /\ truncated \in BOOLEAN /\ failed \in BOOLEAN /\ climb \in {"none", "new"}
      /\ climb = "new" => message \in Messages /\ (thread # <<>> => message.reply)
  BY DEF TriggerInit, TriggerIdle, TriggerStart
<1>3. chain \in Seq({Owner, Other}) /\ Len(chain) = 0
  BY <1>2
<1>4. ChainState
  BY <1>1, <1>2, <1>3, TriggerAssumption DEF TriggerAssumption, ChainState
<1> QED BY <1>2, <1>4 DEF TriggerInv, ReasonState, QuietState

\* The owner may become known at any time: what was decided was decided for oid.
LEMMA TriggerStep == TriggerInv /\ [TriggerNext]_triggerVars => TriggerInv'
<1> SUFFICES ASSUME TriggerInv, [TriggerNext]_triggerVars PROVE TriggerInv'
  OBVIOUS
<1> USE TriggerAssumption DEF TriggerAssumption, TriggerInv
<1>1. CASE UNCHANGED triggerVars
  BY <1>1 DEF triggerVars, ChainState, ReasonState, QuietState, Climbs
<1>2. CASE OwnerKnown
  BY <1>2 DEF OwnerKnown, ChainState, ReasonState, QuietState, Climbs
<1>3. CASE Hook
  <2>1. ChainState'
    BY <1>3 DEF Hook, ChainState
  <2>2. /\ chain' = <<>> /\ Len(chain') = 0 /\ Len(thread) \in Nat
        /\ Len(thread) = 0 <=> thread = <<>>
        /\ reason' = Detect(message, oid')
        /\ UNCHANGED <<message, thread>>
    BY <1>3, EmptyThread DEF Hook, ChainState, Detect
  <2>3. truncated' <=> climb' = "event" /\ thread # <<>>
    BY <1>3, Zenon DEF Hook
  <2>4. /\ climb' \in {"up", "event"} => reason' # "none" /\ (reason' = "reply" => ChainLimit > 0)
        /\ climb' = "up" => Climbs(0)
        /\ climb' = "event" => ~ Climbs(0)
    BY <1>3 DEF Hook
  <2>5. ReasonState'
    BY <2>2, <2>3, <2>4 DEF ReasonState, Climbs
  <2>6. QuietState'
    BY <1>3, <2>2 DEF Hook, QuietState
  <2> QED BY <2>1, <2>5, <2>6
<1>up. climb = "up" => thread # <<>>
  <2> SUFFICES ASSUME climb = "up" PROVE thread # <<>>
    OBVIOUS
  <2>1. Len(thread) > 0
    BY DEF ReasonState, ChainState, Climbs
  <2> QED BY <2>1, EmptyThread DEF ChainState
<1>4. CASE Parent
  <2> DEFINE next == thread[Len(chain) + 1]
  <2>1. CASE Unconfirmed /\ thread[1] # oid
    <3>1. /\ climb = "up" /\ climb' = "quiet"
          /\ UNCHANGED <<ownerId, message, thread, oid, reason, chain, truncated, failed>>
      BY <1>4, <2>1, Zenon DEF Parent
    <3>2. Detect(message, oid) = "reply" /\ thread # <<>>
      BY <1>4, <2>1, <1>up DEF Parent, Unconfirmed, ReasonState
    <3>3. ChainState'
      BY <3>1 DEF ChainState
    <3>4. ReasonState' /\ QuietState'
      BY <2>1, <3>1, <3>2 DEF ReasonState, QuietState
    <3> QED BY <3>3, <3>4
  <2>2. CASE ~ (Unconfirmed /\ thread[1] # oid)
    <3>1. Climbs(Len(chain)) /\ next \in {Owner, Other}
      BY <1>4 DEF Parent, ChainState, ReasonState, Climbs
    <3>2. /\ climb = "up" /\ chain' = Append(chain, next) /\ climb' = AfterHop(Len(chain'))
          /\ truncated' = (Len(chain') < Len(thread) /\ Len(chain') >= ChainLimit)
          /\ UNCHANGED <<message, thread, oid, reason, failed, ownerId>>
      BY <1>4, <2>2 DEF Parent
    <3>3. /\ Len(chain') = Len(chain) + 1 /\ chain' \in Seq({Owner, Other}) /\ chain' # <<>>
          /\ \A i \in 1 .. Len(chain) : chain'[i] = chain[i]
          /\ chain'[Len(chain) + 1] = next
      BY <3>1, <3>2 DEF ChainState
    <3>4. \A i \in 1 .. Len(chain') : chain'[i] = thread[i]
      BY <3>3 DEF ChainState
    <3>5. ChainState'
      BY <3>1, <3>2, <3>3, <3>4 DEF ChainState, AfterHop, Climbs
    <3>6. reason = "reply" => thread[1] = oid
      BY <2>2, <3>2 DEF Unconfirmed, ReasonState
    <3>7. /\ reason = Detect(message, oid) /\ reason # "none"
          /\ Len(chain') \in Nat /\ Len(chain') <= Len(thread) /\ Len(chain') <= ChainLimit
          /\ Len(thread) \in Nat
      BY <3>1, <3>2, <3>5 DEF ReasonState, ChainState
    <3>8. truncated' <=> Len(chain') < Len(thread) /\ Len(chain') >= ChainLimit
      BY <3>2, Zenon
    <3>9. ReasonState'
      BY <3>2, <3>3, <3>6, <3>7, <3>8 DEF ReasonState, AfterHop, Climbs
    <3> QED BY <3>2, <3>5, <3>9 DEF QuietState, AfterHop
  <2> QED BY <2>1, <2>2
<1>5. CASE ParentFails
  <2>1. /\ climb = "up" /\ failed' = TRUE /\ thread # <<>>
        /\ UNCHANGED <<ownerId, message, thread, oid, reason, chain>>
    BY <1>5, <1>up DEF ParentFails
  <2>2. CASE Unconfirmed
    <3>1. climb' = "quiet" /\ UNCHANGED truncated
      BY <1>5, <2>2, Zenon DEF ParentFails
    <3> QED BY <2>1, <2>2, <3>1 DEF ChainState, ReasonState, QuietState, Unconfirmed
  <2>3. CASE ~ Unconfirmed
    <3>1. climb' = "event" /\ truncated' = TRUE
      BY <1>5, <2>3, Zenon DEF ParentFails
    <3> QED BY <2>1, <2>3, <3>1 DEF ChainState, ReasonState, QuietState, Unconfirmed, Climbs
  <2> QED BY <2>2, <2>3
<1> QED BY <1>1, <1>2, <1>3, <1>4, <1>5 DEF TriggerNext

\* An event goes out only for a message that calls for one, with the whole thread above
\* it or marked truncated, whatever getMe and the getMessage calls of the climb
\* answer meanwhile (detect, buildEvent).
THEOREM EventsAreDueAndWhole == Spec => []EventIsDueAndWhole
<1>1. Init => TriggerInv
  BY PartsInit, TriggerStarts
<1>2. TriggerInv /\ [Next]_vars => TriggerInv'
  BY PartsStep, TriggerStep
<1> QED BY <1>1, <1>2, OutcomeFollows, PTL DEF Spec

-----------------------------------------------------------------------------
(* The uploads (Uploads) *)

Stages == {"new", "queued", "numbered", "made", "written", "sending", "done", "failed", "lost"}
Flags == BOOLEAN    \* under a name, which the provers take for any set
Names == FileNames \cup {""}
Contents == UNION {[names -> [of : Uploads, whole : BOOLEAN]] : names \in SUBSET Names}

UploadRecords == [at : Stages, name : Names, small : Flags, dir : Nat,
                  reused : Flags, since : Nat, code : Nat]

UploadTypes ==
    /\ upload \in [Uploads -> UploadRecords]
    /\ counter \in Nat /\ clock \in Nat
    /\ \A dir \in DOMAIN disk : disk[dir] \in [mtime : Nat, files : Contents]

\* Who waits for a thread of the pool waits once.
QueueState ==
    /\ tasks \in Seq(Uploads)
    /\ \A i \in 1 .. Len(tasks) : upload[tasks[i]].at = "queued"
    /\ \A i, j \in 1 .. Len(tasks) : tasks[i] = tasks[j] => i = j

\* The uploads in hand have numbers of this process, each its own: those of the
\* last one are lost or at an end, and write no more.
InHand(u) == upload[u].at \in {"numbered", "made", "written", "sending"}
NumbersState ==
    /\ \A u \in Uploads : InHand(u) => upload[u].dir \in 1 .. counter
    /\ \A u, v \in Uploads : InHand(u) /\ InHand(v) /\ u # v => upload[u].dir # upload[v].dir

\* The body of upload u, whole unless it is a small one.
BodyOf(u, body) == body.of = u /\ (body.whole \/ upload[u].small)

\* A new directory is empty until its upload writes to it, which dates it; then
\* it keeps the file until the sweep finds it too old.
OwnFile(u) ==
    ~ upload[u].reused =>
        /\ upload[u].at = "made" /\ upload[u].dir \in DOMAIN disk =>
              DOMAIN disk[upload[u].dir].files = {}
        /\ InUse(u) => /\ OnDisk(u) /\ disk[upload[u].dir].mtime >= upload[u].since
                       /\ BodyOf(u, disk[upload[u].dir].files[upload[u].name])

Swept == ~ due => \A dir \in DOMAIN disk : clock - disk[dir].mtime <= Ttl

UploadsInv ==
    /\ UploadTypes /\ QueueState /\ NumbersState /\ Swept
    /\ \A u \in Uploads : OwnFile(u)

\* What a step does not touch of an upload and of its directory stays true of them.
LEMMA OwnFileKept ==
    ASSUME NEW u \in Uploads, OwnFile(u), upload'[u] = upload[u], clock' = clock,
           InHand(u) => /\ upload[u].dir \in DOMAIN disk' <=> upload[u].dir \in DOMAIN disk
                        /\ upload[u].dir \in DOMAIN disk =>
                              disk'[upload[u].dir] = disk[upload[u].dir]
    PROVE  OwnFile(u)'
  BY DEF OwnFile, InHand, InUse, OnDisk, BodyOf

\* The uploads begin with their invariant, or idle in it.
LEMMA UploadsStarts == UploadsInit \/ UploadsIdle => UploadsInv
<1> SUFFICES ASSUME UploadsInit \/ UploadsIdle PROVE UploadsInv
  OBVIOUS
<1>1. /\ upload = [u \in Uploads |-> NewUpload] /\ tasks = <<>> /\ counter = 0
      /\ disk = <<>> /\ clock = 0
  BY DEF UploadsInit, UploadsIdle, UploadsStart
<1>2. DOMAIN disk = {}
  BY <1>1
<1>3. UploadTypes /\ NumbersState /\ Swept
  BY <1>1, <1>2 DEF UploadTypes, NumbersState, Swept, NewUpload, InHand, Stages, Names, Flags,
                      UploadRecords
<1>4. QueueState
  BY <1>1 DEF QueueState
<1>5. \A u \in Uploads : OwnFile(u)
  BY <1>1 DEF OwnFile, InUse, NewUpload
<1> QED BY <1>3, <1>4, <1>5 DEF UploadsInv

\* The steps of an upload in hand move nothing but it.
LEMMA StepInHand ==
    ASSUME UploadTypes, NEW u \in Uploads,
           CreateDirectory(u) \/ WriteBody(u) \/ AskTdlib(u) \/ TdlibAnswers(u) \/ TdlibDone(u)
    PROVE  /\ InHand(u) /\ UNCHANGED <<tasks, counter, clock, due>>
           /\ \A v \in Uploads : v # u => upload'[v] = upload[v]
           /\ upload'[u].dir = upload[u].dir
<1> USE DEF UploadTypes, UploadRecords, InHand, Fail
<1>1. CASE CreateDirectory(u)
  <2>1. CASE upload' = [upload EXCEPT ![u].at = "failed", ![u].code = 500]
    BY <1>1, <2>1 DEF CreateDirectory
  <2>2. ASSUME NEW b, upload' = [upload EXCEPT ![u].at = "made", ![u].reused = b]
        PROVE  upload'[u].dir = upload[u].dir /\ \A v \in Uploads : v # u => upload'[v] = upload[v]
    BY <2>2
  <2> QED BY <1>1, <2>1, <2>2 DEF CreateDirectory
<1>2. CASE WriteBody(u)
  BY <1>2 DEF WriteBody
<1>3. CASE AskTdlib(u) \/ TdlibAnswers(u) \/ TdlibDone(u)
  BY <1>3 DEF AskTdlib, TdlibAnswers, TdlibDone
<1> QED BY <1>1, <1>2, <1>3

\* What is asked of TDLib and answered leaves the file alone.
LEMMA TdlibSteps ==
    ASSUME UploadTypes, NEW u \in Uploads, AskTdlib(u) \/ TdlibAnswers(u) \/ TdlibDone(u)
    PROVE  /\ disk' = disk /\ clock' = clock /\ crashes' = crashes /\ due' = due
           /\ upload'[u].at \in {"sending", "failed", "done"}
<1>0. upload \in [Uploads -> UploadRecords]
  BY DEF UploadTypes
<1>1. CASE AskTdlib(u)
  <2>1. upload'[u].at = "sending"
    BY <1>0, <1>1 DEF AskTdlib, UploadRecords
  <2> QED BY <1>1, <2>1 DEF AskTdlib
<1>2. CASE TdlibAnswers(u)
  <2>1. CASE Fail(u, 502)
    <3>1. upload'[u].at = "failed"
      BY <1>0, <2>1 DEF Fail, UploadRecords
    <3> QED BY <1>2, <3>1 DEF TdlibAnswers
  <2>2. CASE upload' = [upload EXCEPT ![u].code = 202]
    <3>1. upload[u].at = "sending"
      BY <1>2 DEF TdlibAnswers
    <3>2. upload'[u].at = upload[u].at
      BY <1>0, <2>2 DEF UploadRecords
    <3> QED BY <1>2, <3>1, <3>2 DEF TdlibAnswers
  <2> QED BY <1>2, <2>1, <2>2 DEF TdlibAnswers
<1>3. CASE TdlibDone(u)
  <2>1. upload'[u].at = "done"
    BY <1>0, <1>3 DEF TdlibDone, UploadRecords
  <2> QED BY <1>3, <2>1 DEF TdlibDone
<1> QED BY <1>1, <1>2, <1>3

\* Accepting an upload refuses it or queues its job, and moves nothing else.
LEMMA AcceptMoves ==
    ASSUME UploadTypes, NEW u \in Uploads, Accept(u)
    PROVE  /\ upload[u].at = "new" /\ upload'[u].dir = upload[u].dir
           /\ \A v \in Uploads : v # u => upload'[v] = upload[v]
           /\ \/ upload'[u].at = "failed" /\ tasks' = tasks
              \/ upload'[u].at = "queued" /\ tasks' = Append(tasks, u)
           /\ UNCHANGED <<counter, disk, clock, due>>
<1> USE DEF UploadTypes, UploadRecords, Fail
<1>1. CASE upload' = [upload EXCEPT ![u].at = "failed", ![u].code = 400] /\ tasks' = tasks
  BY <1>1 DEF Accept
<1>2. ASSUME NEW name, NEW small, tasks' = Append(tasks, u),
             upload' = [upload EXCEPT ![u].at = "queued", ![u].name = name, ![u].small = small]
      PROVE  /\ upload'[u].dir = upload[u].dir /\ upload'[u].at = "queued"
             /\ \A v \in Uploads : v # u => upload'[v] = upload[v]
  BY <1>2
<1> QED BY <1>1, <1>2 DEF Accept

\* The queue loses its head to the pool and gains at its end who was new.
LEMMA QueueStep == UploadsInv /\ [UploadsNext]_uploadVars => QueueState'
<1> SUFFICES ASSUME UploadsInv, [UploadsNext]_uploadVars PROVE QueueState'
  OBVIOUS
<1> USE DEF UploadsInv, QueueState
<1>0. \A i \in 1 .. Len(tasks) : tasks[i] \in Uploads
  OBVIOUS
<1>1. ASSUME NEW u \in Uploads, Accept(u) PROVE QueueState'
  <2>1. upload[u].at = "new" /\ \A i \in 1 .. Len(tasks) : tasks[i] # u
    BY <1>1 DEF Accept
  <2>2. \A v \in Uploads : v # u => upload'[v] = upload[v]
    BY <1>1, AcceptMoves
  <2>3. CASE tasks' = tasks
    BY <1>0, <2>1, <2>2, <2>3
  <2>4. CASE tasks' = Append(tasks, u) /\ upload'[u].at = "queued"
    <3>1. /\ tasks' \in Seq(Uploads) /\ Len(tasks') = Len(tasks) + 1
          /\ tasks'[Len(tasks) + 1] = u
          /\ \A i \in 1 .. Len(tasks) : tasks'[i] = tasks[i]
      BY <2>4
    <3>2. \A i \in 1 .. Len(tasks) : upload'[tasks'[i]].at = "queued" /\ tasks'[i] # u
      BY <1>0, <2>1, <2>2, <3>1
    <3> QED BY <2>4, <3>1, <3>2
  <2> QED BY <1>1, <2>3, <2>4, AcceptMoves
<1>2. ASSUME NEW u \in Uploads, StartTask(u) PROVE QueueState'
  <2>1. /\ tasks # <<>> /\ tasks' = Tail(tasks) /\ tasks[1] = u
        /\ \A v \in Uploads : v # u => upload'[v] = upload[v]
    <3>1. tasks # <<>> /\ tasks' = Tail(tasks) /\ tasks[1] = u
      BY <1>2 DEF StartTask
    <3>2. \A v \in Uploads : v # u => upload'[v] = upload[v]
      <4>1. \/ upload' = [upload EXCEPT ![u].at = "failed", ![u].code = 400]
            \/ upload' = [upload EXCEPT ![u].at = "numbered", ![u].dir = NextSeq]
        BY <1>2, Zenon DEF StartTask, Fail
      <4>2. upload \in [Uploads -> UploadRecords]
        BY DEF UploadTypes
      <4> QED BY <4>1, <4>2, Zenon
    <3> QED BY <3>1, <3>2
  <2>2. /\ tasks' \in Seq(Uploads) /\ Len(tasks') = Len(tasks) - 1 /\ Len(tasks) >= 1
        /\ \A i \in 1 .. Len(tasks') : tasks'[i] = tasks[i + 1]
    BY <2>1
  <2>3. \A i \in 1 .. Len(tasks') : tasks'[i] # u
    BY <2>1, <2>2
  <2> QED BY <1>0, <2>1, <2>2, <2>3
<1>3. ASSUME NEW u \in Uploads, tasks' = tasks, upload[u].at # "queued",
             \A v \in Uploads : v # u => upload'[v] = upload[v]
      PROVE  QueueState'
  BY <1>0, <1>3
<1>4. ASSUME NEW u \in Uploads,
             CreateDirectory(u) \/ WriteBody(u) \/ AskTdlib(u) \/ TdlibAnswers(u) \/ TdlibDone(u)
      PROVE  QueueState'
  BY <1>3, <1>4, StepInHand DEF InHand
<1>5. CASE SweepUploads \/ Tick \/ UNCHANGED uploadVars
  BY <1>5 DEF SweepUploads, Tick, uploadVars
<1>6. CASE CrashUploads
  BY <1>6 DEF CrashUploads
<1> QED BY <1>1, <1>2, <1>4, <1>5, <1>6 DEF UploadsNext, UploadStep

\* A number is given out once in a process.
LEMMA NumbersStep ==
    UploadsInv /\ [UploadsNext]_uploadVars => NumbersState' /\ counter' \in Nat
<1> SUFFICES ASSUME UploadsInv, [UploadsNext]_uploadVars
             PROVE  NumbersState' /\ counter' \in Nat
  OBVIOUS
<1> USE DEF UploadsInv, UploadTypes, NumbersState, InHand
<1>1. ASSUME NEW u \in Uploads, StartTask(u) PROVE NumbersState' /\ counter' \in Nat
  <2>1. \A v \in Uploads : v # u => upload'[v] = upload[v]
    BY <1>1 DEF StartTask, Fail
  <2>2. CASE upload' = [upload EXCEPT ![u].at = "failed", ![u].code = 400] /\ counter' = counter
    BY <2>1, <2>2
  <2>3. CASE /\ counter' = counter + 1
             /\ upload' = [upload EXCEPT ![u].at = "numbered", ![u].dir = counter + 1]
    BY <2>1, <2>3
  <2> QED BY <1>1, <2>2, <2>3 DEF StartTask, Fail, NextSeq
<1>2. ASSUME NEW u \in Uploads, counter' = counter, upload'[u].dir = upload[u].dir,
             InHand(u) \/ upload'[u].at \in {"queued", "failed"},
             \A v \in Uploads : v # u => upload'[v] = upload[v]
      PROVE  NumbersState' /\ counter' \in Nat
  BY <1>2
<1>3. ASSUME NEW u \in Uploads, Accept(u) PROVE NumbersState' /\ counter' \in Nat
  BY <1>2, <1>3, AcceptMoves
<1>4. ASSUME NEW u \in Uploads,
             CreateDirectory(u) \/ WriteBody(u) \/ AskTdlib(u) \/ TdlibAnswers(u) \/ TdlibDone(u)
      PROVE  NumbersState' /\ counter' \in Nat
  BY <1>2, <1>4, StepInHand
<1>5. CASE SweepUploads \/ Tick \/ UNCHANGED uploadVars
  BY <1>5 DEF SweepUploads, Tick, uploadVars
<1>6. CASE CrashUploads
  BY <1>6 DEF CrashUploads
<1> QED BY <1>1, <1>3, <1>4, <1>5, <1>6 DEF UploadsNext, UploadStep

\* A write touches the directory it goes to, and no other.
LEMMA WriteFacts ==
    ASSUME UploadTypes, NEW dir \in DOMAIN disk, NEW name \in Names,
           NEW content \in [of : Uploads, whole : BOOLEAN], disk' = Written(dir, name, content)
    PROVE  /\ DOMAIN disk' = DOMAIN disk /\ \A d \in DOMAIN disk : d # dir => disk'[d] = disk[d]
           /\ disk'[dir].mtime = IF name \in DOMAIN disk[dir].files THEN disk[dir].mtime ELSE clock
           /\ disk'[dir] \in [mtime : Nat, files : Contents]
           /\ name \in DOMAIN disk'[dir].files /\ disk'[dir].files[name] = content
<1> DEFINE files == disk[dir].files
           put == Put(files, name, content)
           time == IF name \in DOMAIN disk[dir].files THEN disk[dir].mtime ELSE clock
<1>1. PICK names \in SUBSET Names : files \in [names -> [of : Uploads, whole : BOOLEAN]]
  BY DEF UploadTypes, Contents
<1>2. /\ put \in [names \cup {name} -> [of : Uploads, whole : BOOLEAN]]
      /\ name \in DOMAIN put /\ put[name] = content
  BY <1>1 DEF Put
<1>3. put \in Contents
  BY <1>2 DEF Contents
<1>5. disk[dir] \in [mtime : Nat, files : Contents] /\ time \in Nat
  BY DEF UploadTypes
<1>4. /\ DOMAIN disk' = DOMAIN disk /\ \A d \in DOMAIN disk : d # dir => disk'[d] = disk[d]
      /\ disk'[dir] = [disk[dir] EXCEPT !.mtime = time, !.files = put]
  BY DEF Written
<1> HIDE DEF put, time
<1>6. /\ disk'[dir].mtime = time /\ disk'[dir].files = put
      /\ disk'[dir] \in [mtime : Nat, files : Contents]
  BY <1>3, <1>4, <1>5
<1> QED BY <1>2, <1>4, <1>6 DEF time

\* A write fails and takes the directory away, or it writes what is of the upload.
LEMMA WriteCases ==
    ASSUME NEW u \in Uploads, WriteBody(u)
    PROVE  \/ Fail(u, 500) /\ disk' = Without(upload[u].dir)
           \/ /\ upload[u].dir \in DOMAIN disk
              /\ upload' = [upload EXCEPT ![u].at = "written", ![u].since = clock]
              /\ \E content \in [of : Uploads, whole : BOOLEAN] :
                    BodyOf(u, content) /\ disk' = Written(upload[u].dir, upload[u].name, content)
<1> DEFINE all == [of |-> u, whole |-> TRUE]
           some == [of |-> u, whole |-> FALSE]
<1>1. all \in [of : Uploads, whole : BOOLEAN] /\ BodyOf(u, all)
  BY DEF BodyOf
<1>2. some \in [of : Uploads, whole : BOOLEAN] /\ (upload[u].small => BodyOf(u, some))
  BY DEF BodyOf
<1>3. \/ Fail(u, 500) /\ disk' = Without(upload[u].dir)
      \/ /\ upload[u].dir \in DOMAIN disk
         /\ upload' = [upload EXCEPT ![u].at = "written", ![u].since = clock]
         /\ \/ disk' = Written(upload[u].dir, upload[u].name, all)
            \/ upload[u].small /\ disk' = Written(upload[u].dir, upload[u].name, some)
  BY Zenon DEF WriteBody
<1> HIDE DEF all, some
<1> QED BY <1>1, <1>2, <1>3, Zenon

\* The records of all uploads, under a name that hides the function set from the provers.
Tables == [Uploads -> UploadRecords]

\* What the steps of an upload write into its record.
LEMMA RecordAt ==
    ASSUME NEW f \in Tables, NEW u \in Uploads, NEW stage \in Stages
    PROVE  [f EXCEPT ![u].at = stage] \in Tables
  BY DEF Tables, UploadRecords
LEMMA RecordCode ==
    ASSUME NEW f \in Tables, NEW u \in Uploads, NEW n \in Nat
    PROVE  [f EXCEPT ![u].code = n] \in Tables
  BY DEF Tables, UploadRecords
LEMMA RecordAtCode ==
    ASSUME NEW f \in Tables, NEW u \in Uploads, NEW stage \in Stages, NEW n \in Nat
    PROVE  [f EXCEPT ![u].at = stage, ![u].code = n] \in Tables
  BY DEF Tables, UploadRecords
LEMMA RecordAtDir ==
    ASSUME NEW f \in Tables, NEW u \in Uploads, NEW stage \in Stages, NEW n \in Nat
    PROVE  [f EXCEPT ![u].at = stage, ![u].dir = n] \in Tables
  BY DEF Tables, UploadRecords
LEMMA RecordAtSince ==
    ASSUME NEW f \in Tables, NEW u \in Uploads, NEW stage \in Stages, NEW n \in Nat
    PROVE  [f EXCEPT ![u].at = stage, ![u].since = n] \in Tables
  BY DEF Tables, UploadRecords
LEMMA RecordAtReused ==
    ASSUME NEW f \in Tables, NEW u \in Uploads, NEW stage \in Stages, NEW flag \in Flags
    PROVE  [f EXCEPT ![u].at = stage, ![u].reused = flag] \in Tables
  BY DEF Tables, UploadRecords
LEMMA RecordAtName ==
    ASSUME NEW f \in Tables, NEW u \in Uploads, NEW stage \in Stages, NEW name \in Names, NEW flag \in Flags
    PROVE  [f EXCEPT ![u].at = stage, ![u].name = name, ![u].small = flag] \in Tables
  BY DEF Tables, UploadRecords

\* The record of an upload whose process died is still one.
LEMMA LostRecord ==
    ASSUME NEW r \in UploadRecords
    PROVE  [r EXCEPT !.at = "lost"] \in UploadRecords
<1>1. "lost" \in Stages
  BY DEF Stages
<1> QED BY <1>1 DEF UploadRecords

\* A step of one upload takes no time.
LEMMA StepKeepsClock ==
    ASSUME UploadTypes, NEW u \in Uploads, UploadStep(u)
    PROVE  clock' = clock /\ crashes' = crashes /\ due' = due
<1>1. CASE Accept(u)
  BY <1>1 DEF Accept
<1>2. CASE StartTask(u)
  BY <1>2, Zenon DEF StartTask
<1>3. CASE CreateDirectory(u)
  BY <1>3, Zenon DEF CreateDirectory
<1>4. CASE WriteBody(u)
  BY <1>4, Zenon DEF WriteBody
<1>5. CASE AskTdlib(u) \/ TdlibAnswers(u) \/ TdlibDone(u)
  BY <1>5, TdlibSteps, Zenon
<1> QED BY <1>1, <1>2, <1>3, <1>4, <1>5, Zenon DEF UploadStep

\* The disk is written to by two of the steps of an upload.
LEMMA StepKeepsDisk ==
    ASSUME UploadTypes, NEW u \in Uploads, UploadStep(u)
    PROVE  disk' = disk \/ CreateDirectory(u) \/ WriteBody(u)
<1>1. CASE Accept(u)
  BY <1>1, Zenon DEF Accept
<1>2. CASE StartTask(u)
  BY <1>2, Zenon DEF StartTask
<1>3. CASE AskTdlib(u) \/ TdlibAnswers(u) \/ TdlibDone(u)
  BY <1>3, TdlibSteps, Zenon
<1> QED BY <1>1, <1>2, <1>3, Zenon DEF UploadStep

\* Every step of the uploads keeps their types.
LEMMA UploadTypesStep == UploadsInv /\ [UploadsNext]_uploadVars => UploadTypes'
<1>a. SUFFICES ASSUME UploadsInv, [UploadsNext]_uploadVars PROVE UploadTypes'
  OBVIOUS
<1> DEFINE Directories == [mtime : Nat, files : Contents]
<1>6. UploadTypes
  BY <1>a, Zenon DEF UploadsInv
<1>7. upload \in [Uploads -> UploadRecords]
  BY <1>6, Zenon DEF UploadTypes
<1>8. counter \in Nat /\ clock \in Nat
  BY <1>6 DEF UploadTypes
<1>0. \A dir \in DOMAIN disk : disk[dir] \in Directories
  BY <1>6, Zenon DEF UploadTypes
<1>1. counter' \in Nat
  BY <1>a, NumbersStep, Zenon
<1>2. clock' \in Nat
  <2>1. CASE Tick
    BY <1>8, <2>1 DEF Tick
  <2>2. CASE clock' = clock
    BY <1>8, <2>2, Zenon
  <2>3. CASE SweepUploads \/ CrashUploads \/ UNCHANGED uploadVars
    BY <2>2, <2>3, Zenon DEF SweepUploads, CrashUploads, uploadVars
  <2>4. ASSUME NEW u \in Uploads, UploadStep(u) PROVE clock' \in Nat
    BY <2>2, <2>4, <1>6, StepKeepsClock, Zenon
  <2> QED BY <1>a, <2>1, <2>3, <2>4, Zenon DEF UploadsNext
<1>4. \A dir \in DOMAIN disk' : disk'[dir] \in Directories
  <2>1. CASE disk' = disk
    BY <1>0, <2>1, Zenon
  <2>2. ASSUME NEW u \in Uploads, CreateDirectory(u)
        PROVE  \A dir \in DOMAIN disk' : disk'[dir] \in Directories
    <3>1. <<>> \in Contents
      <4>1. <<>> \in [{} -> [of : Uploads, whole : BOOLEAN]]
        OBVIOUS
      <4> QED BY <4>1 DEF Contents
    <3>2. [mtime |-> clock, files |-> <<>>] \in Directories
      BY <1>8, <3>1
    <3>3. CASE disk' = Put(disk, upload[u].dir, [mtime |-> clock, files |-> <<>>])
      <4>1. /\ DOMAIN disk' = DOMAIN disk \cup {upload[u].dir}
            /\ \A dir \in DOMAIN disk' :
                  disk'[dir] = IF dir = upload[u].dir THEN [mtime |-> clock, files |-> <<>>]
                               ELSE disk[dir]
        BY <3>3, Zenon DEF Put
      <4> HIDE DEF Directories
      <4> QED BY <1>0, <3>2, <4>1
    <3> QED BY <1>0, <2>2, <3>3 DEF CreateDirectory
  <2>3. ASSUME NEW u \in Uploads, WriteBody(u)
        PROVE  \A dir \in DOMAIN disk' : disk'[dir] \in Directories
    <3>1. CASE disk' = Without(upload[u].dir)
      BY <1>0, <3>1 DEF Without, Restrict
    <3>2. ASSUME NEW content \in [of : Uploads, whole : BOOLEAN], upload[u].dir \in DOMAIN disk,
                 disk' = Written(upload[u].dir, upload[u].name, content)
          PROVE  \A dir \in DOMAIN disk' : disk'[dir] \in Directories
      <4> DEFINE own == upload[u].dir
                 file == upload[u].name
      <4>4. own \in DOMAIN disk /\ disk' = Written(own, file, content)
        BY <3>2
      <4>2. file \in Names
        BY <1>7 DEF UploadRecords
      <4> HIDE DEF own, file
      <4>3. /\ DOMAIN disk' = DOMAIN disk
            /\ \A d \in DOMAIN disk : d # own => disk'[d] = disk[d]
            /\ disk'[own] \in Directories
        BY <1>6, <4>2, <4>4, WriteFacts, Zenon
      <4> QED BY <1>0, <4>3, Zenon
    <3> HIDE DEF Directories
    <3> QED BY <2>3, <3>1, <3>2, WriteCases, Zenon
  <2>4. CASE SweepUploads
    BY <1>0, <2>4 DEF SweepUploads, Restrict
  <2>5. ASSUME NEW u \in Uploads, UploadStep(u)
        PROVE  \A dir \in DOMAIN disk' : disk'[dir] \in Directories
    <3> HIDE DEF Directories
    <3> QED BY <1>6, <2>1, <2>2, <2>3, <2>5, StepKeepsDisk, Zenon
  <2>6. CASE Tick \/ CrashUploads \/ UNCHANGED uploadVars
    <3>1. disk' = disk
      BY <2>6, Zenon DEF Tick, CrashUploads, uploadVars
    <3> QED BY <2>1, <3>1
  <2> HIDE DEF Directories
  <2> QED BY <1>a, <2>4, <2>5, <2>6, Zenon DEF UploadsNext
<1>5. /\ "queued" \in Stages /\ "numbered" \in Stages /\ "made" \in Stages /\ "written" \in Stages
      /\ "sending" \in Stages /\ "done" \in Stages /\ "failed" \in Stages
  BY DEF Stages
<1>9. upload \in Tables
  BY <1>7 DEF Tables
<1>3. upload' \in Tables
  <2>1. CASE upload' = upload
    BY <1>9, <2>1, Zenon
  <2>2. ASSUME NEW u \in Uploads, NEW code \in Nat, Fail(u, code)
        PROVE  upload' \in Tables
    BY <1>9, <1>5, <2>2, RecordAtCode, Zenon DEF Fail
  <2>3. ASSUME NEW u \in Uploads, Accept(u) PROVE upload' \in Tables
    <3>1. CASE Fail(u, 400)
      BY <2>2, <3>1
    <3>2. CASE ~ Fail(u, 400)
      <4>1. PICK name \in Names, small \in Flags :
              upload' = [upload EXCEPT ![u].at = "queued", ![u].name = name, ![u].small = small]
        BY <2>3, <3>2 DEF Accept, Names, Flags
      <4>2. "queued" \in Stages
        BY DEF Stages
      <4> QED BY <1>9, <4>1, <4>2, RecordAtName, Zenon
    <3> QED BY <3>1, <3>2
  <2>4. ASSUME NEW u \in Uploads, StartTask(u) PROVE upload' \in Tables
    <3>1. CASE Fail(u, 400)
      BY <2>2, <3>1
    <3>2. CASE upload' = [upload EXCEPT ![u].at = "numbered", ![u].dir = counter + 1]
      <4> DEFINE next == counter + 1
      <4>1. next \in Nat
        BY <1>8
      <4> HIDE DEF next
      <4>2. upload' = [upload EXCEPT ![u].at = "numbered", ![u].dir = next]
        BY <3>2 DEF next
      <4> QED BY <1>9, <1>5, <4>1, <4>2, RecordAtDir, Zenon
    <3> QED BY <2>4, <3>1, <3>2 DEF StartTask, NextSeq
  <2>5. ASSUME NEW u \in Uploads, CreateDirectory(u) PROVE upload' \in Tables
    <3>1. CASE Fail(u, 500)
      BY <2>2, <3>1
    <3>2. CASE ~ Fail(u, 500)
      <4> DEFINE reused == upload[u].dir \in DOMAIN disk
      <4>1. upload' = [upload EXCEPT ![u].at = "made", ![u].reused = reused]
        BY <2>5, <3>2, Zenon DEF CreateDirectory
      <4>2. reused \in Flags
        BY DEF Flags
      <4> HIDE DEF reused
      <4> QED BY <1>9, <1>5, <4>1, <4>2, RecordAtReused, Zenon
    <3> QED BY <3>1, <3>2
  <2>6. ASSUME NEW u \in Uploads, WriteBody(u) PROVE upload' \in Tables
    <3>1. CASE Fail(u, 500)
      BY <2>2, <3>1
    <3>2. CASE upload' = [upload EXCEPT ![u].at = "written", ![u].since = clock]
      BY <1>9, <1>5, <1>8, <3>2, RecordAtSince, Zenon
    <3> QED BY <2>6, <3>1, <3>2, WriteCases, Zenon
  <2>7. ASSUME NEW u \in Uploads, AskTdlib(u) \/ TdlibAnswers(u) \/ TdlibDone(u)
        PROVE  upload' \in Tables
    <3>1. CASE Fail(u, 502)
      BY <2>2, <3>1
    <3>2. CASE ~ Fail(u, 502)
      <4> DEFINE accepted == 202
      <4>2. accepted \in Nat
        OBVIOUS
      <4> HIDE DEF accepted
      <4>3. \A stage \in Stages : [upload EXCEPT ![u].at = stage] \in Tables
        BY <1>9, RecordAt, Zenon
      <4>4. [upload EXCEPT ![u].code = accepted] \in Tables
        BY <1>9, <4>2, RecordCode, Zenon
      <4>5. CASE upload' = [upload EXCEPT ![u].code = 202]
        BY <4>4, <4>5, Zenon DEF accepted
      <4>6. CASE upload' = [upload EXCEPT ![u].at = "sending"]
        BY <1>5, <4>3, <4>6
      <4>7. CASE upload' = [upload EXCEPT ![u].at = "done"]
        BY <1>5, <4>3, <4>7
      <4> QED BY <2>7, <3>2, <4>5, <4>6, <4>7, Zenon DEF AskTdlib, TdlibAnswers, TdlibDone
    <3> QED BY <3>1, <3>2
  <2>8. CASE CrashUploads
    <3>1. upload' = [u \in Uploads |->
                       IF upload[u].at \in {"new", "done", "failed"} THEN upload[u]
                       ELSE [upload[u] EXCEPT !.at = "lost"]]
      BY <2>8, Zenon DEF CrashUploads
    <3>2. ASSUME NEW u \in Uploads
          PROVE  upload[u] \in UploadRecords /\ [upload[u] EXCEPT !.at = "lost"] \in UploadRecords
      <4> DEFINE it == upload[u]
      <4>1. it \in UploadRecords
        BY <1>7, Zenon
      <4> HIDE DEF it
      <4>2. [it EXCEPT !.at = "lost"] \in UploadRecords
        BY <4>1, LostRecord, Zenon
      <4> QED BY <4>1, <4>2, Zenon DEF it
    <3> QED BY <3>1, <3>2 DEF Tables
  <2>9. CASE SweepUploads \/ Tick \/ UNCHANGED uploadVars
    BY <2>1, <2>9, Zenon DEF SweepUploads, Tick, uploadVars
  <2>10. ASSUME NEW u \in Uploads, UploadStep(u) PROVE upload' \in Tables
    <3>1. CASE AskTdlib(u) \/ TdlibAnswers(u) \/ TdlibDone(u)
      BY <2>7, <3>1, Zenon
    <3>2. CASE Accept(u)
      BY <2>3, <3>2, Zenon
    <3>3. CASE StartTask(u)
      BY <2>4, <3>3, Zenon
    <3>4. CASE CreateDirectory(u)
      BY <2>5, <3>4, Zenon
    <3>5. CASE WriteBody(u)
      BY <2>6, <3>5, Zenon
    <3> QED BY <2>10, <3>1, <3>2, <3>3, <3>4, <3>5, Zenon DEF UploadStep
  <2> QED BY <1>a, <2>8, <2>9, <2>10, Zenon DEF UploadsNext
<1> QED BY <1>1, <1>2, <1>3, <1>4 DEF Tables, UploadTypes

\* What the write of an upload leaves.
LEMMA WriteLeaves ==
    ASSUME UploadsInv, NEW u \in Uploads, WriteBody(u)
    PROVE  \/ Fail(u, 500) /\ disk' = Without(upload[u].dir)
           \/ /\ upload[u].dir \in DOMAIN disk /\ DOMAIN disk' = DOMAIN disk
              /\ \A d \in DOMAIN disk : d # upload[u].dir => disk'[d] = disk[d]
              /\ disk'[upload[u].dir].mtime =
                    IF upload[u].name \in DOMAIN disk[upload[u].dir].files
                    THEN disk[upload[u].dir].mtime ELSE clock
              /\ upload[u].name \in DOMAIN disk'[upload[u].dir].files
              /\ BodyOf(u, disk'[upload[u].dir].files[upload[u].name])
              /\ upload' = [upload EXCEPT ![u].at = "written", ![u].since = clock]
<1>1. CASE Fail(u, 500) /\ disk' = Without(upload[u].dir)
  BY <1>1, Zenon
<1>2. ASSUME NEW content \in [of : Uploads, whole : BOOLEAN], BodyOf(u, content),
             upload[u].dir \in DOMAIN disk, disk' = Written(upload[u].dir, upload[u].name, content)
      PROVE  /\ DOMAIN disk' = DOMAIN disk
             /\ \A d \in DOMAIN disk : d # upload[u].dir => disk'[d] = disk[d]
             /\ disk'[upload[u].dir].mtime =
                   IF upload[u].name \in DOMAIN disk[upload[u].dir].files
                   THEN disk[upload[u].dir].mtime ELSE clock
             /\ upload[u].name \in DOMAIN disk'[upload[u].dir].files
             /\ BodyOf(u, disk'[upload[u].dir].files[upload[u].name])
  <2> DEFINE dir == upload[u].dir
             name == upload[u].name
  <2>1. UploadTypes
    BY Zenon DEF UploadsInv
  <2>2. dir \in DOMAIN disk /\ disk' = Written(dir, name, content)
    BY <1>2
  <2>3. name \in Names
    BY <2>1 DEF UploadTypes, UploadRecords
  <2> SUFFICES
             /\ DOMAIN disk' = DOMAIN disk /\ \A d \in DOMAIN disk : d # dir => disk'[d] = disk[d]
             /\ disk'[dir].mtime = IF name \in DOMAIN disk[dir].files THEN disk[dir].mtime ELSE clock
             /\ name \in DOMAIN disk'[dir].files /\ BodyOf(u, disk'[dir].files[name])
    OBVIOUS
  <2> HIDE DEF dir, name
  <2>4. /\ DOMAIN disk' = DOMAIN disk /\ \A d \in DOMAIN disk : d # dir => disk'[d] = disk[d]
        /\ disk'[dir].mtime = IF name \in DOMAIN disk[dir].files THEN disk[dir].mtime ELSE clock
        /\ name \in DOMAIN disk'[dir].files /\ disk'[dir].files[name] = content
    BY <2>1, <2>2, <2>3, WriteFacts
  <2> QED BY <1>2, <2>4
<1> QED BY <1>1, <1>2, WriteCases

\* No upload makes a directory older than the sweep left it.
LEMMA SweptStep == UploadsInv /\ [UploadsNext]_uploadVars => Swept'
<1> SUFFICES ASSUME UploadsInv, [UploadsNext]_uploadVars PROVE Swept'
  OBVIOUS
<1> USE UploadsAssumption DEF UploadsAssumption, UploadsInv, Swept
<1>0. clock \in Nat /\ \A dir \in DOMAIN disk : disk[dir].mtime \in Nat
  BY DEF UploadTypes, UploadRecords
<1>1. CASE UNCHANGED <<disk, clock, due>>
  BY <1>1
<1>2. CASE SweepUploads
  BY <1>0, <1>2 DEF SweepUploads, Restrict, Stale
<1>3. CASE Tick \/ CrashUploads
  BY <1>3 DEF Tick, CrashUploads
<1>4. ASSUME NEW u \in Uploads, CreateDirectory(u) PROVE Swept'
  <2>1. UNCHANGED <<clock, due>>
    BY <1>4 DEF CreateDirectory
  <2>2. CASE disk' = Put(disk, upload[u].dir, [mtime |-> clock, files |-> <<>>])
    BY <1>0, <2>1, <2>2 DEF Put
  <2> QED BY <1>1, <1>4, <2>1, <2>2 DEF CreateDirectory
<1>5. ASSUME NEW u \in Uploads, WriteBody(u) PROVE Swept'
  <2>1. UNCHANGED <<clock, due>>
    BY <1>5 DEF WriteBody
  <2>2. CASE disk' = Without(upload[u].dir)
    BY <2>1, <2>2 DEF Without, Restrict
  <2>3. CASE /\ upload[u].dir \in DOMAIN disk /\ DOMAIN disk' = DOMAIN disk
             /\ \A d \in DOMAIN disk : d # upload[u].dir => disk'[d] = disk[d]
             /\ disk'[upload[u].dir].mtime \in {disk[upload[u].dir].mtime, clock}
    <3>1. \A d \in DOMAIN disk : disk'[d].mtime \in {disk[d].mtime, clock}
      BY <2>3
    <3> QED BY <1>0, <2>1, <2>3, <3>1
  <2>4. \/ disk' = Without(upload[u].dir)
        \/ /\ upload[u].dir \in DOMAIN disk /\ DOMAIN disk' = DOMAIN disk
           /\ \A d \in DOMAIN disk : d # upload[u].dir => disk'[d] = disk[d]
           /\ disk'[upload[u].dir].mtime \in {disk[upload[u].dir].mtime, clock}
    BY <1>5, WriteLeaves
  <2> QED BY <2>2, <2>3, <2>4
<1> QED BY <1>1, <1>2, <1>3, <1>4, <1>5, AcceptMoves
  DEF UploadsNext, UploadStep, StartTask, AskTdlib, TdlibAnswers, TdlibDone, uploadVars

\* The number of an upload in hand is its own, so that nobody else writes to its
\* directory or takes it away, and the sweep comes when the file is old enough.
LEMMA OwnFileStep ==
    UploadsInv /\ [UploadsNext]_uploadVars => \A u \in Uploads : OwnFile(u)'
<1>a. SUFFICES ASSUME UploadsInv, [UploadsNext]_uploadVars, NEW u \in Uploads PROVE OwnFile(u)'
  OBVIOUS
<1>t. UploadTypes /\ NumbersState /\ OwnFile(u)
  BY <1>a, Zenon DEF UploadsInv
<1>z. upload \in [Uploads -> UploadRecords]
  BY <1>t, Zenon DEF UploadTypes
<1>0. /\ clock \in Nat /\ upload[u].since \in Nat /\ upload[u].dir \in Nat
      /\ \A dir \in DOMAIN disk : disk[dir].mtime \in Nat
      /\ OwnFile(u)
  BY <1>t DEF UploadTypes, UploadRecords
<1>1. ASSUME NEW v \in Uploads, v # u, InHand(v), upload'[u] = upload[u], clock' = clock,
             \A dir : dir # upload[v].dir =>
                 /\ dir \in DOMAIN disk' <=> dir \in DOMAIN disk
                 /\ dir \in DOMAIN disk => disk'[dir] = disk[dir]
      PROVE  OwnFile(u)'
  BY <1>t, <1>1, OwnFileKept DEF NumbersState
<1>2. ASSUME upload'[u].at \notin {"made", "written", "sending"} PROVE OwnFile(u)'
  BY <1>2 DEF OwnFile, InUse
<1>3. CASE UNCHANGED <<upload, disk, clock>>
  BY <1>0, <1>3, OwnFileKept
<1>4. ASSUME NEW v \in Uploads, Accept(v) PROVE OwnFile(u)'
  <2>1. CASE v = u
    BY <1>t, <1>2, <1>4, <2>1, AcceptMoves
  <2>2. CASE v # u
    BY <1>t, <1>4, <2>2, AcceptMoves, OwnFileKept
  <2> QED BY <2>1, <2>2
<1>5. ASSUME NEW v \in Uploads, StartTask(v) PROVE OwnFile(u)'
  <2>1. UNCHANGED <<disk, clock>>
    BY <1>5 DEF StartTask
  <2>2. CASE v = u
    BY <1>z, <1>2, <1>5, <2>2 DEF StartTask, Fail, UploadRecords
  <2>3. CASE v # u
    <3>1. upload'[u] = upload[u]
      BY <1>z, <1>5, <2>3 DEF StartTask, Fail
    <3> QED BY <1>t, <2>1, <3>1, OwnFileKept
  <2> QED BY <2>2, <2>3
<1>6. ASSUME NEW v \in Uploads, CreateDirectory(v) PROVE OwnFile(u)'
  <2>1. CASE v # u
    <3>1. /\ InHand(v) /\ upload'[u] = upload[u] /\ clock' = clock
      BY <1>t, <1>6, <2>1, StepInHand
    <3>2. \/ disk' = disk
          \/ disk' = Put(disk, upload[v].dir, [mtime |-> clock, files |-> <<>>])
      BY <1>6 DEF CreateDirectory
    <3>3. \A dir : dir # upload[v].dir =>
                 /\ dir \in DOMAIN disk' <=> dir \in DOMAIN disk
                 /\ dir \in DOMAIN disk => disk'[dir] = disk[dir]
      BY <3>2 DEF Put
    <3> QED BY <1>1, <2>1, <3>1, <3>3
  <2>2. CASE v = u /\ Fail(u, 500)
    BY <1>z, <1>2, <2>2 DEF Fail, UploadRecords
  <2>3. CASE v = u /\ ~ Fail(u, 500)
    <3> DEFINE reused == upload[u].dir \in DOMAIN disk
    <3>1. /\ upload' = [upload EXCEPT ![u].at = "made", ![u].reused = reused]
          /\ ~ reused => disk' = Put(disk, upload[u].dir, [mtime |-> clock, files |-> <<>>])
      BY <1>6, <2>3 DEF CreateDirectory
    <3>2. CASE reused
      <4>1. upload'[u].reused = reused
        <5> HIDE DEF reused
        <5> QED BY <1>z, <3>1 DEF UploadRecords
      <4> QED BY <3>2, <4>1 DEF OwnFile
    <3>3. CASE ~ reused
      <4>1. upload'[u].at = "made" /\ upload'[u].dir = upload[u].dir
        <5> HIDE DEF reused
        <5> QED BY <1>z, <3>1 DEF UploadRecords
      <4>2. disk'[upload[u].dir].files = <<>>
        BY <3>1, <3>3 DEF Put
      <4> QED BY <4>1, <4>2 DEF OwnFile, InUse
    <3> QED BY <3>2, <3>3
  <2> QED BY <2>1, <2>2, <2>3
<1>7. ASSUME NEW v \in Uploads, WriteBody(v) PROVE OwnFile(u)'
  <2>1. InHand(v) /\ clock' = clock /\ (v # u => upload'[u] = upload[u])
    BY <1>t, <1>7, StepInHand
  <2>2. CASE v # u
    <3>1. \A dir : dir # upload[v].dir =>
                 /\ dir \in DOMAIN disk' <=> dir \in DOMAIN disk
                 /\ dir \in DOMAIN disk => disk'[dir] = disk[dir]
      <4>1. CASE disk' = Without(upload[v].dir)
        BY <4>1 DEF Without, Restrict
      <4>2. CASE /\ DOMAIN disk' = DOMAIN disk
                 /\ \A d \in DOMAIN disk : d # upload[v].dir => disk'[d] = disk[d]
        BY <4>2
      <4>3. \/ disk' = Without(upload[v].dir)
            \/ /\ DOMAIN disk' = DOMAIN disk
               /\ \A d \in DOMAIN disk : d # upload[v].dir => disk'[d] = disk[d]
        BY <1>a, <1>7, WriteLeaves
      <4> QED BY <4>1, <4>2, <4>3
    <3> QED BY <1>1, <2>1, <2>2, <3>1
  <2>3. CASE v = u /\ Fail(u, 500)
    BY <1>z, <1>2, <2>3 DEF Fail, UploadRecords
  <2>4. CASE v = u /\ ~ Fail(u, 500)
    <3>0. WriteBody(u) /\ ~ Fail(u, 500)
      BY <1>7, <2>4
    <3>1. /\ upload' = [upload EXCEPT ![u].at = "written", ![u].since = clock]
          /\ upload[u].dir \in DOMAIN disk /\ DOMAIN disk' = DOMAIN disk
          /\ disk'[upload[u].dir].mtime =
                IF upload[u].name \in DOMAIN disk[upload[u].dir].files
                THEN disk[upload[u].dir].mtime ELSE clock
          /\ upload[u].name \in DOMAIN disk'[upload[u].dir].files
          /\ BodyOf(u, disk'[upload[u].dir].files[upload[u].name])
      BY <1>a, <3>0, WriteLeaves
    <3>a. upload[u].at = "made"
      BY <3>0, Zenon DEF WriteBody
    <3>2. /\ upload'[u].at = "written" /\ upload'[u].since = clock
          /\ upload'[u].dir = upload[u].dir /\ upload'[u].name = upload[u].name
          /\ upload'[u].reused = upload[u].reused /\ upload'[u].small = upload[u].small
      BY <1>z, <3>1 DEF UploadRecords
    <3> SUFFICES ASSUME ~ upload[u].reused PROVE OwnFile(u)'
      BY <3>2 DEF OwnFile
    <3>b. DOMAIN disk[upload[u].dir].files = {}
      BY <1>0, <3>1, <3>a DEF OwnFile
    <3>3. disk'[upload[u].dir].mtime = clock
      BY <3>1, <3>b
    <3> DEFINE dir == upload[u].dir
               name == upload[u].name
               body == disk'[dir].files[name]
    <3>4. OnDisk(u)'
      BY <3>1, <3>2 DEF OnDisk
    <3>5. disk'[dir].mtime >= upload'[u].since
      BY <1>0, <3>2, <3>3
    <3>6. body.of = u /\ (body.whole \/ upload'[u].small)
      BY <3>1, <3>2 DEF BodyOf
    <3>7. upload'[u].dir = dir /\ upload'[u].name = name /\ upload'[u].at # "made"
      BY <3>2
    <3>8. disk'[upload'[u].dir].files[upload'[u].name] = body
      BY <3>7
    <3> HIDE DEF dir, name, body
    <3>9. disk'[upload'[u].dir].mtime >= upload'[u].since
      BY <3>5, <3>7, Zenon
    <3> QED BY <3>4, <3>6, <3>7, <3>8, <3>9 DEF OwnFile, BodyOf
  <2> QED BY <2>2, <2>3, <2>4
<1>8. ASSUME NEW v \in Uploads, AskTdlib(v) \/ TdlibAnswers(v) \/ TdlibDone(v) PROVE OwnFile(u)'
  <2>0. disk' = disk /\ clock' = clock /\ upload'[v].at \in {"sending", "failed", "done"}
    BY <1>t, <1>8, TdlibSteps
  <2>1. UNCHANGED <<disk, clock>> /\ (v # u => upload'[u] = upload[u])
    BY <1>t, <1>8, <2>0, StepInHand
  <2>2. CASE v = u /\ upload'[u].at = "sending"
    <3>1. /\ upload[u].at \in {"written", "sending"}
          /\ upload'[u].dir = upload[u].dir /\ upload'[u].name = upload[u].name
          /\ upload'[u].reused = upload[u].reused /\ upload'[u].small = upload[u].small
          /\ upload'[u].since = upload[u].since
      <4>1. CASE AskTdlib(u)
        BY <1>z, <4>1 DEF AskTdlib, UploadRecords
      <4>2. CASE TdlibAnswers(u)
        BY <1>z, <2>2, <4>2 DEF TdlibAnswers, Fail, UploadRecords
      <4>3. CASE TdlibDone(u)
        BY <1>z, <2>2, <4>3 DEF TdlibDone
      <4> QED BY <1>8, <2>2, <4>1, <4>2, <4>3
    <3>2. InUse(u)' => InUse(u)
      BY <2>0, <3>1 DEF InUse
    <3>3. OnDisk(u)' <=> OnDisk(u)
      BY <2>0, <3>1 DEF OnDisk
    <3> QED BY <1>0, <2>0, <2>2, <3>1, <3>2, <3>3 DEF OwnFile, BodyOf
  <2>3. CASE v = u /\ upload'[u].at # "sending"
    <3>1. upload'[u].at \in {"done", "failed"}
      BY <2>0, <2>3
    <3> QED BY <1>2, <3>1
  <2> QED BY <1>t, <2>1, <2>2, <2>3, OwnFileKept
<1>9. CASE SweepUploads
  <2>1. /\ UNCHANGED <<upload, clock>>
        /\ DOMAIN disk' = DOMAIN disk \ Stale /\ \A dir \in DOMAIN disk' : disk'[dir] = disk[dir]
    BY <1>9 DEF SweepUploads, Restrict
  <2>2. OwnFile(u) /\ InUse(u) /\ ~ upload[u].reused => upload[u].dir \notin Stale
    BY <1>0, UploadsAssumption DEF OwnFile, InUse, OnDisk, Stale, UploadsAssumption
  <2>3. CASE upload[u].dir \in DOMAIN disk'
    BY <1>t, <2>1, <2>3, OwnFileKept
  <2>4. CASE upload[u].dir \notin DOMAIN disk'
    <3>1. InUse(u) => upload[u].reused \/ upload[u].dir \in DOMAIN disk
      BY <1>t DEF OwnFile, OnDisk
    <3>2. InUse(u)' <=> InUse(u)
      BY <2>1 DEF InUse
    <3> QED BY <1>t, <2>1, <2>2, <2>4, <3>1, <3>2 DEF OwnFile
  <2> QED BY <2>3, <2>4
<1>10. CASE Tick
  <2>1. /\ upload' = upload /\ disk' = disk /\ clock' = clock + 1
        /\ clock \in Nat /\ upload[u].since \in Nat
    BY <1>0, <1>10 DEF Tick
  <2>2. InUse(u)' => InUse(u)
    BY <2>1, UploadsAssumption DEF InUse, UploadsAssumption
  <2>3. OnDisk(u)' <=> OnDisk(u)
    BY <2>1 DEF OnDisk
  <2> QED BY <1>0, <2>1, <2>2, <2>3 DEF OwnFile, BodyOf
<1>11. CASE CrashUploads
  BY <1>2, <1>z, <1>11 DEF CrashUploads, UploadRecords
<1> QED BY <1>a, <1>3, <1>4, <1>5, <1>6, <1>7, <1>8, <1>9, <1>10, <1>11
  DEF UploadsNext, UploadStep, uploadVars

\* The invariant of the uploads holds in every state of the handlers.
LEMMA UploadsInvHolds == Spec => []UploadsInv
<1>1. Init => UploadsInv
  BY PartsInit, UploadsStarts
<1>2. UploadsInv /\ [Next]_vars => UploadsInv'
  BY PartsStep, UploadTypesStep, QueueStep, NumbersStep, SweptStep, OwnFileStep DEF UploadsInv
<1> QED BY <1>1, <1>2, PTL DEF Spec

\* The file of an upload in a directory of its own is there, with its own body, while
\* TDLib may need it and ttl has not passed, and nothing stays for longer, however
\* many uploads, crashes and sweeps there are (the upload route, sweepOnce).
THEOREM FilesAreKeptThenSwept == Spec => []KeptThenSwept
<1>1. UploadsInv => KeptThenSwept
  BY DEF UploadsInv, OwnFile, BodyOf, Swept, KeptThenSwept
<1> QED BY <1>1, UploadsInvHolds, PTL

\* Nothing of upload v changes: neither its record nor its directory.
LeftAlone(v) ==
    /\ upload'[v] = upload[v]
    /\ upload[v].dir \in DOMAIN disk' <=> upload[v].dir \in DOMAIN disk
    /\ upload[v].dir \in DOMAIN disk => disk'[upload[v].dir] = disk[upload[v].dir]

\* No step of an upload touches what another upload in hand has on the disk, not
\* even the removal of a directory after a failed write: the numbers that begin
\* again after a crash are those of uploads that are lost (the static counter and
\* remove_all() of the upload route).
KeepApart ==
    \A u, v \in Uploads : u # v /\ InHand(v) /\ UploadStep(u) => LeftAlone(v)

THEOREM UploadsKeepApart == Spec => [][KeepApart]_vars
<1>1. ASSUME UploadsInv, NEW u \in Uploads, NEW v \in Uploads, u # v, InHand(v), UploadStep(u)
      PROVE  LeftAlone(v)
  <2>1. UploadTypes /\ NumbersState
    BY <1>1, Zenon DEF UploadsInv
  <2>2. upload'[v] = upload[v]
    <3>1. upload \in [Uploads -> UploadRecords]
      BY <2>1, Zenon DEF UploadTypes
    <3>2. CASE Accept(u)
      BY <1>1, <2>1, <3>2, AcceptMoves
    <3>3. CASE StartTask(u)
      BY <1>1, <3>1, <3>3 DEF StartTask, Fail
    <3>4. CASE CreateDirectory(u) \/ WriteBody(u) \/ AskTdlib(u) \/ TdlibAnswers(u) \/ TdlibDone(u)
      BY <1>1, <2>1, <3>4, StepInHand
    <3> QED BY <1>1, <3>2, <3>3, <3>4, Zenon DEF UploadStep
  <2>3. CASE disk' = disk
    BY <2>2, <2>3 DEF LeftAlone
  <2>4. CreateDirectory(u) \/ WriteBody(u) => upload[v].dir # upload[u].dir
    <3>1. CreateDirectory(u) \/ WriteBody(u) => InHand(u)
      BY <1>1, <2>1, StepInHand
    <3> QED BY <1>1, <2>1, <3>1 DEF NumbersState
  <2>5. CASE CreateDirectory(u)
    <3>1. \/ disk' = disk
          \/ disk' = Put(disk, upload[u].dir, [mtime |-> clock, files |-> <<>>])
      BY <2>5 DEF CreateDirectory
    <3>2. CASE disk' = Put(disk, upload[u].dir, [mtime |-> clock, files |-> <<>>])
      BY <2>2, <2>4, <2>5, <3>2 DEF LeftAlone, Put
    <3> QED BY <2>3, <3>1, <3>2
  <2>6. CASE WriteBody(u)
    <3>1. CASE disk' = Without(upload[u].dir)
      BY <2>2, <2>4, <2>6, <3>1 DEF LeftAlone, Without, Restrict
    <3>2. CASE /\ DOMAIN disk' = DOMAIN disk
               /\ \A d \in DOMAIN disk : d # upload[u].dir => disk'[d] = disk[d]
      BY <2>2, <2>4, <2>6, <3>2 DEF LeftAlone
    <3>3. \/ disk' = Without(upload[u].dir)
          \/ /\ DOMAIN disk' = DOMAIN disk
             /\ \A d \in DOMAIN disk : d # upload[u].dir => disk'[d] = disk[d]
      BY <1>1, <2>6, WriteLeaves
    <3> QED BY <3>1, <3>2, <3>3
  <2> QED BY <1>1, <2>1, <2>3, <2>5, <2>6, StepKeepsDisk
<1>2. UploadsInv => KeepApart
  BY <1>1 DEF KeepApart
<1> QED BY <1>2, UploadsInvHolds, PTL

-----------------------------------------------------------------------------
(* The walk through the chats (ChatPages) *)

PagesTypes ==
    /\ list \in Seq(Chats) /\ known \in 0 .. Len(list)
    /\ walk \in Ended \cup {"none", "ask", "load", "list", "fetch"}
    /\ offset \in Nat /\ pages \in Nat /\ at \in Nat /\ ids \in Seq(Chats)

\* Every page but the one that is asked for next lies at its offset.
PageCount ==
    /\ walk = "none" => pages = 0
    /\ walk = "ask" => pages * PageLimit = offset
    /\ walk \notin {"none", "ask"} => pages >= 1 /\ (pages - 1) * PageLimit = offset
    /\ walk = "fetch" => at > offset
    /\ offset <= Window /\ walk # "refused"

\* The chats up to the offset are shown already, and what has moved up in the
\* list has been touched: nothing but a gap lets a chat slip behind the offset.
\* The page itself is the list as it was, whole unless the list goes on.
Shown(chat) == chat \in got \cup touched
PagesShown ==
    /\ \A i \in 1 .. Len(list) : i <= offset => Shown(list[i])
    /\ walk = "list" => known >= Reach(want)
    /\ walk = "fetch" =>
          /\ \A j \in 1 .. Len(ids) : j < at => Shown(ids[j])
          /\ \A i \in 1 .. Len(list) : i <= Len(ids) =>
                Shown(list[i]) \/ \E j \in 1 .. Len(ids) : list[i] = ids[j]
          /\ Len(ids) <= want /\ (Len(ids) < want => Len(list) = Len(ids))
    /\ walk \in {"whole", "window"} =>
          \A i \in 1 .. Len(list) : Shown(list[i]) \/ (walk = "window" /\ i > Len(ids))
ShownState == ~ gap => PagesShown

PagesInv == PagesTypes /\ PageCount /\ ShownState

\* Pages that lie within the window are as many as fit into it.
LEMMA PagesFit ==
    ASSUME NEW k \in Nat, NEW size \in Nat, NEW window \in Nat, size > 0, k * size <= window
    PROVE  k <= window \div size
<1> DEFINE q == window \div size
<1>1. q \in Nat /\ window < (q + 1) * size
  OBVIOUS
<1> HIDE DEF q
<1>2. SUFFICES ASSUME k >= q + 1 PROVE FALSE
  BY <1>1 DEF q
<1>3. k * size >= (q + 1) * size
  BY <1>1, <1>2
<1> QED BY <1>1, <1>3

\* What taking out the chat at place i leaves.
LEMMA RemoveAtPlaces ==
    ASSUME NEW S, NEW s \in Seq(S), NEW i \in 1 .. Len(s)
    PROVE  /\ RemoveAt(s, i) \in Seq(S) /\ Len(RemoveAt(s, i)) = Len(s) - 1
           /\ \A k \in 1 .. Len(s) - 1 : RemoveAt(s, i)[k] = IF k < i THEN s[k] ELSE s[k + 1]
<1> DEFINE before == SubSeq(s, 1, i - 1)
           after == SubSeq(s, i + 1, Len(s))
<1>1. before \in Seq(S) /\ Len(before) = i - 1 /\ \A k \in 1 .. i - 1 : before[k] = s[k]
  OBVIOUS
<1>2. after \in Seq(S) /\ Len(after) = Len(s) - i /\ \A k \in 1 .. Len(s) - i : after[k] = s[k + i]
  OBVIOUS
<1> HIDE DEF before, after
<1>3. before \o after \in Seq(S) /\ Len(before \o after) = Len(s) - 1
  BY <1>1, <1>2
<1>4. ASSUME NEW k \in 1 .. Len(s) - 1
      PROVE  (before \o after)[k] = IF k < i THEN s[k] ELSE s[k + 1]
  <2>1. CASE k < i
    BY <1>1, <1>2, <2>1
  <2>2. CASE k >= i
    <3>1. (before \o after)[k] = after[k - (i - 1)]
      <4>1. /\ \A n \in 1 .. Len(before) + Len(after) :
                 (before \o after)[n] = IF n <= Len(before) THEN before[n]
                                        ELSE after[n - Len(before)]
            /\ Len(before) = i - 1 /\ Len(after) = Len(s) - i
        BY <1>1, <1>2, ConcatProperties
      <4> DEFINE both == before \o after
      <4>2. \A n \in 1 .. (i - 1) + (Len(s) - i) :
               both[n] = IF n <= i - 1 THEN before[n] ELSE after[n - (i - 1)]
        BY <4>1
      <4>3. k \in 1 .. (i - 1) + (Len(s) - i) /\ ~ k <= i - 1
        BY <2>2, LenProperties
      <4> HIDE DEF both
      <4>4. both[k] = after[k - (i - 1)]
        BY <4>2, <4>3
      <4> QED BY <4>4 DEF both
    <3>2. k - (i - 1) \in 1 .. Len(s) - i /\ k - (i - 1) + i = k + 1 /\ ~ k < i
      BY <2>2
    <3>3. after[k - (i - 1)] = s[k - (i - 1) + i]
      BY <1>2, <3>2
    <3> QED BY <3>1, <3>2, <3>3
  <2>3. k < i \/ k >= i
    OBVIOUS
  <2> QED BY <2>1, <2>2, <2>3
<1> QED BY <1>3, <1>4 DEF RemoveAt, before, after

\* A chat that moves to the top pushes those above it down by one.
LEMMA ToTopPlaces ==
    ASSUME PagesTypes, NEW i \in 1 .. Len(list), ToTop(i)
    PROVE  /\ list' \in Seq(Chats) /\ Len(list') = Len(list)
           /\ \A m \in 1 .. Len(list) :
                 list'[m] = list[i] \/ \E n \in 1 .. Len(list) : n <= m /\ list'[m] = list[n]
<1> DEFINE rest == RemoveAt(list, i)
<1>1. /\ rest \in Seq(Chats) /\ Len(rest) = Len(list) - 1
      /\ \A k \in 1 .. Len(list) - 1 : rest[k] = IF k < i THEN list[k] ELSE list[k + 1]
  BY RemoveAtPlaces DEF PagesTypes
<1>2. list' = <<list[i]>> \o rest /\ list[i] \in Chats
  BY DEF ToTop, PagesTypes
<1> HIDE DEF rest
<1>3. /\ list' \in Seq(Chats) /\ Len(list') = Len(list) /\ list'[1] = list[i]
      /\ \A m \in 2 .. Len(list) : list'[m] = rest[m - 1]
  BY <1>1, <1>2
<1>4. ASSUME NEW m \in 2 .. Len(list)
      PROVE  \E n \in 1 .. Len(list) : n <= m /\ list'[m] = list[n]
  <2>1. CASE m - 1 < i
    BY <1>1, <1>3, <2>1
  <2>2. CASE m - 1 >= i
    BY <1>1, <1>3, <2>2
  <2> QED BY <2>1, <2>2
<1> QED BY <1>3, <1>4

\* A walk over the list of chats begins with its invariant, or idles in it.
LEMMA PagesStarts == PagesInit \/ PagesIdle => PagesInv
<1> SUFFICES ASSUME PagesInit \/ PagesIdle PROVE PagesInv
  OBVIOUS
<1> USE ChatPagesAssumption DEF ChatPagesAssumption
<1>1. Cardinality(Chats) \in Nat
  BY FS_CardinalityType
<1>2. list \in Seq(Chats) /\ known \in 0 .. Len(list)
  <2>1. CASE PagesInit
    <3>1. list \in [1 .. Cardinality(Chats) -> Chats]
      BY <2>1 DEF PagesInit, SetToSeqs
    <3> QED BY <1>1, <2>1, <3>1 DEF PagesInit
  <2>2. CASE PagesIdle
    BY <2>2 DEF PagesIdle
  <2> QED BY <2>1, <2>2
<1>3. /\ offset = 0 /\ ids = <<>> /\ at = 0 /\ pages = 0 /\ walk \in {"none", "ask"}
  BY DEF PagesInit, PagesIdle, PagesStart
<1> QED BY <1>2, <1>3 DEF PagesInv, PagesTypes, PageCount, ShownState, PagesShown

\* The list may change at any step of the walk, and each change keeps what is shown.
LEMMA ChangeStep ==
    ASSUME PagesInv, NEW i \in 1 .. Len(list), ToTop(i) \/ LeaveChat(i)
    PROVE  PagesInv'
<1> USE ChatPagesAssumption DEF ChatPagesAssumption, PagesInv
<1>1. /\ UNCHANGED <<walk, offset, ids, at, got, pages>> /\ walk \notin Ended \cup {"none"}
  BY DEF ToTop, LeaveChat, MayChange
<1>2. CASE ToTop(i)
  <2>1. /\ list' \in Seq(Chats) /\ Len(list') = Len(list)
        /\ \A m \in 1 .. Len(list) :
              list'[m] = list[i] \/ \E n \in 1 .. Len(list) : n <= m /\ list'[m] = list[n]
    BY <1>2, ToTopPlaces
  <2>2. /\ known' = (IF i <= known THEN known ELSE known + 1)
        /\ touched' = touched \cup {list[i]} /\ gap' = gap
    BY <1>2 DEF ToTop
  <2>3. PagesTypes' /\ PageCount'
    BY <1>1, <2>1, <2>2 DEF PagesTypes, PageCount
  <2>4. /\ list[i] \in got' \cup touched'
        /\ \A chat : chat \in got \cup touched => chat \in got' \cup touched'
    BY <1>1, <2>2
  <2>5. ASSUME ~ gap, NEW m \in 1 .. Len(list), m <= offset
        PROVE  list'[m] \in got' \cup touched'
    <3>1. CASE list'[m] = list[i]
      BY <2>4, <3>1
    <3>2. CASE \E n \in 1 .. Len(list) : n <= m /\ list'[m] = list[n]
      <4>1. PICK n \in 1 .. Len(list) : n <= m /\ list'[m] = list[n]
        BY <3>2
      <4>2. list[n] \in got \cup touched
        BY <2>5, <4>1 DEF PagesTypes, ShownState, PagesShown, Shown
      <4> QED BY <2>4, <4>1, <4>2
    <3> QED BY <2>1, <3>1, <3>2
  <2>6. ASSUME ~ gap, walk = "fetch", NEW m \in 1 .. Len(list), m <= Len(ids)
        PROVE  list'[m] \in got' \cup touched' \/ \E j \in 1 .. Len(ids) : list'[m] = ids[j]
    <3>1. CASE list'[m] = list[i]
      BY <2>4, <3>1
    <3>2. CASE \E n \in 1 .. Len(list) : n <= m /\ list'[m] = list[n]
      <4>1. PICK n \in 1 .. Len(list) : n <= m /\ list'[m] = list[n]
        BY <3>2
      <4>2. list[n] \in got \cup touched \/ \E j \in 1 .. Len(ids) : list[n] = ids[j]
        <5>1. n <= Len(ids)
          BY <2>6, <4>1 DEF PagesTypes
        <5> QED BY <2>6, <5>1 DEF ShownState, PagesShown, Shown
      <4> QED BY <2>4, <4>1, <4>2
    <3> QED BY <2>1, <3>1, <3>2
  <2>7. ASSUME ~ gap, walk = "fetch" PROVE \A j \in 1 .. Len(ids) : j < at => Shown(ids[j])'
    BY <1>1, <2>2, <2>7 DEF ShownState, PagesShown, Shown
  <2>8. ASSUME ~ gap, walk = "list" PROVE known' >= Reach(want)'
    BY <1>1, <2>1, <2>2, <2>8 DEF ShownState, PagesShown, PagesTypes, Reach, want
  <2>9. ASSUME ~ gap, walk = "fetch"
        PROVE  Len(ids) <= want /\ (Len(ids) < want => Len(list') = Len(ids))
    BY <2>1, <2>9 DEF ShownState, PagesShown
  <2>10. walk' = walk /\ walk \notin {"whole", "window"} /\ gap' = gap /\ want' = want
    BY <1>1, <2>2 DEF Ended, want
  <2> SUFFICES ASSUME ~ gap PROVE PagesShown'
    BY <2>3, <2>10 DEF ShownState
  <2>11. (\A m \in 1 .. Len(list) : m <= offset => Shown(list[m]))'
    BY <1>1, <2>1, <2>5 DEF Shown
  <2>12. (walk = "list" => known >= Reach(want))'
    BY <2>8, <2>10
  <2>13. (walk = "fetch" =>
            /\ \A j \in 1 .. Len(ids) : j < at => Shown(ids[j])
            /\ \A m \in 1 .. Len(list) : m <= Len(ids) =>
                  Shown(list[m]) \/ \E j \in 1 .. Len(ids) : list[m] = ids[j]
            /\ Len(ids) <= want /\ (Len(ids) < want => Len(list) = Len(ids)))'
    BY <1>1, <2>1, <2>6, <2>7, <2>9, <2>10 DEF Shown
  <2> QED BY <2>10, <2>11, <2>12, <2>13 DEF ShownState, PagesShown
<1>3. CASE LeaveChat(i)
  <2>1. /\ list' \in Seq(Chats) /\ Len(list') = Len(list) - 1
        /\ known' = (IF i <= known THEN known - 1 ELSE known) /\ gap' = TRUE
    BY <1>3, RemoveAtPlaces DEF LeaveChat, PagesTypes
  <2> QED BY <1>1, <2>1 DEF PagesTypes, PageCount, ShownState, PagesShown
<1> QED BY <1>2, <1>3

\* The offset of the next page is where the pages so far end.
LEMMA AskStep == PagesInv /\ AskPage => PagesInv'
<1> SUFFICES ASSUME PagesInv, AskPage PROVE PagesInv'
  OBVIOUS
<1> USE ChatPagesAssumption DEF ChatPagesAssumption, PagesInv, AskPage, listVars
<1>1. walk' = "load" /\ pages' = pages + 1 /\ walk = "ask"
  BY DEF PageCount, PagesTypes
<1>2. PagesTypes'
  BY <1>1 DEF PagesTypes
<1>3. PageCount'
  BY <1>1 DEF PagesTypes, PageCount
<1>4. ShownState'
  BY <1>1 DEF ShownState, PagesShown, Shown
<1> QED BY <1>2, <1>3, <1>4

\* Unless TDLib answers with an error, it knows the list up to the page's end.
LEMMA LoadStep == PagesInv /\ LoadChats => PagesInv'
<1> SUFFICES ASSUME PagesInv, LoadChats PROVE PagesInv'
  OBVIOUS
<1> USE ChatPagesAssumption DEF ChatPagesAssumption, PagesInv
<1>1. /\ walk = "load" /\ walk' = "list"
      /\ UNCHANGED <<list, offset, ids, at, got, pages, touched>>
      /\ known' \in 0 .. Len(list)
  BY DEF LoadChats, PagesTypes, Reach, want
<1>2. PagesTypes' /\ PageCount'
  BY <1>1 DEF PagesTypes, PageCount
<1>3. ASSUME ~ gap' PROVE ~ gap /\ known' >= Reach(want)
  <2>1. Reach(want) \in Int /\ known \in Int
    BY DEF PagesTypes, Reach, want
  <2>2. CASE known' = (IF Reach(want) > known THEN Reach(want) ELSE known) /\ UNCHANGED gap
    BY <1>3, <2>1, <2>2
  <2>3. CASE known' = known /\ gap' = (gap \/ known < Reach(want))
    <3>1. ~ gap /\ ~ known < Reach(want)
      BY <1>3, <2>3, Zenon
    <3> QED BY <2>1, <2>3, <3>1
  <2> QED BY <2>2, <2>3 DEF LoadChats
<1>4. ShownState'
  BY <1>1, <1>3 DEF ShownState, PagesShown, Shown, Reach, want
<1> QED BY <1>2, <1>4

\* What is listed is the list up to the page's end, or the whole of it.
LEMMA ListStep == PagesInv /\ ListChats => PagesInv'
<1> SUFFICES ASSUME PagesInv, ListChats PROVE PagesInv'
  OBVIOUS
<1> USE ChatPagesAssumption DEF ChatPagesAssumption, PagesInv
<1>1. walk = "list" /\ UNCHANGED <<list, known, offset, got, pages, touched, gap>>
  BY DEF ListChats, listVars
<1>2. CASE walk' = "failed"
  <2>1. UNCHANGED <<ids, at>>
    BY <1>2 DEF ListChats
  <2>2. PagesTypes' /\ PageCount'
    BY <1>1, <1>2, <2>1 DEF PagesTypes, PageCount, Ended
  <2>3. PagesShown => PagesShown'
    BY <1>1, <1>2 DEF PagesShown, Shown
  <2> QED BY <1>1, <2>2, <2>3 DEF ShownState
<1>3. CASE walk' = "fetch"
  <2> DEFINE upto == IF want < known THEN want ELSE known
  <2>1. upto \in 0 .. Len(list) /\ upto <= want /\ (upto < want => upto = known)
    BY DEF PagesTypes, want
  <2>2. ids' = SubSeq(list, 1, upto) /\ at' = offset + 1
    BY <1>3 DEF ListChats
  <2> HIDE DEF upto
  <2>3. ids' \in Seq(Chats) /\ Len(ids') = upto /\ \A j \in 1 .. upto : ids'[j] = list[j]
    BY <2>1, <2>2 DEF PagesTypes
  <2>4. PagesTypes' /\ PageCount'
    BY <1>1, <1>3, <2>2, <2>3 DEF PagesTypes, PageCount
  <2> SUFFICES ASSUME ~ gap PROVE PagesShown'
    BY <1>1, <2>4 DEF ShownState
  <2>5. \A i \in 1 .. Len(list) : i <= offset => Shown(list[i])
    BY DEF ShownState, PagesShown
  <2>6. \A j \in 1 .. upto : j < offset + 1 => ids'[j] \in got \cup touched
    BY <2>1, <2>3, <2>5 DEF Shown, PagesTypes
  <2>7. \A i \in 1 .. Len(list) : i <= upto => \E j \in 1 .. upto : list[i] = ids'[j]
    BY <2>1, <2>3
  <2>8. upto < want => Len(list) = upto
    BY <1>1, <2>1 DEF ShownState, PagesShown, Reach, PagesTypes, want
  <2> QED BY <1>1, <1>3, <2>1, <2>2, <2>3, <2>5, <2>6, <2>7, <2>8 DEF ShownState, PagesShown,
      Shown, want
<1> QED BY <1>2, <1>3 DEF ListChats

\* A chat of the page is shown, or there is a gap.
LEMMA FetchStep == PagesInv /\ FetchChat => PagesInv'
<1> SUFFICES ASSUME PagesInv, FetchChat PROVE PagesInv'
  OBVIOUS
<1> USE ChatPagesAssumption DEF ChatPagesAssumption, PagesInv
<1>1. /\ walk = "fetch" /\ at <= Len(ids) /\ at' = at + 1
      /\ UNCHANGED <<list, known, walk, offset, ids, pages, touched>>
      /\ \/ gap' = gap /\ got' = got \cup {ids[at]}
         \/ gap' = TRUE
  BY DEF FetchChat, listVars
<1>2. PagesTypes' /\ PageCount'
  BY <1>1 DEF PagesTypes, PageCount
<1> SUFFICES ASSUME ~ gap' PROVE PagesShown'
  BY <1>2 DEF ShownState
<1>3. ~ gap /\ got' = got \cup {ids[at]}
  BY <1>1
<1>4. \A chat : Shown(chat) => Shown(chat)'
  BY <1>1, <1>3 DEF Shown
<1>5. (\A j \in 1 .. Len(ids) : j < at => Shown(ids[j]))'
  BY <1>1, <1>3 DEF ShownState, PagesShown, Shown, PagesTypes
<1>6. (\A i \in 1 .. Len(list) : i <= offset => Shown(list[i]))'
  BY <1>1, <1>3 DEF ShownState, PagesShown, Shown
<1>7. (\A i \in 1 .. Len(list) : i <= Len(ids) =>
          Shown(list[i]) \/ \E j \in 1 .. Len(ids) : list[i] = ids[j])'
  BY <1>1, <1>3 DEF ShownState, PagesShown, Shown
<1>8. (Len(ids) <= want /\ (Len(ids) < want => Len(list) = Len(ids)))'
  BY <1>1, <1>3 DEF ShownState, PagesShown, want
<1> QED BY <1>1, <1>5, <1>6, <1>7, <1>8 DEF ShownState, PagesShown

\* A page that is done has shown the list up to its end, which is the offset of the
\* next: a list that is shorter was shown to its end.
LEMMA DoneStep == PagesInv /\ PageDone => PagesInv'
<1> SUFFICES ASSUME PagesInv, PageDone PROVE PagesInv'
  OBVIOUS
<1> USE ChatPagesAssumption DEF ChatPagesAssumption, PagesInv
<1>1. /\ walk = "fetch" /\ at > Len(ids) /\ at \in Nat
      /\ UNCHANGED <<list, known, ids, at, got, pages, touched, gap>>
  BY DEF PageDone, listVars, PagesTypes
<1>2. pages \in Nat /\ pages >= 1 /\ (pages - 1) * PageLimit = offset /\ offset \in Nat
  BY <1>1 DEF PageCount, PagesTypes
<1>3. pages * PageLimit = want
  BY <1>2 DEF want
<1>4. CASE HasNext
  <2>1. walk' = "ask" /\ offset' = want
    BY <1>4 DEF PageDone
  <2>2. PagesTypes' /\ PageCount'
    BY <1>1, <1>2, <1>3, <1>4, <2>1 DEF PagesTypes, PageCount, HasNext, want
  <2> QED BY <1>1, <1>4, <2>1, <2>2 DEF ShownState, PagesShown, Shown, HasNext, PagesTypes
<1>5. CASE ~ HasNext
  <2>1. walk' = (IF Len(ids) = want THEN "window" ELSE "whole") /\ offset' = offset
    BY <1>5 DEF PageDone
  <2>2. PagesTypes' /\ PageCount'
    BY <1>1, <2>1 DEF PagesTypes, PageCount, Ended
  <2> SUFFICES ASSUME ~ gap PROVE PagesShown'
    BY <1>1, <2>2 DEF ShownState
  <2>3. \A i \in 1 .. Len(list) : i <= Len(ids) => Shown(list[i])
    BY <1>1 DEF ShownState, PagesShown, PagesTypes, Shown
  <2>4. \A i \in 1 .. Len(list) : i <= offset => Shown(list[i])
    BY DEF ShownState, PagesShown
  <2>5. Len(ids) # want => Len(list) = Len(ids)
    BY <1>1, <1>2 DEF ShownState, PagesShown, PagesTypes, want
  <2> QED BY <1>1, <2>1, <2>2, <2>3, <2>4, <2>5 DEF ShownState, PagesShown, Shown
<1> QED BY <1>4, <1>5

\* Every step of a walk, and every change of the list under it, keeps its invariant.
LEMMA PagesStep == PagesInv /\ [PagesNext]_pageVars => PagesInv'
<1> SUFFICES ASSUME PagesInv, [PagesNext]_pageVars PROVE PagesInv'
  OBVIOUS
<1>1. ASSUME NEW i \in DOMAIN list, ToTop(i) \/ LeaveChat(i) PROVE PagesInv'
  <2>1. i \in 1 .. Len(list)
    BY DEF PagesInv, PagesTypes
  <2> QED BY <1>1, <2>1, ChangeStep
<1>2. CASE UNCHANGED pageVars
  BY <1>2 DEF pageVars, PagesInv, PagesTypes, PageCount, ShownState, PagesShown, Shown, Reach, want
<1> QED BY <1>1, <1>2, AskStep, LoadStep, ListStep, FetchStep, DoneStep DEF PagesNext, PageStep

\* A walk through the chats by next_offset ends within the pages of the window, never
\* at an offset that is refused, and shows every chat that stayed where it was, however
\* long the list, the pages and the window, and however often the list changes (the
\* handler of GET /v1/chats).
THEOREM WalksShowTheList == Spec => []WalkShowsTheList
<1> USE ChatPagesAssumption DEF ChatPagesAssumption
<1>1. Init => PagesInv
  BY PartsInit, PagesStarts
<1>2. PagesInv /\ [Next]_vars => PagesInv'
  BY PartsStep, PagesStep
<1>3. PagesInv => WalkShowsTheList
  <2> SUFFICES ASSUME PagesInv PROVE WalkShowsTheList
    OBVIOUS
  <2>1. pages <= Window \div PageLimit + 1 /\ walk # "refused"
    <3>1. Window \div PageLimit \in Nat
      OBVIOUS
    <3>2. CASE walk = "none"
      BY <3>1, <3>2 DEF PagesInv, PageCount
    <3>3. CASE walk = "ask"
      <4>1. pages \in Nat /\ pages * PageLimit <= Window
        BY <3>3 DEF PagesInv, PageCount, PagesTypes
      <4>2. pages <= Window \div PageLimit
        BY <4>1, PagesFit
      <4> QED BY <3>1, <4>1, <4>2 DEF PagesInv, PageCount
    <3>4. CASE walk \notin {"none", "ask"}
      <4>1. pages - 1 \in Nat /\ (pages - 1) * PageLimit <= Window
        BY <3>4 DEF PagesInv, PageCount, PagesTypes
      <4>2. pages - 1 <= Window \div PageLimit
        BY <4>1, PagesFit
      <4> QED BY <3>1, <4>1, <4>2 DEF PagesInv, PageCount, PagesTypes
    <3> QED BY <3>2, <3>3, <3>4
  <2>2. DOMAIN list = 1 .. Len(list)
    BY DEF PagesInv, PagesTypes
  <2> QED BY <2>1, <2>2 DEF PagesInv, ShownState, PagesShown, Shown, WalkShowsTheList
<1> QED BY <1>1, <1>2, <1>3, PTL DEF Spec

-----------------------------------------------------------------------------
(* The types of all parts *)

\* What the walk counts and was given.
PagesBounds == got \subseteq Chats /\ changes \in 0 .. MaxChanges

\* So do they keep within the list and the bounds on its changes.
LEMMA PagesBoundsStep == PagesInv /\ PagesBounds /\ [PagesNext]_pageVars => PagesBounds'
<1> SUFFICES ASSUME PagesInv, PagesBounds, [PagesNext]_pageVars PROVE PagesBounds'
  OBVIOUS
<1> USE ChatPagesAssumption DEF ChatPagesAssumption, PagesBounds
<1>1. CASE FetchChat
  <2>1. at >= 1 /\ at <= Len(ids) /\ at \in Nat /\ ids \in Seq(Chats)
    BY <1>1 DEF FetchChat, PagesInv, PagesTypes, PageCount
  <2>2. ids[at] \in Chats
    BY <2>1
  <2> QED BY <1>1, <2>2 DEF FetchChat
<1>2. CASE AskPage \/ LoadChats \/ ListChats \/ PageDone \/ UNCHANGED pageVars
  BY <1>2 DEF AskPage, LoadChats, ListChats, PageDone, pageVars
<1>3. ASSUME NEW i \in DOMAIN list, ToTop(i) \/ LeaveChat(i) PROVE PagesBounds'
  BY <1>3 DEF ToTop, LeaveChat, MayChange
<1> QED BY <1>1, <1>2, <1>3 DEF PagesNext, PageStep

\* The pool runs no more tasks than it has threads, and no directory is of the future.
\* Who has no number yet has none of an earlier process.
UploadsBounds ==
    /\ IsFiniteSet(Running) /\ Cardinality(Running) <= PoolThreads
    /\ \A u \in Uploads : upload[u].at \in {"new", "queued"} => upload[u].dir = 0
    /\ clock <= MaxClock /\ crashes \in 0 .. MaxCrashes /\ due \in Flags
    /\ \A dir \in DOMAIN disk : disk[dir].mtime <= clock

\* A thread of the pool is taken by StartTask only, and only when one is free.
LEMMA PoolStep ==
    ASSUME UploadsInv, IsFiniteSet(Running), Cardinality(Running) <= PoolThreads,
           [UploadsNext]_uploadVars
    PROVE  IsFiniteSet(Running') /\ Cardinality(Running') <= PoolThreads
<1> USE UploadsAssumption DEF UploadsAssumption
<1>t. UploadTypes
  BY Zenon DEF UploadsInv
<1>1. ASSUME Running' \subseteq Running PROVE IsFiniteSet(Running') /\ Cardinality(Running') <= PoolThreads
  <2> DEFINE now == Running
             next == Running'
  <2>1. IsFiniteSet(next) /\ Cardinality(next) <= Cardinality(now)
    BY <1>1, FS_Subset
  <2>2. Cardinality(next) \in Nat /\ Cardinality(now) \in Nat
    BY <2>1, FS_CardinalityType
  <2> HIDE DEF now, next
  <2> QED BY <2>1, <2>2 DEF now, next
<1>2. ASSUME NEW u \in Uploads, StartTask(u)
      PROVE  IsFiniteSet(Running') /\ Cardinality(Running') <= PoolThreads
  <2> DEFINE more == Running \cup {u}
  <2>1. Running' \subseteq more
    <3>1. upload \in [Uploads -> UploadRecords]
      BY Zenon DEF UploadsInv, UploadTypes
    <3>2. \A v \in Uploads : v # u => upload'[v] = upload[v]
      BY <1>2, <3>1 DEF StartTask, Fail
    <3>3. \A v \in Running' : v # u => v \in Running
      BY <3>2, Zenon DEF Running
    <3> QED BY <3>3, Zenon
  <2>2. IsFiniteSet(more) /\ Cardinality(more) <= Cardinality(Running) + 1
    BY FS_AddElement, FS_CardinalityType
  <2>3. Cardinality(Running) < PoolThreads
    BY <1>2 DEF StartTask
  <2>4. IsFiniteSet(Running') /\ Cardinality(Running') <= Cardinality(more)
    BY <2>1, <2>2, FS_Subset
  <2>5. /\ Cardinality(more) \in Nat /\ Cardinality(Running) \in Nat
        /\ Cardinality(Running') \in Nat
    BY <2>2, <2>4, FS_CardinalityType
  <2> QED BY <2>2, <2>3, <2>4, <2>5
<1>3. ASSUME NEW u \in Uploads, Accept(u) PROVE Running' \subseteq Running
  <2>1. upload'[u].at \in {"failed", "queued"} /\ \A v \in Uploads : v # u => upload'[v] = upload[v]
    BY <1>3, <1>t, AcceptMoves
  <2> QED BY <2>1 DEF Running
<1>4. ASSUME NEW u \in Uploads, CreateDirectory(u) \/ WriteBody(u)
      PROVE  Running' \subseteq Running
  <2>1. u \in Running /\ \A v \in Uploads : v # u => upload'[v] = upload[v]
    BY <1>4, StepInHand DEF CreateDirectory, WriteBody, Running, UploadsInv
  <2>2. ASSUME NEW v \in Running' PROVE v \in Running
    <3>1. CASE v = u
      BY <2>1, <3>1
    <3>2. CASE v # u
      <4>1. v \in Uploads /\ upload'[v] = upload[v]
        BY <2>1, <2>2, <3>2 DEF Running
      <4> QED BY <2>2, <4>1 DEF Running
    <3> QED BY <3>1, <3>2
  <2> QED BY <2>2, Zenon
<1>5. ASSUME NEW u \in Uploads, AskTdlib(u) \/ TdlibAnswers(u) \/ TdlibDone(u)
      PROVE  Running' \subseteq Running
  <2>1. \A v \in Uploads : v # u => upload'[v] = upload[v]
    BY <1>5, StepInHand DEF UploadsInv
  <2>2. upload'[u].at \in {"sending", "failed", "done"}
    BY <1>5, TdlibSteps DEF UploadsInv
  <2> QED BY <2>1, <2>2 DEF Running
<1>6. CASE CrashUploads
  BY <1>1, <1>6 DEF CrashUploads, Running, UploadsInv, UploadTypes, UploadRecords
<1>7. CASE SweepUploads \/ Tick \/ UNCHANGED uploadVars
  <2>1. Running' = Running
    BY <1>7 DEF SweepUploads, Tick, uploadVars, Running
  <2> QED BY <2>1
<1> QED BY <1>1, <1>2, <1>3, <1>4, <1>5, <1>6, <1>7 DEF UploadsNext, UploadStep

\* No step runs more jobs than the pool has threads, or goes past a bound.
LEMMA UploadsBoundsStep == UploadsInv /\ UploadsBounds /\ [UploadsNext]_uploadVars => UploadsBounds'
<1> SUFFICES ASSUME UploadsInv, UploadsBounds, [UploadsNext]_uploadVars PROVE UploadsBounds'
  OBVIOUS
<1> USE UploadsAssumption DEF UploadsAssumption
<1>1. IsFiniteSet(Running') /\ Cardinality(Running') <= PoolThreads
  BY PoolStep DEF UploadsBounds
<1>2. \A u \in Uploads : upload'[u].at \in {"new", "queued"} => upload'[u].dir = 0
  <2>1. ASSUME NEW u \in Uploads, Accept(u), NEW v \in Uploads,
               upload'[v].at \in {"new", "queued"}
        PROVE  upload'[v].dir = 0
    BY <2>1, AcceptMoves DEF UploadsBounds, UploadsInv
  <2>2. ASSUME NEW u \in Uploads, StartTask(u), NEW v \in Uploads,
               upload'[v].at \in {"new", "queued"}
        PROVE  upload'[v].dir = 0
    <3>1. \A w \in Uploads : w # u => upload'[w] = upload[w]
      BY <2>2 DEF UploadsInv, UploadTypes, UploadRecords, StartTask, Fail
    <3>2. upload'[u].at \in {"failed", "numbered"}
      BY <2>2 DEF UploadsInv, UploadTypes, UploadRecords, StartTask, Fail
    <3> QED BY <2>2, <3>1, <3>2 DEF UploadsBounds
  <2>3. ASSUME NEW u \in Uploads, NEW v \in Uploads, upload'[v].at \in {"new", "queued"},
               CreateDirectory(u) \/ WriteBody(u) \/ AskTdlib(u) \/ TdlibAnswers(u) \/ TdlibDone(u)
        PROVE  upload'[v].dir = 0
    <3>1. /\ InHand(u) /\ upload'[u].dir = upload[u].dir
          /\ v # u => upload'[v] = upload[v]
      BY <2>3, StepInHand DEF UploadsInv
    <3>2. v # u
      <4>1. upload \in [Uploads -> UploadRecords]
        BY DEF UploadsInv, UploadTypes
      <4>2. upload'[u].at \notin {"new", "queued"}
        <5>1. CASE CreateDirectory(u)
          BY <4>1, <5>1 DEF CreateDirectory, Fail, UploadRecords
        <5>2. CASE WriteBody(u)
          BY <4>1, <5>2 DEF WriteBody, Fail, UploadRecords
        <5>3. CASE AskTdlib(u) \/ TdlibAnswers(u) \/ TdlibDone(u)
          BY <5>3, TdlibSteps DEF UploadsInv
        <5> QED BY <2>3, <5>1, <5>2, <5>3
      <4> QED BY <2>3, <4>2
    <3> QED BY <2>3, <3>1, <3>2 DEF UploadsBounds
  <2>4. CASE CrashUploads
    BY <2>4 DEF CrashUploads, UploadsBounds, UploadsInv, UploadTypes, UploadRecords
  <2>5. CASE upload' = upload
    BY <2>5 DEF UploadsBounds
  <2> QED BY <2>1, <2>2, <2>3, <2>4, <2>5
    DEF UploadsNext, UploadStep, SweepUploads, Tick, uploadVars
<1>3. clock' <= MaxClock /\ crashes' \in 0 .. MaxCrashes /\ due' \in Flags
  <2>1. clock \in Nat
    BY DEF UploadsInv, UploadTypes, UploadRecords
  <2>2. CASE Tick
    BY <2>1, <2>2 DEF Tick, UploadsBounds, Flags
  <2>3. CASE CrashUploads
    BY <2>3 DEF CrashUploads, UploadsBounds, Flags
  <2>4. CASE SweepUploads
    BY <2>4 DEF SweepUploads, UploadsBounds, Flags
  <2>5. CASE UNCHANGED <<clock, crashes, due>>
    BY <2>5 DEF UploadsBounds
  <2>6. ASSUME NEW u \in Uploads, UploadStep(u) PROVE UNCHANGED <<clock, crashes, due>>
    <3>1. UploadTypes
      BY Zenon DEF UploadsInv
    <3>2. clock' = clock /\ crashes' = crashes /\ due' = due
      BY <2>6, <3>1, StepKeepsClock, Zenon
    <3> QED BY <3>2
  <2> QED BY <2>2, <2>3, <2>4, <2>5, <2>6 DEF UploadsNext, uploadVars
<1>4. \A dir \in DOMAIN disk' : disk'[dir].mtime <= clock'
  <2>a. UploadTypes
    BY Zenon DEF UploadsInv
  <2>0. clock \in Nat /\ \A dir \in DOMAIN disk : disk[dir].mtime \in Nat
    BY <2>a DEF UploadTypes
  <2>1. CASE UNCHANGED <<disk, clock>>
    BY <2>1 DEF UploadsBounds
  <2>2. CASE SweepUploads
    BY <2>2 DEF SweepUploads, Restrict, UploadsBounds
  <2>3. CASE Tick
    BY <2>0, <2>3 DEF Tick, UploadsBounds
  <2>4. ASSUME NEW u \in Uploads, CreateDirectory(u)
        PROVE  \A dir \in DOMAIN disk' : disk'[dir].mtime <= clock'
    BY <2>0, <2>4 DEF CreateDirectory, Put, UploadsBounds
  <2>5. ASSUME NEW u \in Uploads, WriteBody(u)
        PROVE  \A dir \in DOMAIN disk' : disk'[dir].mtime <= clock'
    <3>1. clock' = clock
      BY <2>5 DEF WriteBody
    <3>2. CASE disk' = Without(upload[u].dir)
      BY <3>1, <3>2 DEF Without, Restrict, UploadsBounds
    <3>3. CASE disk' # Without(upload[u].dir)
      <4>1. /\ DOMAIN disk' = DOMAIN disk
            /\ \A d \in DOMAIN disk : d # upload[u].dir => disk'[d] = disk[d]
            /\ upload[u].dir \in DOMAIN disk
            /\ disk'[upload[u].dir].mtime \in {disk[upload[u].dir].mtime, clock}
        BY <2>5, <3>3, WriteLeaves
      <4>2. \A d \in DOMAIN disk : disk'[d].mtime \in {disk[d].mtime, clock}
        BY <4>1
      <4> QED BY <2>0, <3>1, <4>1, <4>2 DEF UploadsBounds
    <3> QED BY <3>2, <3>3
  <2>6. CASE CrashUploads \/ UNCHANGED uploadVars
    BY <2>1, <2>6, Zenon DEF CrashUploads, uploadVars
  <2>7. ASSUME NEW u \in Uploads, UploadStep(u)
        PROVE  \A dir \in DOMAIN disk' : disk'[dir].mtime <= clock'
    <3>1. clock' = clock /\ (disk' = disk \/ CreateDirectory(u) \/ WriteBody(u))
      BY <2>a, <2>7, StepKeepsClock, StepKeepsDisk, Zenon
    <3>2. CASE disk' = disk
      BY <2>1, <3>1, <3>2
    <3> QED BY <2>4, <2>5, <3>1, <3>2, Zenon
  <2> QED BY <2>2, <2>3, <2>6, <2>7, Zenon DEF UploadsNext
<1> QED BY <1>1, <1>2, <1>3, <1>4 DEF UploadsBounds

\* Every part keeps its types, whichever starts: no more uploads are written at once
\* than the pool has threads, no task waits twice, a request that has a status is
\* replied to, and the bounds of the model hold.
THEOREM TypesAreKept == Spec => []TypeOK
<1> DEFINE All == PagesInv /\ PagesBounds /\ UploadsInv /\ UploadsBounds
<1>1. Init => All
  <2> SUFFICES ASSUME Init PROVE PagesBounds /\ UploadsBounds
    BY PartsInit, PagesStarts, UploadsStarts
  <2>1. PagesBounds
    BY ChatPagesAssumption, PartsInit
    DEF ChatPagesAssumption, PagesBounds, PagesInit, PagesIdle, PagesStart
  <2>2. /\ upload = [u \in Uploads |-> NewUpload] /\ disk = <<>> /\ clock = 0 /\ crashes = 0
        /\ due = TRUE \/ due = FALSE
    BY PartsInit DEF UploadsInit, UploadsIdle, UploadsStart
  <2>3. Running = {} /\ \A u \in Uploads : upload[u].dir = 0
    BY <2>2 DEF Running, NewUpload
  <2>4. IsFiniteSet(Running) /\ Cardinality(Running) = 0
    BY <2>3, FS_EmptySet
  <2>5. due \in Flags
    BY <2>2 DEF Flags
  <2>6. DOMAIN disk = {}
    BY <2>2
  <2>7. UploadsBounds
    BY <2>2, <2>3, <2>4, <2>5, <2>6, UploadsAssumption DEF UploadsAssumption, UploadsBounds
  <2> QED BY <2>1, <2>7
<1>2. All /\ [Next]_vars => All'
  <2>1. UploadsInv /\ [UploadsNext]_uploadVars => UploadsInv'
    BY UploadTypesStep, QueueStep, NumbersStep, SweptStep, OwnFileStep DEF UploadsInv
  <2> QED BY <2>1, PartsStep, PagesStep, PagesBoundsStep, UploadsBoundsStep
<1>3. Spec => []All
  BY <1>1, <1>2, PTL DEF Spec
<1>4. Spec => []TriggerInv
  <2>1. Init => TriggerInv
    BY PartsInit, TriggerStarts
  <2>2. TriggerInv /\ [Next]_vars => TriggerInv'
    BY PartsStep, TriggerStep
  <2> QED BY <2>1, <2>2, PTL DEF Spec
<1>5. RequestInv => RequestTypeOK
  <2> SUFFICES ASSUME RequestInv PROVE RequestTypeOK
    OBVIOUS
  <2>1. step = "replied" <=> reply.code # 0
    BY DEF RequestInv, CallState, NoReply
  <2>2. /\ step \in {"none", "received", "asked", "replied"} /\ (step = "asked" => calls # <<>>)
        /\ \A e \in entries : e.scopes \subseteq Scopes
    BY DEF RequestInv, CallState, FilterState
  <2> QED BY <2>1, <2>2, Zenon DEF RequestTypeOK
<1>6. All => PagesTypeOK
  BY DEF PagesInv, PagesTypes, PagesBounds, PagesTypeOK, ToSet
<1>7. ASSUME All PROVE UploadsTypeOK
  <2>1. ASSUME NEW u \in Uploads
        PROVE  upload[u].dir \in 0 .. counter \/ upload[u].at \in {"lost", "done", "failed"}
    BY <1>7, <2>1 DEF UploadsInv, UploadTypes, NumbersState, InHand, UploadsBounds, Stages,
                                                                      UploadRecords
  <2>2. IsInjective(tasks)
    BY <1>7 DEF UploadsInv, QueueState, IsInjective
  <2>3. due \in BOOLEAN
    BY <1>7 DEF UploadsBounds, Flags
  <2>4. /\ clock \in 0 .. MaxClock /\ crashes \in 0 .. MaxCrashes
        /\ \A dir \in DOMAIN disk : disk[dir].mtime \in 0 .. clock
    BY <1>7, UploadsAssumption DEF UploadsAssumption, UploadsBounds, UploadsInv, UploadTypes, UploadRecords
  <2> QED BY <1>7, <2>1, <2>2, <2>3, <2>4, Zenon DEF UploadsTypeOK, UploadsBounds
<1>8. TriggerInv => TriggerTypeOK
  BY Zenon DEF TriggerInv, ChainState, TriggerTypeOK
<1> QED BY <1>3, <1>4, <1>5, <1>6, <1>7, <1>8, RequestInvHolds, PTL DEF TypeOK

=============================================================================
