------------------------------ MODULE Uploads -------------------------------
(***************************************************************************)
(* POST /v1/chats/{chatId}/files (src/src/http/message_routes.cpp) and the *)
(* sweep of the upload directory (upload_cleanup.cpp).  A task of the pool *)
(* takes the next number of the process for its directory, writes the body *)
(* there and asks TDLib to send the file, which TDLib reads until it is    *)
(* done.  Nobody tells the gateway when that is: the directory goes when   *)
(* it is older than ttl.  The numbers start again with the process; the    *)
(* directories stay.                                                       *)
(*                                                                         *)
(* The clock counts the intervals of the sweep.  Nothing of a pending send *)
(* survives a restart: StartupBootstrapper turns TDLib's databases off.    *)
(***************************************************************************)
EXTENDS Integers, Sequences, SequencesExt, FiniteSets, Functions

CONSTANTS
    Uploads, FileNames,
    PoolThreads,     \* 2
    Ttl,             \* one hour, in intervals of the sweep
    MaxClock, MaxCrashes   \* bounds

ASSUME UploadsAssumption ==
    PoolThreads \in Nat \ {0} /\ Ttl \in Nat /\ MaxClock \in Nat /\ MaxCrashes \in Nat

VARIABLES
    upload,      \* of each upload: where it has got to, its file, and what became of it
    tasks,       \* the queue of the pool
    counter,     \* of the process: the last number given out
    disk,        \* number of a directory |-> [mtime, files: name |-> content]
    clock, due,  \* the time, and whether the sweep of this interval is to come
    crashes

uploadVars == <<upload, tasks, counter, disk, clock, due, crashes>>

NewUpload == [at |-> "new", name |-> "", small |-> FALSE, dir |-> 0,
              reused |-> FALSE, since |-> 0, code |-> 0]
UploadsStart ==
    /\ upload = [u \in Uploads |-> NewUpload]
    /\ tasks = <<>> /\ counter = 0 /\ disk = <<>> /\ clock = 0 /\ crashes = 0
UploadsInit == UploadsStart /\ due = TRUE
UploadsIdle == UploadsStart /\ due = FALSE

\* The task replies and ends.
Fail(u, code) == upload' = [upload EXCEPT ![u].at = "failed", ![u].code = code]

\* f with y at x, which is in its domain or not.
Put(f, x, y) == [z \in DOMAIN f \cup {x} |-> IF z = x THEN y ELSE f[z]]

Running == {u \in Uploads : upload[u].at \in {"numbered", "made", "written"}}

-----------------------------------------------------------------------------
(* The route *)

\* The handler: a chat id that is none is refused, else the pool gets a task.
Accept(u) ==
    /\ upload[u].at = "new"
    /\ \/ Fail(u, 400) /\ UNCHANGED tasks
       \/ \E name \in FileNames, small \in BOOLEAN :
             /\ upload' = [upload EXCEPT ![u].at = "queued", ![u].name = name,
                                         ![u].small = small]
             /\ tasks' = Append(tasks, u)
    /\ UNCHANGED <<counter, disk, clock, due, crashes>>

MutSeqOnce == IF counter = 0 THEN 1 ELSE counter
NextSeq == counter + 1

\* The type is checked first, so that a refused upload leaves nothing behind.
StartTask(u) ==
    /\ tasks # <<>> /\ Head(tasks) = u /\ Cardinality(Running) < PoolThreads
    /\ tasks' = Tail(tasks)
    /\ \/ Fail(u, 400) /\ UNCHANGED counter
       \/ /\ counter' = NextSeq
          /\ upload' = [upload EXCEPT ![u].at = "numbered", ![u].dir = NextSeq]
    /\ UNCHANGED <<disk, clock, due, crashes>>

\* create_directories(): a directory that is there already is no error.
CreateDirectory(u) ==
    LET dir == upload[u].dir
    IN  /\ upload[u].at = "numbered"
        /\ \/ /\ upload' = [upload EXCEPT ![u].at = "made", ![u].reused = dir \in DOMAIN disk]
              /\ disk' = IF dir \in DOMAIN disk THEN disk
                         ELSE Put(disk, dir, [mtime |-> clock, files |-> <<>>])
           \/ Fail(u, 500) /\ UNCHANGED disk
        /\ UNCHANGED <<tasks, counter, clock, due, crashes>>

Without(dir) == Restrict(disk, DOMAIN disk \ {dir})

\* A new name in the directory is what its mtime shows.
Written(dir, name, content) ==
    [disk EXCEPT ![dir].mtime = IF name \in DOMAIN disk[dir].files THEN @ ELSE clock,
                 ![dir].files = Put(@, name, content)]

\* The body goes to its file.  A failure that the stream has seen takes the
\* directory away again; of a small body nothing has been written when the
\* stream is looked at.
WriteBody(u) ==
    LET dir == upload[u].dir
        Write(content) ==
            /\ dir \in DOMAIN disk /\ disk' = Written(dir, upload[u].name, content)
            /\ upload' = [upload EXCEPT ![u].at = "written", ![u].since = clock]
    IN  /\ upload[u].at = "made"
        /\ \/ Write([of |-> u, whole |-> TRUE])
           \/ upload[u].small /\ Write([of |-> u, whole |-> FALSE])
           \/ Fail(u, 500) /\ disk' = Without(dir)
        /\ UNCHANGED <<tasks, counter, clock, due, crashes>>

\* launchInvoke() of sendMessage, which ends the task.
AskTdlib(u) ==
    /\ upload[u].at = "written" /\ upload' = [upload EXCEPT ![u].at = "sending"]
    /\ UNCHANGED <<tasks, counter, disk, clock, due, crashes>>

\* TDLib refuses the message, or has it pending: the file is in use until it is
\* sent or given up.
TdlibAnswers(u) ==
    /\ upload[u].at = "sending" /\ upload[u].code = 0
    /\ \/ Fail(u, 502)
       \/ upload' = [upload EXCEPT ![u].code = 202]
    /\ UNCHANGED <<tasks, counter, disk, clock, due, crashes>>
TdlibDone(u) ==
    /\ upload[u].at = "sending" /\ upload[u].code = 202
    /\ upload' = [upload EXCEPT ![u].at = "done"]
    /\ UNCHANGED <<tasks, counter, disk, clock, due, crashes>>

-----------------------------------------------------------------------------
(* The sweep, the clock and the process *)

\* sweepOnce(): what has not been touched for longer than ttl.
Stale == {dir \in DOMAIN disk : clock - disk[dir].mtime > Ttl}

\* At the start of the process and once in an interval.
SweepUploads ==
    /\ due /\ due' = FALSE
    /\ disk' = Restrict(disk, DOMAIN disk \ Stale)
    /\ UNCHANGED <<upload, tasks, counter, clock, crashes>>

Tick ==
    /\ ~due /\ clock < MaxClock /\ clock' = clock + 1 /\ due' = TRUE
    /\ UNCHANGED <<upload, tasks, counter, disk, crashes>>

\* What the process had in hand is lost, and a new one begins to count.
CrashUploads ==
    /\ crashes < MaxCrashes /\ crashes' = crashes + 1
    /\ upload' = [u \in Uploads |->
                    IF upload[u].at \in {"new", "done", "failed"} THEN upload[u]
                    ELSE [upload[u] EXCEPT !.at = "lost"]]
    /\ tasks' = <<>> /\ counter' = 0 /\ due' = TRUE
    /\ UNCHANGED <<disk, clock>>

UploadStep(u) ==
    \/ Accept(u) \/ StartTask(u) \/ CreateDirectory(u) \/ WriteBody(u)
    \/ AskTdlib(u) \/ TdlibAnswers(u) \/ TdlibDone(u)
UploadsNext == (\E u \in Uploads : UploadStep(u)) \/ SweepUploads \/ Tick \/ CrashUploads
UploadsSpec == UploadsInit /\ [][UploadsNext]_uploadVars

-----------------------------------------------------------------------------
(* Properties *)

UploadsTypeOK ==
    /\ \A u \in Uploads : upload[u].dir \in 0 .. counter \/ upload[u].at \in {"lost", "done", "failed"}
    /\ Cardinality(Running) <= PoolThreads /\ IsInjective(tasks)
    /\ clock \in 0 .. MaxClock /\ due \in BOOLEAN /\ crashes \in 0 .. MaxCrashes
    /\ \A dir \in DOMAIN disk : disk[dir].mtime \in 0 .. clock

InUse(u) == upload[u].at \in {"written", "sending"} /\ clock - upload[u].since <= Ttl
OnDisk(u) == upload[u].dir \in DOMAIN disk /\ upload[u].name \in DOMAIN disk[upload[u].dir].files

\* The file of an upload is there, with its own body, as long as TDLib may need
\* it and ttl has not passed - if its directory was a new one; and what was
\* uploaded does not stay for longer than ttl and an interval of the sweep
\* (message_routes.cpp:522-527, 559-585; upload_cleanup.cpp:12-43).
KeptThenSwept ==
    /\ \A u \in Uploads : InUse(u) /\ ~upload[u].reused =>
          /\ OnDisk(u)
          /\ LET body == disk[upload[u].dir].files[upload[u].name]
             IN  body.of = u /\ (body.whole \/ upload[u].small)
    /\ \A dir \in DOMAIN disk : ~due => clock - disk[dir].mtime <= Ttl

\* What upload_cleanup.hpp:8-9 says: the cleanup removes the directories that
\* are older than ttl, when TDLib does not need them any more.
FreshUploadStays == \A u \in Uploads : InUse(u) => OnDisk(u)
=============================================================================
