# telegram-rest-gateway in TLA+

A verification development kept beside the code of telegram-rest-gateway: TLA+
modules of its stateful parts, TLC runs over small instances of them, and proofs
that TLAPS checks for every instance. All paths are relative to the repository;
the C++ gateway is under `src/`, the services around it under `control-plane/`,
`archiver/` and `mcp/`.

## 1. The system

One gateway process serves one Telegram account. TDLib is asynchronous and
single-client; the gateway turns it into request/response HTTP, WebSocket and
Kafka streams, and webhooks. A control plane creates, deletes and re-logs
accounts in by running one gateway pod per account; an archiver stores what
the gateways see; an MCP server proxies to both.

| Component | State | Operations | Talks to |
|---|---|---|---|
| TDLib bridge (`src/bridge/td_bridge.*`, `correlation_map.*`) | correlation map of in-flight calls, request ids, per-call phase/result, receiver thread, `stopping_` | `co_await invoke`, `sendOneWay`, receive + sweep + dispatch, `drainPending`, `stop` | TDLib, Drogon loops (resume), update router |
| Process lifecycle (`src/main.cpp`) | signal thread, main thread, loops | start, signal drain + quit, shutdown tail | everything |
| Confirmation tracker (`src/bridge/message_send_tracker.*`) | map of waits by temporary message id | `waitFor` with its timer, `resolveSucceeded/Failed`, `drainAll` | receiver thread, IO loops |
| Idempotency cache (`src/http/idempotency_cache.hpp`) | entries and claim order, at most 1024 | `claim`, `store`, `release`, eviction | the send route |
| Send route (`src/http/message_routes.cpp`) | one coroutine per request | POST `/v1/chats/{id}/messages` | bridge, cache, tracker |
| Update router (`src/ws/update_router.*`) | `seq` | `onUpdate` on the receiver thread | auth, tracker, WebSocket, Kafka, webhooks |
| Authorization (`src/auth/auth_state_manager.*`, logout in `src/http/routes.cpp`) | state, generation, `expect_shutdown_`, reported flags | `setState`, waits, logout | bridge, S3 sync, main |
| S3 session sync (`src/auth/s3_session.*`, `src/util/s3_client.*`) | sync gate, last hash, `disabled`, S3 io contexts | restore, periodic push, final push, retire | S3, TDLib's database file |
| Webhooks (`src/webhook/*`) | registry and its stored copy; queue, worker, loop thread, in-flight count | add/remove/load, dispatch, deliver, stop | S3, HTTP receivers, router |
| WebSocket fan-out (`src/ws/ws_registry.*`, `updates_ws.cpp`) | connections with filter and bytes since the last pong | connect, subscribe, pong, disconnect; `fanOut` with its snapshot and its cut-off | clients, router |
| Kafka sink (`src/events/kafka_sink.*`) | queue of at most 50000, batch of the worker | `produce`, worker, `flush` | librdkafka, router |
| Other routes (`src/http/message_routes.cpp`, `directory_routes.cpp`, `routes.cpp`) | one coroutine per request; upload directories, their counter and pool | chats page by page, history, edit, delete, forward, files, uploads, directory, login | bridge, file system |
| Token access (`src/auth/token_store.cpp`, `src/http/scope_policy.hpp`, `bearer_filter.cpp`) | tokens with scopes, loaded once | `verify`, `requiredScopeFor`, the filter | every protected route |
| Control plane (`control-plane/src/*`) | accounts and invites in Postgres, reconcile loop | open invite, submit, finish, expire; delete, poll, reconcile | Kubernetes, S3, gateways, archiver |
| Archiver (`archiver/src/*`) | Postgres archive, live sockets, backfill cursors | handle event, backfill, media retry, purge | gateways, Postgres, S3 |
| MCP server (`mcp/src/*`) | none | proxy | gateways, archiver |

What is hard here, and what makes each part correct:

- **Bridge.** Four kinds of threads resolve and resume the same calls. Each call
  must be resolved once, with its own outcome, and its coroutine resumed once,
  on the right loop, or it hangs for ever or runs twice. The sweep, the drains
  and the loops that are told to quit make the orders that no test produces.
- **Send route.** A retry under an idempotency key must neither repeat the
  message nor wait for ever nor be told something false; the key is claimed,
  the call fails or times out, the confirmation may come early, late or never.
- **Session.** A logout must not be undone by a sync already under way, nor
  look like a revoked session; the shutdown must store the last state.
- **Webhooks.** What is stored must catch up with what was acknowledged; stop
  must not tear a loop down under a live request. An event goes out only for a
  message that asks for the owner, found out call by call while `getMe` may
  still be unanswered; and a reply may name no message at all.
- **Updates.** One thread numbers, fans out and queues; connections come, go,
  change their filter and fall behind meanwhile. Each subscriber must get its
  updates in order and without a gap, a slow one must be cut off at the limit
  and cost the others nothing, and what Kafka was handed must not be lost or
  doubled by the swap of queue and batch or by the shutdown.
- **Uploads.** Nobody says when TDLib has done with a file, the numbers of the
  directories start again with the process, and the directories stay.
- **Paging.** A page of chats is made of several calls, the list changes between
  any two of them, and an offset is all a client remembers.
- **Control plane.** Visits of tenants, requests of admins and reconcile passes
  interleave at every await over one table and one cluster, and a deletion is a
  chain of persisted steps. No session may be left alive without the worker that
  could end it, and the worker is not always able to: it answers 409 while it is
  starting, or not at all.

PROJECT.json lists every hazard at its line, with the properties that cover it
or the reason why none does yet.

## 2. Plan

In order, the most important behaviour first:

1. `CallContract` (what `invoke` promises), `TdBridge` (how), `TdBridge_proofs`. Done.
2. `IdempotencyCache`, `MessageSendTracker`, composed by `SendMessage`, which
   takes the bridge by its contract. Done.
3. `AuthState`, `SyncGate`, composed by `Session`: authorization state, logout,
   S3 pushes and shutdown over restarts; `Session_proofs`. Done.
4. `WebhookRegistry`, `WebhookDispatcher`, composed by `Webhooks`: detached saves
   and restarts, queue, loop and stop; `Webhooks_proofs`. Done.
5. `AccountStore`, `Workers`, `Onboarding`, composed by `AccountLifecycle`: visits
   of tenants at the grain of awaits, deletion steps, polling, reconcile passes,
   crashes. Done.
6. `WsRegistry`, `KafkaSink`, composed by `Updates`: numbers, fan-out,
   back-pressure, Kafka queue, shutdown and restarts. Done.
7. `Access`, `ByteRange`, `Routes`, composed by `Requests` (one request from the
   filter to its reply), `ChatPages`, `Uploads`, `OwnerTrigger`; `Handlers` is
   their common run. Done.
8. Proofs: a theorem for every safety property that a run checks, each with the
   inductive invariant it needs. Done, in eight modules `..._proofs`. None of the
   modules proved about declares a RECURSIVE operator.
9. `Invites` beside `Onboarding`: the table of invites, their claiming against each
   other, attempts, and the token that is shown once. Abstract specification: an
   invite is used by one session at a time and a token is shown once.
10. `Archiver`: live events against backfill.

## 3. The modules

### CallContract

The promise of `TdBridge::invoke`: a call is opened once, or refused with
SERVICE_BUSY; it is settled once, with its own answer, UPSTREAM_TIMEOUT or
UPSTREAM_SHUTDOWN; its caller is resumed at most once and after that.

### TdBridge

One variable per piece of state of the code: `nextId` is RequestIdGenerator,
`phase`, `result`, `waiter` (handle) and `home` (loop) are RequestState, `corr`
is CorrelationMap, `stopping` is `stopping_`. `todo[w]` is what worker `w`
(receiver, signal or main thread) has claimed and not resolved, `handoff[w]`
the call it has resolved and not yet resumed, with `viaLoop[w]` the answer that
`isRunning()` gave. `ready` and `late` are the loops' queues: a functor queued
behind the quit command may or may not be run by the last round of the loop.

An action ends where another thread can see the difference: `InvokeAccepted`
is `await_suspend` up to the insertion into the map, `Send` the `transport.send`
after it; `Resolve` writes the outcome and samples `isRunning()`, `QueueInLoop`
and `ResumeInPlace` do what follows. `Receive` is one turn of `runReceiveLoop`
up to the end of `claimExpired`, with any set of deadlines passed; `Dispatch*`
are the branches of `dispatch` and of the update router that call the bridge.
`SignalDrain`, `SignalQuit`, `Quit`, `RunReturns`, `CloseThenStop`,
`StopDrains` and `StopJoins` are the shutdown in the order of main.cpp.

Abstracted: time (a sweep may find any deadlines passed), the contents of
requests and answers, updates other than those that start work, exceptions in
`dispatch`, the tracker's own drain (in SendMessage). TDLib answers a query at
most once, in any order or never.

### IdempotencyCache, MessageSendTracker, SendMessage

`IdempotencyCache` and `MessageSendTracker` are the two classes, one action per
method, each method running under the mutex of its class. `SendMessage` is the
handler of POST `/v1/chats/{id}/messages` with its three modes (`plain`;
`typing`: humanize without id wait; `wait`: with it), TDLib, the receiver and
the drains. The bridge enters by its contract: a call ends with TDLib's answer
or, at any time, an error (`CallFails`), whatever TDLib does with the message.
Abstracted: texts and formatting, the length of the typing pause. Behind a drain a
loop may go on or be gone: the steps of a handler stay possible, and nothing makes
them happen (section 5).

### AuthState, SyncGate, Session

`AuthState` is AuthStateManager: the last state, `expect_shutdown_` and
`termination_reported_`. `SyncGate` is the class of that name with the detached
thread it lets through: `sync` is where the thread is between the steps of
`syncOnce`, and `owed` a history of requests that no reading of the binlog has
served. `Session` composes them with main() over any number of runs of the
process in its pod: `phase` is where main() is, `quit` what made it leave
`run()`, `pc` and `reply` the logout handlers. `binlog` is the file on the
volume and `s3` the object, each a snapshot (which session, which revision),
`NoFile`, or the `Partial` file of a restore that failed half-way.

`wire` holds the PUTs on the one cached connection, in order; `abandoned` those
of a loop that hung and was retired, each of which may still land at any time.
A fault is an action with `Fault` as a conjunct: a crash, a failed or hung PUT,
a 504 of the sweep, a timeout of the bootstrapper or of `waitForClosed`.
TDLib and Telegram (`td`, `asked`, `updates`, `valid`) are external: TDLib
carries out one logout, answers a later one with an error, notices a
revocation, and destroys its database once a session has ended.

The handlers run between two suspension points as one step, but the check of the
state and `expectShutdown` are two, because another thread may write between
them. The bridge enters by its contract, as in SendMessage.

Assumed: S3 is configured and TGW_SESSION is not; a binlog that TDLib cannot
read counts as no database; the binlog is read in one step; a PUT of a process
that has died has landed or never will.

### WebhookRegistry, WebhookDispatcher, Webhooks

`WebhookRegistry` is the class of that name over S3: `hooks` is `hooks_`, `saves`
the snapshots whose detached threads have not ended. A save lands (`SaveLands`),
whatever is reported, or never does (`SaveIsLost`); `lost` is a history that says
the last one did not, or had an older one come after it. `Reload` is the next
process, whose load may fail and then counts as empty.

`WebhookDispatcher` is dispatch(), the worker, the loop thread and stop().
`TakeBatch` is the wait of the worker with the swap, `Snapshot` the copy of the
active hooks after it, `Post` one `queueInLoop`, `Deliver` the functor with
`deliverOnLoop`, and `Answered` the end of a request's callback, which the loop's
HTTP client guarantees by its timeout. `Hang` is a loop that does not come back
from something it runs. stop() goes through `join`, `barrier` and `drain` to
`teardown` and `stopped`, or to `leaked` where a wait runs out. A drain that ends by
its deadline just as the last request ends tears the loop down, as the code does.

`Webhooks` adds the routes, the hook coroutines and main(): no mutation and no
event once main has called stop(), since the app's loops and the receiver have
ended by then. `eligible` is a history: the hooks active at some time since an
event came. Abstracted: secrets, signatures, bodies and counters; the deliveries of
a batch are posted in any order.

### AccountStore, Workers, Onboarding, AccountLifecycle

`AccountStore` is the accounts table, each query atomic, with the two columns that
steer an account's life: `status` and `delete_step` (`logout_wait:N` is the step
`logout_wait` with `waited = N`). `Workers` is what the control plane acts upon:
the Kubernetes objects of each account (`sts` stands for StatefulSet, Service and
NetworkPolicy), its pod, the gateway's `login`, the session at Telegram (`valid`)
and the binlog in S3 (`stored`). A gateway that restores a binlog, after a new pod, a
crash or a revocation, is `starting` until TDLib has got to Ready: it answers
`/v1/health` (`Answers`), and logout with 409 (`NotReady`). A login has a beginning
(`LoginBegins`, a QR link or a code is out) and an end that is the user's
(`LogsIn`). Apply, delete, podGone, deletePrefix and the worker client are code of
the control plane; the rest is its environment. `Live(a)`: Telegram honours the
session, and the gateway or S3 has its binlog.

`Onboarding` is onboarding.ts. `visits` are the requests of tenants, each cut at
every await behind which it writes: the row is inserted, the Secret applied, the
invite attached (`CreateInserts`, `CreateApplies`, `CreateAttaches`); a row is read
and written (`GivesUp`, `GiveUpWrites`); `finish()` finds the worker ready
(`FinishBegins`) and writes `active`, or logs out, sets the outcome and writes
`deleting` with `logged_out` (`FinishLogsOut`, `DuplicateOutcome`,
`DuplicateWrites`), the last two with the fate of the logout unknown, as the code
does not look at it. `page[a]` is the session of the invite that account `a` is, or
was, opened with. A visit may fail at any await (`VisitFails`), and nobody takes it
up. Who claims which invite, attempts and the token shown once are left out: an
account has one page at a time, and may begin as many visits as there are
`Visits`, one after another or at once.

`AccountLifecycle` is the process. A pass goes from await to await: `pc` walks
through `apply` and `sweep` (reconcileOnce), `expire` and `expire_write`
(Onboarding.expire), `deletions` with `step`, `write` and `drop` (advanceDeletion: a
step is done, then written), and `poll` and `poll_write` (pollActive). `listed` is
what the last `listAccounts` gave, which is stale from then on; `acct` and `step`
are the locals of the account in hand. Between two awaits come DELETE, whose read
of the row and write are two steps, and the visits.

`troubles` counts what the bound is for: a failed call or a crash of the process, a
pod lost, a gateway that crashed, a session revoked, a login of a user who is not the
one expected or has an account already (`VisitLogsOut`). `cleaned`, `excuse` and `reborn`
are histories: what has been cleaned of an account, whether a pod was started since
podGone said yes, and why its session may outlive its worker. There are four
reasons, each a way of the code:

- `mute`: the worker has not answered for as many passes as are waited for;
- `conflict`: it answered 409 with a live session, because it was starting;
- `duplicate`: the logout of a duplicate got lost, or the pod was not ready again;
- `late`: the user confirmed a login behind the start of the deletion
  (`BeingDeleted`).

The first three are recorded only if the session is alive at that moment
(`Excuse`).

Abstracted: meta.json, a control plane configured without an archiver or its
token, the orderly stop. A token reissue (admin_server.ts:172-191) is left out; what
it adds, a Secret applied late, `CreateApplies` has already. `expire` writes the row
and releases the invite in one step, and `HookFails` covers the half of it. The
sweeps of the several kinds of objects are one step per account.

### WsRegistry, KafkaSink, Updates

`WsRegistry` is WsSubscriberRegistry with the handlers of `updates_ws.cpp`:
`registered` is `connections_`, `filter` and `bytes` are the fields of Subscriber.
What the class does under its mutex is one step; `handler[c]` is the frame that a
handler on the loop of `c` has still to send once the lock is released (its hello,
its acknowledgement), so an update may come before either. `Snapshot` is the part
of `fanOut()` under the lock, which erases those who exceed the limit; `slow` and
`alive` are its two vectors, emptied by `ForceClose` and `SendUpdate` in that
order. `wire[c]` is all that was sent to `c`, `pongAt[c]` a history.

`KafkaSink` is the class of that name: `queue` with its limit, the worker with
`batch`, `topic` what librdkafka has taken. The swap gives the queue the old batch,
as `std::deque::swap` does, so an uncleared one would come back. `dropped` is a
history of what the queue or librdkafka has refused. A step of the worker hands one
event to librdkafka, so the batch of the model is what is left of the code's.

`Updates` is `UpdateRouter::onUpdate` for the kinds that are forwarded, on the one
receiver, and the shutdown tail and the restart around it. An update is its kind,
its chat and whether the object inside it is there, which decides whether it is
forwarded and what its key is. Abstracted: the text of a frame (it counts one
byte), pings, librdkafka behind `produce`, the periodic poll of the worker.

### Access, ByteRange, Routes, Requests

`Access` is the token file, the filter and the scope of a path, `ByteRange` the
parser of a Range header with the definition it is held against (`Positions`,
which says of each byte whether a range names it). `Routes` says of each handler
what a request makes it ask TDLib and what an answer makes it reply; a number in a
path or a body is the integer its text begins with and whether that is all of it,
for `parseId` stores the former and reports the latter, and some callers look only
at one of them. `Requests` is one request on its way: the filter, the handler
up to its first call, the answers, for a file two calls. Requests share only the
table of tokens, which does not change, so one request at a time shows them all.
Abstracted: a path is its segments, a text one of a few values, a field that is
missing, empty or of another type one value, since no handler tells them apart;
Retry-After and HEAD are left out, and LoginGuard's window enters as allowed or
not. Of Drogon's routing, `Matches` says which paths come to a route: those with
its segments, the letters' case aside. `RequestsAssumption` asks it of the
requests, and that each field is one of the texts that `Routes` and `ByteRange`
tell apart; nothing is assumed of the tokens or of what the fields hold.

### ChatPages

A client that follows `next_offset` through GET `/v1/chats`, with loadChats,
getChats and each getChat a step, and the list changing between any two (`ToTop`,
`LeaveChat`). `known` is the length up to which TDLib has the list. `touched` and
`gap` are histories: chats that moved, and whether a chat was left or could
not be had.

### Uploads

POST `/v1/chats/{id}/files` with its pool of two threads, and the sweep. `disk`
maps the number of a directory to its mtime and its files; `counter` is the number of
the process, which begins anew after `CrashUploads` while `disk` stays. The
clock counts the intervals of the sweep. TDLib reads a file from the answer of
`sendMessage` until it is done or gives up, which the gateway does not learn.

### OwnerTrigger

The hook that main.cpp gives the router, `detect()` and `buildEvent()`, with one
`getMessage` per step; `getMe` may be answered between any two. A thread is the
senders of the messages above the one that came. `oid` is the value of `owner_id`
the hook has read. A thread may be empty under a reply: `messageReplyToMessage` with
a `message_id` of 0 (context_builder.cpp:15-20) leaves nothing to climb. `Climbs` is
the condition of the loop, `cur != 0` and the limit.

### Handlers

The common run of the last four: a behaviour is of one `part`, the others are
idle, because they share no state and their product would show nothing more.

## 4. What the runs check

| Run | Shows | Bounds |
|---|---|---|
| `bridge` | `TypeOK`, `SoleResolution`, `NotOvertakenWhileServing`, `WakesOnItsLoop`, and `ImplementsContract`: the refinement | two handlers, a hook coroutine, one IO loop, the limit at 2, ids 1-2 and one for close |
| `bridge_live` | `EveryCallReturns`, `ShutdownFinishes`, `InflightBounded` | a handler and a hook, limit 1 |
| `send` | `SendInv`, `ReplayIsTrue`, `SentOnceUnlessLost`, `AnswerIsKept` | three requests, two keys, a cache of one entry, one drain |
| `send_live` | `EveryRequestAnswered` | two requests, one without key, one drain, behind which nothing is promised |
| `session` | `TypeOK`, `RequestNotLost`, `FinalPushIsLast`, `QuitsWhenTerminated`, `LoginReachesS3` | one logout, one login, two revisions, one fault of any kind, signals |
| `session_logout` | violated: `StaysUpAfterLogout` | two logouts, no faults |
| `webhooks` | `TypeOK`, `LatestIsStored`, `LoopGoneIdle`, `NeverSentTwice`, `OnlyToItsHooks`, `AcceptedIsPosted`, `StopReturns` | two events in a queue of one, one hook, two mutations in each run of the process |
| `lifecycle` | `LifecycleInv`, `StoppedLoggedOut`, `DeletionCompletes`, `LooseEndsAreFound` | one account, one visit at a time, one DELETE, one trouble of any kind, two passes of waiting for a logout (the code: three) |
| `lifecycle_reborn` | violated: `ClearedStaysCleared` | the same |
| `updates` | `UpdatesInv`, `InOrder`, `OneStaleFrame`, `SlowIsCut` | two connections, a limit of one pending frame, a queue of one, two updates, one subscription each, one restart |
| `handlers` | `TypeOK`, `ActsOnWhatWasNamed`, `ServedIffScoped`, `StatusTellsTheOutcome`, `WalkShowsTheList`, `KeptThenSwept`, `EventIsDueAndWhole` | every route with every caller and every shape of its fields; four chats in pages of one with two changes; two uploads, a ttl of two intervals, one crash; a chain of two |
| `uploads_swept` | violated: `FreshUploadStays` | the uploads alone |

`OneStaleFrame` speaks of open connections whose handler has sent its
acknowledgement: on a closed one the acknowledgement of a second filter is lost, and
frames stand behind the first one that the second excludes.

Some properties are the conjunction of one claim's parts, named in the module:
`SendInv` (types, the cache's order against its entries, a pending key has an owner,
a wait is in one place), `QuitsWhenTerminated` (the process quits after a
termination it did not ask for, and otherwise only where a logout was refused or
raced another one, which `session_logout` shows), `LifecycleInv` (types, what is
cleared stays cleared unless a pod was reborn, what is gone was cleaned),
`LooseEndsAreFound` (nothing is left behind, a stale route goes), `UpdatesInv`
(types, `HandedOverOnce`).

`StoppedLoggedOut` names its exceptions by the way the code took (`excuse`), not by
the outcome: a fifth way for a session to outlive its worker would refute it, and
`DeletionCompletes` lets a deletion be called off by a late write of `active`.
`EventIsDueAndWhole` excepts the reply that names no message (`UnknownParent`), and
takes the silence about a private reply for right. What the documentation says of
each of these cases is below.

Why the bounds are enough. Every hazard of the bridge is between one call and
the three workers, or between two calls and the limit; a third coroutine is
there so that one is registered while another is in each stage. A cache of one
entry makes every claim an eviction, and three requests let a third one claim
a key that the first still holds and the second has evicted. Ids are the only
bound of the model itself (`MaxId`); a drain is bounded by `MaxDrains`, the two
calls that the program makes. In the session, one fault can fall at every step
of either push and of the logout, two revisions tell an old binlog from a new
one, and restarts are not bounded at all. Two mutations are what one save needs to
overtake another, and a second event finds the queue full; with a second hook,
one that is never deliverable, the run takes three minutes (1.1 million states)
and finds nothing new. Accounts meet only in the loops of a pass, where the error of
one must not stop the others; one account shows everything else, and the loops go
over any set. One visit at a time goes against the pass and against the DELETE; it
may come again any number of times. Passes are not bounded, and the one trouble can
fall at every await. Two troubles at once are left to the proofs, which know no bound.

In `updates`, connections meet only in one `fanOut()`, where one is slow and
the other is not; two updates are what a limit of one byte needs to cut a
connection off, what an order needs, and what fills a queue of one behind a batch;
the restart is there because the numbers start again. In `handlers`, the
requests are enumerated, not explored: each of the shapes a handler tells apart
appears in each field it reads, and the ids include one beyond the width of a
file id. With pages of one chat and a window of two, a walk of four chats takes
every branch of the paging, and two changes move a chat across the offset and back.
Two uploads of the same name are what a reused directory needs, the crash is what
makes its number come again, and a clock of twice the ttl lets the sweep catch the
second one early. A chain of two climbs, stops at the limit and at the top.

Each property has a mutant in PROJECT.json: a `Mut...` operator next to the
definition it replaces, a bug of the kind that definition could have, under
which TLC finds the property violated.

### Disagreements with the documentation

Each of these is a run that TLC refutes, with the line it refutes in PROJECT.json:

- `session_logout`: `expect_shutdown_` is one flag for all logouts, and any error
  cancels it: the refusal of a second logout (or, for a single one, the 504 of the
  sweep) makes the end of the session unexpected, the process quits, and the pod
  restores the snapshot from before the logout, which routes.cpp:244-246 says
  cannot happen.
- `lifecycle_reborn`: a deletion goes from "logged out" to podGone in one call,
  before any pass has set the replicas to 0. If the pod has yet to come, or is just
  being evicted, it counts as gone; its successor restores the binlog, or is logged in
  at, and pushes after S3 has been cleared, for good. lifecycle.ts:23-24 says that S3
  is cleared strictly after the pod has stopped.
- `uploads_swept`: the numbers of upload directories start again with the process and
  the directories stay. A new upload of a name that its directory holds already
  does not touch the mtime of the directory, so the sweep takes a file of a
  minute away as one of an hour while TDLib is sending it; upload_cleanup.hpp:8-9
  says that only directories older than the ttl go, whose files TDLib no longer needs.

Seen while modelling, and not the subject of a run:

- `stop()` of the bridge drains once. A handler that its drain resumes in place and
  that calls `invoke` again (GET `/v1/chats` does, message_routes.cpp:154-155)
  registers behind the drain and stays in the map, where td_bridge.hpp:61 and
  td_bridge.cpp:94-95 promise that nothing is left. `TdBridge` contains it.
- A confirmation may be handled before the handler registers its wait
  (message_routes.cpp:361); the client then gets a 202 after the full wait although
  the confirmation came in time (docs/openapi.yaml:510-512). `SendMessage` contains it.
- A call that ends by the 504 of the sweep or the 503 of a drain releases its key
  although TDLib has the message; the retry sends it again, where
  docs/openapi.yaml:464 promises no duplicate. `SendMessage` contains it:
  `SentOnceUnlessLost` says that nothing else makes a duplicate.
- After a revocation TDLib's database is gone, the final push finds nothing to
  store, and the restarted process restores the revoked session from S3 and is
  revoked again, where main.cpp:370-372 promises a new login. `Session` contains it.
- A worker that restores its session answers health and refuses logout with 409
  until it is ready (routes.cpp:125-130, 250-254). lifecycle.ts:42 takes the 409 for
  done, and the worker is scaled down with a session that is alive; lifecycle.ts:41
  says that a 409 means that there is none. `Workers` contains it (`NotReady` with
  `Live`), and `StoppedLoggedOut` names it (`conflict`).
- The Secret is applied behind the insertion of the row (onboarding.ts:109-115). A
  deletion in between finds no Secret, takes the account for logged out and drops the
  row; then the Secret comes, and nothing ever takes it away, where kube.ts:19-20
  leaves that to the deletion. `Onboarding` contains it: `Gone(a) => ~secret[a]` is not
  an invariant of the model.
- `finish()` and `pollActive` write a status decided on before their awaits. An accepted
  DELETE in between is overwritten and forgotten, where the design
  (docs/superpowers/specs/2026-10-18-multi-account-single-endpoint-design.md:262)
  says what is gone after a DELETE. `Onboarding` and `AccountLifecycle` contain it.
- `seq` starts again at 0 with the process, and README.md:175-178 and
  archiver/src/index.ts:219-223 find gaps by it. `Updates` contains it.
- Back-pressure counts what was queued since the last pong was handled, while
  ws_registry.hpp:18-22 speaks of what the client has not read; a pong answers an
  earlier ping, so a reader a little behind may be counted too low or too high.
- An update may come before the hello: the connection is registered first
  (updates_ws.cpp:64-67).
- An event of `updateNewChat` has no chat in its Kafka key (the object says `id`, the
  router looks for `chat_id`), so it may be ordered against the chat's messages
  in any way; and librdkafka retries without idempotence, where README.md promises
  order within a chat.
- A reply whose `message_id` is 0 never enters the loop that confirms it
  (context_builder.cpp:63), so its event goes out with the reason `reply` and an empty
  chain, where README.md:186-188 says that the author of the parent was found to be
  the owner; and a private message that answers a message of somebody else makes no
  event, where README.md:183-185 lists private messages without that exception.
  `OwnerTrigger` contains both.
- An answer that came before `getMe` was answered is not confirmed and lost, while
  mentions are found all the same, where the design says that detection waits for the
  owner. `OwnerTrigger` contains it. An answer to a message of another chat is
  looked up in the chat of the answer.
- After a revocation the gateway quits and its successor restores the dead binlog, so
  `pollActive` sees a lost session only in the moments between, where the design (the
  document above, line 231) meant the gateway to stay up. `AccountLifecycle` contains
  it; nothing is promised of `needs_relogin`.
- `parseId` stores the number a text begins with even when it refuses the text; the
  comment at message_routes.cpp:198 says that a broken `from_message_id` counts as 0,
  and "12x" counts as 12.
- POST `/read` leaves out ids that do not parse, where delete and forward refuse
  the request.
- main.cpp:434-437 says that only the receiver touches the producer; the worker of
  the sink does. `KafkaSink` has the worker.
- A short write of a small upload shows only when the stream is closed, after its
  state was looked at (message_routes.cpp:578), and the file is sent as it is.
  `Uploads` contains it.
- README.md:194-196 counts an unparseable URL as a failed delivery, and
  `deliverOnLoop` (webhook_dispatcher.cpp:150-153) only logs it.

Known and without a property, beside the hazards PROJECT.json lists: a typing
pause whose loop has quit is never resumed (message_routes.cpp:334); a sync that
has passed the check of `disabled` stores the old session after a logout
(s3_session.cpp:127), and a restore that fails half-way leaves a partial file that
the next start keeps (s3_session.cpp:100), both of which `Session` contains; a
first state after 10 s leaves TDLib without parameters (startup_bootstrapper.cpp:50); a
failed load of the webhooks counts as none (webhook_registry.cpp:54), which
`WebhookRegistry` contains. In onboarding
(control-plane/src/onboarding.ts): an account whose Secret could not be applied is
attached to no invite, so that no expiry ever finds it (109-116), and an expiry and a
claim delete the account they have read as `onboarding` although `finish()` may have
activated it since (87-88, 283-284), both of which `Onboarding` and
`AccountLifecycle` contain; the expiry then releases the invite whoever
has claimed it meanwhile (286); two tabs with one lapsed cookie claim two invites
under one session (76-79).

## 5. Fairness

Threads of the process are never stopped by the code, `receive()` returns within
its timeout, a coroutine reaches its next suspension point, time passes (so a
sweep finds a call that stays in the map, the one strong fairness), and loops run
their queues: weak fairness on each of those. Nothing is assumed of TDLib,
clients, updates or signals, so `EveryCallReturns` rests on the sweep alone.
`EveryCallReturns` is about the time before a shutdown: a resume queued behind
the quit may be lost, which main.cpp:381-386 accepts. So is `EveryRequestAnswered`: the
loops quit right behind the drain of the signal thread (main.cpp:394-400), so
`FairSpec` is fair to the handlers and to the bridge only while there was no drain
(`Serving`), and the property asks for nothing from then on.

`SyncSpec` is fair to the timer, the sync thread and the answers of S3, which is
all that `LoginReachesS3` needs: faults are finite in number, so a PUT succeeds in
the end.

The worker of the webhooks and the loop, unless it hangs, run, and the budgets of
stop() run out: weak fairness on `WorkerStep`, `Loop` and `Stop`. Receivers owe
nothing: `StopReturns` rests on the two deadlines, and `AcceptedIsPosted` is about
requests made, not answered.

The control plane's pass is started by a timer and goes on, a failed call included
(`WF_vars(Pass)`): its calls have timeouts. Kubernetes starts, tells and ends pods
in the end (`PodStep`). Nothing is assumed of tenants, admins, the gateways, what a
poll finds or the outcome of a logout.

`Updates` and `Handlers` state safety only. Requests and uploads come to an end
by the bridge's own timeout, which `EveryCallReturns` covers; clients owe nothing.

## 6. What is proved

Every safety property that a passing run checks is proved, for every value of the
constants and from the named assumptions alone. Each proof is one inductive
invariant (what it adds to the properties is said below), a lemma per action or
group of actions, and a temporal step that puts them together. Leaves are kept small:
each proves in a fraction of the provers' time limits, so the proofs do not depend on
the speed of the machine. Some parts of the invariants say something of the code that
no run lists, and stand as theorems of their own.

`TdBridge_proofs` proves, for any sets of coroutines, hooks and IO loops and any
limit, from `BridgeAssumption` alone (the names of the threads are distinct, the
limits are natural numbers):

- `TypeCorrect`, `ResolutionIsSole`, `InflightIsBounded`, `OutcomesAreEarned`,
  the invariants that the runs check;
- `HandlersWakeOnTheirLoop`, the action property `WakesOnItsLoop`;
- `BridgeImplementsContract`: Spec implements CallContract under the mapping of
  `Stage`.

The inductive invariant is `BridgeInv`. `SoleResolution` says where each call is;
to keep it one must know that an id not yet given out is nowhere (`FreshUnborn`),
that the final close has an id left (`IdLeftForClose`) and that a worker claims
only with empty hands (`ClaimsMatchControl`: a claim overwrites `todo`). Its core,
`SleepersMatchDuties`, is a one-to-one match between calls in transit and
sleeping coroutines; the lemmas `MoveKeepsMatch`, `ClaimKeepsMatch` and
`WakeKeepsMatch` are the three ways an action can touch it, and each action is
one of them. The refinement uses the match once more: `Owed` shrinks by exactly
the call that is resumed. `WakesOnItsLoop` needs `HomeInv` on top: a call goes home
to the loop its coroutine slept on, and a resume is done in place only if
`isRunning()` said false, which for an IO loop is final once it was true.
`SendsAreNotOvertaken` (`NotOvertakenWhileServing`) is about the gap between the
insertion into the map and the send: `SendingState` says that the coroutine of such
a call sleeps on the very thread that sends, that TDLib cannot have answered, and
that whoever resolves it, the sweep, is on another thread and leaves the resume to
the loop of this one; `ThreadsState` says which threads run what before a shutdown
begins, and `GivenOut` that only ids given out are on their way.

`Session_proofs` proves, for any handlers, numbers of logins and revisions and
any number of faults, from `SessionAssumption`: `TypeCorrect`, `RequestsAreKept`
and `FinalPushLasts`. The inductive invariant `IInv` adds to the types: that
`in_flight` is up exactly as long as the thread lives (`GateInv`), that each PUT on
the connection belongs to the thread or to main while it waits for it
(`PutOwners`), that Closed is seen only when TDLib is closed and writes no more
(`ClosedIsTrue`), and that a final push begun with no thread alive stays alone on
the connection and carries what is on the disk (`AlonePushing`): no tick can start
a thread any more, because the loop no longer runs. `FinalPushIsLast` is not
inductive without these, since a PUT that lands just after it would refute it.
`PushesAreApart` states two of them for themselves.
`EndsAreToldApart` (`QuitsWhenTerminated`) does not say that the process never quits
for a logout of its own, which `session_logout` refutes: it excepts logouts that were
refused or raced. It needs `QuitInv`, which looks at what is
still on its way: a logout that reached TDLib was announced by `expectShutdown`
(`AskedIsExpected`), nobody hears of an end before it is under way (`EndIsTrue`), an
end that nobody expects is told (`EndIsTold`), and the end that a logout brings
about is heard of before its answer, while the call is still open, so a handler that
goes on with an "ok" has raced (`OkIsHeralded`).

`Webhooks_proofs` proves, for any hooks, events and queue limit, from
`RegistryAssumption` and `DispatcherAssumption` (the bounds are natural numbers, the
two functors of the shutdown are no deliveries): `TypeCorrect`, `SavesCatchUp`,
`LoopEndsIdle` and `EventsGoToTheirHooks`. `LatestIsStored` needs `SaveInv`: the save
numbered like the last mutation holds the registry. `LoopGoneIdle` needs `StopInv`:
behind the barrier, which the joined worker can add nothing to, the queue of the
loop is empty, so a count of zero stays zero. The bound of the queue needs
`WorkerInv`, for the swap gives the queue the old batch. `OnlyToItsHooks` needs
`EventInv`: all that is on its way has come, and since then every active hook was
counted. `NothingIsSentTwice` (`NeverSentTwice`) needs `OnceInv`: an event in the
queue, or in a batch just taken, is nowhere further on, and in one of the two only.

`SendMessage_proofs` proves, for any requests, keys and size of the cache, from
`SendAssumption` and `CacheAssumption`: `CacheAndWaitsAgree` (`SendInv`),
`ReplaysAreTrue`, `OnlyLossSendsTwice` and `AnswersAreKept`. `ReplayIsTrue` speaks of
requests under the same key whose handlers may be anywhere, so the invariant says what
a place in the handler means (`HandlerHistory`), that what a handler was told is what
TDLib did (`ToldTheTruth`), and `KeyUse`: while a key has not been evicted all its
requests but one have given up. The last two are theorems, `ClientsAreToldTheTruth`
and `OneOfAKeyStands`. The cache's list of keys is handled by lemmas on lists in which
nothing stands twice.

`Updates_proofs` proves, for any connections, filters, limits and restarts, from the
assumptions of the three modules: `UpdatesReachKafka` (`UpdatesInv`), `FramesInOrder`
(`InOrder`), `FilterBites` (`OneStaleFrame`) and `SlowIsCutOff` (`SlowIsCut`).
`WorkerState` sets the worker against stop and the receiver, `FanOutState` the fan-out
under way against its two vectors, `LinkState` a connection against its
registration and its handler. `FramesState` is inductive only with what is about to
be sent counted in: the order up to the number a connection has had its turn for
(`UpTo`), no stale frame yet if an excluded one is still under way, and a backlog
that counts the frame to come (`Backlog`). `OpenIsRegistered`: the registry misses no
open connection, except one the fan-out has found slow and is about to close.

`AccountLifecycle_proofs` proves, for any accounts, visits, requests and
troubles, from `LifecycleAssumption`, `OnboardingAssumption` and `StoreAssumption`:
`DeletedStaysDeleted` (`LifecycleInv`) and `DownOnlyLoggedOut` (the action property
`StoppedLoggedOut`). The heart of the invariant is `Out`: the session is over, or its
excuse is on record. `SessionOf` says where the session of an account is, and that it
cannot come alive unseen: what TDLib restores is what S3 or the volume held, and a
login is the user's step, which leaves its mark once a deletion is under way. `RowOf`
says what a step of a deletion stands for (past `logged_out` the session is `Out`;
past the end nothing can come back), also for the row of a duplicate, which comes to
`logged_out` by a visit. A pass acts on rows it has listed and read awaits ago, so
`PassState` says of each account still to be done what its row may have become
meanwhile: called off, or the deletion begun anew, and nothing else; `RowMoves` is the
lemma that DELETE, the visits, the expiry and the poll make only such moves. An
account without a Secret is `Out` even before it is applied, which is what makes the
deletion of a half-made account safe. That nothing comes back can be broken only by
the check for the pod, with a pod started behind it, and that is what `reborn`
excuses. Two theorems state parts of it: `PassReadsStayTrue`, what a pass goes by is
still true when it comes to the account, and `SecretsOutliveSessions`, while an
account has no Secret its session is over or its excuse on record.

`Handlers_proofs` proves, from the assumptions of the parts: `EventsAreDueAndWhole`
for any limit and thread; `FilesAreKeptThenSwept` for any number of uploads, threads,
ttl and crashes; `WalksShowTheList` for any list, page and window; and `TypesAreKept`
(the `TypeOK` of the run, with the bound of the pool). The invariant of the uploads
says that who waits for the pool waits once (`QueueState`), that the uploads in hand
have numbers of this process, each its own (`NumbersState`), and that a new directory
is empty until its upload writes to it, which dates it (`OwnFile`). `UploadsKeepApart`
is an action property: no step of an upload, the removal after a failed write
included, touches the record or the directory of another upload in hand. It is about
those in hand only: what a process before a crash left behind may be written over by
the numbers that begin again. The invariant of the walk says that all up to the offset
is shown, and that only a gap lets a chat slip behind it.

`Requests_proofs` proves, for any token file, requests and sizes of a file, from
`RequestsAssumption` and `RoutesAssumption`: `OnlyTheScopedAreServed`
(`ServedIffScoped`), `StatusesTellTheOutcome` and `WhatWasNamedIsActedOn`
(`ActsOnWhatWasNamed`). `RequestInv` links the verdict of the filter, the calls so far
and the reply; `NamedInv` says of every call what it took from its request. The rest is
lemmas on the operators: `RangesAreTheirPositions` (`ParseByteRange` against
`Positions`, for every size), `PatternHeads` and `ScopeOfRoute` (the scope of a path
that the router takes to a route is the one the route needs, whatever the case of its
letters) and `HandlerNames`, handler by handler. `ParsedIdsAre` says what the loop of
the read marks keeps of a list of any length. It is an induction over the list:
`LeastNatural`, from the well-foundedness of the order of the numbers, gives the
least position at which a claim fails, and there is none.

Only model-checked is liveness: `EveryCallReturns`, `ShutdownFinishes`,
`EveryRequestAnswered`, `LoginReachesS3`, `AcceptedIsPosted`, `StopReturns`,
`DeletionCompletes` and `LooseEndsAreFound`. They rest on fairness and ENABLED, which
are out of the prover's reach. `CallContract` promises no liveness either, so the
refinement is of its safety alone.

## 7. Not modelled

PROJECT.json gives the reason per component. Without state or a decision of
their own: DTO projection, signing, base64, manifests and pages, the text of the
metrics, the login page, the MCP server. `config.cpp` reads its values once and
refuses to start on a bad one; the typing pause is a length of time, and time is
abstract in `SendMessage`. Of the session, the S3 client's in-flight count and
`shutdownIdleLoop`, which decide only how the process exits, TGW_SESSION and the
export of the session are left out. Of the routes, HEAD, Retry-After, and
LoginGuard's window. Of the control plane, the admin routes other than DELETE, the
table of invites and the counting of attempts. The archiver is the last part of the
plan.
