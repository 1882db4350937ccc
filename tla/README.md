# Verification of harbour-xmatic

harbour-xmatic is a Matrix client for Sailfish OS. A Rust core (`core/src`, on
matrix-rust-sdk and tokio) owns the session, the store and every request; a Qt
front end (`src/*.cpp`) sends it JSON commands and applies the events it emits;
QML pages (`qml/`) show the models. This directory holds TLA+ models of the
parts whose difficulty is in their interleavings and failures, the TLC runs that
check them on small instances, and TLAPS proofs of what matters most for every
instance. Paths below are relative to the repository.

    tlc -workers 2 -config SessionGate.cfg MCSessionGate     # a run
    tlapm SessionGateProofs.tla                              # the proofs of a module

`PROJECT.json` lists the components, the runs, the theorems, the source lines
each definition translates, one mutation per property that a run refutes, the
hazards, and the disagreements found between the code and what it says.

## 1. Inventory

### How the parts talk

* Front end to core: `xm_core_send` puts a command into a channel; one dispatcher
  thread takes them in order and spawns a task for each (`core/src/runtime.rs`).
  Tasks run on two tokio worker threads, so two commands sent one after the
  other may run in either order, and every `.await` and every unlock is a point
  where another thread's step fits.
* Core to front end: replies (one for each id) and events, emitted from any core
  thread and queued into the Qt thread in the order of emission.
* Shared state in the core: `State` (`runtime.rs`), with one async mutex for the
  session's life cycle (`session_gate`), one for opening a view (`opening`),
  plain mutexes for small records, atomics for generations. The client (the SDK's
  handle on server and store) is cloned freely; the store may only be removed
  once the last clone is gone.
* Core to disk: `session.json`, the store directory (SQLite databases, marker,
  sync position), `push.json`. Any step may be the last one before the process
  dies.
* Two processes of the application may exist: the visible one and the one a
  push starts. A file lock decides, a yield hands over.

### Components

| Component | State | Operations | What is hard | What makes it correct |
|---|---|---|---|---|
| Session gate and life cycle (`gate.rs`, `runtime/lifecycle.rs`) | slot (generation, phase), client, store key, sign-in task, watcher, session file, store | restore, three sign-ins, abort, sign-out, expiry, rebuild, close of a woken process | the sign-in's network part runs outside the gate; crash between two effects on disk; stale generations | store, file and client belong together; no reset under an open store; keys are kept; every sign-in is answered |
| Session file and store (`session.rs`) | session.json, marker, databases, sync connection name | load, store, forget, store_plan, reset, rebuild, migrate | cut-off rebuilds, unreadable files | a position never claims what was deleted |
| Answers (`runtime.rs`, `lib.rs`) | debts (unanswered, settled), command registry | ask, reply, stand-in, abort, panic, drain | emission outside the lock; abort before the first poll; reply racing the drain | exactly one answer for each id |
| Stuck sends (`sendqueue.rs`, `roomlist.rs`) | failure counts, parked, waking, room on or off | failure, wake, retry, discard, list | lagging broadcast, timers, other thread between check and switch | no free room stays off; parked waits for the user |
| Open conversations (`runtime/conversation.rs`, `matrixbridge.cpp`) | view, pending build, generation, page token | open, close, build, supersede, teardown | builds outside the lock, late closes, reordered commands | one live view, the newest; nothing survives the session |
| Push registration (`runtime/pushcmd.rs`, `push.rs`) | dirty and waiting flags, push tasks, endpoints on disk | register, retry, stop, wake, yield | retry against stop and restart | the server ends with the wanted pushers |
| Store health (`storehealth.rs`, `runtime/storage.rs`) | damage latch, quarantine | classify, scrub, repair, read back | latch raised from any thread; once a start | no repair without damage, no second scrub |
| Timeline (`timeline.rs`, `timelinemodel.cpp`, `matrixbridge.cpp`) | rows, stream, token | diffs, resync, paginate | diff against reset order | rows shown are the stream's |
| Diff lists (`difflistmodel.cpp` and users) | rows | apply a diff, reset | a lost or foreign diff | model equals the core's list or says it does not |
| Room list, spaces, sync (`roomlist.rs`, `roomcount.rs`, `runtime/lists.rs`) | sync service, its tasks, filters, census | start, filter, more, drop | tasks started before a step that may fail | one set of tasks for each service |
| Network watch (`netwatch.rs`) | route, carrier, debounce | netlink events | bursts, missed messages | a restored route wakes what waits |
| Verification (`verification.rs`) | the one tracked request | request, accept, SAS, confirm, cancel, release | peers' events in any order | never two at once; ends |
| Call signalling, engine (`call.rs`, `runtime/calls.rs`, `callengine.cpp`) | call id, phase, generation | invite, answer, candidates, hangup | glare, late callbacks of an ended call | callbacks of an old call change nothing |
| Polls (`poll.rs`, `pollactions.cpp`) | verdicts, vote queue | vote, end | the end arrives before its poll | only its creator ends a poll |
| Voice (`voicetranscripts.cpp`, recorder, decoder) | job queue, limits | request, answer, timeout | an answer after its timeout | one job at a time, each ends |
| Bridge (`matrixbridge.cpp`) | pending requests, page flags, session state | send, reply, event, give-up, reset | answers later than the give-up | no page waits for nothing |
| Instance lock and wake-up (`instancelock.cpp`, `pushwake.cpp`) | lock file, connector name | take, yield, hand over | two processes on one store | one process has the store |
| Store key (`secretskeeper.cpp`) | key, state of the service | fetch, create | a locked service looks like an empty one | no new key where an old one exists |
| Location (`location.rs`, `locationactions.cpp`) | live shares | start, beacon, stop, expire | refused beacons, stop against renew | a stopped share stays stopped |

Not modelled, and why: message text (`markup.rs`, `mention.rs`, `linkpreview.rs`,
emoji tables: pure text, covered by unit tests), media files and transfers
(formats and I/O), members, settings, search, directory and encryption commands
(one request, one answer; their share of the concurrency is in the answers and
the gate), the sign-in protocols' HTTP, JSON and logging, the settings stores,
QML, build tools. `translations/*.ts` are Qt translation catalogues (XML), not
code: most of the repository's lines by count, none of its behaviour.

The hazards found in this survey, each at its line, with the properties that
would catch it or the reason none does yet, are in `PROJECT.json`.

## 2. Plan

Modules in the order of their weight for a user: losing keys or history, losing
a message, a page that hangs. The first eight are done.

1. `SessionStore`, `SessionGate`: done; every safety property proved.
2. `SyncPosition`: done; `NothingSkipped` proved.
3. `OneAnswer`, `ReplyDebt`: done; `ReplyDebt` implements `OneAnswer` (TLC with
   fairness, the step simulation proved).
4. `SendQueue`: done; `NobodyStranded` and `OnlyUserReleases` proved.
5. `OpenView`: done but for the thread's slot; its invariants proved.
6. `RoomFeed`: done; the queue between the views and the rows the page shows,
   resync and rebuild; `DriftOwed` and `InStep` proved.
7. `PushRegistration`: done; debts, waiter, teardown; `DebtMinded` and
   `RegisteredIsSo` proved.
8. `CallEngine`: done; one call, its pipelines and timers; safety proved.
9. `OpenView` gets the thread's slot (`drop_thread`, `open_thread`,
   `close_thread` by root event).
10. `InstanceHandover` (two processes, yield and lock), composed with
   `PushRegistration`, since the wake decides both.
11. `StoreRepair`, `StoreKeyRules`: latch, scrub, quarantine; which key a start
    gets.
12. `CallSignalling` composed with `CallEngine`, then `Verification`,
    `LiveLocation`, `PollEnd`, `Transcripts`: machines of one object, small each.
13. `BridgeRequests`, `SyncSupervision`, `StuckMarker`, `NetWatch`.

The runs are kept few: a component gets one run for safety and liveness together
where its state space allows. `SessionGate` and `ReplyDebt` have a second one,
because fairness over their large instances takes too long; these are the first
to be merged when later modules need room. Small machines share an MC module that
composes them where they meet in the code.

Every safety invariant and action property of the passing runs is a theorem. What
is still worth proving is what the modules to come promise, and, of those done,
facts the invariants hold and no run states. In every module the parameters are
CONSTANTS with named assumptions, operations are one action each, and there is no
RECURSIVE operator.

## 3. Modules

### SessionStore and SessionGate

`SessionStore` has what is on disk: the session file (device, key, token) and
the store directory (which kinds of files are there, the cipher the databases
were written under, the device they belong to), with `load`, `store`,
`store_plan`, what the SDK does on opening, and what a removal that was cut off
leaves. The encryption is abstracted to the key it takes; Newer (a file of a later
version) is treated by every caller as Locked is and is the same outcome. A
read error makes `load` "locked".

`SessionGate` is the life cycle. The gate's holder is the step it stands at
(`gate`); a command starts when it gets the gate, so every order of waiting
commands is covered. A sign-in's network part is a task (`tasks`) that asks,
releases the gate, offers, publishes, waits for the user, and finishes, and that a
later command cancels; `watch` is the task that writes rotated tokens;
`expiring` the expiries noticed and not yet handled; `owed` a rebuild's restore.
A crash may fall at every step, also half way through a removal, and a process
starts again as the visible or the woken one. `forget` is assumed to remove the
file. The announcement after a sign-in is one step, since a cancel awaits the task.

Front end conditions are those of the code: a sign-in is offered only when the
session state is "none"; a rebuild only when it is not; a restore only with no
sign-in in flight.

### SyncPosition

A rebuild keeps the crypto store, and with it the sliding sync position, and
deletes rooms and event cache; therefore it moves on to the next connection name.
The model has the name on disk (absent, torn, a number), the epoch file, one
position for each name, the events each database holds, and a sync that brings
events in order. A write of the name may fail, before it changed anything or
leaving no number (read as 1, `session.rs`, `sync_generation`). Stores of
older versions and stores whose cache an update emptied are initial states. The
SDK's saving of data and position together is one external step. `cut` records
that a rebuild or migration was cut off; `NothingSkipped` is promised only without.

### OneAnswer and ReplyDebt

`OneAnswer` is the protocol's promise: every command asked is answered, once.
`ReplyDebt` is the code behind it: the debt table with its two sets, the
dispatcher, a task for each command and its guard, sign-ins whose worker answers,
login.abort and logout which cancel and drain. An emission is two steps, debt under
the lock, delivery outside it. Deadlines are not counted: a drain may give up at any
moment after it began. Plain commands and workers may panic. Commands that answer
themselves in one go (registration_url) behave as a plain one never aborted.
`session_expired`'s teardown is a Leave without a reply of its own.

### SendQueue

One room of the send queue; the others matter only as the reason the update
channel runs over. `queue` is the SDK's queue, `refused` requests its head stops
at, `parked` and `counts` the parking table, `updates` the broadcast channel,
`recovery` the task that handles failures, `pending` and `hand` the timers and
other wakers between their check and the switch. The time limits of `sendqueue.rs`
(30 minutes, 6 hours) are classes of age; the waits are not counted. Initial states
are any queue an earlier process left. `lapse` marks a room left off in two
ways the code accepts: its blocker was withdrawn by another way, or a failure was
missed while the store could not be read. No property promises anything then.
The reports at the start and the front end's marking are left out.

### OpenView

The page (in a room or not, its token, the open it waits for), the commands, the
core's `open_generation`, `opening`, `pending_open` and `timeline`, each build
(request half, local half, result), and the teardown. Every command is an
independent task. Drawing a number and taking the pending build are two steps:
there is no await between them, but another thread runs. The lock, the look at
the open view, the build's start with its registration, and the check with the
install are steps in the code's order; a view is named by the command that builds
it. `Drain` assumes, as the three seconds of the code do, that a build told to
stop and a local half end before. The stall watchdog may give up at any time. A
second session after the teardown and the thread's slot are left out; what the
views stream is in `RoomFeed`.

### RoomFeed

What the open views stream and what the page makes of it. A list is abstracted to
its version: a view at version n has told the first n changes of the room. The
model's rows are whose they are (`rowsOf`), up to which change (`upto`), whether a
diff shifted rows it was not made for (`wrong`), and whether the model noticed
(`drift`, `m_outOfStep`). A diff that finds its own view's last rows is applied;
on others it either falls outside the rows, which the model notices, or inside,
which it cannot; both are possible whenever the rows are not its own. Diffs and
the answers to resync travel in one queue, in order. Views are named by the
command that builds them; two views under one token are possible and are in the
model. A thread delays a rebuild (`thread`, `rebuildAfter`, `timer`), because
opening the room anew would close it. An open is coarser here than in `OpenView`:
its steps under the lock are one action, a build that lost its number may
still stream, as the local half is not cut off. A close that overtakes its
open, and a resync that does, are orders of independent tasks. Paging, marks and
the rows' content are left out.

### PushRegistration

The push tasks of the core, each at its place (`task[t].at`): start, endpoint
event, the page's command, switching off, and the waiter that retries. `serial` is
the lock around `push_sync` and `drop_registration`; `dirty` and `waiting` are the
two flags that decide who retries; `record` is what `push.json` says may be on the
server, `server` what is, `late` the requests nobody waits for any more, which may
land at any time, `struck` pushkeys such a delete has hit. A failure's debt is noted in
steps, as another thread's may fit between: the look at the session (`Owe`), the
flag (`Note`), the waiter's claim (`Claim`) and its start. `phase` is the
teardown: push tasks are aborted (`stop_push_tasks`), commands drained, and a
sign-out clears the pushers it knows of. Requests fail in two ways, unheard and
refused. The three seconds of the drain and the limit for stopping tasks are
assumed to be enough. Events are handled one at a time. Left out: which gateway is
used, choosing or changing the distributor, the event that unregisters, the
connector of older versions, and the woken process.

### CallEngine

The one call of `callengine.cpp`, with what the user, the other side, the timers
and the media threads do to it. `call` is what the engine knows of the call
(state, id, room, who may answer, which device was taken), `media` what `tearDown`
takes (the pipeline, whether its description is owed or made, the camera, the
watchdog, waiting shots, the batch of candidates, the wait for relay
credentials), `posted` the Qt events of the media threads. Generations are
abstracted: `tearDown` raises the number, and what carries an older one does
nothing, so `TearDown` empties `posted` and the shots. What a pipeline says once
it is put away is modelled: where the ICE agent can be reached (`lingers`, an
initial choice: it depends on the GStreamer installed) it stays paused for up to
three seconds, and its callbacks stamp the generation of the moment. Only the last
one put away is followed, and it asks for no negotiation any more. A pipeline is named by the
call it was built for, which is how a description of another call can be told.
The ghost variables are `said` and `rung`, what was offered and heard; `ended`, the
calls hung up and not offered since; `woken`, those offered after they were over;
and `wish`, the first id the call placed last can go out under. Every way out is an
action or part of one: hang-up, a ring that ends, failure while starting or answering,
the fallback from video to voice, a remote hangup, an answer taken elsewhere, a lost or
silent connection.

`OverIsOver` says that a call somebody knows of is on or is over, and was not offered
again since; where a pipeline lingers it excepts the calls in `woken`, which section 6
tells of. `CallGoesOut` follows the call that was placed by `wish`, not the id the
engine holds, as that may still be the call's before; a call that is taken for that one while it
waits for its relay (`Mistaken`) is excepted by name, and told of there too.

The core's part (`call.rs`) is the environment: invites, answers and hangups come
from the room the call is in, the id of an answered invite comes back as
`ExpectPeer`. Busy invites are hung up. Three things are assumed of the surroundings: the
kernel has the random bytes of a call id (`freshId`), the page shows its accept button
only while it rings (`qml/pages/CallPage.qml`), and no invite is delivered twice (the
core's `ring_is_due`, `call.rs:338`, refuses a repeat of its sender's last one; one that
comes again behind another is left out). The other side's candidates, which camera
source is used, sound and picture are left out; so is the order of the event
queue, which makes the model wider than the code.

Each module has an MC module of its own (`MCSessionGate`, ...) that TLC runs; it adds
no more than the symmetry of interchangeable keys or commands. The bounds are in
the configurations. Beside the definitions stand their mutations, marked as bugs: the
plausible mistake each property is there to catch, none of them part of `Next`.

## 4. Runs

| Run | Instance | Question |
|---|---|---|
| `session_gate` | 2 keys (symmetric), 2 sign-ins, 1 refresh, 5 generations, 2 boots | do store, file, client and what the user is told stay together, whatever interleaves and wherever the process dies? |
| `session_gate_live` | 1 key, 1 sign-in, 6 generations, 1 boot, fairness | does a sign-in, a rebuild, an expiry always come to its end? |
| `sync_position` | 4 names, 3 events | can a running sync claim events that are not there? |
| `reply_debt` | 1 plain command, 2 sign-ins, 1 abort, 1 logout | one answer at most; a debtor for each debt |
| `reply_debt_live` | one of each kind, fairness | refinement of `OneAnswer` |
| `send_queue` | a photo and a reaction, 2 failures, 1 user command, channel of 1, limits of 2 attempts, fairness | is a free room always on its way back? does parked wait for the user? |
| `open_view` | 3 commands | one live view, the newest, none after the session, a page never waits for nothing |
| `room_feed` | 1 room, 3 opens of which the user's steps take 2, 2 changes, fairness | are the rows the view's, or is somebody on the way to make them so? |
| `push_registration` | 2 tasks at a time, 2 endpoints, 4 generations, 2 returns of the sync, 2 failures, fairness | is a failed registration somebody's as long as there is a session, is there one waiter, is what counts as registered so? |
| `calls` | 1 room, 1 call of theirs, 2 starts of ours, 1 wait for the pads, 1 event posted at a time, fairness | is the other side always told, and not asked again? is every description the call's own? does the call placed go out? |
| `sync_cut`, `skipped_room` | as the component's | each refutes one sentence of the code (section 6) |

Why these bounds suffice. Two keys are one more than any file or store holds, two
sign-ins the least for one to overtake the other, two boots one crash with its
recovery, one refresh a token on disk that differs from the one in use; five
generations let a rebuild with its restore follow a sign-in. Four names allow two
rebuilds after a migration. In `reply_debt` the drain, the canceller, the worker,
the guard and the command itself all compete for one id, and a second sign-in
cancels the first. In `send_queue` one request parks while the other waits behind
it, and one update is enough for a channel of one to run over; attempts are
clamped at the limit. In `open_view` two opens and a close reach every pair of
orders; a third open separates the newest from the second newest. In `room_feed` two
opens of the user's and one the model makes itself give a stale view, a current
one and a rebuild; two changes, so that a diff can be missed and another follow.
Larger instances were run by hand and held: two rooms with 3 opens (13.9 million
states), with 4 opens for safety (6.5 million), one room with 4 (10 million). In
`push_registration` one task waits or holds the lock while the other fails or
leaves; a second endpoint makes the first one stale; by hand three tasks (7.7
million states) and two with four endpoints (8 million) held for safety. In `calls` two starts are two voice calls, or a video call
with its fallback; one wait for the pads stands for thirty, as the count only has to
run out. A second room (3.4 million states) and a second event in the queue (2.4
million) were run by hand and held for safety. Deadlock is not
checked where the environment may stop asking: every pass run but `send_queue`,
whose line may always come back, and `sync_position`, whose process may always
start again.

Fairness. Threads run (WF on every step of a task that waits for nobody); the
gate is handed over in line (SF on its waiters); requests end, with or without
success, because they have time limits; timers fire. None is assumed on the user,
on the server approving, on the line coming back, or on any command being sent.
In `room_feed` the front end handles its queue and its timer, every command is
a task that runs, a build ends by its limit, and a view's task loops. In
`push_registration` tasks run and requests end, and the sync is assumed to come
back again and again: without it a debt rightly waits.
In `calls` the event queue is worked off, the relay wait and the single shots
fire, and webrtcbin signals once for a pipeline and answers each promise (SF: a
pipeline may be replaced any number of times meanwhile); frames, the pads, the
watchdogs and the other side are not assumed.
In `session_gate_live` a behaviour that has used up the generations of the bound
counts as fulfilled (`OutOfBounds`): it is the model that stops there.

## 5. Proofs

All for arbitrary constants under the assumptions named in the modules (disjoint
kinds of commands, `None` outside the ids, finite or not: no set has to be finite
unless it is a range of numbers).

* `SessionGateProofs`: `TypeCorrect`, `StoreSafe` (OpenMatchesStore),
  `SessionHasStore` (StoredSessionHasStore), `ResetSafe` (NoResetOverSession),
  `SignInsOwnTheirClient` (SignInOwnsClient), `KeysAgree` (OneKey), `KeyIsKept`
  (KeyKept), `ShownSessionExists` (ToldSessionExists), `TokensAreSaved` (SavedOrSaid).
  OpenMatchesStore is not inductive: a step that opens or resets the store is safe
  only because its holder knows there is no client, and because a store in use is
  complete. `SlotHasClient` ties the phase to the client, `HolderCounts` says what the
  holder relies on at each step, `StoreSound` what a store in use looks like. The
  rest of the invariant is `RInv`. `SignIns` says which sign-in the holder of the gate
  serves: without it a sign-in that was cancelled might come back with a result.
  `KeyFits` follows the key from the hand to the open store and the file:
  OneKey speaks of files only, and what a step writes next is under the key of
  what is open. `Announced` names who still has to tell the user; it needs that a
  client with a device is some session's or some finished sign-in's (`SignedInBy`).
  `Watched` ties the watcher to the slot's generation, or one of an older session
  might count as resting.
* `SyncPositionProofs`: `TypeCorrect`, `PositionSafe` (NothingSkipped),
  `SyncsUnderItsName` (SyncsUnderNameOnDisk, part of the invariant and no run's
  property). The strengthening says that
  names above the current one were never used (`Whole`), and that who rebuilds
  has neither client nor sync (`AtWork`).
* `ReplyDebtProofs`: `TypeCorrect`, `AnsweredOnce`, `DebtsArePaid`,
  `SettledStaysAnswered` (SettledWasAnswered, likewise), `StepsKeepPromise` (the
  initial states and steps of `OneAnswer`; its fairness is TLC's). The invariant
  follows an answer from the debt through one hand at most to the front end, and says
  for each debt which task, drain or canceller has it.
* `SendQueueProofs`: `TypeCorrect`, `NeverStranded`, `ParkedWaitsForUser`. The
  invariant adds that what flies is queued (`FlyingQueued`), that a room switched off
  is on its way even with nothing queued (`OffOnItsWay`), and that what is parked
  was seen by the failure being counted (`SeenCovers`).
* `OpenViewProofs`: `NoViewLeftBehind`, `TeardownTakesAll`, `SpinnerEnds`,
  `LateClosesSpare`, `NewestViewStays` (NewestStays). The invariant places every
  build at its open (`Placed`), says that nothing goes on behind the drain
  (`Settled`), and that a page in a room has raised its token since the last close
  (`ClosesOlder`). NewestStays speaks of the end of an open; the invariant has to
  say where the holder of the last number may be before that, and what is in the
  slot meanwhile (`Newest`), which needs that numbers are the opens' own
  (`Numbered`).
* `RoomFeedProofs`: `TypeCorrect`, `DriftIsOwed` (DriftOwed), `RowsAreInStep`
  (InStep). The invariant counts
  the tokens (`Counted`: the page's is never above the opens sent), says that the
  slot holds the one shown view and that the last open is over while it does
  (`OneShown`), and names, for rows out of step, every place the way back can be
  at (`Owed`: the request, the notification, the refusal, a build in hand, the
  rebuild that waits for the thread). InStep says what holds once the queue is empty;
  the invariant says what the queue holds until then (`StepInv`): of one view, each diff
  goes on where the one before ended (`Linked`) and the last ends where the view is
  (`LastTold`), the first fits the rows (`Ready`), nothing carries a token the page has not
  reached (`Behind`), what is told carries its view's token (`Theirs`) and comes
  from a view that streams (`Telling`), and where one view alone streams
  nobody asked for the rows anew (`InPlace`).
* `PushRegistrationProofs`: `TypeCorrect`, `DebtsAreMinded` (DebtMinded),
  `WhatIsSaidIsSo` (RegisteredIsSo). DebtMinded
  alone is not inductive: the flag `waiting` must be one task's, and a debt noted
  while the waiter leaves must find it looking back. `Flags` says where each role
  may be (`AllPlaced`), what holds in a session (`Sessions`), in the teardown
  (`Drains`) and without a session (`Rests`); neither of the last two can say that
  nothing is owed, as a command may note its debt behind the teardown's back, and
  DebtMinded holds at the next session's start because its first sync minds it. For RegisteredIsSo the lock is one
  task's (`Locked`), a new endpoint was never handed out (`HandedOut`), a sync past its
  request has its pusher on the server or lost it to a late delete (`PusherSet`), and one
  with nothing to set stands beside no registered endpoint, so that
  what it deletes is not the one in use (`NothingBeside`); while a delete of the
  registered pusher is not yet admitted, its holder has the lock (`Registered`).
* `CallEngineProofs`: `TypeCorrect`, `OthersAreTold` (OverIsOver),
  `DescriptionsAreOwn` (OwnDescription). Even the type is not inductive: the bound on
  calls must count the voice call a video call may become (`Budget`). For
  OverIsOver the id a failed call leaves behind must have been ended, also while the next call
  waits for its relay under that id (`Spent`), a call that rings or has its pipeline
  was not ended (`Live`), no call yet to come was (`Past`), a call with an id must be in a room,
  or its goodbye would be swallowed (`Roomed`), and an idle or ringing engine has
  neither pipeline nor timer that could start anything (`Bare`).

The strengthenings were checked by TLC on small instances before they were proved
(the largest: `StepInv` on 1.6 million states, `RegInv` on 1.3 million).

Only model-checked, because TLAPS proves neither liveness nor anything of ENABLED:
`LoginIsAnswered`, `RebuildEnds`, `ExpiryIsTold`, `RoomComesBack`, `DriftHeals`,
`DebtEnds`, `CallGoesOut`, and of `OneAnswerEach` the fairness.

## 6. Where the code and its words differ

The first two are runs that TLC refutes; the trace is the scenario. The others
were met while modelling and have no run of their own.

* `sync_cut`: a rebuild cut off after the rooms were deleted and before the name
  moved on: the next sync resumes the old position, the deleted rooms stay away.
* `skipped_room`: a parked reaction that its chip withdraws stays in the parking
  table; `wake_room` passes the room over from then on.
* Opening the open room again keeps the token ("the same view carries
  on and the core keeps the stream it has", `matrixbridge.cpp:1009`). Where no view
  is in the slot yet, or the receipt setting changed, the core builds a second one
  under the same token, and both stream into the page. The rows may be wrong until
  the next reset; `InStep` is promised only where one view streams.
* A call that failed (`reportFailure`) keeps its id and room. An answer that comes
  then passes every test of `onRemoteAnswer`, which does not look at the state, and
  the engine stands at "connecting" with no pipeline ("a dying pipeline used to
  leave the call on connecting", `callengine.cpp:1811`, says this is over).
* The same answer, or a lingering pipeline's "connected", moves the engine on when the
  next call already waits for its relay under the old id: `resumeAfterRelay` finds it no longer
  calling (`callengine.cpp:429`) and does nothing. The call the user placed is never
  offered, and the engine stands at "connecting" or "active" until the user hangs up.
* With a pipeline that lingers an invite can follow its own call's hang-up: the call
  failed before its offer was made, `reportFailure` said goodbye and kept id and room,
  and the description that then comes is stamped with the new generation and sent for
  that id (`callengine.cpp:1380`, `1907-1915`, `1979-1987`). The other side
  rings and nobody is there; nothing but its own time limit ends it.
* `setExpectedPeer` is "set from the reply before any answer can arrive"
  (`callengine.h:83`), but the reply names no call: one for a call already ended
  sets who may answer the next call, in another room, whose answer is then
  ignored. The next reply repairs it, unless the answer came first.
* "One from a torn-down pipeline is dropped" (`callengine.h:172`): a pipeline that
  lingers stamps its callbacks with the new generation. Its late "connected" can
  mark the next call active, its description be sent for the next call.
  `OwnDescription` is promised where none lingers.
* After a failed call the relay wait of the next one still has the old id: hanging up then
  says goodbye to a call
  that was already over, and `m_callId` of the new one does not exist yet.
* Announcing a session: `lifecycle.rs` drops the gate after `begin_session` and
  announces afterwards; an abort in between cancels the announcement.
* Tokens on closing: `close_session` saves the tokens and then stops what may
  refresh them.
* Listing stuck sends: `queue.stuck` removes a reaction the server already has and
  switches the room on, though a photo in it is parked.
* Push: the record names every pusher on the server, except that a set sent for
  a session that has just ended is not noted: the note is gated by the session
  (`push.rs:810`), the request is not, and one that lands late lands after the
  record was settled. `retry_on_running` looks at the session, lets go of it and then
  notes the debt (`pushcmd.rs:270-273`): a page's command in between, while the teardown
  clears the flags, leaves a debt with no session and no waiter, as
  `spawn_session_task` refuses one. The next session inherits it; its first sync pays or
  drops it. A refusal drops the debt after the lock is gone, and with it a debt
  that a newer sync noted meanwhile. A sync holds the endpoint it was sent for and may
  run after one for a newer endpoint. `retry_on_running` subscribes after the
  failure, so a sync that came back in between is not seen until the next time.
* Opens: two opens may draw their numbers in the other order than the page
  asked (the page's own is superseded, `conversation.rs:117`); an open that got its
  client before the teardown may start a build after `abandon_opens`
  (`conversation.rs:111`).
* Waking a room: `wake_room` checks the parking table and switches the room on
  afterwards (`sendqueue.rs:253`).
* Names: a connection name that cannot be read counts as the first
  (`session.rs:586`).
