----------------------------- MODULE SessionGate -----------------------------
(***************************************************************************)
(* The session's life cycle in the core: core/src/gate.rs and              *)
(* core/src/runtime/lifecycle.rs.  Restore, the three sign-ins, abort,     *)
(* sign-out, expiry, rebuild and the woken process's close all run under   *)
(* one mutex, the session gate; a sign-in's network part runs outside it   *)
(* as a task that a later command may cancel, and a watcher writes rotated *)
(* tokens back.  The process may be killed at any step.                    *)
(*                                                                         *)
(* The gate's holder is the step it is at, "free" when nobody holds it.    *)
(* Commands are interchangeable until they hold the gate, so a command     *)
(* starts when it gets the gate, in any order.                             *)
(***************************************************************************)
EXTENDS SessionStore

CONSTANTS
    NoClient,    \* the empty client slot
    MaxGen,      \* slot generations considered in one run of the process
    MaxBoots     \* starts of the process considered

ClientRecords == [key : Keys \cup {NoKey}, dev : Devices, tok : Tokens]

ASSUME NoClientAssumption == NoClient \notin ClientRecords
ASSUME RunsAssumption == MaxGen \in Nat /\ MaxBoots \in Nat \ {0}

VARIABLES
    file,        \* session.json
    store,       \* the store directory
    storeKey,    \* State::store_key
    slot,        \* State::slot: generation and phase
    client,      \* State::client
    gate,        \* who holds session_gate, and at which step
    who,         \* the sign-in the holder works for, 0 for none
    held,        \* the client a teardown took out and its caller still holds
    loginTask,   \* State::login_task: the cancellable sign-in, 0 for none
    tasks,       \* the network part of every sign-in
    verdict,     \* what each sign-in command was answered with
    watch,       \* watch_session: off, idle, or a refresh yet to be written
    expiring,    \* session_expired tasks on their way, by generation
    news,        \* an expiry not yet told to the front end
    owed,        \* a rebuild whose restore is still to run
    told,        \* the state the front end last heard in session.changed
    alarms,      \* failures it was told of and that still stand
    woken,       \* the process was started by a push
    boots        \* starts of the process so far

disk == <<file, store>>
slotVars == <<slot, client, storeKey>>
taskVars == <<loginTask, tasks, verdict>>
watchVars == <<watch, expiring, news>>
frontVars == <<told, alarms, owed>>
procVars == <<woken, boots>>
gateVars == <<gate, who, held>>
vars == <<disk, slotVars, taskVars, watchVars, frontVars, procVars, gateVars>>

Phases == {"empty", "prelogin", "loggingIn", "session", "closing"}
Kinds == {"browser", "device", "password"}
Stages == {"idle", "queued", "ask", "release", "offer", "offered", "publish",
           "published", "wait", "finish", "announce", "failed", "dropped", "done",
           "lost"}
Steps == {"free", "restore", "restoreAgain", "look", "wipe", "build", "observe", "persist",
          "logoutDrain", "logoutForget", "logoutReset",
          "rebuildDrain", "rebuildSave", "rebuildWipe",
          "expireDrain", "expireForget", "closeDrop"}
Verdicts == {"owed", "ok", "failed", "cancelled"}
States == {"none", "signedIn", "stuck"}
Alarms == {"unsaved", "rebuild"}

Slots == [generation : 0..MaxGen, phase : Phases]
Tasks == [kind : Kinds, stage : Stages, gen : 0..MaxGen, good : BOOLEAN]
NoTask == [kind |-> "browser", stage |-> "idle", gen |-> 0, good |-> FALSE]

Watches == [at : {"off", "idle", "dirty"}, gen : 0..MaxGen]
NoWatch == [at |-> "off", gen |-> 0]

-----------------------------------------------------------------------------
(* gate.rs: the slot.  Every assignment and removal raises the generation. *)

\* Mutant: the generation goes the wrong way.
AssignedBackwards(s, phase) == [generation |-> s.generation - 1, phase |-> phase]

Assigned(s, phase) == [generation |-> s.generation + 1, phase |-> phase]
Closing(s) == Assigned(s, "closing")
Cleared(s) == Assigned(s, "empty")
Holds(s, g) == s.generation = g /\ s.phase # "empty"
Advanced(s, g, phase) == IF Holds(s, g) THEN [s EXCEPT !.phase = phase] ELSE s

\* What a sign-in may do with the slot it finds.
LoginEntry(s, kind) ==
    CASE s.phase = "session" -> "refused"
      [] s.phase = "loggingIn" /\ kind = "password" -> "refused"
      [] s.phase = "prelogin" /\ kind = "password" -> "reuse"
      [] OTHER -> "fresh"

\* Mutant: a running client does not protect its key.
KeyReplaceableUnlessClosing(s) == s.phase # "closing"

\* A handed-in key replaces the installed one only while there is no client.
KeyReplaceable(s) == s.phase = "empty"

\* Room for the generations one gate holder may use up.
MayRaise(n) == slot.generation + n <= MaxGen

-----------------------------------------------------------------------------
(* What the commands and their tasks share.                                *)

\* answer_once: the first answer counts, whoever gives it.
Said(id, what) ==
    IF id # 0 /\ verdict[id] = "owed" THEN [verdict EXCEPT ![id] = what] ELSE verdict

Moved(id, stage) == [tasks EXCEPT ![id].stage = stage]

\* Mutant: the task is told to stop and not waited for.
NotStopped == tasks

\* cancel_login: stop the task and wait until it is gone, then answer for it.
Stopped == IF loginTask = 0 THEN tasks ELSE Moved(loginTask, "done")

CancelLogin ==
    /\ tasks' = Stopped
    /\ verdict' = Said(loginTask, "cancelled")
    /\ loginTask' = 0

\* session_data: what the client in the slot says of itself.
SessionData == IF client # NoClient /\ client.dev # NoDev THEN "signedIn" ELSE "none"

\* session.changed, or the answer to session.restore.
Tell(state) == told' = state /\ alarms' = alarms \ {"rebuild"}

-----------------------------------------------------------------------------
Init ==
    /\ file \in {NoFile} \cup {WrittenFile(1, k, 0) : k \in Keys \cup {NoKey}}
    /\ store \in {EmptyStore} \cup
            {[files |-> FileKinds, key |-> k, dev |-> 1] : k \in Keys} \cup
            {[files |-> {"db", "other"}, key |-> NoKey, dev |-> 1]}
    \* A session lies beside its own store, under the same key or written
    \* before the first key existed.
    /\ file.present => store.dev = 1 /\ file.key \in {NoKey, store.key}
    /\ file.present /\ file.key = NoKey => store.key = NoKey
    /\ storeKey \in Keys \cup {NoKey}
    /\ slot = [generation |-> 0, phase |-> "empty"]
    /\ client = NoClient
    /\ gate = "free" /\ who = 0 /\ held = NoClient
    /\ loginTask = 0
    /\ tasks = [id \in Logins |->
                  IF id = 1 /\ store.dev = 1 THEN [NoTask EXCEPT !.stage = "done"] ELSE NoTask]
    /\ verdict = [id \in Logins |->
                  IF id = 1 /\ store.dev = 1 THEN "ok" ELSE "owed"]
    /\ watch = NoWatch /\ expiring = {} /\ news = FALSE
    /\ told = "none" /\ alarms = {} /\ owed = FALSE
    /\ woken \in BOOLEAN /\ boots = 1

-----------------------------------------------------------------------------
(* Restore. *)

\* restore_session: a client in place stays, and so does its key; otherwise
\* the key handed in (if one was) is installed and the stored session read.
RestoreTakes(key) ==
    /\ gate = "free"
    /\ IF KeyReplaceable(slot)
       THEN /\ storeKey' = IF key = NoKey THEN storeKey ELSE key
            /\ gate' = "restore"
            /\ UNCHANGED <<told, alarms>>
       ELSE /\ Tell(SessionData)
            /\ UNCHANGED <<storeKey, gate>>
    /\ UNCHANGED <<disk, slot, client, taskVars, watchVars, procVars, who, held>>

\* The command the front end sends, at its start and from the pages that say
\* why there is no session, never beside a sign-in (matrixbridge.cpp:
\* restoreSession, retryUnlock); in the woken process it is push.unlock.
Restore ==
    /\ \A id \in Logins : tasks[id].stage \in {"idle", "done", "lost"}
    /\ \E key \in Keys \cup {NoKey} : RestoreTakes(key)
    /\ UNCHANGED owed

\* The restore a rebuild ends in: no key comes with it.
RebuildRestores == owed /\ RestoreTakes(NoKey) /\ owed' = FALSE

Restoring == gate \in {"restore", "restoreAgain"}

\* The stored session is at hand and the SDK can open the directory under it.
Restorable ==
    /\ "session" \in LoadOutcomes(file, storeKey)
    /\ ~PlanRefuses(store, storeKey)
    /\ Opens(store, storeKey)

\* The session cannot be opened now: locked, offline, unreadable, or not there.
\* store_plan may have marked the directory before the SDK failed.
RestoreGivesUp ==
    /\ Restoring
    /\ \E outcome \in LoadOutcomes(file, storeKey) :
          Tell(IF outcome = "none" THEN "none" ELSE "stuck")
    /\ store' \in {store} \cup (IF file.present THEN {Planned(store, storeKey)} ELSE {})
    /\ gate' = "free"
    /\ UNCHANGED <<file, slotVars, taskVars, watchVars, owed, procVars, who, held>>

\* Mutant: the refusal is not an answer.
RestoreRefusedUnsaid ==
    /\ Restoring /\ Restorable
    /\ gate' = "free"
    /\ UNCHANGED <<disk, slotVars, taskVars, watchVars, frontVars, procVars, who, held>>

\* Refused by the server, or not https: an error is the answer, and whatever
\* state the front end knew stays with it.
RestoreRefused ==
    /\ Restoring /\ Restorable
    /\ store' \in {Planned(store, storeKey), Opened(store, storeKey)}
    /\ alarms' = alarms \cup {"rebuild"}
    /\ gate' = "free"
    /\ UNCHANGED <<file, slotVars, taskVars, watchVars, told, owed, procVars, who, held>>

\* Build, restore the session into the client, assign it: begin_session next.
RestoreOpens ==
    /\ Restoring /\ Restorable /\ MayRaise(1)
    /\ store' = Opened(store, storeKey)
    /\ client' = [key |-> PlanKey(store, storeKey), dev |-> file.dev, tok |-> file.tok]
    /\ slot' = Assigned(slot, "loggingIn")
    /\ gate' = "observe"
    /\ UNCHANGED <<file, storeKey, taskVars, watchVars, frontVars, procVars, who, held>>

\* A row that will not decode: the client goes, the rows go, and the restore
\* gets its one second try.
RestoreRepairs ==
    /\ gate = "restore" /\ Restorable
    /\ store' = Opened(store, storeKey)
    /\ gate' = "restoreAgain"
    /\ UNCHANGED <<file, slotVars, taskVars, watchVars, frontVars, procVars, who, held>>

-----------------------------------------------------------------------------
(* begin_session: the watcher first, then the file, then the phase. *)

\* persist: nothing to write without a session; a failed write is announced.
Persist(c) ==
    \/ /\ c.dev # NoDev /\ MayWrite(file, storeKey)
       /\ file' = WrittenFile(c.dev, storeKey, c.tok)
       /\ alarms' = alarms \ {"unsaved"}
    \/ /\ file' = file
       /\ alarms' = alarms \cup {"unsaved"}

BeginObserve ==
    /\ gate = "observe"
    /\ watch' = [at |-> "idle", gen |-> slot.generation]
    /\ gate' = "persist"
    /\ UNCHANGED <<disk, slotVars, taskVars, expiring, news, frontVars, procVars, who, held>>

\* A restore answers under the gate; a sign-in's task lets it go first.
BeginPersist ==
    /\ gate = "persist"
    /\ Persist(client)
    /\ slot' = [slot EXCEPT !.phase = "session"]
    /\ IF who = 0
       THEN told' = "signedIn" /\ UNCHANGED tasks
       ELSE tasks' = Moved(who, "announce") /\ UNCHANGED told
    /\ gate' = "free" /\ who' = 0
    /\ UNCHANGED <<store, storeKey, client, loginTask, verdict, watchVars, owed,
                   procVars, held>>

-----------------------------------------------------------------------------
(* Sign-ins: phase one, under the gate. *)

\* A new command, from the sign-in page; the commands are numbered in the
\* order they get the gate. The gate is handed over in line, and a rebuild's
\* restore lines up at once.
MayLogin(id) ==
    /\ gate = "free" /\ ~woken /\ told = "none" /\ ~owed
    /\ tasks[id].stage = "idle"
    /\ \A earlier \in Logins : earlier < id => tasks[earlier].stage # "idle"

\* spawn_login: the task is findable before the gate goes.
SpawnLogin(id, kind, g) ==
    /\ tasks' = [tasks EXCEPT ![id] =
                    [kind |-> kind, stage |-> "ask", gen |-> g, good |-> FALSE]]
    /\ loginTask' = id

LoginRefused(id, kind) ==
    /\ MayLogin(id)
    /\ LoginEntry(slot, kind) = "refused"
    /\ tasks' = Moved(id, "done") /\ verdict' = Said(id, "failed")
    /\ UNCHANGED <<disk, slotVars, loginTask, watchVars, frontVars, procVars, gateVars>>

\* The password form reuses the client the start vetted.
LoginReuses(id) ==
    /\ MayLogin(id)
    /\ LoginEntry(slot, "password") = "reuse"
    /\ slot' = Advanced(slot, slot.generation, "loggingIn")
    /\ SpawnLogin(id, "password", slot.generation)
    /\ UNCHANGED <<disk, client, storeKey, verdict, watchVars, frontVars, procVars, gateVars>>

\* prepare_fresh_login: cancel what runs, drop the client, look at the file.
LoginStarts(id, kind) ==
    /\ MayLogin(id)
    /\ LoginEntry(slot, kind) = "fresh"
    /\ MayRaise(2)
    /\ tasks' = [Stopped EXCEPT ![id].kind = kind, ![id].stage = "queued"]
    /\ verdict' = Said(loginTask, "cancelled")
    /\ loginTask' = 0
    /\ slot' = Cleared(slot) /\ client' = NoClient
    /\ gate' = "look" /\ who' = id
    /\ UNCHANGED <<disk, storeKey, watchVars, frontVars, procVars, held>>

\* A sign-in that ends before it has a task.
LoginGivesUp ==
    /\ tasks' = Moved(who, "done") /\ verdict' = Said(who, "failed")
    /\ gate' = "free" /\ who' = 0

\* Mutant: a locked session is taken for none.
LoginLooksPastLock ==
    /\ gate = "look"
    /\ \E outcome \in LoadOutcomes(file, storeKey) :
          gate' = IF outcome = "session" THEN "build" ELSE "wipe"
    /\ UNCHANGED <<disk, slotVars, taskVars, watchVars, frontVars, procVars, who, held>>

\* A stored session is never reset over; one that is locked refuses the sign-in.
LoginLooks ==
    /\ gate = "look"
    /\ \E outcome \in LoadOutcomes(file, storeKey) :
          IF outcome = "locked"
          THEN LoginGivesUp
          ELSE /\ gate' = IF outcome = "none" THEN "wipe" ELSE "build"
               /\ UNCHANGED <<tasks, verdict, who>>
    /\ UNCHANGED <<disk, slotVars, loginTask, watchVars, frontVars, procVars, held>>

\* reset_store, before a new device's store is built.
LoginWipes ==
    /\ gate = "wipe"
    /\ \/ /\ store' = EmptyStore
          /\ gate' = "build"
          /\ UNCHANGED <<who, tasks, verdict>>
       \/ /\ store' \in Remains(store)
          /\ LoginGivesUp
    /\ UNCHANGED <<file, slotVars, loginTask, watchVars, frontVars, procVars, held>>

\* fresh_login_client: assigned before any network wait of the sign-in.
LoginBuilds ==
    /\ gate = "build"
    /\ ~PlanRefuses(store, storeKey) /\ Opens(store, storeKey)
    /\ store' = Opened(store, storeKey)
    /\ client' = [key |-> PlanKey(store, storeKey), dev |-> NoDev, tok |-> 0]
    /\ slot' = Assigned(slot, "loggingIn")
    /\ SpawnLogin(who, tasks[who].kind, slot.generation + 1)
    /\ gate' = "free" /\ who' = 0
    /\ UNCHANGED <<file, storeKey, verdict, watchVars, frontVars, procVars, held>>

\* Refused, unreachable or unreadable; the marker may be there already.
LoginCannotBuild ==
    /\ gate = "build"
    /\ store' \in {store, Planned(store, storeKey)}
    /\ LoginGivesUp
    /\ UNCHANGED <<file, slotVars, loginTask, watchVars, frontVars, procVars, held>>

-----------------------------------------------------------------------------
(* Sign-ins: the network part, outside the gate, and what it does with the *)
(* gate once it has it again.  "release", "offer", "publish" and "finish"  *)
(* wait for the gate; "failed", "dropped", "offered" and "published" have  *)
(* let it go and still owe the answer.                                     *)

NetworkKeeps == UNCHANGED <<disk, slotVars, loginTask, watchVars, frontVars, procVars, gateVars>>

\* browser_login: which sign-in does this server speak?
BrowserAsks(id) ==
    /\ tasks[id].kind = "browser" /\ tasks[id].stage = "ask"
    /\ \E next \in {"release", "offer", "publish"} : tasks' = Moved(id, next)
    /\ UNCHANGED verdict
    /\ NetworkKeeps

\* start_device: the code is the answer to the command; the polling goes on.
DeviceAsks(id) ==
    /\ tasks[id].kind = "device" /\ tasks[id].stage = "ask"
    /\ \/ tasks' = Moved(id, "release") /\ UNCHANGED verdict
       \/ tasks' = Moved(id, "wait") /\ verdict' = Said(id, "ok")
    /\ NetworkKeeps

Attempting(id) ==
    \/ tasks[id].kind = "password" /\ tasks[id].stage = "ask"
    \/ tasks[id].stage = "wait"

\* The server signed the device in, and the SDK bound the store to it: only a
\* crypto store that belongs to no other device lets it.
AttemptSucceeds(id) ==
    /\ Attempting(id)
    /\ Holds(slot, tasks[id].gen) /\ client # NoClient
    /\ store.dev = NoDev
    /\ client' = [client EXCEPT !.dev = id, !.tok = 0]
    /\ store' = [store EXCEPT !.dev = id]
    /\ tasks' = [tasks EXCEPT ![id].stage = "finish", ![id].good = TRUE]
    /\ UNCHANGED <<file, slot, storeKey, loginTask, verdict, watchVars, frontVars, procVars,
                   gateVars>>

AttemptFails(id) ==
    /\ Attempting(id)
    /\ tasks' = [tasks EXCEPT ![id].stage = "finish", ![id].good = FALSE]
    /\ UNCHANGED verdict
    /\ NetworkKeeps

\* unassign_if: the client goes only if it is still this generation's.
UnassignIf(g) ==
    IF Holds(slot, g)
    THEN slot' = Cleared(slot) /\ client' = NoClient
    ELSE UNCHANGED <<slot, client>>

Releases(id) ==
    /\ gate = "free" /\ tasks[id].stage = "release" /\ MayRaise(1)
    /\ UnassignIf(tasks[id].gen)
    /\ tasks' = Moved(id, "failed")
    /\ UNCHANGED <<disk, storeKey, loginTask, verdict, watchVars, frontVars, procVars, gateVars>>

\* The server wants a password: the vetted client waits for the form.
Offers(id) ==
    /\ gate = "free" /\ tasks[id].stage = "offer"
    /\ slot' = Advanced(slot, tasks[id].gen, "prelogin")
    /\ tasks' = Moved(id, IF Holds(slot, tasks[id].gen) THEN "offered" ELSE "dropped")
    /\ UNCHANGED <<disk, client, storeKey, loginTask, verdict, watchVars, frontVars, procVars,
                   gateVars>>

\* The URL may go out only while the sign-in still has its client.
Publishes(id) ==
    /\ gate = "free" /\ tasks[id].stage = "publish"
    /\ tasks' = Moved(id, IF Holds(slot, tasks[id].gen) THEN "published" ELSE "dropped")
    /\ UNCHANGED verdict
    /\ NetworkKeeps

\* Mutant: the last word of the task is never sent.
RepliesNothing(id) ==
    /\ tasks[id].stage \in {"failed", "dropped", "offered", "published"}
    /\ tasks' = Moved(id, IF tasks[id].stage = "published" THEN "wait" ELSE "done")
    /\ UNCHANGED verdict
    /\ NetworkKeeps

\* The answer, once the gate is let go.
Replies(id) ==
    LET stage == tasks[id].stage
    IN  /\ stage \in {"failed", "dropped", "offered", "published"}
        /\ verdict' = Said(id, CASE stage = "failed" -> "failed"
                                 [] stage = "dropped" -> "cancelled"
                                 [] OTHER -> "ok")
        /\ tasks' = Moved(id, IF stage = "published" THEN "wait" ELSE "done")
        /\ NetworkKeeps

FinishTakes(id) == gate = "free" /\ tasks[id].stage = "finish"

\* The client was taken away meanwhile: nothing is begun, and only a password
\* sign-in still owes its answer.
Outdated(id) == Moved(id, IF tasks[id].kind = "password" THEN "dropped" ELSE "done")

\* Signed in: begin_session next, under the same gate.
FinishGood(id) ==
    /\ FinishTakes(id) /\ tasks[id].good
    /\ IF Holds(slot, tasks[id].gen)
       THEN gate' = "observe" /\ who' = id /\ UNCHANGED tasks
       ELSE tasks' = Outdated(id) /\ UNCHANGED <<gate, who>>
    /\ UNCHANGED <<disk, slotVars, loginTask, verdict, watchVars, frontVars, procVars, held>>

\* A wrong password keeps the vetted client; the other two give it back.
FinishBad(id) ==
    /\ FinishTakes(id) /\ ~tasks[id].good /\ MayRaise(1)
    /\ IF tasks[id].kind = "password"
       THEN slot' = Advanced(slot, tasks[id].gen, "prelogin") /\ UNCHANGED client
       ELSE UnassignIf(tasks[id].gen)
    /\ tasks' = IF Holds(slot, tasks[id].gen)
                THEN Moved(id, IF tasks[id].kind = "password" THEN "failed" ELSE "done")
                ELSE Outdated(id)
    /\ UNCHANGED <<disk, storeKey, loginTask, verdict, watchVars, frontVars, procVars, gateVars>>

\* The answer of a password sign-in, and session.changed for all three.
Announces(id) ==
    /\ tasks[id].stage = "announce"
    /\ tasks' = Moved(id, "done")
    /\ verdict' = Said(id, "ok")
    /\ Tell(SessionData)
    /\ UNCHANGED <<disk, slotVars, loginTask, watchVars, owed, procVars, gateVars>>

\* abort_login: a signed-in client is not a sign-in to abort.
Abort ==
    /\ gate = "free" /\ ~woken /\ MayRaise(1)
    /\ CancelLogin
    /\ IF slot.phase = "session"
       THEN UNCHANGED <<slot, client>>
       ELSE slot' = Cleared(slot) /\ client' = NoClient
    /\ UNCHANGED <<disk, storeKey, watchVars, frontVars, procVars, gateVars>>

-----------------------------------------------------------------------------
(* The teardown of a session, for a sign-out, an expiry and a rebuild.     *)

\* Closing first, then the sign-in, the observers, and every command that is
\* not the session's own (ReplyDebt): those, waiting here, survive it.
Teardown(step) ==
    /\ gate = "free" /\ MayRaise(2)
    /\ gate' = step
    /\ slot' = Closing(slot)
    /\ CancelLogin
    /\ watch' = NoWatch

\* The last step of every teardown: the caller alone has the client now.
TakesClient(from, step) ==
    /\ gate = from
    /\ held' = client /\ client' = NoClient
    /\ slot' = Cleared(slot)
    /\ gate' = step
    /\ UNCHANGED <<disk, storeKey, taskVars, watchVars, frontVars, procVars, who>>

Logout ==
    /\ ~woken
    /\ Teardown("logoutDrain")
    /\ UNCHANGED <<disk, client, storeKey, expiring, news, frontVars, procVars, who, held>>

LogoutDrains == TakesClient("logoutDrain", "logoutForget")

\* Mutant: the client is still held while the store is reset.
LogoutForgetsHolding ==
    /\ gate = "logoutForget"
    /\ file' = NoFile
    /\ gate' = "logoutReset"
    /\ UNCHANGED <<store, slotVars, taskVars, watchVars, frontVars, procVars, who, held>>

\* Mutant: the store is reset before the session file goes.
LogoutForgetsLate ==
    /\ gate = "logoutForget"
    /\ held' = NoClient
    /\ gate' = "logoutReset"
    /\ UNCHANGED <<disk, slotVars, taskVars, watchVars, frontVars, procVars, who>>

\* The server is told, the client dropped, and only then the file goes.
LogoutForgets ==
    /\ gate = "logoutForget"
    /\ held' = NoClient
    /\ file' = NoFile
    /\ gate' = "logoutReset"
    /\ UNCHANGED <<store, slotVars, taskVars, watchVars, frontVars, procVars, who>>

LogoutResets ==
    /\ gate = "logoutReset"
    /\ store' \in {EmptyStore} \cup Remains(store)
    /\ Tell("none")
    /\ gate' = "free"
    /\ UNCHANGED <<file, slotVars, taskVars, watchVars, owed, procVars, who, held>>

\* rebuild_store: from a running session too, or with nothing in the slot. The
\* pages that offer it are those of a session, running or unreadable.
Rebuild ==
    /\ ~woken /\ told # "none"
    /\ IF client # NoClient
       THEN Teardown("rebuildDrain")
       ELSE /\ gate = "free" /\ gate' = "rebuildWipe"
            /\ UNCHANGED <<slot, taskVars, watch>>
    /\ UNCHANGED <<disk, client, storeKey, expiring, news, frontVars, procVars, who, held>>

RebuildDrains == TakesClient("rebuildDrain", "rebuildSave")

\* A refresh in the teardown's window is on the client only.
RebuildSaves ==
    /\ gate = "rebuildSave"
    /\ \/ "session" \in LoadOutcomes(file, storeKey) /\ Persist(held)
       \/ LoadOutcomes(file, storeKey) # {"session"} /\ UNCHANGED <<file, alarms>>
    /\ held' = NoClient
    /\ gate' = "rebuildWipe"
    /\ UNCHANGED <<store, slotVars, taskVars, watchVars, told, owed, procVars, who>>

\* What the next sync rebuilds goes (SyncPosition models it); the crypto store,
\* the marker and the session file stay. The gate goes before the restore.
RebuildWipes ==
    /\ gate = "rebuildWipe"
    /\ \/ owed' = TRUE /\ UNCHANGED alarms
       \/ alarms' = alarms \cup {"rebuild"} /\ UNCHANGED owed
    /\ gate' = "free"
    /\ UNCHANGED <<disk, slotVars, taskVars, watchVars, told, procVars, who, held>>

\* session_expired: only for the client that expired.
Expire(g) ==
    /\ g \in expiring /\ expiring' = expiring \ {g}
    /\ IF Holds(slot, g)
       THEN Teardown("expireDrain")
       ELSE gate = "free" /\ UNCHANGED <<gate, slot, taskVars, watch>>
    /\ UNCHANGED <<disk, client, storeKey, news, frontVars, procVars, who, held>>

ExpireDrains == TakesClient("expireDrain", "expireForget")

\* Mutant: the session goes and nobody is told.
ExpireForgetsUntold ==
    /\ gate = "expireForget"
    /\ held' = NoClient
    /\ file' = NoFile
    /\ gate' = "free"
    /\ UNCHANGED <<store, slotVars, taskVars, watchVars, frontVars, procVars, who>>

ExpireForgets ==
    /\ gate = "expireForget"
    /\ held' = NoClient
    /\ file' = NoFile
    /\ news' = TRUE
    /\ gate' = "free"
    /\ UNCHANGED <<store, slotVars, taskVars, watch, expiring, frontVars, procVars, who>>

\* The same reset in the front end as after a sign-out, gate let go.
TellExpired ==
    /\ news /\ news' = FALSE
    /\ Tell("none")
    /\ UNCHANGED <<disk, slotVars, taskVars, watch, expiring, owed, procVars, gateVars>>

\* close_session, in the woken process: save what was refreshed ...
CloseSaves ==
    /\ gate = "free" /\ woken /\ MayRaise(1)
    /\ \/ slot.phase = "session" /\ "session" \in LoadOutcomes(file, storeKey) /\ Persist(client)
       \/ slot.phase # "session" /\ UNCHANGED <<file, alarms>>
       \/ LoadOutcomes(file, storeKey) # {"session"} /\ UNCHANGED <<file, alarms>>
    /\ gate' = "closeDrop"
    /\ UNCHANGED <<store, slotVars, taskVars, watchVars, told, owed, procVars, who, held>>

\* ... then the watcher and the client go.
CloseDrops ==
    /\ gate = "closeDrop"
    /\ watch' = NoWatch
    /\ slot' = Cleared(slot) /\ client' = NoClient
    /\ gate' = "free"
    /\ UNCHANGED <<disk, storeKey, taskVars, expiring, news, frontVars, procVars, who, held>>

-----------------------------------------------------------------------------
(* The tokens: the SDK refreshes them whenever a request of its meets a    *)
(* spent one, and its watcher writes them down.                            *)

\* An ended session refreshes nothing any more.
Refresh ==
    /\ client # NoClient /\ client.dev # NoDev /\ client.tok < MaxTok
    /\ expiring = {}
    /\ client' = [client EXCEPT !.tok = @ + 1]
    /\ watch' = IF watch.at = "off" THEN watch ELSE [watch EXCEPT !.at = "dirty"]
    /\ UNCHANGED <<disk, slot, storeKey, taskVars, expiring, news, frontVars, procVars, gateVars>>

\* Mutant: the refresh is noticed and not written.
WatchWritesNothing ==
    /\ gate = "free" /\ watch.at = "dirty"
    /\ watch' = [watch EXCEPT !.at = "idle"]
    /\ UNCHANGED <<disk, slotVars, taskVars, expiring, news, frontVars, procVars, gateVars>>

\* TokensRefreshed: under the gate, and only for the client it belongs to.
WatchWrites ==
    /\ gate = "free" /\ watch.at = "dirty"
    /\ IF Holds(slot, watch.gen) THEN Persist(client) ELSE UNCHANGED <<file, alarms>>
    /\ watch' = [watch EXCEPT !.at = "idle"]
    /\ UNCHANGED <<store, slotVars, taskVars, expiring, news, told, owed, procVars,
                   gateVars>>

\* UnknownToken, once what was reported before it has been written: the
\* watcher ends, and a task of its own tears the session down.
WatchEnds ==
    /\ watch.at = "idle"
    /\ expiring' = expiring \cup {watch.gen}
    /\ watch' = NoWatch
    /\ UNCHANGED <<disk, slotVars, taskVars, news, frontVars, procVars, gateVars>>

-----------------------------------------------------------------------------
(* The process dies, at any step, and is started again by the user or by a *)
(* push, with whatever the secrets service delivers by then.               *)

Crash ==
    /\ boots < MaxBoots /\ boots' = boots + 1
    /\ store' \in IF gate \in {"wipe", "logoutReset"} THEN Remains(store) ELSE {store}
    /\ storeKey' \in Keys \cup {NoKey}
    /\ woken' \in BOOLEAN
    /\ slot' = [generation |-> 0, phase |-> "empty"] /\ client' = NoClient
    /\ gate' = "free" /\ who' = 0 /\ held' = NoClient
    /\ loginTask' = 0
    /\ tasks' = [id \in Logins |->
                   [tasks[id] EXCEPT !.gen = 0, !.good = FALSE,
                      !.stage = IF @ \in {"idle", "done"} THEN @ ELSE "lost"]]
    /\ watch' = NoWatch /\ expiring' = {} /\ news' = FALSE
    /\ told' = "none" /\ alarms' = {} /\ owed' = FALSE
    /\ UNCHANGED <<file, verdict>>

Login(id) ==
    \/ \E kind \in Kinds : LoginRefused(id, kind) \/ LoginStarts(id, kind)
    \/ LoginReuses(id)
    \/ BrowserAsks(id) \/ DeviceAsks(id) \/ AttemptSucceeds(id) \/ AttemptFails(id)
    \/ Releases(id) \/ Offers(id) \/ Publishes(id) \/ Replies(id)
    \/ FinishGood(id) \/ FinishBad(id) \/ Announces(id)

\* What runs on under the gate once it is taken.
HolderStep ==
    \/ RestoreGivesUp \/ RestoreRefused \/ RestoreOpens \/ RestoreRepairs
    \/ BeginObserve \/ BeginPersist
    \/ LoginLooks \/ LoginWipes \/ LoginBuilds \/ LoginCannotBuild
    \/ LogoutDrains \/ LogoutForgets \/ LogoutResets
    \/ RebuildDrains \/ RebuildSaves \/ RebuildWipes
    \/ ExpireDrains \/ ExpireForgets \/ CloseDrops

Next ==
    \/ Restore \/ RebuildRestores
    \/ \E id \in Logins : Login(id)
    \/ Abort \/ Logout \/ Rebuild
    \/ \E g \in expiring : Expire(g)
    \/ HolderStep
    \/ TellExpired \/ CloseSaves
    \/ Refresh \/ WatchWrites \/ WatchEnds
    \/ Crash

Spec == Init /\ [][Next]_vars
-----------------------------------------------------------------------------
(* Properties. *)

TypeOK ==
    /\ file \in Files /\ store \in Stores
    /\ storeKey \in Keys \cup {NoKey}
    /\ slot \in Slots /\ client \in ClientRecords \cup {NoClient}
    /\ gate \in Steps /\ who \in Logins \cup {0} /\ held \in ClientRecords \cup {NoClient}
    /\ loginTask \in Logins \cup {0}
    /\ tasks \in [Logins -> Tasks] /\ verdict \in [Logins -> Verdicts]
    /\ watch \in Watches /\ expiring \in SUBSET (0..MaxGen) /\ news \in BOOLEAN
    /\ told \in States /\ alarms \in SUBSET Alarms
   /\ owed \in BOOLEAN
    /\ woken \in BOOLEAN /\ boots \in 1..MaxBoots

\* Whoever has a client, the slot or a teardown, has the databases it was
\* opened on, under the cipher it was opened with and of its own device: no
\* reset under an open store, no second cipher, no foreign device's keys
\* (lifecycle.rs: "Resetting under an open store shreds it").
OpenMatchesStore ==
    \A c \in {client, held} \ {NoClient} :
        /\ "db" \in store.files
        /\ c.key = store.key
        /\ c.dev \in {NoDev, store.dev}

\* A stored session always has its own device's store beside it, complete
\* enough to be opened as it was written, whatever was cut off half way.
StoredSessionHasStore ==
    file.present => /\ "db" \in store.files /\ file.dev = store.dev
                    /\ "marker" \in store.files <=> store.key # NoKey

\* Session file and store never come to need two different keys.
OneKey == file.present => file.key = NoKey \/ store.key \in {NoKey, file.key}

\* A session encrypted under a key stays under that key for as long as it is
\* stored: no handed-in or missing key locks the user out.
KeyKept == [][file.present /\ file.key # NoKey /\ file'.present => file'.key = file.key]_vars

\* The store is never taken apart while a session is stored or a client has it
\* open: a device's keys go with the session and never before it.
NoResetOverSession ==
    [][~(store.files \subseteq store'.files) =>
          ~file.present /\ client = NoClient /\ held = NoClient]_vars

Running == {"ask", "release", "offer", "publish", "wait", "finish"}

\* A sign-in on its way has the client it was given: cancel_login waits for
\* the task, so none outlives its slot and begins a session for a client that
\* was replaced (gate.rs, "a stale holder can tell it lost the client").
SignInOwnsClient ==
    \A id \in Logins : tasks[id].stage \in Running =>
        /\ Holds(slot, tasks[id].gen) /\ client # NoClient
        /\ loginTask = id

Settled == gate = "free" /\ ~owed /\ ~news /\ "rebuild" \notin alarms

\* What the front end shows as signed in is a session: an expiry, a rebuild
\* and a sign-out tell it, except where a rebuild's failure was the answer.
ToldSessionExists == told = "signedIn" /\ Settled /\ ~woken => slot.phase = "session"

\* A running session whose watcher has nothing left to write is on disk with
\* the tokens it holds, or the user was warned that it is not.
SavedOrSaid ==
    slot.phase = "session" /\ gate = "free" /\ watch.at = "idle" =>
        \/ file.present /\ file.dev = client.dev /\ file.tok = client.tok
        \/ "unsaved" \in alarms

-----------------------------------------------------------------------------
(* Liveness.  The mutex is handed over in line, so whoever waits for the   *)
(* gate gets it (SF); what runs under it is bounded by time limits, and so *)
(* is a request to the server (WF).  Nothing makes the user come back from *)
(* the browser or approve the code ("wait"), and no command is ever sent.  *)

Waiters(id) == Releases(id) \/ Offers(id) \/ Publishes(id) \/ FinishGood(id) \/ FinishBad(id)

Unattended(id) ==
    \/ BrowserAsks(id) \/ DeviceAsks(id) \/ Replies(id) \/ Announces(id)
    \/ tasks[id].kind = "password" /\ (AttemptSucceeds(id) \/ AttemptFails(id))

Fairness ==
    /\ WF_vars(HolderStep) /\ WF_vars(TellExpired)
    /\ SF_vars(RebuildRestores) /\ SF_vars(WatchWrites)
    /\ SF_vars(\E g \in expiring : Expire(g))
    /\ \A id \in Logins : SF_vars(Waiters(id)) /\ WF_vars(Unattended(id))

LiveSpec == Spec /\ Fairness

\* The bound on generations, not the code, stops a step here.
OutOfBounds == ~MayRaise(3)

\* Every sign-in command is answered by itself, by who cancels it, or dies
\* with the process: the spinner on the sign-in page always ends.
LoginIsAnswered ==
    \A id \in Logins :
        tasks[id].stage \in {"queued", "ask"} ~>
            verdict[id] # "owed" \/ tasks[id].stage = "lost" \/ OutOfBounds

\* However a rebuild of a running session ends, the front end is not left
\* with a session that is gone.
RebuildEnds ==
    gate = "rebuildDrain" ~>
        \/ slot.phase = "session" \/ told # "signedIn" \/ "rebuild" \in alarms \/ OutOfBounds

\* The session the server ended is told to have ended, whatever else runs.
ExpiryIsTold ==
    \A g \in 0..MaxGen :
        g \in expiring ~>
            \/ /\ ~Holds(slot, g)
               /\ told # "signedIn" \/ slot.phase = "session" \/ "rebuild" \in alarms
            \/ woken \/ OutOfBounds
=============================================================================
