-------------------------- MODULE PushRegistration --------------------------
(* The pusher of a session: the syncs that set it, the debt a failed one       *)
(* leaves, the one task that waits with it for the sync to run again, the      *)
(* record of pushers this installation set, and the teardown that ends all of  *)
(* them (core/src/runtime/pushcmd.rs, register and clear_own_pushers in        *)
(* core/src/push.rs, teardown and logout in runtime/lifecycle.rs).            *)
(*                                                                          *)
(* A pusher is its endpoint; endpoints are numbered as the distributor hands   *)
(* them out. A task's slot is taken over by the waiter it spawns. The picked   *)
(* gateway is complete throughout; one account; the old connector, a change of   *)
(* distributor and a registration the distributor withdraws are left out.       *)
EXTENDS Naturals, FiniteSets

CONSTANTS MaxTasks,       \* bound: tasks at a time
          MaxEndpoints,   \* bound: endpoints handed out
          MaxGen,         \* bound: generations of the session's slot
          MaxSyncs,       \* bound: syncs and drops besides a session's first
          MaxFailures     \* bound: requests that fail

ASSUME PushAssumption ==
    /\ MaxTasks \in Nat /\ MaxEndpoints \in Nat /\ MaxGen \in Nat
    /\ MaxSyncs \in Nat /\ MaxFailures \in Nat

Slots == 1..MaxTasks
None == 0
Endpoints == 1..MaxEndpoints

(* A task tears down with the session if it is a push task, and is drained with  *)
(* the commands if it is not.                                                 *)
Roles == {"start", "event", "command", "drop", "waiter"}
Requests == {"ask", "set", "tidy"}
Places == {"idle", "lock", "keep", "write", "drop", "forget", "forgive", "owe", "note", "claim",
           "spawn", "wait", "decide", "leave", "look"} \cup Requests
Phases == {"none", "session", "closing", "draining", "clearing"}

VARIABLES gen, phase,     \* the session's slot, and how far a teardown is
          signOut,        \* the teardown is a sign-out's
          endpoint,       \* Leghorn's endpoint; 0: push is off
          last,           \* leghorn::matrix::last_pusher
          issued,         \* endpoints handed out so far
          dirty,          \* State::push_dirty
          waiting,        \* State::push_waiting
          registered,     \* State::push_registered
          serial,         \* who holds State::push_sync
          task,           \* what each task is and where
          ran,            \* waiters that have not yet seen the sync run
          record,         \* push_owned: endpoints noted for the account
          server,         \* this installation's pushers on the homeserver
          late,           \* requests given up on that may still arrive
          struck,         \* endpoints a delete that came late took off the server
          syncs, failures

slotVars == <<gen, phase, signOut>>
pushVars == <<endpoint, last, issued>>
flagVars == <<dirty, waiting>>
serverVars == <<record, server, late, struck>>
boundVars == <<syncs, failures>>
vars == <<slotVars, pushVars, flagVars, registered, serial, task, ran, serverVars, boundVars>>

New(role, at, g, key) ==
    [role |-> role, at |-> at, gen |-> g, key |-> key, listed |-> {}, cleared |-> FALSE]

Idle == New("start", "idle", 0, 0)

TypeOK ==
    /\ gen \in 0..MaxGen /\ phase \in Phases /\ signOut \in BOOLEAN
    /\ endpoint \in 0..MaxEndpoints /\ last \in 0..MaxEndpoints /\ issued \in 0..MaxEndpoints
    /\ dirty \in BOOLEAN /\ waiting \in BOOLEAN
    /\ registered \in 0..MaxEndpoints
    /\ serial \in Slots \cup {None}
    /\ task \in [Slots -> [role : Roles, at : Places, gen : 0..MaxGen, key : 0..MaxEndpoints,
                           listed : SUBSET Endpoints, cleared : BOOLEAN]]
    /\ ran \subseteq Slots
    /\ record \subseteq Endpoints /\ server \subseteq Endpoints
    /\ late \subseteq Endpoints \X {"set", "delete"} /\ struck \subseteq Endpoints
    /\ syncs \in 0..MaxSyncs /\ failures \in 0..MaxFailures

Init ==
    /\ gen = 0 /\ phase = "none" /\ signOut = FALSE
    /\ endpoint = 0 /\ last = 0 /\ issued = 0
    /\ dirty = FALSE /\ waiting = FALSE /\ registered = 0
    /\ serial = None /\ task = [t \in Slots |-> Idle] /\ ran = {}
    /\ record = {} /\ server = {} /\ late = {} /\ struck = {}
    /\ syncs = 0 /\ failures = 0

-----------------------------------------------------------------------------
(* Tasks *)

(* still: the generation is the session.                                      *)
Still(g) == phase = "session" /\ gen = g

At(t, place) == task[t].at = place
Goes(t, place) == task' = [task EXCEPT ![t].at = place]
Ends(t) == task' = [task EXCEPT ![t] = Idle]

(* A task takes the first free slot.                                           *)
Free(t) == At(t, "idle") /\ \A u \in Slots : At(u, "idle") => t <= u

Spawn(t, role, key) ==
    /\ Free(t)
    /\ task' = [task EXCEPT ![t] = New(role, "lock", gen, key)]

(* push_sync returns: the lock goes, and what comes next is the caller's.        *)
Returns(t, result) ==
    /\ serial' = None
    /\ IF task[t].role = "waiter"
       THEN Goes(t, CASE result = "ok" -> "decide"
                      [] result = "refused" -> "forgive"
                      [] result = "failed" -> "wait")
       ELSE CASE result = "ok" -> Ends(t)
              [] result = "refused" -> Goes(t, "forgive")
              [] result = "failed" -> Goes(t, "owe")

Fails == failures < MaxFailures /\ failures' = failures + 1

-----------------------------------------------------------------------------
(* What starts a sync *)

(* begin_session: the slot's session, and a push task for its pusher.           *)
SessionStarts(t) ==
    /\ phase = "none" /\ gen + 2 <= MaxGen
    /\ phase' = "session" /\ gen' = gen + 1
    /\ Free(t)
    /\ task' = [task EXCEPT ![t] = New("start", "lock", gen + 1, 0)]
    /\ UNCHANGED <<signOut, pushVars, flagVars, registered, serial, ran, serverVars, boundVars>>

More == syncs < MaxSyncs /\ syncs' = syncs + 1

(* The distributor hands out an endpoint: an event, handled one at a time, or the  *)
(* answer to an enable. Either way the sync is told which.                       *)
NewEndpoint(t, role) ==
    /\ More /\ issued < MaxEndpoints
    /\ role = "event" => endpoint # 0 /\ \A u \in Slots : task[u].role = "event" => At(u, "idle")
    /\ issued' = issued + 1 /\ endpoint' = issued + 1 /\ last' = issued + 1
    /\ IF phase = "session" THEN Spawn(t, role, issued + 1) ELSE UNCHANGED task
    /\ UNCHANGED <<slotVars, flagVars, registered, serial, ran, serverVars, failures>>

(* push.status, while push is on.                                              *)
Status(t) ==
    /\ More /\ endpoint # 0
    /\ phase = "session" /\ Spawn(t, "command", 0)
    /\ UNCHANGED <<slotVars, pushVars, flagVars, registered, serial, ran, serverVars, failures>>

(* push.disable.                                                              *)
Disable(t) ==
    /\ More
    /\ phase \in {"none", "session"} /\ Spawn(t, "drop", 0)
    /\ UNCHANGED <<slotVars, pushVars, flagVars, registered, serial, ran, serverVars, failures>>

(* The sync service reached Running: who has subscribed will see it.             *)
SyncRuns ==
    /\ phase = "session"
    /\ ran' = {t \in Slots : task[t].role = "waiter" \/ At(t, "spawn")}
    /\ ran' # ran
    /\ UNCHANGED <<slotVars, pushVars, flagVars, registered, serial, task, serverVars, boundVars>>

-----------------------------------------------------------------------------
(* push_sync and drop_registration, under the lock *)

rest == <<slotVars, issued, ran, boundVars>>

(* No client for this generation: nothing is done. Nothing to set and nothing    *)
(* left over: nothing is owed.                                                *)
EnterSync(t) ==
    LET key == IF task[t].key # 0 THEN task[t].key ELSE endpoint IN
    /\ At(t, "lock") /\ task[t].role # "drop" /\ serial = None
    /\ \/ /\ ~Still(task[t].gen)
          /\ Returns(t, "ok")
          /\ UNCHANGED <<dirty, record>>
       \/ /\ Still(task[t].gen) /\ key = 0 /\ last = 0 /\ record = {}
          /\ dirty' = FALSE
          /\ Returns(t, "ok")
          /\ UNCHANGED record
       \/ /\ Still(task[t].gen) /\ (key # 0 \/ last # 0 \/ record # {})
          /\ serial' = t
          /\ task' = [task EXCEPT ![t].at = "ask", ![t].key = key]
          /\ record' = IF key = 0 THEN record \cup ({last} \ {0}) ELSE record
          /\ UNCHANGED dirty
    /\ UNCHANGED <<rest, endpoint, last, waiting, registered, server, late, struck>>

(* Switching off names the pushkeys this device has in hand.                     *)
EnterDrop(t) ==
    /\ At(t, "lock") /\ task[t].role = "drop" /\ serial = None
    /\ serial' = t
    /\ IF phase = "session"
       THEN /\ task' = [task EXCEPT ![t].at = "ask", ![t].gen = gen]
            /\ record' = record \cup ({endpoint, last} \ {0})
       ELSE Goes(t, "drop") /\ UNCHANGED record
    /\ UNCHANGED <<rest, endpoint, last, flagVars, registered, server, late, struck>>

(* A bug: a sync that clears notes the pusher it has not.                        *)
ListNotesNone(t) ==
    /\ At(t, "ask")
    /\ record' = IF Still(task[t].gen) THEN record \cup {task[t].key} ELSE record
    /\ task' = [task EXCEPT ![t].at = IF task[t].key \in server \cup {0} THEN "tidy" ELSE "set",
                            ![t].listed = server]
    /\ UNCHANGED <<rest, endpoint, last, flagVars, registered, serial, server, late, struck>>

(* server_pushers answers; the pusher is noted before it is set.                 *)
List(t) ==
    /\ At(t, "ask")
    /\ record' = IF task[t].key # 0 /\ Still(task[t].gen) THEN record \cup {task[t].key} ELSE record
    /\ task' = [task EXCEPT ![t].at = IF task[t].key \in server \cup {0} THEN "tidy" ELSE "set",
                            ![t].listed = server]
    /\ UNCHANGED <<rest, endpoint, last, flagVars, registered, serial, server, late, struck>>

Set(t) ==
    /\ At(t, "set")
    /\ server' = server \cup {task[t].key}
    /\ Goes(t, "tidy")
    /\ UNCHANGED <<rest, endpoint, last, flagVars, registered, serial, record, late, struck>>

(* A request that fails, to a drop or a sync. One nobody heard the answer of may   *)
(* arrive later.                                                              *)
Failed(t, result) ==
    IF task[t].role = "drop"
    THEN Goes(t, "drop") /\ UNCHANGED serial
    ELSE Returns(t, result)

AskFails(t, result) ==
    /\ At(t, "ask") /\ Fails
    /\ Failed(t, result)
    /\ UNCHANGED <<slotVars, pushVars, flagVars, registered, ran, serverVars, syncs>>

SetFails(t, result) ==
    /\ At(t, "set") /\ Fails
    /\ late' = IF result = "failed" THEN late \cup {<<task[t].key, "set">>} ELSE late
    /\ Failed(t, result)
    /\ UNCHANGED <<slotVars, pushVars, flagVars, registered, ran, record, server, struck, syncs>>

(* A bug: the one just set goes with the others.                                *)
StaleWithOwn(t) == (task[t].listed \cup {task[t].key}) \cap record

(* The pushers of the record are deleted, the one just set excepted; what was     *)
(* deleted and what was not there leaves the record.                            *)
Stale(t) == ((task[t].listed \cup {task[t].key}) \cap record) \ {task[t].key}

Tidied(t, removed) ==
    IF Still(task[t].gen)
    THEN /\ server' = server \ removed
         /\ record' = record \cap ((task[t].listed \cup {task[t].key}) \ removed)
    ELSE UNCHANGED <<server, record>>

Tidy(t) ==
    /\ At(t, "tidy")
    /\ Tidied(t, Stale(t))
    /\ IF task[t].role = "drop"
       THEN task' = [task EXCEPT ![t].at = "drop", ![t].cleared = Still(task[t].gen)]
       ELSE Goes(t, "keep")
    /\ UNCHANGED <<rest, endpoint, last, flagVars, registered, serial, late, struck>>

(* One that could not be deleted stays for the next time; only clearing them all   *)
(* calls it a failure.                                                        *)
TidyFails(t, k, result) ==
    /\ At(t, "tidy") /\ Still(task[t].gen) /\ k \in Stale(t) /\ Fails
    /\ Tidied(t, Stale(t) \ {k})
    /\ late' = IF result = "failed" THEN late \cup {<<k, "delete">>} ELSE late
    /\ IF task[t].key # 0
       THEN Goes(t, "keep") /\ UNCHANGED serial
       ELSE Failed(t, result)
    /\ UNCHANGED <<slotVars, pushVars, flagVars, registered, ran, struck, syncs>>

(* What the sync came to is kept only while its session is the one.              *)
Keep(t) ==
    /\ At(t, "keep")
    /\ IF ~Still(task[t].gen)
       THEN Returns(t, "ok") /\ UNCHANGED last
       ELSE /\ Goes(t, "write") /\ UNCHANGED serial
            /\ last' = IF task[t].key = 0 THEN 0 ELSE last
    /\ UNCHANGED <<rest, endpoint, flagVars, registered, serverVars>>

(* A bug: paying does not strike the debt.                                      *)
WriteOwes(t) ==
    /\ At(t, "write")
    /\ registered' = IF task[t].key = 0 THEN registered ELSE task[t].key
    /\ Returns(t, "ok")
    /\ UNCHANGED <<rest, endpoint, last, flagVars, serverVars>>

Write(t) ==
    /\ At(t, "write")
    /\ registered' = IF task[t].key = 0 THEN registered ELSE task[t].key
    /\ dirty' = FALSE
    /\ Returns(t, "ok")
    /\ UNCHANGED <<rest, endpoint, last, waiting, serverVars>>

(* Nothing counts as registered any more; the lock goes before the distributor is *)
(* told.                                                                      *)
Drop(t) ==
    /\ At(t, "drop")
    /\ registered' = 0
    /\ serial' = None
    /\ Goes(t, "forget")
    /\ UNCHANGED <<rest, endpoint, last, flagVars, serverVars>>

(* Without its pusher Leghorn forgets the registration; with one left on the       *)
(* server it only stops, and keeps the name of it.                              *)
Forget(t) ==
    /\ At(t, "forget")
    /\ endpoint' = 0
    /\ last' = IF task[t].cleared THEN 0 ELSE last
    /\ Ends(t)
    /\ UNCHANGED <<rest, flagVars, registered, serial, serverVars>>

-----------------------------------------------------------------------------
(* A failure's debt and the task that waits with it *)

(* Refused: not asked again.                                                   *)
Forgive(t) ==
    /\ At(t, "forgive")
    /\ dirty' = FALSE
    /\ IF task[t].role = "waiter" THEN Goes(t, "leave") ELSE Ends(t)
    /\ UNCHANGED <<rest, endpoint, last, waiting, registered, serial, serverVars>>

(* retry_on_running looks at the session's slot and lets go of it again.           *)
Owe(t) ==
    /\ At(t, "owe")
    /\ IF Still(task[t].gen) THEN Goes(t, "note") ELSE Ends(t)
    /\ UNCHANGED <<rest, endpoint, last, flagVars, registered, serial, serverVars>>

(* A teardown may have cleared the flags since, the session may be gone.           *)
Note(t) ==
    /\ At(t, "note")
    /\ dirty' = TRUE
    /\ Goes(t, "claim")
    /\ UNCHANGED <<rest, endpoint, last, waiting, registered, serial, serverVars>>

Claim(t) ==
    /\ At(t, "claim")
    /\ waiting' = TRUE
    /\ IF waiting THEN Ends(t) ELSE Goes(t, "spawn")
    /\ ran' = ran \ {t}
    /\ UNCHANGED <<slotVars, issued, boundVars, endpoint, last, dirty, registered, serial, serverVars>>

(* spawn_session_task: refused once the generation is no longer the session.      *)
SpawnWaiter(t) ==
    /\ At(t, "spawn")
    /\ IF Still(task[t].gen)
       THEN /\ task' = [task EXCEPT ![t] = New("waiter", "wait", task[t].gen, 0)]
            /\ UNCHANGED waiting
       ELSE Ends(t) /\ waiting' = FALSE
    /\ UNCHANGED <<rest, endpoint, last, dirty, registered, serial, serverVars>>

Wake(t) ==
    /\ At(t, "wait") /\ t \in ran
    /\ ran' = ran \ {t}
    /\ IF ~dirty THEN Goes(t, "leave")
       ELSE IF Still(task[t].gen) THEN task' = [task EXCEPT ![t].at = "lock", ![t].key = 0]
       ELSE Ends(t)
    /\ UNCHANGED <<slotVars, pushVars, flagVars, registered, serial, serverVars, boundVars>>

(* A sync that found no client leaves the debt, and so does one noted meanwhile.   *)
Decide(t) ==
    /\ At(t, "decide")
    /\ Goes(t, IF dirty THEN "wait" ELSE "leave")
    /\ UNCHANGED <<rest, endpoint, last, flagVars, registered, serial, serverVars>>

Leave(t) ==
    /\ At(t, "leave")
    /\ waiting' = FALSE
    /\ Goes(t, "look")
    /\ UNCHANGED <<rest, endpoint, last, dirty, registered, serial, serverVars>>

(* A bug: the waiter that leaves does not look back.                             *)
LookAway(t) ==
    /\ At(t, "look")
    /\ Ends(t)
    /\ UNCHANGED <<rest, endpoint, last, flagVars, registered, serial, serverVars>>

(* A debt noted while this waiter was on its way out saw it still waiting.        *)
Look(t) ==
    /\ At(t, "look")
    /\ IF dirty /\ Still(task[t].gen)
       THEN /\ waiting' = TRUE
            /\ IF waiting THEN Ends(t) ELSE Goes(t, "wait")
       ELSE Ends(t) /\ UNCHANGED waiting
    /\ UNCHANGED <<rest, endpoint, last, dirty, registered, serial, serverVars>>

-----------------------------------------------------------------------------
(* The teardown *)

PushTasks == {t \in Slots : ~At(t, "idle") /\ task[t].role \in {"start", "event", "waiter"}}
Commands == {t \in Slots : ~At(t, "idle") /\ task[t].role \in {"command", "drop"}}

Closes(out) ==
    /\ phase = "session"
    /\ phase' = "closing" /\ gen' = gen + 1 /\ signOut' = out
    /\ UNCHANGED <<pushVars, flagVars, registered, serial, task, ran, serverVars, boundVars>>

(* An aborted task ends where it waits; the request it had sent may still arrive.  *)
Aborted(t) ==
    /\ task[t].at \in {"lock", "wait"} \cup Requests
    /\ Ends(t)
    /\ serial' = IF serial = t THEN None ELSE serial
    /\ late' = late \cup (IF At(t, "set") THEN {<<task[t].key, "set">>} ELSE {})
                    \cup (IF At(t, "tidy") THEN Stale(t) \X {"delete"} ELSE {})
    /\ UNCHANGED <<slotVars, pushVars, flagVars, registered, ran, record, server, struck, boundVars>>

AbortPushTask(t) == phase = "closing" /\ t \in PushTasks /\ Aborted(t)

(* stop_push_tasks: none is left, and nothing is owed or waited for.             *)
StopPushTasks ==
    /\ phase = "closing" /\ PushTasks = {}
    /\ phase' = "draining"
    /\ dirty' = FALSE /\ waiting' = FALSE /\ registered' = 0
    /\ UNCHANGED <<gen, signOut, pushVars, serial, task, ran, serverVars, boundVars>>

DrainCommand(t) == phase = "draining" /\ t \in Commands /\ Aborted(t)

Drained ==
    /\ phase = "draining" /\ Commands = {}
    /\ phase' = IF signOut THEN "clearing" ELSE "none"
    /\ UNCHANGED <<gen, signOut, pushVars, flagVars, registered, serial, task, ran, serverVars,
                   boundVars>>

(* logout: the pushers go while there is a client that may ask, as far as the      *)
(* server answers, and Leghorn forgets.                                        *)
Noted == record \cup ({endpoint, last} \ {0})

Clears(left) ==
    /\ phase = "clearing"
    /\ left \subseteq server \/ left = Noted
    /\ IF left = {} THEN UNCHANGED failures ELSE Fails
    /\ record' = IF left = {} THEN {} ELSE left
    /\ server' = server \ (Noted \ left)
    /\ phase' = "none"
    /\ endpoint' = 0 /\ last' = 0 /\ registered' = 0
    /\ UNCHANGED <<gen, signOut, issued, flagVars, serial, task, ran, late, struck, syncs>>

(* Nobody waited for the end of a request: it arrives now, or never.              *)
Arrives(k, what) ==
    /\ <<k, what>> \in late
    /\ late' = late \ {<<k, what>>}
    /\ IF what = "set"
       THEN server' = server \cup {k} /\ UNCHANGED struck
       ELSE server' = server \ {k} /\ struck' = struck \cup {k}
    /\ UNCHANGED <<slotVars, pushVars, flagVars, registered, serial, task, ran, record, boundVars>>

-----------------------------------------------------------------------------

Starts(t) ==
    \/ SessionStarts(t) \/ Status(t) \/ Disable(t)
    \/ \E role \in {"event", "command"} : NewEndpoint(t, role)

Request(t) ==
    \/ List(t) \/ Set(t) \/ Tidy(t)
    \/ \E result \in {"failed", "refused"} :
        AskFails(t, result) \/ SetFails(t, result) \/ \E k \in Endpoints : TidyFails(t, k, result)

Step(t) ==
    \/ EnterSync(t) \/ EnterDrop(t) \/ Request(t) \/ Keep(t) \/ Write(t) \/ Drop(t) \/ Forget(t)
    \/ Forgive(t) \/ Owe(t) \/ Note(t) \/ Claim(t) \/ SpawnWaiter(t)
    \/ Wake(t) \/ Decide(t) \/ Leave(t) \/ Look(t)

Teardown ==
    \/ \E t \in Slots : AbortPushTask(t) \/ DrainCommand(t)
    \/ StopPushTasks \/ Drained \/ \E left \in SUBSET Noted : Clears(left)

Next ==
    \/ \E t \in Slots : Starts(t) \/ Step(t)
    \/ SyncRuns \/ Teardown
    \/ \E out \in BOOLEAN : Closes(out)
    \/ \E k \in Endpoints, what \in {"set", "delete"} : Arrives(k, what)

(* Tasks run, requests end, and the sync comes back again and again.             *)
Fairness == (\A t \in Slots : WF_vars(Step(t))) /\ WF_vars(SyncRuns) /\ WF_vars(Teardown)

Spec == Init /\ [][Next]_vars /\ Fairness

-----------------------------------------------------------------------------
(* Properties *)

Waiters == {t \in Slots : task[t].role = "waiter" /\ ~At(t, "idle")}

(* Who will pay, or note that nobody does: a waiter that has not left, or a sync    *)
(* of this session on its way.                                                *)
Minded ==
    \/ \E t \in Waiters : task[t].gen = gen
    \/ \E t \in Slots : ~At(t, "idle") /\ task[t].role \in {"start", "event", "command"}
                        /\ task[t].gen = gen

(* A debt of the session is always somebody's: the waiter that is there, or a sync  *)
(* that has yet to end; and one waiter at a time claims it, though flags, not a     *)
(* lock, decide who leaves (retry_on_running, wait_for_running, stop_push_tasks).  *)
DebtMinded ==
    phase = "session" =>
        /\ dirty => Minded
        /\ Cardinality({t \in Waiters : ~At(t, "look")}) <= 1

(* What the page says of the registration is so: outside a change, the endpoint    *)
(* counted as registered has its pusher on the homeserver, unless a delete whose  *)
(* answer nobody heard took it away (push_sync, register, drop_registration).     *)
RegisteredIsSo ==
    phase = "session" /\ serial = None /\ registered = endpoint /\ endpoint # 0
        => endpoint \in server \cup struck

(* A debt is paid, forgiven or taken away by its teardown, or else no session is     *)
(* left: one noted behind the teardown's back stays for the next session, whose     *)
(* first sync has to settle it like one of its own (retry_on_running,             *)
(* wait_for_running, stop_push_tasks, begin_session).                           *)
DebtEnds == dirty ~> (~dirty \/ phase = "none")
=============================================================================
