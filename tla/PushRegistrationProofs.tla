---------------------- MODULE PushRegistrationProofs ----------------------
(* Proofs about PushRegistration, for any number of tasks, endpoints,        *)
(* sessions and failures: a debt of the session is always somebody's, one      *)
(* waiter at a time claims it, and what is said to be registered is so.       *)
EXTENDS PushRegistration, FiniteSetTheorems, TLAPS

-----------------------------------------------------------------------------
(* The inductive invariant *)

Tasks == [role : Roles, at : Places, gen : 0..MaxGen, key : 0..MaxEndpoints,
          listed : SUBSET Endpoints, cleared : BOOLEAN]

(* What a task may be doing, by what it is.                                     *)
Placed(k) ==
    /\ k.at = "idle" => k.role = "start"
    /\ k.at \in {"owe", "note", "claim", "spawn"} => k.role \in {"start", "event", "command"}
    /\ k.at \in {"wait", "decide", "leave", "look"} => k.role = "waiter"
    /\ k.at \in {"drop", "forget"} => k.role = "drop"
    /\ k.role = "drop" => k.key = 0 /\ k.at \in {"lock", "ask", "tidy", "drop", "forget"}
    /\ k.at = "set" => k.key # 0

(* Whoever set the waiting flag holds it until the waiter leaves.               *)
Owns(k) == k.at = "spawn" \/ (k.role = "waiter" /\ k.at # "look")

(* A task that syncs: it has to do with the flags.                              *)
Syncs(k) == k.at # "idle" /\ k.role # "drop"

AllPlaced == \A t \in Slots : Placed(task[t])

(* In a session nobody is left of an earlier one, the flag is one task's, and a    *)
(* debt has somebody.                                                         *)
Sessions ==
    phase = "session" =>
        /\ gen + 1 <= MaxGen
        /\ \A t \in Slots : Syncs(task[t]) => task[t].gen = gen
        /\ \A t, u \in Slots : Owns(task[t]) /\ Owns(task[u]) => t = u
        /\ waiting => \E t \in Slots : Owns(task[t])
        /\ \A t \in Slots : Owns(task[t]) => waiting
        /\ dirty => \E t \in Slots : Syncs(task[t])

(* While commands are drained, only one on its way to a refused spawn has the      *)
(* flag; what it noted may stay.                                               *)
Drains ==
    phase = "draining" =>
        /\ \A t \in Slots : task[t].at # "idle" => task[t].role \in {"command", "drop"}
        /\ waiting => \E t \in Slots : task[t].at = "spawn"

(* Without a session nobody waits, and nobody is there who would: a debt that is   *)
(* still noted is the next session's.                                          *)
Rests ==
    phase \in {"none", "clearing"} =>
        ~waiting /\ \A t \in Slots : ~Syncs(task[t])

Flags == AllPlaced /\ Sessions /\ Drains /\ Rests

IInv == TypeOK /\ Flags

(* Between taking the lock and leaving it.                                       *)
Syncing == {"ask", "set", "tidy", "keep", "write"}
Locking == Syncing \cup {"drop"}

(* The lock is one task's.                                                      *)
Locked == \A t \in Slots : task[t].at \in Locking <=> serial = t

(* No endpoint is named that was not handed out: a new one is not the registered.  *)
HandedOut ==
    /\ endpoint <= issued /\ registered <= issued
    /\ \A t \in Slots : task[t].key <= issued

(* Behind the request that sets it, a sync's pusher is on the server, or was taken  *)
(* away by a late delete.                                                        *)
PusherSet ==
    \A t \in Slots : task[t].at \in {"tidy", "keep", "write"} /\ task[t].key # 0
        => task[t].key \in server \cup struck

(* A sync that found nothing to set runs beside no registered endpoint; in a         *)
(* teardown whatever counted as registered is gone before the last syncs end.        *)
NothingBeside ==
    \A t \in Slots : task[t].at \in Syncing /\ task[t].role # "drop" =>
        /\ task[t].key = 0 => registered # endpoint \/ endpoint = 0
        /\ phase = "draining" => registered = 0

(* Who may have deleted the registered pusher and is still to say so.               *)
SaysSo(k) ==
    \/ k.at \in {"keep", "write"} /\ k.key \notin {0, endpoint}
    \/ k.at = "drop"

(* The registered endpoint has its pusher, or had it taken away late, or who holds   *)
(* the lock is about to take back what was said of it.                           *)
Registered ==
    phase # "closing" /\ registered = endpoint /\ endpoint # 0 =>
        \/ endpoint \in server \cup struck
        \/ \E t \in Slots : serial = t /\ SaysSo(task[t])

RegInv == Locked /\ HandedOut /\ PusherSet /\ NothingBeside /\ Registered

-----------------------------------------------------------------------------
(* What a task's step does to the tasks *)

(* Everything TypeOK says but of the tasks.                                     *)
RestOK ==
    /\ gen \in 0..MaxGen /\ phase \in Phases /\ signOut \in BOOLEAN
    /\ endpoint \in 0..MaxEndpoints /\ last \in 0..MaxEndpoints /\ issued \in 0..MaxEndpoints
    /\ dirty \in BOOLEAN /\ waiting \in BOOLEAN
    /\ registered \in 0..MaxEndpoints
    /\ serial \in Slots \cup {None}
    /\ ran \subseteq Slots
    /\ record \subseteq Endpoints /\ server \subseteq Endpoints
    /\ late \subseteq Endpoints \X {"set", "delete"} /\ struck \subseteq Endpoints
    /\ syncs \in 0..MaxSyncs /\ failures \in 0..MaxFailures

LEMMA TypeParts == TypeOK <=> RestOK /\ task \in [Slots -> Tasks]
BY DEF TypeOK, RestOK, Tasks

LEMMA TypePartsNext == TypeOK' <=> RestOK' /\ task' \in [Slots -> Tasks]
BY DEF TypeOK, RestOK, Tasks

(* One task is another record; the others are what they were.                   *)
Alone(t) == task' \in [Slots -> Tasks] /\ \A u \in Slots \ {t} : task'[u] = task[u]

LEMMA GoesFacts ==
    ASSUME task \in [Slots -> Tasks], NEW t \in Slots, NEW place \in Places, Goes(t, place)
    PROVE  /\ Alone(t)
           /\ task'[t].at = place
           /\ task'[t].role = task[t].role
           /\ task'[t].gen = task[t].gen
           /\ task'[t].key = task[t].key
BY DEF Goes, Alone, Tasks

LEMMA EndsFacts ==
    ASSUME task \in [Slots -> Tasks], NEW t \in Slots, Ends(t)
    PROVE  /\ Alone(t)
           /\ task'[t] = Idle
           /\ Idle \in Tasks /\ Idle.at = "idle" /\ Idle.role = "start"
BY PushAssumption DEF Ends, Alone, Tasks, Idle, New, Roles, Places, Requests

(* The flags are kept by a step of one task that is still placed, when the flag    *)
(* moves with its owner and a debt it leaves has somebody else.                  *)
Handed(t) ==
    /\ Alone(t)
    /\ phase' = phase /\ gen' = gen
    /\ Placed(task'[t])
    /\ Syncs(task'[t]) => Syncs(task[t]) /\ task'[t].gen = task[t].gen
    /\ phase = "draining" /\ task'[t].at # "idle" =>
            task[t].at # "idle" /\ task'[t].role = task[t].role
    /\ phase = "draining" /\ waiting' => task'[t].at = "spawn" \/ (waiting /\ task[t].at # "spawn")
    /\ phase = "session" =>
            \/ (Owns(task'[t]) <=> Owns(task[t])) /\ (waiting' <=> waiting)
            \/ ~Owns(task[t]) /\ ~waiting /\ waiting' /\ Owns(task'[t])
            \/ Owns(task[t]) /\ ~waiting' /\ ~Owns(task'[t])
    /\ phase = "session" /\ dirty' =>
            \/ Syncs(task'[t])
            \/ waiting /\ ~Owns(task[t])
            \/ dirty /\ ~Syncs(task[t])
    /\ Syncs(task[t]) \/ ((dirty' <=> dirty) /\ (waiting' <=> waiting))

LEMMA OwnerSyncs == ASSUME NEW k, Placed(k), Owns(k) PROVE Syncs(k)
BY DEF Placed, Owns, Syncs

LEMMA HandedKeeps ==
    ASSUME Flags, NEW t \in Slots, Handed(t)
    PROVE  Flags'
<1>0. /\ Alone(t) /\ phase' = phase /\ gen' = gen
  BY DEF Handed
<1>1. \A u \in Slots : u # t => task'[u] = task[u]
  BY <1>0 DEF Alone
<1>2. AllPlaced'
  BY <1>1 DEF Handed, Flags, AllPlaced
<1>3. Sessions'
  <2> SUFFICES ASSUME phase = "session" PROVE Sessions'
    BY <1>0 DEF Sessions
  <2>1. /\ gen + 1 <= MaxGen
        /\ \A u \in Slots : Syncs(task[u]) => task[u].gen = gen
        /\ \A u, v \in Slots : Owns(task[u]) /\ Owns(task[v]) => u = v
        /\ waiting => \E u \in Slots : Owns(task[u])
        /\ \A u \in Slots : Owns(task[u]) => waiting
        /\ dirty => \E u \in Slots : Syncs(task[u])
    BY DEF Flags, Sessions
  <2>2. /\ Syncs(task'[t]) => Syncs(task[t]) /\ task'[t].gen = task[t].gen
        /\ \/ (Owns(task'[t]) <=> Owns(task[t])) /\ (waiting' <=> waiting)
           \/ ~Owns(task[t]) /\ ~waiting /\ waiting' /\ Owns(task'[t])
           \/ Owns(task[t]) /\ ~waiting' /\ ~Owns(task'[t])
        /\ dirty' => \/ Syncs(task'[t])
                     \/ waiting /\ ~Owns(task[t])
                     \/ dirty /\ ~Syncs(task[t])
    BY DEF Handed
  <2>3. \A u \in Slots : Owns(task[u]) => Syncs(task[u])
    BY OwnerSyncs DEF Flags, AllPlaced
  <2>4. gen' + 1 <= MaxGen
    BY <1>0, <2>1
  <2>5. \A u \in Slots : Syncs(task'[u]) => task'[u].gen = gen'
    BY <1>0, <1>1, <2>1, <2>2
  <2>6. \A u, v \in Slots : Owns(task'[u]) /\ Owns(task'[v]) => u = v
    BY <1>1, <2>1, <2>2
  <2>7. waiting' => \E u \in Slots : Owns(task'[u])
    BY <1>1, <2>1, <2>2
  <2>8. \A u \in Slots : Owns(task'[u]) => waiting'
    BY <1>1, <2>1, <2>2
  <2>9. dirty' => \E u \in Slots : Syncs(task'[u])
    BY <1>1, <2>1, <2>2, <2>3
  <2> QED BY <2>4, <2>5, <2>6, <2>7, <2>8, <2>9 DEF Sessions, Owns, Syncs
<1>4. Drains'
  BY <1>0, <1>1 DEF Handed, Flags, Drains
<1>5. Rests'
  BY <1>0, <1>1 DEF Handed, Flags, Rests, Syncs
<1> QED BY <1>2, <1>3, <1>4, <1>5 DEF Flags

-----------------------------------------------------------------------------
(* Each step of a task *)

(* A returning sync moves its waiter on, or ends or sends its caller to what comes. *)
LEMMA ReturnsFacts ==
    ASSUME task \in [Slots -> Tasks], NEW t \in Slots, task[t].at # "idle",
           task[t].role # "drop", Placed(task[t]),
           NEW result \in {"ok", "refused", "failed"}, Returns(t, result)
    PROVE  /\ Alone(t) /\ serial' = None
           /\ Placed(task'[t])
           /\ task'[t].at # "idle" =>
                /\ task'[t].role = task[t].role /\ task'[t].gen = task[t].gen
                /\ task'[t].at \in {"decide", "forgive", "wait", "owe"}
           /\ task'[t].at = "idle" => task[t].role # "waiter" /\ result = "ok"
<1>1. CASE task[t].role = "waiter"
  <2> DEFINE next == CASE result = "ok" -> "decide"
                       [] result = "refused" -> "forgive"
                       [] result = "failed" -> "wait"
  <2>1. /\ next \in {"decide", "forgive", "wait"} /\ next \in Places
        /\ Goes(t, next) /\ serial' = None
    BY <1>1 DEF Returns, Places
  <2> HIDE DEF next
  <2> QED BY <1>1, <2>1, GoesFacts DEF Placed
<1>2. CASE task[t].role # "waiter" /\ result = "ok"
  BY <1>2, EndsFacts DEF Returns, Placed
<1>3. CASE task[t].role # "waiter" /\ result \in {"refused", "failed"}
  <2>1. task[t].role \in {"start", "event", "command"}
    BY <1>3 DEF Tasks, Roles
  <2>2. PICK place \in {"forgive", "owe"} : place \in Places /\ Goes(t, place) /\ serial' = None
    BY <1>3 DEF Returns, Places
  <2> QED BY <1>3, <2>1, <2>2, GoesFacts DEF Placed
<1> QED BY <1>1, <1>2, <1>3

(* What is known of a task that is to step.                                     *)
Known(t) ==
    /\ task \in [Slots -> Tasks] /\ RestOK /\ Placed(task[t])
    /\ phase = "session" => (Syncs(task[t]) => Still(task[t].gen))
    /\ phase = "session" => (Owns(task[t]) => waiting)
    /\ phase = "draining" => (task[t].at # "idle" => task[t].role \in {"command", "drop"})

LEMMA WhatIsKnown == ASSUME IInv, NEW t \in Slots PROVE Known(t)
BY TypeParts DEF IInv, Flags, AllPlaced, Sessions, Drains, Known, Still

(* A step that leaves the flags alone, and the task what it was to them.          *)
LEMMA PlainMove ==
    ASSUME NEW t \in Slots, Known(t), Alone(t), UNCHANGED <<phase, gen>>,
           Placed(task'[t]),
           task[t].at # "idle", task'[t].role = task[t].role, task'[t].at # "idle",
           task'[t].gen = task[t].gen \/ task[t].role = "drop",
           Owns(task'[t]) <=> Owns(task[t]),
           task[t].at # "spawn", waiting' = waiting,
           dirty' = dirty \/ dirty' = FALSE,
           task[t].role # "drop" \/ dirty' = dirty
    PROVE  Handed(t)
BY DEF Handed, Syncs

(* A sync that returns leaves the debt as it was, or strikes it.                   *)
LEMMA ReturnHands ==
    ASSUME NEW t \in Slots, Known(t), UNCHANGED <<phase, gen, waiting>>,
           task[t].at \in {"lock", "ask", "set", "tidy", "keep", "write"}, task[t].role # "drop",
           NEW result \in {"ok", "refused", "failed"}, Returns(t, result),
           dirty' = dirty \/ dirty' = FALSE,
           result = "ok" => ~Still(task[t].gen) \/ dirty' = FALSE
    PROVE  Handed(t)
<1>1. /\ Alone(t) /\ Placed(task'[t])
      /\ task'[t].at # "idle" =>
            /\ task'[t].role = task[t].role /\ task'[t].gen = task[t].gen
            /\ task'[t].at \in {"decide", "forgive", "wait", "owe"}
      /\ task'[t].at = "idle" => task[t].role # "waiter" /\ result = "ok"
  BY ReturnsFacts DEF Known
<1>2. CASE task'[t].at # "idle"
  BY <1>1, <1>2 DEF Handed, Syncs, Owns
<1>3. CASE task'[t].at = "idle"
  <2>1. task'[t].role = "start"
    BY <1>1, <1>3 DEF Placed
  <2>2. phase = "session" => dirty' = FALSE
    BY <1>1, <1>3 DEF Known, Syncs
  <2> QED BY <1>1, <1>3, <2>1, <2>2 DEF Handed, Syncs, Owns
<1> QED BY <1>2, <1>3

LEMMA EnterSyncHands ==
    ASSUME NEW t \in Slots, Known(t), EnterSync(t) PROVE RestOK' /\ Handed(t)
<1> USE DEF slotVars, boundVars, rest
<1> DEFINE key == IF task[t].key # 0 THEN task[t].key ELSE endpoint
<1>1. /\ task[t].at = "lock" /\ task[t].role # "drop"
      /\ UNCHANGED <<gen, phase, signOut, issued, ran, syncs, failures, endpoint, last, waiting,
                     registered, server, late, struck>>
  BY DEF EnterSync, At
<1>2. dirty' = dirty \/ dirty' = FALSE
  BY DEF EnterSync
<1>3. key \in 0..MaxEndpoints
  BY DEF Known, RestOK, Tasks
<1>4. CASE Returns(t, "ok") /\ record' = record /\ (~Still(task[t].gen) \/ dirty' = FALSE)
  <2>1. Handed(t)
    BY <1>1, <1>2, <1>4, ReturnHands
  <2>2. serial' = None
    BY <1>4 DEF Returns
  <2> QED BY <1>1, <1>2, <1>4, <2>1, <2>2 DEF RestOK, Known
<1>5. CASE /\ serial' = t
           /\ task' = [task EXCEPT ![t].at = "ask", ![t].key = key]
           /\ record' = IF key = 0 THEN record \cup ({last} \ {0}) ELSE record
           /\ dirty' = dirty
  <2>1. task \in [Slots -> Tasks] /\ "ask" \in Places
    BY DEF Known, Places, Requests
  <2> HIDE DEF key
  <2>2. /\ Alone(t)
        /\ task'[t].at = "ask" /\ task'[t].role = task[t].role /\ task'[t].gen = task[t].gen
    BY <1>3, <1>5, <2>1 DEF Alone, Tasks
  <2>3. Handed(t)
    BY <1>1, <1>5, <2>2, PlainMove DEF Placed, Owns
  <2>4. record' \subseteq Endpoints
    BY <1>5 DEF Known, RestOK, Endpoints
  <2> QED BY <1>1, <1>5, <2>3, <2>4 DEF RestOK, Known
<1> QED BY <1>4, <1>5 DEF EnterSync

LEMMA EnterDropHands ==
    ASSUME NEW t \in Slots, Known(t), EnterDrop(t) PROVE RestOK' /\ Handed(t)
<1> USE DEF slotVars, boundVars, rest, flagVars
<1>1. /\ task[t].at = "lock" /\ task[t].role = "drop" /\ serial' = t
      /\ UNCHANGED <<gen, phase, signOut, issued, ran, syncs, failures, endpoint, last, dirty,
                     waiting, registered, server, late, struck>>
  BY DEF EnterDrop, At
<1>2. record' \subseteq Endpoints
  BY DEF EnterDrop, Known, RestOK, Endpoints
<1>3. /\ Alone(t) /\ task'[t].role = "drop" /\ task'[t].key = task[t].key
      /\ task'[t].at \in {"ask", "drop"}
  <2>1. CASE phase = "session"
    <3>1. task' = [task EXCEPT ![t].at = "ask", ![t].gen = gen]
      BY <2>1 DEF EnterDrop
    <3>2. gen \in 0..MaxGen
      BY DEF Known, RestOK
    <3>3. task \in [Slots -> Tasks] /\ [task[t] EXCEPT !.at = "ask", !.gen = gen] \in Tasks
      BY <3>2 DEF Known, Tasks, Places, Requests
    <3> QED BY <1>1, <3>1, <3>3 DEF Alone
  <2>2. CASE phase # "session"
    BY <1>1, <2>2, GoesFacts DEF EnterDrop, Known, Places
  <2> QED BY <2>1, <2>2
<1>4. Placed(task'[t])
  BY <1>1, <1>3 DEF Known, Placed
<1>5. Handed(t)
  BY <1>1, <1>3, <1>4, PlainMove DEF Owns
<1> QED BY <1>1, <1>2, <1>5 DEF RestOK, Known

LEMMA ListHands ==
    ASSUME NEW t \in Slots, Known(t), List(t) PROVE RestOK' /\ Handed(t)
<1> USE DEF slotVars, boundVars, rest, flagVars
<1>1. /\ task[t].at = "ask"
      /\ UNCHANGED <<gen, phase, signOut, issued, ran, syncs, failures, endpoint, last, dirty,
                     waiting, registered, serial, server, late, struck>>
  BY DEF List, At
<1>2. record' \subseteq Endpoints
  BY DEF List, Known, RestOK, Endpoints, Tasks
<1> DEFINE place == IF task[t].key \in server \cup {0} THEN "tidy" ELSE "set"
<1>3. /\ task \in [Slots -> Tasks] /\ server \subseteq Endpoints
      /\ task' = [task EXCEPT ![t].at = place, ![t].listed = server]
  BY DEF List, Known, RestOK
<1>4. place \in {"tidy", "set"} /\ place \in Places /\ (place = "set" => task[t].key # 0)
  BY DEF Places, Requests
<1> HIDE DEF place
<1>5. /\ Alone(t)
      /\ task'[t].at = place /\ task'[t].role = task[t].role /\ task'[t].gen = task[t].gen
      /\ task'[t].key = task[t].key
  BY <1>3, <1>4 DEF Alone, Tasks
<1>6. Placed(task'[t])
  BY <1>1, <1>4, <1>5 DEF Known, Placed
<1>7. Handed(t)
  BY <1>1, <1>4, <1>5, <1>6, PlainMove DEF Owns
<1> QED BY <1>1, <1>2, <1>7 DEF RestOK, Known

LEMMA SetHands ==
    ASSUME NEW t \in Slots, Known(t), Set(t) PROVE RestOK' /\ Handed(t)
<1> USE DEF slotVars, boundVars, rest, flagVars
<1>1. /\ task[t].at = "set" /\ Goes(t, "tidy")
      /\ UNCHANGED <<gen, phase, signOut, issued, ran, syncs, failures, endpoint, last, dirty,
                     waiting, registered, serial, record, late, struck>>
  BY DEF Set, At
<1>a. task[t].key \in Endpoints
  BY <1>1 DEF Known, Placed, Tasks, Endpoints
<1>2. server' \subseteq Endpoints
  BY <1>a DEF Set, Known, RestOK
<1>3. /\ Alone(t) /\ task'[t].at = "tidy" /\ task'[t].role = task[t].role
      /\ task'[t].gen = task[t].gen /\ task'[t].key = task[t].key
  BY <1>1, GoesFacts DEF Known, Places, Requests
<1>4. Placed(task'[t])
  BY <1>1, <1>3 DEF Known, Placed
<1>5. Handed(t)
  BY <1>1, <1>3, <1>4, PlainMove DEF Owns
<1> QED BY <1>1, <1>2, <1>5 DEF RestOK, Known

(* A request that fails ends the sync, and sends a drop on without it.             *)
LEMMA FailedHands ==
    ASSUME NEW t \in Slots, Known(t), UNCHANGED <<phase, gen, dirty, waiting>>,
           task[t].at \in Requests,
           NEW result \in {"failed", "refused"}, Failed(t, result)
    PROVE  Handed(t) /\ serial' \in {serial, None}
<1>1. CASE task[t].role = "drop"
  <2>1. /\ Alone(t) /\ task'[t].at = "drop" /\ task'[t].role = "drop" /\ serial' = serial
        /\ task'[t].key = task[t].key
    BY <1>1, GoesFacts DEF Failed, Known, Places
  <2>2. Placed(task'[t])
    BY <1>1, <2>1 DEF Known, Placed
  <2> QED BY <1>1, <2>1, <2>2, PlainMove DEF Owns, Requests
<1>2. CASE task[t].role # "drop"
  <2>1. Returns(t, result) /\ serial' = None
    BY <1>2 DEF Failed, Returns
  <2> QED BY <1>2, <2>1, ReturnHands DEF Requests
<1> QED BY <1>1, <1>2

LEMMA AskFailsHands ==
    ASSUME NEW t \in Slots, Known(t), NEW result \in {"failed", "refused"}, AskFails(t, result)
    PROVE  RestOK' /\ Handed(t)
<1> USE DEF slotVars, pushVars, flagVars, serverVars
<1>1. /\ task[t].at = "ask" /\ Failed(t, result)
      /\ UNCHANGED <<gen, phase, signOut, endpoint, last, issued, dirty, waiting, registered, ran,
                     record, server, late, struck, syncs>>
  BY DEF AskFails, At
<1>2. failures' \in 0..MaxFailures
  BY PushAssumption DEF AskFails, Fails, Known, RestOK
<1>3. Handed(t) /\ serial' \in {serial, None}
  BY <1>1, FailedHands DEF Requests
<1> QED BY <1>1, <1>2, <1>3 DEF RestOK, Known

LEMMA SetFailsHands ==
    ASSUME NEW t \in Slots, Known(t), NEW result \in {"failed", "refused"}, SetFails(t, result)
    PROVE  RestOK' /\ Handed(t)
<1> USE DEF slotVars, pushVars, flagVars, serverVars
<1>1. /\ task[t].at = "set" /\ Failed(t, result)
      /\ UNCHANGED <<gen, phase, signOut, endpoint, last, issued, dirty, waiting, registered, ran,
                     record, server, struck, syncs>>
  BY DEF SetFails, At
<1>2. failures' \in 0..MaxFailures
  BY PushAssumption DEF SetFails, Fails, Known, RestOK
<1>3. Handed(t) /\ serial' \in {serial, None}
  BY <1>1, FailedHands DEF Requests
<1>4. task[t].key \in Endpoints
  BY <1>1 DEF Known, Placed, Tasks, Endpoints
<1>5. late' \subseteq Endpoints \X {"set", "delete"}
  BY <1>4 DEF SetFails, Known, RestOK
<1> QED BY <1>1, <1>2, <1>3, <1>5 DEF RestOK, Known

LEMMA TidiedTyped ==
    ASSUME RestOK, NEW t \in Slots, NEW removed, Tidied(t, removed)
    PROVE  server' \subseteq Endpoints /\ record' \subseteq Endpoints
BY DEF RestOK, Tidied

LEMMA StaleTyped ==
    ASSUME RestOK, NEW t \in Slots PROVE Stale(t) \subseteq Endpoints
BY DEF RestOK, Stale

LEMMA TidyHands ==
    ASSUME NEW t \in Slots, Known(t), Tidy(t) PROVE RestOK' /\ Handed(t)
<1> USE DEF slotVars, boundVars, rest, flagVars
<1>1. /\ task[t].at = "tidy"
      /\ UNCHANGED <<gen, phase, signOut, issued, ran, syncs, failures, endpoint, last, dirty,
                     waiting, registered, serial, late, struck>>
  BY DEF Tidy, At
<1>2. server' \subseteq Endpoints /\ record' \subseteq Endpoints
  BY TidiedTyped DEF Tidy, Known
<1>3. CASE task[t].role = "drop"
  <2>1. /\ task \in [Slots -> Tasks] /\ "drop" \in Places
        /\ task' = [task EXCEPT ![t].at = "drop", ![t].cleared = Still(task[t].gen)]
    BY <1>3 DEF Tidy, Known, Places
  <2>2. Still(task[t].gen) \in BOOLEAN
    BY DEF Still
  <2>3. /\ Alone(t)
        /\ task'[t].at = "drop" /\ task'[t].role = task[t].role /\ task'[t].gen = task[t].gen
        /\ task'[t].key = task[t].key
    BY <2>1, <2>2 DEF Alone, Tasks
  <2>4. Placed(task'[t])
    BY <1>3, <2>3 DEF Known, Placed
  <2>5. Handed(t)
    BY <1>1, <1>3, <2>3, <2>4, PlainMove DEF Owns
  <2> QED BY <1>1, <1>2, <2>5 DEF RestOK, Known
<1>4. CASE task[t].role # "drop"
  <2>1. /\ Alone(t)
        /\ task'[t].at = "keep" /\ task'[t].role = task[t].role /\ task'[t].gen = task[t].gen
    BY <1>4, GoesFacts DEF Tidy, Known, Places
  <2>2. Handed(t)
    BY <1>1, <1>4, <2>1, PlainMove DEF Owns, Placed
  <2> QED BY <1>1, <1>2, <2>2 DEF RestOK, Known
<1> QED BY <1>3, <1>4

LEMMA TidyFailsHands ==
    ASSUME NEW t \in Slots, Known(t), NEW k \in Endpoints,
           NEW result \in {"failed", "refused"}, TidyFails(t, k, result)
    PROVE  RestOK' /\ Handed(t)
<1> USE DEF slotVars, pushVars, flagVars
<1>1. /\ task[t].at = "tidy"
      /\ UNCHANGED <<gen, phase, signOut, endpoint, last, issued, dirty, waiting, registered, ran,
                     struck, syncs>>
  BY DEF TidyFails, At
<1>2. failures' \in 0..MaxFailures
  BY PushAssumption DEF TidyFails, Fails, Known, RestOK
<1>3. server' \subseteq Endpoints /\ record' \subseteq Endpoints
  BY TidiedTyped DEF TidyFails, Known
<1>4. late' \subseteq Endpoints \X {"set", "delete"}
  BY DEF TidyFails, Known, RestOK
<1>5. CASE task[t].key # 0
  <2>1. /\ Alone(t) /\ serial' = serial
        /\ task'[t].at = "keep" /\ task'[t].role = task[t].role /\ task'[t].gen = task[t].gen
    BY <1>5, GoesFacts DEF TidyFails, Known, Places
  <2>2. task[t].role # "drop"
    BY <1>5 DEF Known, Placed
  <2>3. Handed(t)
    BY <1>1, <2>1, <2>2, PlainMove DEF Owns, Placed
  <2> QED BY <1>1, <1>2, <1>3, <1>4, <2>1, <2>3 DEF RestOK, Known
<1>6. CASE task[t].key = 0
  <2>1. Handed(t) /\ serial' \in {serial, None}
    BY <1>1, <1>6, FailedHands DEF TidyFails, Requests
  <2> QED BY <1>1, <1>2, <1>3, <1>4, <2>1 DEF RestOK, Known
<1> QED BY <1>5, <1>6

LEMMA KeepHands ==
    ASSUME NEW t \in Slots, Known(t), Keep(t) PROVE RestOK' /\ Handed(t)
<1> USE DEF slotVars, boundVars, rest, flagVars, serverVars
<1>1. /\ task[t].at = "keep" /\ task[t].role # "drop"
      /\ UNCHANGED <<gen, phase, signOut, issued, ran, syncs, failures, endpoint, dirty,
                     waiting, registered, record, server, late, struck>>
      /\ last' \in 0..MaxEndpoints
  BY PushAssumption DEF Keep, At, Known, Placed, RestOK
<1>2. CASE Still(task[t].gen)
  <2>1. /\ Alone(t) /\ serial' = serial
        /\ task'[t].at = "write" /\ task'[t].role = task[t].role /\ task'[t].gen = task[t].gen
    BY <1>2, GoesFacts DEF Keep, Known, Places
  <2>2. Handed(t)
    BY <1>1, <2>1, PlainMove DEF Owns, Placed
  <2> QED BY <1>1, <2>1, <2>2 DEF RestOK, Known
<1>3. CASE ~Still(task[t].gen)
  <2>1. Returns(t, "ok") /\ serial' = None
    BY <1>3 DEF Keep, Returns
  <2>2. Handed(t)
    BY <1>1, <1>3, <2>1, ReturnHands
  <2> QED BY <1>1, <2>1, <2>2 DEF RestOK, Known
<1> QED BY <1>2, <1>3

LEMMA WriteHands ==
    ASSUME NEW t \in Slots, Known(t), Write(t) PROVE RestOK' /\ Handed(t)
<1> USE DEF slotVars, boundVars, rest, serverVars
<1>1. /\ task[t].at = "write" /\ task[t].role # "drop" /\ dirty' = FALSE
      /\ UNCHANGED <<gen, phase, signOut, issued, ran, syncs, failures, endpoint, last,
                     waiting, record, server, late, struck>>
      /\ Returns(t, "ok") /\ serial' = None
  BY DEF Write, At, Known, Placed, Returns
<1>2. registered' \in 0..MaxEndpoints
  BY DEF Write, Known, RestOK, Tasks
<1>3. Handed(t)
  BY <1>1, ReturnHands
<1> QED BY <1>1, <1>2, <1>3 DEF RestOK, Known

LEMMA DropHands ==
    ASSUME NEW t \in Slots, Known(t), Drop(t) PROVE RestOK' /\ Handed(t)
<1> USE DEF slotVars, boundVars, rest, flagVars, serverVars
<1>1. /\ task[t].at = "drop" /\ task[t].role = "drop" /\ registered' = 0 /\ serial' = None
      /\ UNCHANGED <<gen, phase, signOut, issued, ran, syncs, failures, endpoint, last, dirty,
                     waiting, record, server, late, struck>>
      /\ Goes(t, "forget")
  BY DEF Drop, At, Known, Placed
<1>2. /\ Alone(t) /\ task'[t].at = "forget" /\ task'[t].role = "drop"
      /\ task'[t].key = task[t].key
  BY <1>1, GoesFacts DEF Known, Places
<1>3. Placed(task'[t])
  BY <1>1, <1>2 DEF Known, Placed
<1>4. Handed(t)
  BY <1>1, <1>2, <1>3, PlainMove DEF Owns
<1> QED BY <1>1, <1>4, PushAssumption DEF RestOK, Known

(* A task that ends: its debt is not its own, or is struck.                       *)
LEMMA EndHands ==
    ASSUME NEW t \in Slots, Known(t), UNCHANGED <<phase, gen, waiting>>, Ends(t),
           ~Owns(task[t]), task[t].at # "idle",
           dirty' = dirty \/ dirty' = FALSE,
           Syncs(task[t]) \/ dirty' = dirty,
           Syncs(task[t]) /\ dirty' /\ phase = "session" => waiting
    PROVE  Handed(t)
<1>1. Alone(t) /\ task'[t].at = "idle" /\ task'[t].role = "start"
  BY EndsFacts DEF Known
<1> QED BY <1>1 DEF Handed, Placed, Syncs, Owns, Known

LEMMA ForgetHands ==
    ASSUME NEW t \in Slots, Known(t), Forget(t) PROVE RestOK' /\ Handed(t)
<1> USE DEF slotVars, boundVars, rest, flagVars, serverVars
<1>1. /\ task[t].at = "forget" /\ task[t].role = "drop"
      /\ UNCHANGED <<gen, phase, signOut, issued, ran, syncs, failures, dirty, registered, serial,
                     waiting, record, server, late, struck>>
      /\ Ends(t) /\ endpoint' = 0 /\ last' \in {0, last}
  BY DEF Forget, At, Known, Placed
<1>2. Handed(t)
  BY <1>1, EndHands DEF Owns, Syncs
<1> QED BY <1>1, <1>2, PushAssumption DEF RestOK, Known

LEMMA ForgiveHands ==
    ASSUME NEW t \in Slots, Known(t), Forgive(t) PROVE RestOK' /\ Handed(t)
<1> USE DEF slotVars, boundVars, rest, serverVars
<1>1. /\ task[t].at = "forgive" /\ task[t].role # "drop" /\ dirty' = FALSE
      /\ UNCHANGED <<gen, phase, signOut, issued, ran, syncs, failures, endpoint, last, registered,
                     serial, waiting, record, server, late, struck>>
  BY DEF Forgive, At, Known, Placed
<1>2. CASE task[t].role = "waiter"
  <2>1. /\ Alone(t)
        /\ task'[t].at = "leave" /\ task'[t].role = task[t].role /\ task'[t].gen = task[t].gen
    BY <1>2, GoesFacts DEF Forgive, Known, Places
  <2>2. Handed(t)
    BY <1>1, <1>2, <2>1, PlainMove DEF Owns, Placed
  <2> QED BY <1>1, <2>2 DEF RestOK, Known
<1>3. CASE task[t].role # "waiter"
  <2>1. Ends(t)
    BY <1>3 DEF Forgive
  <2>2. Handed(t)
    BY <1>1, <1>3, <2>1, EndHands DEF Owns, Syncs
  <2> QED BY <1>1, <2>2 DEF RestOK, Known
<1> QED BY <1>2, <1>3

LEMMA OweHands ==
    ASSUME NEW t \in Slots, Known(t), Owe(t) PROVE RestOK' /\ Handed(t)
<1> USE DEF slotVars, boundVars, rest, flagVars, serverVars
<1>1. /\ task[t].at = "owe" /\ task[t].role \in {"start", "event", "command"}
      /\ UNCHANGED <<gen, phase, signOut, issued, ran, syncs, failures, endpoint, last, registered,
                     serial, dirty, waiting, record, server, late, struck>>
  BY DEF Owe, At, Known, Placed
<1>2. CASE Still(task[t].gen)
  <2>1. /\ Alone(t)
        /\ task'[t].at = "note" /\ task'[t].role = task[t].role /\ task'[t].gen = task[t].gen
    BY <1>2, GoesFacts DEF Owe, Known, Places
  <2>2. Handed(t)
    BY <1>1, <2>1, PlainMove DEF Owns, Placed
  <2> QED BY <1>1, <2>2 DEF RestOK, Known
<1>3. CASE ~Still(task[t].gen)
  <2>1. Ends(t)
    BY <1>3 DEF Owe
  <2>2. ~(phase = "session" /\ Syncs(task[t]))
    BY <1>3 DEF Known
  <2>3. Handed(t)
    BY <1>1, <2>1, <2>2, EndHands DEF Owns
  <2> QED BY <1>1, <2>3 DEF RestOK, Known
<1> QED BY <1>2, <1>3

(* The debt is noted whatever became of the session; its task is still there.      *)
LEMMA NoteHands ==
    ASSUME NEW t \in Slots, Known(t), Note(t) PROVE RestOK' /\ Handed(t)
<1> USE DEF slotVars, boundVars, rest, serverVars
<1>1. /\ task[t].at = "note" /\ task[t].role \in {"start", "event", "command"} /\ dirty' = TRUE
      /\ UNCHANGED <<gen, phase, signOut, issued, ran, syncs, failures, endpoint, last, registered,
                     serial, waiting, record, server, late, struck>>
  BY DEF Note, At, Known, Placed
<1>2. /\ Alone(t)
      /\ task'[t].at = "claim" /\ task'[t].role = task[t].role /\ task'[t].gen = task[t].gen
  BY GoesFacts DEF Note, Known, Places
<1>3. Handed(t)
  BY <1>1, <1>2 DEF Handed, Placed, Syncs, Owns
<1> QED BY <1>1, <1>3 DEF RestOK, Known

LEMMA ClaimHands ==
    ASSUME NEW t \in Slots, Known(t), Claim(t) PROVE RestOK' /\ Handed(t)
<1> USE DEF slotVars, boundVars, serverVars
<1>1. /\ task[t].at = "claim" /\ task[t].role \in {"start", "event", "command"}
      /\ waiting' = TRUE /\ ran' \subseteq ran
      /\ UNCHANGED <<gen, phase, signOut, issued, syncs, failures, endpoint, last, registered,
                     serial, dirty, record, server, late, struck>>
  BY DEF Claim, At, Known, Placed
<1>2. CASE waiting
  <2>1. Ends(t)
    BY <1>2 DEF Claim
  <2>2. waiting' = waiting
    BY <1>1, <1>2 DEF Known, RestOK
  <2>3. Handed(t)
    BY <1>1, <1>2, <2>1, <2>2, EndHands DEF Owns
  <2> QED BY <1>1, <2>3 DEF RestOK, Known
<1>3. CASE ~waiting
  <2>1. /\ Alone(t)
        /\ task'[t].at = "spawn" /\ task'[t].role = task[t].role /\ task'[t].gen = task[t].gen
    BY <1>3, GoesFacts DEF Claim, Known, Places
  <2>2. Handed(t)
    BY <1>1, <1>3, <2>1 DEF Handed, Placed, Syncs, Owns
  <2> QED BY <1>1, <2>2 DEF RestOK, Known
<1> QED BY <1>2, <1>3

LEMMA SpawnWaiterHands ==
    ASSUME NEW t \in Slots, Known(t), SpawnWaiter(t) PROVE RestOK' /\ Handed(t)
<1> USE DEF slotVars, boundVars, rest, serverVars
<1>1. /\ task[t].at = "spawn" /\ task[t].role \in {"start", "event", "command"}
      /\ UNCHANGED <<gen, phase, signOut, issued, ran, syncs, failures, endpoint, last, registered,
                     serial, dirty, record, server, late, struck>>
  BY DEF SpawnWaiter, At, Known, Placed
<1>2. CASE Still(task[t].gen)
  <2> DEFINE waiter == New("waiter", "wait", task[t].gen, 0)
  <2>b. task[t].gen \in 0..MaxGen /\ 0 \in 0..MaxEndpoints
    BY PushAssumption DEF Tasks, Known
  <2>1. /\ waiter \in Tasks /\ waiter.role = "waiter" /\ waiter.at = "wait"
        /\ waiter.gen = task[t].gen
    BY <2>b DEF New, Tasks, Roles, Places
  <2>2. task' = [task EXCEPT ![t] = waiter] /\ waiting' = waiting /\ phase = "session"
    BY <1>2 DEF SpawnWaiter, Still
  <2> HIDE DEF waiter
  <2>3. Alone(t) /\ task'[t] = waiter
    BY <2>1, <2>2 DEF Alone, Known
  <2>4. Handed(t)
    BY <1>1, <2>1, <2>2, <2>3 DEF Handed, Placed, Syncs, Owns
  <2> QED BY <1>1, <2>2, <2>4 DEF RestOK, Known
<1>3. CASE ~Still(task[t].gen)
  <2>1. Ends(t) /\ waiting' = FALSE
    BY <1>3 DEF SpawnWaiter
  <2>2. phase # "session"
    BY <1>1, <1>3 DEF Known, Syncs
  <2>3. Alone(t) /\ task'[t].at = "idle" /\ task'[t].role = "start"
    BY <2>1, EndsFacts DEF Known
  <2>4. Handed(t)
    BY <1>1, <2>1, <2>2, <2>3 DEF Handed, Placed, Syncs
  <2> QED BY <1>1, <2>1, <2>4 DEF RestOK, Known
<1> QED BY <1>2, <1>3

LEMMA WakeHands ==
    ASSUME NEW t \in Slots, Known(t), Wake(t) PROVE RestOK' /\ Handed(t)
<1> USE DEF slotVars, boundVars, pushVars, flagVars, serverVars
<1>1. /\ task[t].at = "wait" /\ task[t].role = "waiter" /\ ran' \subseteq ran
      /\ UNCHANGED <<gen, phase, signOut, issued, syncs, failures, endpoint, last, registered,
                     serial, dirty, waiting, record, server, late, struck>>
  BY DEF Wake, At, Known, Placed
<1>2. CASE ~dirty
  <2>1. /\ Alone(t)
        /\ task'[t].at = "leave" /\ task'[t].role = task[t].role /\ task'[t].gen = task[t].gen
    BY <1>2, GoesFacts DEF Wake, Known, Places
  <2>2. Handed(t)
    BY <1>1, <2>1, PlainMove DEF Owns, Placed
  <2> QED BY <1>1, <2>2 DEF RestOK, Known
<1>3. CASE dirty /\ Still(task[t].gen)
  <2>1. /\ task \in [Slots -> Tasks] /\ "lock" \in Places /\ 0 \in 0..MaxEndpoints
        /\ task' = [task EXCEPT ![t].at = "lock", ![t].key = 0]
    BY <1>3, PushAssumption DEF Wake, Known, Places
  <2>2. /\ Alone(t)
        /\ task'[t].at = "lock" /\ task'[t].role = task[t].role /\ task'[t].gen = task[t].gen
    BY <2>1 DEF Alone, Tasks
  <2>3. Handed(t)
    BY <1>1, <2>2, PlainMove DEF Owns, Placed
  <2> QED BY <1>1, <2>3 DEF RestOK, Known
<1>4. CASE dirty /\ ~Still(task[t].gen)
  <2>1. Ends(t)
    BY <1>4 DEF Wake
  <2>2. phase # "session" /\ phase # "draining"
    BY <1>1, <1>4 DEF Known, Syncs
  <2>3. Alone(t) /\ task'[t].at = "idle" /\ task'[t].role = "start"
    BY <2>1, EndsFacts DEF Known
  <2>4. Handed(t)
    BY <1>1, <2>2, <2>3 DEF Handed, Placed, Syncs
  <2> QED BY <1>1, <2>4 DEF RestOK, Known
<1> QED BY <1>2, <1>3, <1>4

LEMMA DecideHands ==
    ASSUME NEW t \in Slots, Known(t), Decide(t) PROVE RestOK' /\ Handed(t)
<1> USE DEF slotVars, boundVars, rest, flagVars, serverVars
<1>1. /\ task[t].at = "decide" /\ task[t].role = "waiter"
      /\ UNCHANGED <<gen, phase, signOut, issued, ran, syncs, failures, endpoint, last, registered,
                     serial, dirty, waiting, record, server, late, struck>>
  BY DEF Decide, At, Known, Placed
<1>2. PICK place \in {"wait", "leave"} : place \in Places /\ Goes(t, place)
  BY DEF Decide, Places
<1>3. /\ Alone(t)
      /\ task'[t].at = place /\ task'[t].role = task[t].role /\ task'[t].gen = task[t].gen
  BY <1>2, GoesFacts DEF Known
<1>4. Handed(t)
  BY <1>1, <1>2, <1>3, PlainMove DEF Owns, Placed
<1> QED BY <1>1, <1>4 DEF RestOK, Known

LEMMA LeaveHands ==
    ASSUME NEW t \in Slots, Known(t), Leave(t) PROVE RestOK' /\ Handed(t)
<1> USE DEF slotVars, boundVars, rest, serverVars
<1>1. /\ task[t].at = "leave" /\ task[t].role = "waiter" /\ waiting' = FALSE
      /\ UNCHANGED <<gen, phase, signOut, issued, ran, syncs, failures, endpoint, last, registered,
                     serial, dirty, record, server, late, struck>>
  BY DEF Leave, At, Known, Placed
<1>2. /\ Alone(t)
      /\ task'[t].at = "look" /\ task'[t].role = task[t].role /\ task'[t].gen = task[t].gen
  BY GoesFacts DEF Leave, Known, Places
<1>3. Handed(t)
  BY <1>1, <1>2 DEF Handed, Placed, Syncs, Owns
<1> QED BY <1>1, <1>3 DEF RestOK, Known

LEMMA LookHands ==
    ASSUME NEW t \in Slots, Known(t), Look(t) PROVE RestOK' /\ Handed(t)
<1> USE DEF slotVars, boundVars, rest, serverVars
<1>1. /\ task[t].at = "look" /\ task[t].role = "waiter"
      /\ UNCHANGED <<gen, phase, signOut, issued, ran, syncs, failures, endpoint, last, registered,
                     serial, dirty, record, server, late, struck>>
  BY DEF Look, At, Known, Placed
<1>2. CASE dirty /\ Still(task[t].gen) /\ ~waiting
  <2>1. /\ Alone(t) /\ waiting' = TRUE /\ phase = "session"
        /\ task'[t].at = "wait" /\ task'[t].role = task[t].role /\ task'[t].gen = task[t].gen
    BY <1>2, GoesFacts DEF Look, Known, Places, Still
  <2>2. Handed(t)
    BY <1>1, <1>2, <2>1 DEF Handed, Placed, Syncs, Owns
  <2> QED BY <1>1, <2>1, <2>2 DEF RestOK, Known
<1>3. CASE waiting \/ ~dirty \/ ~Still(task[t].gen)
  <2>1. Ends(t) /\ waiting' = waiting
    BY <1>3 DEF Look, Known, RestOK
  <2>2. dirty /\ phase = "session" => waiting
    BY <1>1, <1>3 DEF Known, Syncs
  <2>3. Handed(t)
    BY <1>1, <2>1, <2>2, EndHands DEF Owns, Syncs
  <2> QED BY <1>1, <2>1, <2>3 DEF RestOK, Known
<1> QED BY <1>2, <1>3

(* Whoever is aborted is not the one that holds the flag, or the flags are to be    *)
(* reset.                                                                     *)
LEMMA AbortedHands ==
    ASSUME NEW t \in Slots, Known(t), Aborted(t), phase \in {"closing", "draining"}
    PROVE  RestOK' /\ Handed(t)
<1> USE DEF slotVars, boundVars, pushVars, flagVars
<1>1. /\ task[t].at \in {"lock", "wait"} \cup Requests /\ Ends(t)
      /\ UNCHANGED <<gen, phase, signOut, issued, ran, syncs, failures, endpoint, last, registered,
                     dirty, waiting, record, server, struck>>
      /\ serial' \in {serial, None}
  BY DEF Aborted
<1>2. late' \subseteq Endpoints \X {"set", "delete"}
  <2>1. Stale(t) \subseteq Endpoints
    BY StaleTyped DEF Known
  <2>2. task[t].at = "set" => task[t].key \in Endpoints
    BY DEF Known, Placed, Tasks, Endpoints
  <2>3. /\ late' = late \cup (IF At(t, "set") THEN {<<task[t].key, "set">>} ELSE {})
                        \cup (IF At(t, "tidy") THEN Stale(t) \X {"delete"} ELSE {})
        /\ late \subseteq Endpoints \X {"set", "delete"}
    BY DEF Aborted, Known, RestOK
  <2>4. (IF At(t, "set") THEN {<<task[t].key, "set">>} ELSE {})
            \subseteq Endpoints \X {"set", "delete"}
    BY <2>2 DEF At
  <2>5. Stale(t) \X {"delete"} \subseteq Endpoints \X {"set", "delete"}
    BY <2>1
  <2> QED BY <2>3, <2>4, <2>5
<1>3. Alone(t) /\ task'[t].at = "idle" /\ task'[t].role = "start"
  BY <1>1, EndsFacts DEF Known
<1>4. Handed(t)
  BY <1>1, <1>3 DEF Handed, Placed, Syncs, Requests
<1> QED BY <1>1, <1>2, <1>4 DEF RestOK, Known

LEMMA StepHands ==
    ASSUME IInv, NEW t \in Slots, Step(t) PROVE IInv'
<1>1. Known(t)
  BY WhatIsKnown
<1>2. RestOK' /\ Handed(t)
  <2>1. CASE EnterSync(t) BY <1>1, <2>1, EnterSyncHands
  <2>2. CASE EnterDrop(t) BY <1>1, <2>2, EnterDropHands
  <2>3. CASE List(t) BY <1>1, <2>3, ListHands
  <2>4. CASE Set(t) BY <1>1, <2>4, SetHands
  <2>5. CASE Tidy(t) BY <1>1, <2>5, TidyHands
  <2>6. ASSUME NEW result \in {"failed", "refused"}, AskFails(t, result)
        PROVE  RestOK' /\ Handed(t)
    BY <1>1, <2>6, AskFailsHands
  <2>7. ASSUME NEW result \in {"failed", "refused"}, SetFails(t, result)
        PROVE  RestOK' /\ Handed(t)
    BY <1>1, <2>7, SetFailsHands
  <2>8. ASSUME NEW result \in {"failed", "refused"}, NEW k \in Endpoints, TidyFails(t, k, result)
        PROVE  RestOK' /\ Handed(t)
    BY <1>1, <2>8, TidyFailsHands
  <2>9. CASE Keep(t) BY <1>1, <2>9, KeepHands
  <2>10. CASE Write(t) BY <1>1, <2>10, WriteHands
  <2>11. CASE Drop(t) BY <1>1, <2>11, DropHands
  <2>12. CASE Forget(t) BY <1>1, <2>12, ForgetHands
  <2>13. CASE Forgive(t) BY <1>1, <2>13, ForgiveHands
  <2>14. CASE Owe(t) BY <1>1, <2>14, OweHands
  <2>21. CASE Note(t) BY <1>1, <2>21, NoteHands
  <2>15. CASE Claim(t) BY <1>1, <2>15, ClaimHands
  <2>16. CASE SpawnWaiter(t) BY <1>1, <2>16, SpawnWaiterHands
  <2>17. CASE Wake(t) BY <1>1, <2>17, WakeHands
  <2>18. CASE Decide(t) BY <1>1, <2>18, DecideHands
  <2>19. CASE Leave(t) BY <1>1, <2>19, LeaveHands
  <2>20. CASE Look(t) BY <1>1, <2>20, LookHands
  <2> QED BY <2>1, <2>2, <2>3, <2>4, <2>5, <2>6, <2>7, <2>8, <2>9, <2>10, <2>11, <2>12, <2>13,
             <2>14, <2>15, <2>16, <2>17, <2>18, <2>19, <2>20, <2>21 DEF Step, Request
<1>3. Flags' /\ task' \in [Slots -> Tasks]
  BY <1>2, HandedKeeps DEF IInv, Handed, Alone
<1> QED BY <1>2, <1>3, TypePartsNext DEF IInv

-----------------------------------------------------------------------------
(* What starts tasks, and the teardown *)

(* A task is spawned in a session, or is a drop.                                 *)
LEMMA SpawnKeeps ==
    ASSUME IInv, NEW t \in Slots, NEW role \in {"event", "command", "drop"},
           NEW key \in 0..MaxEndpoints, Spawn(t, role, key),
           role = "drop" => key = 0, phase # "session" => role = "drop" /\ phase = "none",
           UNCHANGED <<phase, gen, dirty, waiting>>
    PROVE  Flags' /\ task' \in [Slots -> Tasks]
<1> DEFINE new == New(role, "lock", gen, key)
<1>2. gen \in 0..MaxGen /\ task \in [Slots -> Tasks]
  BY TypeParts DEF IInv, RestOK
<1>3. /\ new \in Tasks /\ new.role = role /\ new.at = "lock" /\ new.gen = gen /\ new.key = key
  BY <1>2 DEF New, Tasks, Roles, Places
<1>4. task' = [task EXCEPT ![t] = new] /\ task[t].at = "idle"
  BY DEF Spawn, Free, At
<1> HIDE DEF new
<1>5. /\ task' \in [Slots -> Tasks] /\ task'[t] = new
      /\ \A u \in Slots : u # t => task'[u] = task[u]
  BY <1>2, <1>3, <1>4
<1>6. AllPlaced'
  BY <1>3, <1>5 DEF IInv, Flags, AllPlaced, Placed
<1>7. ~Owns(new) /\ ~Owns(task[t])
  BY <1>3, <1>4 DEF Owns, IInv, Flags, AllPlaced, Placed
<1>8. \A u \in Slots : Owns(task'[u]) <=> Owns(task[u])
  BY <1>5, <1>7
<1>9. \A u \in Slots : Syncs(task'[u]) => Syncs(task[u]) \/ (u = t /\ role # "drop")
  BY <1>3, <1>5 DEF Syncs
<1>10. \A u \in Slots : Syncs(task[u]) => Syncs(task'[u])
  BY <1>4, <1>5 DEF Syncs
<1>11. Sessions'
  <2> SUFFICES ASSUME phase = "session" PROVE Sessions'
    BY DEF Sessions
  <2>1. \A u \in Slots : Syncs(task'[u]) => task'[u].gen = gen
    BY <1>3, <1>5 DEF IInv, Flags, Sessions
  <2> QED BY <1>8, <1>10, <2>1 DEF IInv, Flags, Sessions, Owns, Syncs
<1>12. Drains'
  <2>1. phase # "draining"
    OBVIOUS
  <2> QED BY <2>1 DEF Drains
<1>13. Rests'
  BY <1>9 DEF IInv, Flags, Rests, Syncs
<1> QED BY <1>5, <1>6, <1>11, <1>12, <1>13 DEF Flags

LEMMA StartsKeep ==
    ASSUME IInv, NEW t \in Slots, Starts(t) PROVE IInv'
<1> USE DEF slotVars, pushVars, flagVars, serverVars, boundVars
<1>1. CASE SessionStarts(t)
  <2> DEFINE new == New("start", "lock", gen + 1, 0)
  <2>1. /\ task' = [task EXCEPT ![t] = new] /\ task[t].at = "idle"
        /\ phase = "none" /\ phase' = "session" /\ gen' = gen + 1
        /\ UNCHANGED <<signOut, pushVars, flagVars, registered, serial, ran, serverVars, boundVars>>
    BY <1>1 DEF SessionStarts, Free, At
  <2>2. gen + 2 <= MaxGen /\ gen \in 0..MaxGen /\ MaxGen \in Nat /\ MaxEndpoints \in Nat
    BY <1>1, PushAssumption DEF SessionStarts, IInv, TypeOK
  <2>3. gen + 1 \in 0..MaxGen /\ 0 \in 0..MaxEndpoints /\ gen' + 1 <= MaxGen
    BY <2>1, <2>2
  <2>4. /\ new \in Tasks /\ new.role = "start" /\ new.at = "lock" /\ new.gen = gen + 1
    BY <2>3 DEF New, Tasks, Roles, Places
  <2> HIDE DEF new
  <2>5. /\ task' \in [Slots -> Tasks] /\ task'[t] = new
        /\ \A u \in Slots : u # t => task'[u] = task[u]
    BY <2>1, <2>4, TypeParts DEF IInv
  <2>6. /\ ~waiting /\ \A u \in Slots : ~Syncs(task[u])
        /\ \A u \in Slots : Placed(task[u])
    BY <2>1 DEF IInv, Flags, Rests, AllPlaced
  <2>7. \A u \in Slots : ~Owns(task[u])
    BY <2>6, OwnerSyncs
  <2>8. AllPlaced'
    BY <2>4, <2>5, <2>6 DEF AllPlaced, Placed
  <2>9. Sessions'
    <3>1. \A u \in Slots : ~Owns(task'[u])
      BY <2>4, <2>5, <2>7 DEF Owns
    <3>2. \A u \in Slots : Syncs(task'[u]) => task'[u].gen = gen'
      BY <2>1, <2>4, <2>5, <2>6
    <3>3. Syncs(task'[t])
      BY <2>4, <2>5 DEF Syncs
    <3> QED BY <2>1, <2>3, <2>6, <3>1, <3>2, <3>3 DEF Sessions, Owns, Syncs
  <2>10. Drains' /\ Rests'
    BY <2>1 DEF Drains, Rests
  <2>11. RestOK'
    BY <2>1, <2>3, TypeParts DEF IInv, RestOK, Phases
  <2> QED BY <2>5, <2>8, <2>9, <2>10, <2>11, TypePartsNext DEF IInv, Flags
<1>2. ASSUME NEW role \in {"event", "command"}, NewEndpoint(t, role) PROVE IInv'
  <2>1. /\ UNCHANGED <<gen, phase, signOut, dirty, waiting, registered, serial, ran, record, server,
                       late, struck, failures>>
        /\ issued' = issued + 1 /\ endpoint' = issued + 1 /\ last' = issued + 1
        /\ issued < MaxEndpoints
    BY <1>2 DEF NewEndpoint
  <2>2. issued + 1 \in 0..MaxEndpoints /\ syncs' \in 0..MaxSyncs
    BY <1>2, <2>1, PushAssumption DEF NewEndpoint, More, IInv, TypeOK
  <2>3. RestOK'
    BY <2>1, <2>2, TypeParts DEF IInv, RestOK
  <2>4. CASE phase = "session"
    BY <1>2, <2>1, <2>2, <2>3, <2>4, SpawnKeeps, TypePartsNext DEF NewEndpoint, IInv
  <2>5. CASE phase # "session"
    <3>1. task' = task
      BY <1>2, <2>5 DEF NewEndpoint
    <3>2. Flags'
      BY <2>1, <3>1 DEF IInv, Flags, AllPlaced, Sessions, Drains, Rests, Placed, Owns, Syncs
    <3> QED BY <2>3, <3>1, <3>2, TypeParts, TypePartsNext DEF IInv
  <2> QED BY <2>4, <2>5
<1>3. CASE Status(t) \/ Disable(t)
  <2>1. UNCHANGED <<gen, phase, signOut, endpoint, last, issued, dirty, waiting, registered, serial,
                    ran, record, server, late, struck, failures>>
    BY <1>3 DEF Status, Disable
  <2>2. syncs' \in 0..MaxSyncs /\ 0 \in 0..MaxEndpoints
    BY <1>3, PushAssumption DEF Status, Disable, More, IInv, TypeOK
  <2>3. RestOK'
    BY <2>1, <2>2, TypeParts DEF IInv, RestOK
  <2>4. Flags' /\ task' \in [Slots -> Tasks]
    BY <1>3, <2>1, <2>2, SpawnKeeps DEF Status, Disable
  <2> QED BY <2>3, <2>4, TypePartsNext DEF IInv
<1> QED BY <1>1, <1>2, <1>3 DEF Starts

(* What leaves the tasks alone: the sync that runs, the phases of a teardown and a   *)
(* request that arrives.                                                      *)
LEMMA OthersKeep ==
    ASSUME IInv,
           \/ SyncRuns \/ StopPushTasks \/ Drained
           \/ \E left \in SUBSET Noted : Clears(left)
           \/ \E out \in BOOLEAN : Closes(out)
           \/ \E k \in Endpoints, what \in {"set", "delete"} : Arrives(k, what)
    PROVE  IInv'
<1> USE DEF slotVars, pushVars, flagVars, serverVars, boundVars
<1>0. task' = task
  BY DEF SyncRuns, StopPushTasks, Drained, Clears, Closes, Arrives
<1>1. task' \in [Slots -> Tasks]
  BY <1>0, TypeParts DEF IInv
<1>2. RestOK /\ AllPlaced' /\ Flags
  BY <1>0, TypeParts DEF IInv, Flags, AllPlaced, Placed
<1>3. CASE SyncRuns
  <2>1. UNCHANGED <<gen, phase, dirty, waiting>> /\ RestOK'
    BY <1>2, <1>3 DEF SyncRuns, RestOK
  <2>2. Flags'
    BY <1>0, <1>2, <2>1 DEF Flags, Sessions, Drains, Rests, Owns, Syncs
  <2> QED BY <1>1, <2>1, <2>2, TypePartsNext DEF IInv
<1>4. CASE StopPushTasks
  <2>1. \A t \in Slots : task[t].at # "idle" => task[t].role \in {"command", "drop"}
    BY <1>1, <1>0, <1>4 DEF StopPushTasks, PushTasks, At, Tasks, Roles
  <2>a. /\ phase' = "draining" /\ dirty' = FALSE /\ waiting' = FALSE /\ registered' = 0
        /\ UNCHANGED <<gen, signOut, pushVars, serial, ran, serverVars, boundVars>>
        /\ 0 \in 0..MaxEndpoints
    BY <1>4, PushAssumption DEF StopPushTasks
  <2>2. phase' = "draining" /\ ~waiting' /\ RestOK'
    BY <1>2, <2>a DEF RestOK, Phases
  <2>3. Flags'
    BY <1>0, <1>2, <2>1, <2>2 DEF Flags, Sessions, Drains, Rests
  <2> QED BY <1>1, <2>2, <2>3, TypePartsNext DEF IInv
<1>5. CASE Drained
  <2>1. /\ phase = "draining" /\ Commands = {} /\ phase' \in {"clearing", "none"}
        /\ UNCHANGED <<dirty, waiting>> /\ RestOK'
    BY <1>2, <1>5 DEF Drained, RestOK, Phases
  <2>2. \A t \in Slots : task[t].at = "idle"
    BY <1>2, <2>1 DEF Commands, At, Flags, Drains
  <2>3. ~waiting
    BY <1>2, <2>1, <2>2 DEF Flags, Drains
  <2>4. Flags'
    BY <1>0, <1>2, <2>1, <2>2, <2>3 DEF Flags, Sessions, Drains, Rests, Syncs
  <2> QED BY <1>1, <2>1, <2>4, TypePartsNext DEF IInv
<1>6. ASSUME NEW left \in SUBSET Noted, Clears(left) PROVE IInv'
  <2>1. /\ phase = "clearing" /\ phase' = "none"
        /\ UNCHANGED <<gen, signOut, issued, dirty, waiting, serial, ran, late, struck, syncs>>
        /\ endpoint' = 0 /\ last' = 0 /\ registered' = 0
    BY <1>6 DEF Clears
  <2>2. Noted \subseteq Endpoints
    BY <1>2, PushAssumption DEF Noted, RestOK, Endpoints
  <2>3. record' \subseteq Endpoints /\ server' \subseteq Endpoints
    BY <1>2, <1>6, <2>2 DEF Clears, RestOK
  <2>4. failures' \in 0..MaxFailures /\ 0 \in 0..MaxEndpoints
    BY <1>2, <1>6, PushAssumption DEF Clears, Fails, RestOK
  <2>5. RestOK'
    BY <1>2, <2>1, <2>3, <2>4 DEF RestOK, Phases
  <2>6. Flags'
    BY <1>0, <1>2, <2>1 DEF Flags, Sessions, Drains, Rests, Syncs
  <2> QED BY <1>1, <2>5, <2>6, TypePartsNext DEF IInv
<1>7. ASSUME NEW out \in BOOLEAN, Closes(out) PROVE IInv'
  <2>1. /\ phase = "session" /\ phase' = "closing" /\ gen' = gen + 1 /\ signOut' = out
        /\ UNCHANGED <<pushVars, flagVars, registered, serial, ran, serverVars, boundVars>>
    BY <1>7 DEF Closes
  <2>a. gen + 1 <= MaxGen /\ gen \in 0..MaxGen
    BY <1>2, <2>1 DEF RestOK, Flags, Sessions
  <2>2. gen' \in 0..MaxGen
    BY <2>1, <2>a, PushAssumption
  <2>3. RestOK'
    BY <1>2, <2>1, <2>2 DEF RestOK, Phases
  <2>4. Flags'
    BY <1>2, <2>1 DEF Flags, Sessions, Drains, Rests
  <2> QED BY <1>1, <2>3, <2>4, TypePartsNext DEF IInv
<1>8. ASSUME NEW k \in Endpoints, NEW what \in {"set", "delete"}, Arrives(k, what) PROVE IInv'
  <2>1. UNCHANGED <<gen, phase, dirty, waiting>> /\ RestOK'
    BY <1>2, <1>8 DEF Arrives, RestOK
  <2>2. Flags'
    BY <1>0, <1>2, <2>1 DEF Flags, Sessions, Drains, Rests, Owns, Syncs
  <2> QED BY <1>1, <2>1, <2>2, TypePartsNext DEF IInv
<1> QED BY <1>3, <1>4, <1>5, <1>6, <1>7, <1>8

LEMMA AbortKeeps ==
    ASSUME IInv, NEW t \in Slots, AbortPushTask(t) \/ DrainCommand(t) PROVE IInv'
<1>1. Known(t)
  BY WhatIsKnown
<1>2. Aborted(t) /\ phase \in {"closing", "draining"}
  BY DEF AbortPushTask, DrainCommand
<1>3. RestOK' /\ Handed(t)
  BY <1>1, <1>2, AbortedHands
<1> QED BY <1>3, HandedKeeps, TypePartsNext DEF IInv, Handed, Alone

-----------------------------------------------------------------------------
(* The theorems *)

LEMMA InitHolds == Init => IInv
<1> SUFFICES ASSUME Init PROVE IInv
  OBVIOUS
<1>1. 0 \in 0..MaxGen /\ 0 \in 0..MaxEndpoints /\ 0 \in 0..MaxSyncs /\ 0 \in 0..MaxFailures
  BY PushAssumption
<1>2. Idle \in Tasks /\ Idle.at = "idle" /\ Idle.role = "start"
  BY <1>1 DEF Idle, New, Tasks, Roles, Places
<1>3. task = [t \in Slots |-> Idle]
  BY DEF Init
<1>4. task \in [Slots -> Tasks] /\ \A t \in Slots : task[t] = Idle
  BY <1>2, <1>3
<1>5. RestOK
  BY <1>1 DEF Init, RestOK, Phases, None
<1>6. Flags
  BY <1>2, <1>4 DEF Init, Flags, AllPlaced, Placed, Sessions, Drains, Rests, Syncs
<1> QED BY <1>4, <1>5, <1>6, TypeParts DEF IInv

LEMMA StepHolds == IInv /\ [Next]_vars => IInv'
<1> SUFFICES ASSUME IInv, [Next]_vars PROVE IInv'
  OBVIOUS
<1>1. CASE UNCHANGED vars
  <2>1. RestOK' /\ task' = task
    BY <1>1, TypeParts DEF IInv, vars, slotVars, pushVars, flagVars, serverVars, boundVars, RestOK
  <2>2. UNCHANGED <<gen, phase, dirty, waiting>>
    BY <1>1 DEF vars, slotVars, flagVars
  <2>3. Flags'
    BY <2>1, <2>2 DEF IInv, Flags, AllPlaced, Placed, Sessions, Drains, Rests, Owns, Syncs
  <2> QED BY <2>1, <2>3, TypeParts, TypePartsNext DEF IInv
<1>2. ASSUME NEW t \in Slots, Starts(t) PROVE IInv'
  BY <1>2, StartsKeep
<1>3. ASSUME NEW t \in Slots, Step(t) PROVE IInv'
  BY <1>3, StepHands
<1>4. ASSUME NEW t \in Slots, AbortPushTask(t) \/ DrainCommand(t) PROVE IInv'
  BY <1>4, AbortKeeps
<1>5. ASSUME \/ SyncRuns \/ StopPushTasks \/ Drained
             \/ \E left \in SUBSET Noted : Clears(left)
             \/ \E out \in BOOLEAN : Closes(out)
             \/ \E k \in Endpoints, what \in {"set", "delete"} : Arrives(k, what)
      PROVE  IInv'
  BY <1>5, OthersKeep
<1> QED BY <1>1, <1>2, <1>3, <1>4, <1>5 DEF Next, Teardown

(* Every variable keeps its type, whatever the bounds (the push state of the        *)
(* session's slot, Leghorn's store and the homeserver's list of pushers).            *)
THEOREM TypeCorrect == Spec => []TypeOK
<1>1. IInv => TypeOK
  BY DEF IInv
<1> QED BY <1>1, InitHolds, StepHolds, PTL DEF Spec

LEMMA OwnerAlone ==
    ASSUME NEW S, \A x, y \in S : x = y PROVE Cardinality(S) <= 1
<1>1. CASE S = {}
  BY <1>1, FS_EmptySet
<1>2. CASE S # {}
  <2>1. PICK x : x \in S
    BY <1>2
  <2>2. S = {x}
    BY <2>1
  <2> QED BY <2>2, FS_Singleton
<1> QED BY <1>1, <1>2

LEMMA FlagsMind == IInv => DebtMinded
<1> SUFFICES ASSUME IInv, phase = "session" PROVE DebtMinded
  BY DEF DebtMinded
<1>1. /\ \A t \in Slots : Syncs(task[t]) => task[t].gen = gen
      /\ \A t, u \in Slots : Owns(task[t]) /\ Owns(task[u]) => t = u
      /\ dirty => \E t \in Slots : Syncs(task[t])
      /\ task \in [Slots -> Tasks]
  BY TypeParts DEF IInv, Flags, Sessions
<1>2. dirty => Minded
  <2> SUFFICES ASSUME dirty PROVE Minded
    OBVIOUS
  <2>1. PICK t \in Slots : Syncs(task[t])
    BY <1>1
  <2>2. task[t].gen = gen /\ task[t].at # "idle" /\ task[t].role # "drop"
    BY <1>1, <2>1 DEF Syncs
  <2>3. task[t].role \in {"start", "event", "command", "waiter"}
    BY <1>1, <2>2 DEF Tasks, Roles
  <2> QED BY <2>2, <2>3 DEF Minded, Waiters, At
<1>3. Cardinality({t \in Waiters : ~At(t, "look")}) <= 1
  <2>1. \A t, u \in {v \in Waiters : ~At(v, "look")} : t = u
    BY <1>1 DEF Waiters, At, Owns
  <2> QED BY <2>1, OwnerAlone
<1> QED BY <1>2, <1>3 DEF DebtMinded

(* A debt of the session is always somebody's and one waiter at a time claims it,   *)
(* for any number of tasks, sessions and failures (retry_on_running,               *)
(* wait_for_running, spawn_session_task, stop_push_tasks).                       *)
THEOREM DebtsAreMinded == Spec => []DebtMinded
BY InitHolds, StepHolds, FlagsMind, PTL DEF Spec

-----------------------------------------------------------------------------
(* What is said to be registered is so.                                        *)

LEMMA Numbers ==
    ASSUME RestOK
    PROVE  endpoint \in Nat /\ registered \in Nat /\ issued \in Nat
BY PushAssumption DEF RestOK

LEMMA KeysAreNumbers ==
    ASSUME task \in [Slots -> Tasks], NEW t \in Slots
    PROVE  task[t].key \in Nat
BY PushAssumption DEF Tasks

(* A step of a task that neither has the lock nor gets it.                         *)
LEMMA AsideKeeps ==
    ASSUME RestOK, RegInv, NEW t \in Slots, Alone(t),
           UNCHANGED <<issued, registered, serial, server, struck>>,
           phase' = "draining" => phase = "draining",
           phase' # "closing" => phase # "closing",
           endpoint' \in {endpoint, 0},
           task[t].at \notin Locking, task'[t].at \notin Locking,
           task'[t].key \in {task[t].key, 0}
    PROVE  RegInv'
<1>1. \A u \in Slots : u # t => task'[u] = task[u]
  BY DEF Alone
<1>2. Locked'
  BY <1>1 DEF RegInv, Locked
<1>3. HandedOut'
  <2>1. 0 <= issued
    BY Numbers
  <2> QED BY <1>1, <2>1 DEF RegInv, HandedOut
<1>4. PusherSet'
  BY <1>1 DEF RegInv, PusherSet, Locking, Syncing
<1>5. NothingBeside'
  BY <1>1 DEF RegInv, NothingBeside, Locking
<1>6. Registered'
  <2> SUFFICES ASSUME phase' # "closing", registered' = endpoint', endpoint' # 0,
                      endpoint \notin server \cup struck
               PROVE  \E u \in Slots : serial' = u /\ SaysSo(task[u])'
    BY DEF Registered
  <2>1. endpoint' = endpoint
    OBVIOUS
  <2>2. PICK u \in Slots : serial = u /\ SaysSo(task[u])
    BY <2>1 DEF RegInv, Registered
  <2>3. u # t
    BY <2>2 DEF RegInv, Locked
  <2> QED BY <1>1, <2>1, <2>2, <2>3 DEF SaysSo
<1> QED BY <1>2, <1>3, <1>4, <1>5, <1>6 DEF RegInv

(* A step of the task that has the lock, or takes it: the others have nothing to     *)
(* do with it.                                                                 *)
LEMMA HolderKeeps ==
    ASSUME RegInv, NEW t \in Slots, Alone(t),
           UNCHANGED <<phase, issued, endpoint>>,
           serial \in {None, t}, serial' \in {None, t},
           task'[t].at \in Locking <=> serial' = t,
           registered' <= issued, task'[t].key <= issued,
           task'[t].at \in {"tidy", "keep", "write"} /\ task'[t].key # 0
               => task'[t].key \in server' \cup struck',
           task'[t].at \in Syncing /\ task'[t].role # "drop" =>
               /\ task'[t].key = 0 => registered' # endpoint \/ endpoint = 0
               /\ phase = "draining" => registered' = 0,
           phase # "closing" /\ registered' = endpoint /\ endpoint # 0 =>
               \/ endpoint \in server' \cup struck'
               \/ serial' = t /\ SaysSo(task'[t])
    PROVE  RegInv'
<1>1. \A u \in Slots : u # t => task'[u] = task[u] /\ task[u].at \notin Locking /\ serial' # u
  BY DEF Alone, RegInv, Locked, None, Slots
<1>2. Locked'
  BY <1>1 DEF Locked
<1>3. HandedOut'
  BY <1>1 DEF RegInv, HandedOut
<1>4. PusherSet'
  BY <1>1 DEF PusherSet, Locking, Syncing
<1>5. NothingBeside'
  BY <1>1 DEF NothingBeside, Locking
<1>6. Registered'
  BY DEF Registered, SaysSo
<1> QED BY <1>2, <1>3, <1>4, <1>5, <1>6 DEF RegInv

LEMMA ReturnsLeaves ==
    ASSUME task \in [Slots -> Tasks], NEW t \in Slots, task[t].at # "idle",
           task[t].role # "drop", Placed(task[t]),
           NEW result \in {"ok", "refused", "failed"}, Returns(t, result)
    PROVE  /\ Alone(t) /\ serial' = None
           /\ task'[t].at \notin Locking
           /\ task'[t].key \in {task[t].key, 0}
<1>1. /\ Alone(t) /\ serial' = None
      /\ task'[t].at \in {"idle", "decide", "forgive", "wait", "owe"}
  BY ReturnsFacts
<1>2. Ends(t) \/ \E place \in {"decide", "forgive", "wait", "owe"} : Goes(t, place)
  BY DEF Returns
<1>3. Idle.key = 0
  BY DEF Idle, New
<1>4. task'[t].key \in {task[t].key, 0}
  <2>1. CASE Ends(t)
    BY <1>3, <2>1 DEF Ends
  <2>2. ASSUME NEW place \in {"decide", "forgive", "wait", "owe"}, Goes(t, place)
        PROVE  task'[t].key = task[t].key
    BY <2>2, GoesFacts DEF Places
  <2> QED BY <1>2, <2>1, <2>2
<1> QED BY <1>1, <1>4 DEF Locking, Syncing

(* What the one that has the lock, or takes it, knows.                             *)
LEMMA HolderKnows ==
    ASSUME IInv, RegInv, NEW t \in Slots, task[t].at \in Locking \/ serial = None
    PROVE  /\ Known(t) /\ serial \in {None, t}
           /\ task[t].at \in Locking => serial = t
           /\ endpoint \in Nat /\ registered \in Nat /\ issued \in Nat
           /\ endpoint <= issued /\ registered <= issued /\ task[t].key <= issued /\ 0 <= issued
           /\ task[t].at \in {"tidy", "keep", "write"} /\ task[t].key # 0
                  => task[t].key \in server \cup struck
           /\ task[t].at \in Syncing /\ task[t].role # "drop" =>
                  /\ task[t].key = 0 => registered # endpoint \/ endpoint = 0
                  /\ phase = "draining" => registered = 0
           /\ phase # "closing" /\ registered = endpoint /\ endpoint # 0 =>
                  endpoint \in server \cup struck \/ (serial = t /\ SaysSo(task[t]))
<1>1. Known(t) /\ RestOK
  BY WhatIsKnown, TypeParts DEF IInv
<1>2. serial \in {None, t} /\ (task[t].at \in Locking => serial = t)
  BY DEF RegInv, Locked
<1>3. endpoint \in Nat /\ registered \in Nat /\ issued \in Nat
  BY <1>1, Numbers
<1>4. endpoint <= issued /\ registered <= issued /\ task[t].key <= issued /\ 0 <= issued
  BY <1>3 DEF RegInv, HandedOut
<1>5. phase # "closing" /\ registered = endpoint /\ endpoint # 0 =>
          endpoint \in server \cup struck \/ (serial = t /\ SaysSo(task[t]))
  BY <1>2 DEF RegInv, Registered, None, Slots
<1> QED BY <1>1, <1>2, <1>3, <1>4, <1>5 DEF RegInv, PusherSet, NothingBeside

(* A task that gives the lock back, nothing deleted and nothing said.               *)
LEMMA ReleaseKeeps ==
    ASSUME IInv, RegInv, NEW t \in Slots,
           task[t].at \in Locking \/ serial = None,
           ~SaysSo(task[t]),
           Alone(t), serial' = None, task'[t].at \notin Locking,
           task'[t].key \in {task[t].key, 0},
           UNCHANGED <<phase, issued, endpoint, registered>>,
           server \cup struck \subseteq server' \cup struck'
    PROVE  RegInv'
<1>1. /\ serial \in {None, t} /\ None # t
      /\ registered <= issued /\ task[t].key <= issued /\ 0 <= issued
      /\ phase # "closing" /\ registered = endpoint /\ endpoint # 0 =>
             endpoint \in server \cup struck
  BY HolderKnows DEF None, Slots
<1> QED BY <1>1, HolderKeeps DEF Locking, Syncing

LEMMA EnterSyncSays ==
    ASSUME IInv, RegInv, NEW t \in Slots, EnterSync(t) PROVE RegInv'
<1> USE DEF slotVars, boundVars, rest
<1> DEFINE key == IF task[t].key # 0 THEN task[t].key ELSE endpoint
<1>1. /\ task[t].at = "lock" /\ task[t].role # "drop" /\ serial = None
      /\ UNCHANGED <<phase, issued, endpoint, registered, server, struck>>
  BY DEF EnterSync, At
<1>2. /\ Known(t) /\ serial \in {None, t}
      /\ endpoint <= issued /\ registered <= issued /\ task[t].key <= issued
      /\ phase # "closing" /\ registered = endpoint /\ endpoint # 0 =>
             endpoint \in server \cup struck
  BY <1>1, HolderKnows DEF SaysSo
<1>3. CASE Returns(t, "ok")
  <2>1. /\ Alone(t) /\ serial' = None /\ task'[t].at \notin Locking
        /\ task'[t].key \in {task[t].key, 0}
    BY <1>1, <1>2, <1>3, ReturnsLeaves DEF Known
  <2> QED BY <1>1, <2>1, ReleaseKeeps DEF SaysSo
<1>4. CASE /\ serial' = t /\ Still(task[t].gen)
           /\ task' = [task EXCEPT ![t].at = "ask", ![t].key = key]
  <2>1. key \in 0..MaxEndpoints /\ key <= issued /\ (key = 0 => endpoint = 0)
    BY <1>2 DEF Known, RestOK, Tasks
  <2>2. task \in [Slots -> Tasks] /\ "ask" \in Places /\ phase = "session"
    BY <1>2, <1>4 DEF Known, Places, Requests, Still
  <2> HIDE DEF key
  <2>3. /\ Alone(t) /\ task'[t].at = "ask" /\ task'[t].key = key
    BY <1>4, <2>1, <2>2 DEF Alone, Tasks
  <2> QED BY <1>1, <1>2, <1>4, <2>1, <2>2, <2>3, HolderKeeps DEF Locking, Syncing
<1> QED BY <1>3, <1>4 DEF EnterSync

LEMMA EnterDropSays ==
    ASSUME IInv, RegInv, NEW t \in Slots, EnterDrop(t) PROVE RegInv'
<1> USE DEF slotVars, boundVars, rest
<1>1. /\ task[t].at = "lock" /\ task[t].role = "drop" /\ serial = None /\ serial' = t
      /\ UNCHANGED <<phase, issued, endpoint, registered, server, struck>>
  BY DEF EnterDrop, At
<1>2. /\ Known(t) /\ serial \in {None, t}
      /\ endpoint <= issued /\ registered <= issued /\ task[t].key <= issued
      /\ phase # "closing" /\ registered = endpoint /\ endpoint # 0 =>
             endpoint \in server \cup struck
  BY <1>1, HolderKnows DEF SaysSo
<1>3. CASE phase = "session"
  <2>1. task' = [task EXCEPT ![t].at = "ask", ![t].gen = gen]
    BY <1>3 DEF EnterDrop
  <2>2. gen \in 0..MaxGen /\ task \in [Slots -> Tasks] /\ "ask" \in Places
    BY <1>2 DEF Known, RestOK, Places, Requests
  <2>3. /\ Alone(t) /\ task'[t].at = "ask" /\ task'[t].key = task[t].key
        /\ task'[t].role = "drop"
    BY <1>1, <2>1, <2>2 DEF Alone, Tasks
  <2> QED BY <1>1, <1>2, <2>3, HolderKeeps DEF Locking, Syncing
<1>4. CASE phase # "session"
  <2>1. /\ Alone(t) /\ task'[t].at = "drop" /\ task'[t].key = task[t].key
    BY <1>4, <1>2, GoesFacts DEF EnterDrop, Known, Places
  <2> QED BY <1>1, <1>2, <2>1, HolderKeeps DEF Locking, Syncing
<1> QED BY <1>3, <1>4

LEMMA ListSays ==
    ASSUME IInv, RegInv, NEW t \in Slots, List(t) PROVE RegInv'
<1> USE DEF slotVars, boundVars, rest
<1>1. /\ task[t].at = "ask"
      /\ UNCHANGED <<phase, issued, endpoint, registered, serial, server, struck>>
  BY DEF List, At
<1>2. /\ Known(t) /\ serial = t
      /\ endpoint <= issued /\ registered <= issued /\ task[t].key <= issued
      /\ task[t].role # "drop" =>
             /\ task[t].key = 0 => registered # endpoint \/ endpoint = 0
             /\ phase = "draining" => registered = 0
      /\ phase # "closing" /\ registered = endpoint /\ endpoint # 0 =>
             endpoint \in server \cup struck
  BY <1>1, HolderKnows DEF SaysSo, Locking, Syncing
<1> DEFINE place == IF task[t].key \in server \cup {0} THEN "tidy" ELSE "set"
<1>3. /\ task \in [Slots -> Tasks] /\ server \subseteq Endpoints
      /\ task' = [task EXCEPT ![t].at = place, ![t].listed = server]
  BY <1>2 DEF List, Known, RestOK
<1>4. /\ place \in {"tidy", "set"} /\ place \in Places
      /\ place = "tidy" /\ task[t].key # 0 => task[t].key \in server
  BY DEF Places, Requests
<1> HIDE DEF place
<1>5. /\ Alone(t) /\ task'[t].at = place /\ task'[t].role = task[t].role
      /\ task'[t].key = task[t].key
  BY <1>3, <1>4 DEF Alone, Tasks
<1> QED BY <1>1, <1>2, <1>4, <1>5, HolderKeeps DEF Locking, Syncing

LEMMA SetSays ==
    ASSUME IInv, RegInv, NEW t \in Slots, Set(t) PROVE RegInv'
<1> USE DEF slotVars, boundVars, rest
<1>1. /\ task[t].at = "set" /\ Goes(t, "tidy") /\ server' = server \cup {task[t].key}
      /\ UNCHANGED <<phase, issued, endpoint, registered, serial, struck>>
  BY DEF Set, At
<1>2. /\ Known(t) /\ serial = t
      /\ endpoint <= issued /\ registered <= issued /\ task[t].key <= issued
      /\ task[t].role # "drop" =>
             /\ task[t].key = 0 => registered # endpoint \/ endpoint = 0
             /\ phase = "draining" => registered = 0
      /\ phase # "closing" /\ registered = endpoint /\ endpoint # 0 =>
             endpoint \in server \cup struck
  BY <1>1, HolderKnows DEF SaysSo, Locking, Syncing
<1>3. /\ Alone(t) /\ task'[t].at = "tidy" /\ task'[t].role = task[t].role
      /\ task'[t].key = task[t].key
  BY <1>1, <1>2, GoesFacts DEF Known, Places, Requests
<1> QED BY <1>1, <1>2, <1>3, HolderKeeps DEF Locking, Syncing

(* A request that fails deletes nothing, unless it comes late.                      *)
LEMMA FailedSays ==
    ASSUME IInv, RegInv, NEW t \in Slots, task[t].at \in Requests,
           NEW result \in {"failed", "refused"}, Failed(t, result),
           UNCHANGED <<phase, issued, endpoint, registered, struck>>,
           task[t].role # "drop" /\ phase # "closing" /\ registered = endpoint /\ endpoint # 0
               => server' = server
    PROVE  RegInv'
<1>1. /\ Known(t) /\ serial = t /\ None # t
      /\ endpoint <= issued /\ registered <= issued /\ task[t].key <= issued /\ 0 <= issued
      /\ phase # "closing" /\ registered = endpoint /\ endpoint # 0 =>
             endpoint \in server \cup struck
  BY HolderKnows DEF SaysSo, Locking, Syncing, Requests, None, Slots
<1>2. CASE task[t].role = "drop"
  <2>1. /\ Alone(t) /\ task'[t].at = "drop" /\ serial' = serial /\ task'[t].key = task[t].key
    BY <1>1, <1>2, GoesFacts DEF Failed, Known, Places
  <2> QED BY <1>1, <2>1, HolderKeeps DEF Locking, Syncing, SaysSo
<1>3. CASE task[t].role # "drop"
  <2>1. /\ Alone(t) /\ serial' = None /\ task'[t].at \notin Locking
        /\ task'[t].key \in {task[t].key, 0}
    BY <1>1, <1>3, ReturnsLeaves DEF Failed, Known, Requests
  <2> QED BY <1>1, <1>3, <2>1, HolderKeeps DEF Locking, Syncing
<1> QED BY <1>2, <1>3

LEMMA RequestFailsSays ==
    ASSUME IInv, RegInv, NEW t \in Slots, NEW result \in {"failed", "refused"},
           AskFails(t, result) \/ SetFails(t, result)
    PROVE  RegInv'
<1>1. /\ task[t].at \in Requests /\ Failed(t, result)
      /\ UNCHANGED <<phase, issued, endpoint, registered, server, struck>>
  BY DEF AskFails, SetFails, At, Requests, slotVars, pushVars, serverVars
<1> QED BY <1>1, FailedSays

(* Tidying spares the pusher just set: the registered one goes only with a drop, or   *)
(* for another.                                                                *)
LEMMA TidySpares ==
    ASSUME IInv, RegInv, NEW t \in Slots, task[t].at = "tidy",
           NEW removed \in SUBSET Stale(t), Tidied(t, removed), UNCHANGED struck
    PROVE  /\ task[t].key # 0 => task[t].key \in server' \cup struck
           /\ endpoint \in server \cup struck =>
                  endpoint \in server' \cup struck \/ task[t].key # endpoint
<1>1. task[t].key # 0 => task[t].key \in server \cup struck
  BY DEF RegInv, PusherSet
<1>2. task[t].key \notin removed
  BY DEF Stale
<1>3. \A e \in server : e \in removed \/ e \in server'
  BY DEF Tidied
<1> QED BY <1>1, <1>2, <1>3

LEMMA TidySays ==
    ASSUME IInv, RegInv, NEW t \in Slots, Tidy(t) PROVE RegInv'
<1> USE DEF slotVars, boundVars, rest
<1>1. /\ task[t].at = "tidy" /\ Tidied(t, Stale(t))
      /\ UNCHANGED <<phase, issued, endpoint, registered, serial, struck>>
  BY DEF Tidy, At
<1>2. /\ Known(t) /\ serial = t
      /\ endpoint <= issued /\ registered <= issued /\ task[t].key <= issued
      /\ task[t].role # "drop" =>
             /\ task[t].key = 0 => registered # endpoint \/ endpoint = 0
             /\ phase = "draining" => registered = 0
      /\ phase # "closing" /\ registered = endpoint /\ endpoint # 0 =>
             endpoint \in server \cup struck
  BY <1>1, HolderKnows DEF SaysSo, Locking, Syncing
<1>3. /\ task[t].key # 0 => task[t].key \in server' \cup struck
      /\ endpoint \in server \cup struck =>
             endpoint \in server' \cup struck \/ task[t].key # endpoint
  BY <1>1, TidySpares
<1>4. CASE task[t].role = "drop"
  <2>1. /\ task \in [Slots -> Tasks] /\ "drop" \in Places
        /\ task' = [task EXCEPT ![t].at = "drop", ![t].cleared = Still(task[t].gen)]
    BY <1>2, <1>4 DEF Tidy, Known, Places
  <2>2. Still(task[t].gen) \in BOOLEAN
    BY DEF Still
  <2>3. /\ Alone(t) /\ task'[t].at = "drop" /\ task'[t].key = task[t].key
    BY <2>1, <2>2 DEF Alone, Tasks
  <2> QED BY <1>1, <1>2, <2>3, HolderKeeps DEF Locking, Syncing, SaysSo
<1>5. CASE task[t].role # "drop"
  <2>1. /\ Alone(t) /\ task'[t].at = "keep" /\ task'[t].role = task[t].role
        /\ task'[t].key = task[t].key
    BY <1>2, <1>5, GoesFacts DEF Tidy, Known, Places
  <2> QED BY <1>1, <1>2, <1>3, <1>5, <2>1, HolderKeeps DEF Locking, Syncing, SaysSo
<1> QED BY <1>4, <1>5

LEMMA TidyFailsSays ==
    ASSUME IInv, RegInv, NEW t \in Slots, NEW k \in Endpoints,
           NEW result \in {"failed", "refused"}, TidyFails(t, k, result)
    PROVE  RegInv'
<1> USE DEF slotVars, pushVars
<1>1. /\ task[t].at = "tidy" /\ Tidied(t, Stale(t) \ {k})
      /\ UNCHANGED <<phase, issued, endpoint, registered, struck>>
  BY DEF TidyFails, At
<1>2. /\ Known(t) /\ serial = t
      /\ endpoint <= issued /\ registered <= issued /\ task[t].key <= issued
      /\ task[t].role # "drop" =>
             /\ task[t].key = 0 => registered # endpoint \/ endpoint = 0
             /\ phase = "draining" => registered = 0
      /\ phase # "closing" /\ registered = endpoint /\ endpoint # 0 =>
             endpoint \in server \cup struck
  BY <1>1, HolderKnows DEF SaysSo, Locking, Syncing
<1>3. /\ task[t].key # 0 => task[t].key \in server' \cup struck
      /\ endpoint \in server \cup struck =>
             endpoint \in server' \cup struck \/ task[t].key # endpoint
  BY <1>1, TidySpares
<1>4. CASE task[t].key # 0
  <2>1. /\ Alone(t) /\ serial' = serial /\ task'[t].at = "keep"
        /\ task'[t].role = task[t].role /\ task'[t].key = task[t].key
    BY <1>2, <1>4, GoesFacts DEF TidyFails, Known, Places
  <2>2. task[t].role # "drop"
    BY <1>2, <1>4 DEF Known, Placed
  <2> QED BY <1>1, <1>2, <1>3, <1>4, <2>1, <2>2, HolderKeeps DEF Locking, Syncing, SaysSo
<1>5. CASE task[t].key = 0
  <2>1. Failed(t, result)
    BY <1>5 DEF TidyFails
  <2> QED BY <1>1, <1>2, <1>5, <2>1, FailedSays DEF Requests
<1> QED BY <1>4, <1>5

LEMMA KeepSays ==
    ASSUME IInv, RegInv, NEW t \in Slots, Keep(t) PROVE RegInv'
<1> USE DEF slotVars, boundVars, rest, serverVars
<1>1. /\ task[t].at = "keep"
      /\ UNCHANGED <<gen, phase, issued, endpoint, registered, server, struck>>
  BY DEF Keep, At
<1>2. /\ Known(t) /\ serial = t /\ None # t /\ task[t].role # "drop"
      /\ endpoint <= issued /\ registered <= issued /\ task[t].key <= issued /\ 0 <= issued
      /\ task[t].key # 0 => task[t].key \in server \cup struck
      /\ task[t].key = 0 => registered # endpoint \/ endpoint = 0
      /\ phase = "draining" => registered = 0
      /\ phase # "closing" /\ registered = endpoint /\ endpoint # 0 =>
             endpoint \in server \cup struck \/ SaysSo(task[t])
  BY <1>1, HolderKnows DEF Locking, Syncing, None, Slots, Known, Placed
<1>3. CASE Still(task[t].gen)
  <2>1. /\ Alone(t) /\ serial' = serial /\ task'[t].at = "write"
        /\ task'[t].role = task[t].role /\ task'[t].key = task[t].key
    BY <1>2, <1>3, GoesFacts DEF Keep, Known, Places
  <2> QED BY <1>1, <1>2, <2>1, HolderKeeps DEF Locking, Syncing, SaysSo
<1>4. CASE ~Still(task[t].gen)
  <2>1. /\ Alone(t) /\ serial' = None /\ task'[t].at \notin Locking
        /\ task'[t].key \in {task[t].key, 0}
    BY <1>1, <1>2, <1>4, ReturnsLeaves DEF Keep, Known
  <2>2. phase \in {"closing", "draining"}
    <3>1. phase # "session"
      BY <1>1, <1>2, <1>4 DEF Known, Syncs
    <3>2. phase \notin {"none", "clearing"}
      BY <1>1, <1>2 DEF IInv, Flags, Rests, Syncs
    <3> QED BY <1>2, <3>1, <3>2 DEF Known, RestOK, Phases
  <2> QED BY <1>1, <1>2, <2>1, <2>2, HolderKeeps DEF Locking, Syncing
<1> QED BY <1>3, <1>4

LEMMA WriteSays ==
    ASSUME IInv, RegInv, NEW t \in Slots, Write(t) PROVE RegInv'
<1> USE DEF slotVars, boundVars, rest, serverVars
<1>1. /\ task[t].at = "write" /\ Returns(t, "ok")
      /\ registered' = IF task[t].key = 0 THEN registered ELSE task[t].key
      /\ UNCHANGED <<phase, issued, endpoint, server, struck>>
  BY DEF Write, At
<1>2. /\ Known(t) /\ serial = t /\ None # t /\ task[t].role # "drop"
      /\ endpoint <= issued /\ registered <= issued /\ task[t].key <= issued /\ 0 <= issued
      /\ task[t].key # 0 => task[t].key \in server \cup struck
      /\ task[t].key = 0 => registered # endpoint \/ endpoint = 0
  BY <1>1, HolderKnows DEF Locking, Syncing, None, Slots, Known, Placed
<1>3. /\ Alone(t) /\ serial' = None /\ task'[t].at \notin Locking
      /\ task'[t].key \in {task[t].key, 0}
  BY <1>1, <1>2, ReturnsLeaves DEF Known
<1> QED BY <1>1, <1>2, <1>3, HolderKeeps DEF Locking, Syncing

LEMMA DropSays ==
    ASSUME IInv, RegInv, NEW t \in Slots, Drop(t) PROVE RegInv'
<1> USE DEF slotVars, boundVars, rest, serverVars
<1>1. /\ task[t].at = "drop" /\ registered' = 0 /\ serial' = None /\ Goes(t, "forget")
      /\ UNCHANGED <<phase, issued, endpoint, server, struck>>
  BY DEF Drop, At
<1>2. /\ Known(t) /\ serial = t /\ None # t /\ task[t].key <= issued /\ 0 <= issued
  BY <1>1, HolderKnows DEF Locking, Syncing, None, Slots
<1>3. /\ Alone(t) /\ task'[t].at = "forget" /\ task'[t].key = task[t].key
  BY <1>1, <1>2, GoesFacts DEF Known, Places
<1> QED BY <1>1, <1>2, <1>3, HolderKeeps DEF Locking, Syncing

(* The steps that have nothing to do with the lock.                                *)
LEMMA AsideSays ==
    ASSUME IInv, RegInv, NEW t \in Slots,
           \/ Forget(t) \/ Forgive(t) \/ Owe(t) \/ Note(t) \/ Claim(t) \/ SpawnWaiter(t)
           \/ Wake(t) \/ Decide(t) \/ Leave(t) \/ Look(t)
    PROVE  RegInv'
<1> USE DEF slotVars, boundVars, pushVars, rest, flagVars, serverVars
<1>1. /\ task[t].at \in {"forget", "forgive", "owe", "note", "claim", "spawn", "wait", "decide",
                         "leave", "look"}
      /\ UNCHANGED <<phase, issued, registered, serial, server, struck>>
      /\ endpoint' \in {endpoint, 0}
  BY DEF At, Forget, Forgive, Owe, Note, Claim, SpawnWaiter, Wake, Decide, Leave, Look
<1>2. /\ Known(t) /\ RestOK /\ task \in [Slots -> Tasks] /\ task[t].gen \in 0..MaxGen
      /\ 0 \in 0..MaxEndpoints
  BY WhatIsKnown, PushAssumption DEF Known, Tasks
<1>3. \/ Ends(t)
      \/ \E place \in {"leave", "note", "claim", "spawn", "wait", "look"} : Goes(t, place)
      \/ task' = [task EXCEPT ![t] = New("waiter", "wait", task[t].gen, 0)]
      \/ task' = [task EXCEPT ![t].at = "lock", ![t].key = 0]
  BY DEF Forget, Forgive, Owe, Note, Claim, SpawnWaiter, Wake, Decide, Leave, Look
<1>4. /\ Alone(t) /\ task'[t].at \notin Locking /\ task'[t].key \in {task[t].key, 0}
  <2>1. CASE Ends(t)
    <3>1. Idle.key = 0
      BY DEF Idle, New
    <3> QED BY <1>2, <2>1, <3>1, EndsFacts DEF Locking, Syncing
  <2>2. ASSUME NEW place \in {"leave", "note", "claim", "spawn", "wait", "look"}, Goes(t, place)
        PROVE  /\ Alone(t) /\ task'[t].at \notin Locking /\ task'[t].key \in {task[t].key, 0}
    BY <1>2, <2>2, GoesFacts DEF Places, Locking, Syncing
  <2>3. CASE task' = [task EXCEPT ![t] = New("waiter", "wait", task[t].gen, 0)]
    BY <1>2, <2>3 DEF New, Tasks, Roles, Places, Alone, Locking, Syncing
  <2>4. CASE task' = [task EXCEPT ![t].at = "lock", ![t].key = 0]
    BY <1>2, <2>4 DEF Tasks, Places, Alone, Locking, Syncing
  <2> QED BY <1>3, <2>1, <2>2, <2>3, <2>4
<1> QED BY <1>1, <1>2, <1>4, AsideKeeps DEF Locking, Syncing

LEMMA AbortedSays ==
    ASSUME IInv, RegInv, NEW t \in Slots, Aborted(t) PROVE RegInv'
<1> USE DEF slotVars, boundVars, pushVars, flagVars
<1>1. /\ task[t].at \in {"lock", "wait"} \cup Requests /\ Ends(t)
      /\ serial' = IF serial = t THEN None ELSE serial
      /\ UNCHANGED <<phase, issued, endpoint, registered, server, struck>>
  BY DEF Aborted
<1>2. RestOK /\ task \in [Slots -> Tasks]
  BY TypeParts DEF IInv
<1>3. /\ Alone(t) /\ task'[t].at \notin Locking /\ task'[t].key \in {task[t].key, 0}
  <2>1. Idle.key = 0
    BY DEF Idle, New
  <2> QED BY <1>1, <1>2, <2>1, EndsFacts DEF Locking, Syncing
<1>4. CASE task[t].at \in Requests
  <2>1. task[t].at \in Locking /\ serial = t
    BY <1>4 DEF RegInv, Locked, Locking, Syncing, Requests
  <2> QED BY <1>1, <1>3, <1>4, <2>1, ReleaseKeeps DEF SaysSo, Requests
<1>5. CASE task[t].at \in {"lock", "wait"}
  <2>1. task[t].at \notin Locking /\ serial # t
    BY <1>5 DEF RegInv, Locked, Locking, Syncing
  <2> QED BY <1>1, <1>2, <1>3, <2>1, AsideKeeps
<1> QED BY <1>1, <1>4, <1>5

LEMMA StepSays ==
    ASSUME IInv, RegInv, NEW t \in Slots, Step(t) PROVE RegInv'
<1>1. ASSUME NEW result \in {"failed", "refused"}, AskFails(t, result) \/ SetFails(t, result)
      PROVE  RegInv'
  BY <1>1, RequestFailsSays
<1>2. ASSUME NEW result \in {"failed", "refused"}, NEW k \in Endpoints, TidyFails(t, k, result)
      PROVE  RegInv'
  BY <1>2, TidyFailsSays
<1> QED BY <1>1, <1>2, EnterSyncSays, EnterDropSays, ListSays, SetSays, TidySays, KeepSays,
           WriteSays, DropSays, AsideSays DEF Step, Request

(* A new task begins at the lock.                                                *)
LEMMA NewTask ==
    ASSUME IInv, NEW t \in Slots, NEW role \in Roles, NEW key \in 0..MaxEndpoints,
           Spawn(t, role, key) \/ (SessionStarts(t) /\ key = 0)
    PROVE  /\ Alone(t) /\ task'[t].key = key
           /\ task[t].at \notin Locking /\ task'[t].at \notin Locking
<1>1. PICK r \in Roles, g \in 0..MaxGen :
          /\ Free(t)
          /\ task' = [task EXCEPT ![t] = New(r, "lock", g, key)]
  <2>1. gen \in 0..MaxGen /\ MaxGen \in Nat
    BY PushAssumption DEF IInv, TypeOK
  <2>2. CASE Spawn(t, role, key)
    BY <2>1, <2>2 DEF Spawn
  <2>3. CASE SessionStarts(t) /\ key = 0
    <3>1. gen + 1 \in 0..MaxGen /\ "start" \in Roles
      BY <2>1, <2>3 DEF SessionStarts, Roles
    <3> QED BY <2>3, <3>1 DEF SessionStarts
  <2> QED BY <2>2, <2>3
<1>2. task \in [Slots -> Tasks] /\ New(r, "lock", g, key) \in Tasks
  BY TypeParts DEF IInv, New, Tasks, Places
<1>3. New(r, "lock", g, key).at = "lock" /\ New(r, "lock", g, key).key = key
  BY DEF New
<1>4. Alone(t) /\ task'[t] = New(r, "lock", g, key)
  BY <1>1, <1>2 DEF Alone
<1> QED BY <1>1, <1>3, <1>4 DEF Free, At, Locking, Syncing

LEMMA StartsSay ==
    ASSUME IInv, RegInv, NEW t \in Slots, Starts(t) PROVE RegInv'
<1> USE DEF slotVars, pushVars, flagVars, serverVars, boundVars
<1>1. RestOK /\ gen \in 0..MaxGen /\ 0 \in 0..MaxEndpoints /\ MaxGen \in Nat /\ MaxEndpoints \in Nat
  BY TypeParts, PushAssumption DEF IInv, RestOK
<1>2. CASE SessionStarts(t)
  <2>1. /\ phase = "none" /\ phase' = "session"
        /\ UNCHANGED <<issued, endpoint, registered, serial, server, struck>>
    BY <1>1, <1>2 DEF SessionStarts
  <2>2. /\ Alone(t) /\ task'[t].key = 0
        /\ task[t].at \notin Locking /\ task'[t].at \notin Locking
    BY <1>1, <1>2, NewTask DEF Roles
  <2> QED BY <1>1, <2>1, <2>2, AsideKeeps
<1>3. CASE Status(t) \/ Disable(t)
  <2>1. PICK role \in Roles : Spawn(t, role, 0)
    BY <1>3 DEF Status, Disable, Roles
  <2>2. UNCHANGED <<phase, issued, endpoint, registered, serial, server, struck>>
    BY <1>3 DEF Status, Disable
  <2>3. /\ Alone(t) /\ task'[t].key = 0
        /\ task[t].at \notin Locking /\ task'[t].at \notin Locking
    BY <1>1, <2>1, NewTask DEF Roles
  <2> QED BY <1>1, <2>2, <2>3, AsideKeeps
<1>4. ASSUME NEW role \in {"event", "command"}, NewEndpoint(t, role) PROVE RegInv'
  <2>1. /\ issued' = issued + 1 /\ endpoint' = issued + 1 /\ issued + 1 \in 0..MaxEndpoints
        /\ issued \in Nat /\ registered <= issued /\ registered \in Nat
        /\ UNCHANGED <<phase, registered, serial, server, struck>>
    BY <1>1, <1>4, Numbers DEF NewEndpoint, RegInv, HandedOut, RestOK
  <2>2. \A u \in Slots : /\ task'[u].key <= issued'
                         /\ task'[u] = task[u]
                            \/ (task[u].at \notin Locking /\ task'[u].at \notin Locking)
    <3>1. \A u \in Slots : task[u].key <= issued /\ task[u].key \in Nat
      BY KeysAreNumbers, TypeParts DEF RegInv, HandedOut, IInv
    <3>2. CASE task' = task
      BY <2>1, <3>1, <3>2
    <3>3. CASE Spawn(t, role, issued + 1)
      <4>1. /\ Alone(t) /\ task'[t].key = issued + 1
            /\ task[t].at \notin Locking /\ task'[t].at \notin Locking
        BY <1>1, <2>1, <3>3, NewTask DEF Roles
      <4> QED BY <2>1, <3>1, <4>1 DEF Alone
    <3> QED BY <1>4, <3>2, <3>3 DEF NewEndpoint
  <2>3. Locked'
    BY <2>1, <2>2 DEF RegInv, Locked
  <2>4. HandedOut'
    BY <2>1, <2>2 DEF HandedOut
  <2>5. PusherSet'
    BY <2>1, <2>2 DEF RegInv, PusherSet, Locking, Syncing
  <2>6. registered' # endpoint'
    BY <2>1
  <2>7. NothingBeside'
    BY <2>1, <2>2, <2>6 DEF RegInv, NothingBeside, Locking
  <2> QED BY <2>3, <2>4, <2>5, <2>6, <2>7 DEF RegInv, Registered
<1> QED BY <1>2, <1>3, <1>4 DEF Starts

LEMMA OthersSay ==
    ASSUME IInv, RegInv,
           \/ SyncRuns \/ StopPushTasks \/ Drained
           \/ \E left \in SUBSET Noted : Clears(left)
           \/ \E out \in BOOLEAN : Closes(out)
           \/ \E k \in Endpoints, what \in {"set", "delete"} : Arrives(k, what)
    PROVE  RegInv'
<1> USE DEF slotVars, pushVars, flagVars, serverVars, boundVars
<1>0. UNCHANGED <<task, serial, issued>>
  BY DEF SyncRuns, StopPushTasks, Drained, Clears, Closes, Arrives
<1>1. RestOK /\ 0 <= issued
  BY TypeParts, Numbers DEF IInv
<1>2. Locked'
  BY <1>0 DEF RegInv, Locked
<1>3. CASE SyncRuns \/ Drained \/ \E out \in BOOLEAN : Closes(out)
  <2>1. /\ UNCHANGED <<endpoint, registered, server, struck>>
        /\ phase' \in {phase, "closing"} \/ phase = "draining"
        /\ phase' = "draining" => phase = "draining"
    BY <1>3 DEF SyncRuns, Drained, Closes
  <2> QED BY <1>0, <1>2, <2>1 DEF RegInv, HandedOut, PusherSet, NothingBeside, Registered, SaysSo
<1>4. CASE StopPushTasks
  <2>1. registered' = 0 /\ UNCHANGED <<endpoint, server, struck>>
    BY <1>4 DEF StopPushTasks
  <2> QED BY <1>0, <1>1, <1>2, <2>1 DEF RegInv, HandedOut, PusherSet, NothingBeside, Registered
<1>5. ASSUME NEW left \in SUBSET Noted, Clears(left) PROVE RegInv'
  <2>1. phase = "clearing" /\ endpoint' = 0 /\ registered' = 0 /\ phase' = "none"
    BY <1>5 DEF Clears
  <2>2. \A t \in Slots : ~(task[t].at \in {"tidy", "keep", "write"} /\ task[t].key # 0)
    BY <2>1 DEF IInv, Flags, Rests, Syncs, AllPlaced, Placed
  <2> QED BY <1>0, <1>1, <1>2, <2>1, <2>2 DEF RegInv, HandedOut, PusherSet, NothingBeside, Registered
<1>6. ASSUME NEW k \in Endpoints, NEW what \in {"set", "delete"}, Arrives(k, what) PROVE RegInv'
  <2>1. /\ UNCHANGED <<phase, endpoint, registered>>
        /\ \A e \in server \cup struck : e \in server' \cup struck'
    BY <1>6 DEF Arrives
  <2> QED BY <1>0, <1>2, <2>1 DEF RegInv, HandedOut, PusherSet, NothingBeside, Registered, SaysSo
<1> QED BY <1>3, <1>4, <1>5, <1>6

LEMMA RegHolds == IInv /\ RegInv /\ [Next]_vars => RegInv'
<1> SUFFICES ASSUME IInv, RegInv, [Next]_vars PROVE RegInv'
  OBVIOUS
<1>1. CASE UNCHANGED vars
  BY <1>1 DEF vars, slotVars, pushVars, flagVars, serverVars, boundVars,
              RegInv, Locked, HandedOut, PusherSet, NothingBeside, Registered, SaysSo
<1>2. ASSUME NEW t \in Slots, Starts(t) \/ Step(t) PROVE RegInv'
  BY <1>2, StartsSay, StepSays
<1>3. ASSUME NEW t \in Slots, AbortPushTask(t) \/ DrainCommand(t) PROVE RegInv'
  BY <1>3, AbortedSays DEF AbortPushTask, DrainCommand
<1>4. ASSUME \/ SyncRuns \/ StopPushTasks \/ Drained
             \/ \E left \in SUBSET Noted : Clears(left)
             \/ \E out \in BOOLEAN : Closes(out)
             \/ \E k \in Endpoints, what \in {"set", "delete"} : Arrives(k, what)
      PROVE  RegInv'
  BY <1>4, OthersSay
<1> QED BY <1>1, <1>2, <1>3, <1>4 DEF Next, Teardown

LEMMA InitSays == Init => RegInv
<1> SUFFICES ASSUME Init PROVE RegInv
  OBVIOUS
<1>1. \A t \in Slots : task[t].at = "idle" /\ task[t].key = 0
  BY DEF Init, Idle, New
<1>2. endpoint = 0 /\ registered = 0 /\ issued = 0 /\ serial = None
  BY DEF Init
<1> QED BY <1>1, <1>2 DEF RegInv, Locked, HandedOut, PusherSet, NothingBeside, Registered,
           Locking, Syncing, None, Slots

LEMMA RegSays == RegInv => RegisteredIsSo
<1> SUFFICES ASSUME RegInv, phase = "session", serial = None, registered = endpoint, endpoint # 0
             PROVE  endpoint \in server \cup struck
  BY DEF RegisteredIsSo
<1> QED BY DEF RegInv, Registered, None, Slots

(* What the page says of the registration is so, for any number of tasks,          *)
(* endpoints, sessions and failures: outside a change the endpoint that counts as    *)
(* registered has its pusher on the homeserver, unless a delete that came late took  *)
(* it away (push_sync, register, drop_registration, stop_push_tasks).              *)
THEOREM WhatIsSaidIsSo == Spec => []RegisteredIsSo
BY InitHolds, StepHolds, InitSays, RegHolds, RegSays, PTL DEF Spec
=============================================================================
