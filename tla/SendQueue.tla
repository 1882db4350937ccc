----------------------------- MODULE SendQueue -----------------------------
(* One room's send queue and what switches it back on: the recovery task,   *)
(* its timers, the sync's return, the user's retry and discard              *)
(* (core/src/sendqueue.rs, spawn_send_queue_recovery in core/src/roomlist.rs). *)
(*                                                                          *)
(* The SDK's queue is external: it sends the first request not refused for   *)
(* good and switches the room off after any failure. Everything kept here is *)
(* kept per room, so one room is modelled; the others are the reason why the *)
(* broadcast channel may run over at any time. Waits are not counted: a      *)
(* timer may fire whenever it runs.                                          *)
EXTENDS Naturals, Sequences, FiniteSets

CONSTANTS Reqs,                 \* transaction ids, in whatever order they are sent
          Attachments,          \* whose every attempt is a whole upload
          Reactions,            \* which their chip can withdraw
          Votes,                \* which the poll's watch withdraws once refused
          AttachmentAttempts, TextAttempts,
          MaxUpdates,           \* capacity of the broadcast channel
          MaxCommands,          \* bound: retries and discards at a time
          MaxFailures,          \* bound: failed sends of a run
          None

ASSUME KindsAssumption ==
    /\ None \notin Reqs
    /\ Attachments \subseteq Reqs /\ Reactions \subseteq Reqs /\ Votes \subseteq Reqs

ASSUME AttemptsAssumption ==
    /\ AttachmentAttempts \in Nat /\ AttachmentAttempts > 1
    /\ TextAttempts \in Nat /\ TextAttempts > 1
    /\ MaxUpdates \in Nat /\ MaxUpdates > 0
    /\ MaxCommands \in Nat /\ MaxFailures \in Nat

(* Failures the SDK retries: the server answered or the store failed; bytes  *)
(* went out and nothing came back; a rate limit or no connection at all.     *)
Causes == {"answered", "dropped", "unreached"}
Updates == [txn : Reqs, cause : Causes \cup {"refused"}]

(* Time since a request's first counted failure: under half an hour, under   *)
(* six hours, more.                                                          *)
Ages == {"young", "patient", "stale"}

Wakers == {"timer", "sync"}

VARIABLES queue,        \* the SDK's queue, in its store
          unsent,       \* requests the user has not made yet
          refused,      \* wedged in the SDK: refused for good
          there,        \* the refused reactions the server has already
          enabled,      \* the SDK sends in this room
          flying,       \* the request on its way
          failures,     \* counts up to its bound
          updates,      \* the broadcast channel, this room's part
          lagged,       \* the channel ran over
          attempts,     \* Parking::attempts
          age,
          parked,       \* Parking::parked
          waiting,      \* Parking::waiting
          recovery,     \* where the recovery task is
          update,       \* the failure it handles
          seen,         \* the echoes it read
          pending,      \* a timer sleeps for the room
          hand,         \* where a timer or the sync loop is on its way to a wake
          user,         \* where a retry or a discard is
          lapse         \* history: the room was off when its blocker left by another way

sdkVars == <<queue, unsent, refused, there, flying, failures>>
channel == <<updates, lagged>>
parkingVars == <<attempts, age, parked, waiting>>
recoveryVars == <<recovery, update, seen>>
vars == <<sdkVars, enabled, channel, parkingVars, recoveryVars, pending, hand,
          user, lapse>>

Queued == {queue[i] : i \in DOMAIN queue}

(* The queue with a request taken out of it. *)
Place(r) == CHOOSE i \in DOMAIN queue : queue[i] = r
Without(r) ==
    IF r \in Queued
    THEN [i \in 1..(Len(queue) - 1) |-> queue[IF i < Place(r) THEN i ELSE i + 1]]
    ELSE queue

TypeOK ==
    /\ queue \in Seq(Reqs) /\ unsent \subseteq Reqs
    /\ refused \subseteq Reqs /\ there \subseteq refused
    /\ enabled \in BOOLEAN /\ flying \in Reqs \cup {None}
    /\ failures \in 0..MaxFailures
    /\ updates \in Seq(Updates) /\ Len(updates) <= MaxUpdates
    /\ lagged \in BOOLEAN
    /\ attempts \in [Reqs -> Nat] /\ age \in [Reqs -> Ages]
    /\ parked \subseteq Reqs /\ waiting \in BOOLEAN
    /\ recovery \in {"idle", "counting", "arming", "listed"}
    /\ update \in Updates \cup {None} /\ seen \subseteq Reqs
    /\ pending \in BOOLEAN
    /\ hand \in [Wakers -> {"idle", "check", "enable"}]
    /\ user \in [Reqs -> {"none", "resend", "discard"}]
    /\ lapse \in BOOLEAN

(* A process begins: what an earlier one left in the queue is there, and what  *)
(* was refused then is still refused; the rest of the state never outlives one. *)
Init ==
    /\ queue \in UNION {{f \in [1..n -> Reqs] : \A i, j \in 1..n : f[i] = f[j] => i = j} :
                       n \in 0..Cardinality(Reqs)}
    /\ unsent = Reqs \ Queued
    /\ refused \in SUBSET Queued /\ there \in SUBSET (refused \cap Reactions)
    /\ failures = 0
    /\ enabled = TRUE /\ flying = None
    /\ updates = <<>> /\ lagged = FALSE
    /\ attempts = [r \in Reqs |-> 0] /\ age = [r \in Reqs |-> "young"]
    /\ parked = {} /\ waiting = FALSE
    /\ recovery = "idle" /\ update = None /\ seen = {}
    /\ pending = FALSE /\ hand = [w \in Wakers |-> "idle"]
    /\ user = [r \in Reqs |-> "none"]
    /\ lapse = FALSE

-----------------------------------------------------------------------------
(* The SDK and the line *)

Queue(r) ==
    /\ r \in unsent
    /\ unsent' = unsent \ {r}
    /\ queue' = Append(queue, r)
    /\ UNCHANGED <<refused, there, flying, failures, enabled, channel, parkingVars, recoveryVars,
                   pending, hand, user, lapse>>

StartSend(r) ==
    /\ enabled /\ flying = None
    /\ \E i \in DOMAIN queue : /\ queue[i] = r /\ r \notin refused
                               /\ \A j \in 1..(i - 1) : queue[j] \in refused
    /\ flying' = r
    /\ UNCHANGED <<queue, unsent, refused, there, failures, enabled, channel, parkingVars, recoveryVars,
                   pending, hand, user, lapse>>

Sent ==
    /\ flying # None
    /\ queue' = Without(flying)
    /\ flying' = None
    /\ UNCHANGED <<unsent, refused, there, failures, enabled, channel, parkingVars, recoveryVars,
                   pending, hand, user, lapse>>

(* A bug: nothing is ever dropped from the channel. *)
TellsAll(u) == updates' = Append(updates, u) /\ UNCHANGED lagged

(* The channel keeps the newest; who was too slow is told that it missed some. *)
Tells(u) ==
    /\ updates' = Append(IF Len(updates) < MaxUpdates THEN updates ELSE Tail(updates), u)
    /\ lagged' = (lagged \/ Len(updates) = MaxUpdates)

Fails(cause) ==
    /\ flying # None
    /\ failures < MaxFailures /\ failures' = failures + 1
    /\ flying' = None /\ enabled' = FALSE
    /\ Tells([txn |-> flying, cause |-> cause])
    /\ UNCHANGED <<queue, unsent, refused, there, parkingVars, recoveryVars, pending, hand,
                   user, lapse>>

Refuses ==
    /\ flying # None
    /\ refused' = refused \cup {flying}
    /\ there' \in {there} \cup {there \cup ({flying} \cap Reactions)}
    /\ failures < MaxFailures /\ failures' = failures + 1
    /\ flying' = None /\ enabled' = FALSE
    /\ Tells([txn |-> flying, cause |-> "refused"])
    /\ UNCHANGED <<queue, unsent, parkingVars, recoveryVars, pending, hand, user, lapse>>

(* Other rooms' updates push this one's out. *)
RunsOver ==
    /\ updates # <<>>
    /\ updates' = Tail(updates) /\ lagged' = TRUE
    /\ UNCHANGED <<sdkVars, enabled, parkingVars, recoveryVars, pending, hand, user, lapse>>

(* Out of the queue by another way than this module's: a reaction's chip, or   *)
(* the watch of a poll on a vote that was refused.                            *)
Withdraw(r) ==
    /\ r \in Queued /\ r # flying
    /\ r \in Reactions \cup (Votes \cap refused)
    /\ queue' = Without(r)
    /\ refused' = refused \ {r} /\ there' = there \ {r}
    /\ lapse' = (lapse \/ ~enabled)
    /\ UNCHANGED <<unsent, flying, failures, enabled, channel, parkingVars, recoveryVars, pending, hand,
                   user>>

-----------------------------------------------------------------------------
(* Parking *)

CountsAsAttempt(cause, attachment) ==
    \/ cause = "answered"
    \/ cause = "dropped" /\ attachment

(* A count older than its window starts over; what is kept needs no more than  *)
(* the limit it is compared with.                                             *)
Tried(r, kept, limit) ==
    IF age[r] = "stale" THEN 1 ELSE IF kept < limit THEN kept + 1 ELSE limit

(* keep_only and failed, under one lock. *)
Count(r, attachment) ==
    LET kept == [q \in Reqs |-> IF q \in seen THEN attempts[q] ELSE 0]
        tried == Tried(r, kept[r], IF attachment THEN AttachmentAttempts ELSE TextAttempts)
        park == IF attachment
                THEN tried >= AttachmentAttempts
                ELSE tried >= TextAttempts /\ age[r] = "patient"
    IN  IF r \in parked \cap seen
        THEN /\ parked' = parked \cap seen
             /\ attempts' = kept
             /\ recovery' = "idle"
             /\ UNCHANGED <<age, waiting>>
        ELSE /\ parked' = (parked \cap seen) \cup (IF park THEN {r} ELSE {})
             /\ attempts' = [kept EXCEPT ![r] = IF park THEN 0 ELSE tried]
             /\ age' = [age EXCEPT ![r] = IF park \/ kept[r] = 0 \/ @ = "stale" THEN "young" ELSE @]
             /\ waiting' = ~park
             /\ recovery' = IF park THEN "idle" ELSE "arming"

(* A count grows older. *)
Grows(r) ==
    /\ attempts[r] > 0
    /\ age' = [age EXCEPT ![r] = IF @ = "young" THEN "patient" ELSE "stale"]
    /\ age[r] # "stale"
    /\ UNCHANGED <<sdkVars, enabled, channel, attempts, parked, waiting, recoveryVars, pending,
                   hand, user, lapse>>

Release(r) ==
    /\ parked' = parked \ {r}
    /\ attempts' = [attempts EXCEPT ![r] = 0]
    /\ age' = [age EXCEPT ![r] = "young"]
    /\ UNCHANGED waiting

-----------------------------------------------------------------------------
(* The recovery task *)

(* The next update, and the room's echoes as they are when it is handled.      *)
Takes == recovery = "idle" /\ ~lagged /\ updates # <<>> /\ updates' = Tail(updates)

TakeRefused ==
    /\ Takes /\ Head(updates).cause = "refused"
    /\ UNCHANGED <<sdkVars, enabled, lagged, parkingVars, recoveryVars, pending, hand, user,
                   lapse>>

TakeFailure ==
    /\ Takes /\ Head(updates).cause # "refused"
    /\ recovery' = "counting" /\ update' = Head(updates) /\ seen' = Queued
    /\ UNCHANGED <<sdkVars, enabled, lagged, parkingVars, pending, hand, user, lapse>>

(* Unreadable: retried as before, never parked on a guess. *)
EchoesUnreadable ==
    /\ Takes /\ Head(updates).cause # "refused"
    /\ recovery' = "arming" /\ waiting' = TRUE
    /\ UNCHANGED <<sdkVars, enabled, lagged, attempts, age, parked, update, seen, pending, hand,
                   user, lapse>>

RecoverableFailure ==
    LET r == update.txn
        attachment == r \in Attachments \cap seen
    IN  /\ recovery = "counting"
        /\ IF CountsAsAttempt(update.cause, attachment)
           THEN Count(r, attachment)
           ELSE /\ parked' = parked \cap seen
                /\ attempts' = [q \in Reqs |-> IF q \in seen THEN attempts[q] ELSE 0]
                /\ waiting' = TRUE
                /\ recovery' = "arming"
                /\ UNCHANGED age
        /\ seen' = {} /\ update' = None
        /\ UNCHANGED <<sdkVars, enabled, channel, pending, hand, user, lapse>>

(* The wake already on its way serves this failure too. *)
WakeLater ==
    /\ recovery = "arming"
    /\ recovery' = "idle" /\ pending' = TRUE
    /\ UNCHANGED <<sdkVars, enabled, channel, parkingVars, update, seen, hand, user, lapse>>

(* A bug: missed failures are passed over. *)
LaggedIgnored ==
    /\ recovery = "idle" /\ lagged
    /\ lagged' = FALSE
    /\ UNCHANGED <<sdkVars, enabled, updates, parkingVars, recoveryVars, pending, hand, user, lapse>>

(* Missed failures: which rooms are off is unknown. Rooms noted go on, and     *)
(* those with anything queued where the store can be read.                    *)
MayBeOff == {waiting, waiting \/ queue # <<>>}
Missed(listed) == lapse' = (lapse \/ (~listed /\ ~enabled))

Lagged ==
    /\ recovery = "idle" /\ lagged
    /\ lagged' = FALSE
    /\ \E listed \in MayBeOff : /\ recovery' = IF listed THEN "listed" ELSE "idle"
                               /\ Missed(listed)
    /\ UNCHANGED <<sdkVars, enabled, updates, parkingVars, update, seen, pending, hand, user>>

(* A bug: only rooms whose failure was seen are woken after a lag. *)
RoomsToWakeNoted ==
    /\ recovery = "listed"
    /\ recovery' = "idle"
    /\ pending' = (pending \/ (parked = {} /\ waiting))
    /\ UNCHANGED <<sdkVars, enabled, channel, parkingVars, update, seen, hand, user, lapse>>

(* A parked one is left out. *)
RoomsToWake ==
    /\ recovery = "listed"
    /\ recovery' = "idle"
    /\ pending' = (pending \/ parked = {})
    /\ UNCHANGED <<sdkVars, enabled, channel, parkingVars, update, seen, hand, user, lapse>>

-----------------------------------------------------------------------------
(* Switching the room on *)

SwitchOn == enabled' = TRUE /\ lapse' = FALSE

(* A timer lets go of its room before the wake. *)
TimerFires ==
    /\ pending /\ hand["timer"] = "idle"
    /\ pending' = FALSE
    /\ hand' = [hand EXCEPT !["timer"] = "check"]
    /\ UNCHANGED <<sdkVars, enabled, channel, parkingVars, recoveryVars, user, lapse>>

(* A bug: the line's return lets go of what is parked, not only of the waits. *)
SyncRunsForgetting ==
    /\ hand["sync"] = "idle"
    /\ parked' = {}
    /\ hand' = [hand EXCEPT !["sync"] = "check"]
    /\ UNCHANGED <<sdkVars, enabled, channel, attempts, age, waiting, recoveryVars, pending, user, lapse>>

(* wake_running: the line is back. *)
SyncRuns ==
    /\ hand["sync"] = "idle"
    /\ \E listed \in MayBeOff :
          /\ hand' = [hand EXCEPT !["sync"] = IF listed THEN "check" ELSE "idle"]
          /\ Missed(listed)
    /\ UNCHANGED <<sdkVars, enabled, channel, parkingVars, recoveryVars, pending, user>>

(* wake_room looks under the lock ... *)
WakeRoom(w) ==
    /\ hand[w] = "check"
    /\ IF parked # {}
       THEN hand' = [hand EXCEPT ![w] = "idle"] /\ UNCHANGED waiting
       ELSE hand' = [hand EXCEPT ![w] = "enable"] /\ waiting' = FALSE
    /\ UNCHANGED <<sdkVars, enabled, channel, attempts, age, parked, recoveryVars, pending,
                   user, lapse>>

(* ... and switches the room on after it. *)
Wakes(w) ==
    /\ hand[w] = "enable"
    /\ hand' = [hand EXCEPT ![w] = "idle"]
    /\ SwitchOn
    /\ UNCHANGED <<sdkVars, channel, parkingVars, recoveryVars, pending, user>>

-----------------------------------------------------------------------------
(* The user's commands *)

Decide(r, what) ==
    /\ r \in Queued
    /\ Cardinality({q \in Reqs : user[q] # "none"}) < MaxCommands
    /\ user[r] = "none"
    /\ user' = [user EXCEPT ![r] = what]
    /\ Release(r)
    /\ UNCHANGED <<sdkVars, enabled, channel, recoveryVars, pending, hand, lapse>>

Retry(r) == Decide(r, "resend")
Discard(r) == Decide(r, "discard")

(* A deletion is queued anew, or is lost when the queue does not take it again;  *)
(* anything else is sent again in its place. Whatever came of it, the room is   *)
(* switched on.                                                                *)
Resend(r) ==
    /\ user[r] = "resend"
    /\ user' = [user EXCEPT ![r] = "none"]
    /\ \/ refused' = refused \ {r} /\ there' = there \ {r} /\ UNCHANGED queue
       \/ /\ r \in Queued /\ r # flying
          /\ refused' = refused \ {r} /\ there' = there \ {r}
          /\ queue' \in {Append(Without(r), r), Without(r)}
       \/ UNCHANGED <<queue, refused, there>>
    /\ SwitchOn
    /\ UNCHANGED <<unsent, flying, failures, channel, parkingVars, recoveryVars, pending, hand>>

(* What is on its way may be called off or be sent already. *)
Abort(r) ==
    /\ user[r] = "discard"
    /\ user' = [user EXCEPT ![r] = "none"]
    /\ \/ /\ queue' = Without(r)
          /\ refused' = refused \ {r} /\ there' = there \ {r}
          /\ flying' = IF flying = r THEN None ELSE flying
       \/ UNCHANGED <<queue, refused, there, flying>>
    /\ SwitchOn
    /\ UNCHANGED <<unsent, failures, channel, parkingVars, recoveryVars, pending, hand>>

(* queue.stuck: a reaction the server already has is taken out while listing. *)
Stuck(r) ==
    /\ r \in there \cap Queued
    /\ queue' = Without(r)
    /\ refused' = refused \ {r} /\ there' = there \ {r}
    /\ SwitchOn
    /\ UNCHANGED <<unsent, flying, failures, channel, parkingVars, recoveryVars, pending, hand, user>>

-----------------------------------------------------------------------------
RecoveryStep ==
    \/ TakeRefused \/ TakeFailure \/ EchoesUnreadable \/ RecoverableFailure \/ WakeLater
    \/ Lagged \/ RoomsToWake

WakerStep == TimerFires \/ \E w \in Wakers : WakeRoom(w) \/ Wakes(w)

Next ==
    \/ \E r \in Reqs : Queue(r) \/ StartSend(r) \/ Withdraw(r) \/ Grows(r)
    \/ Sent \/ Refuses \/ RunsOver \/ \E cause \in Causes : Fails(cause)
    \/ RecoveryStep \/ WakerStep \/ SyncRuns
    \/ \E r \in Reqs : Retry(r) \/ Discard(r) \/ Resend(r) \/ Abort(r) \/ Stuck(r)

(* The tasks run, timers fire, and a command begun is finished. Nobody promises *)
(* that the line comes back, that the user acts, or that a request gets through. *)
Fairness ==
    /\ WF_vars(RecoveryStep)
    /\ WF_vars(TimerFires)
    /\ \A w \in Wakers : WF_vars(WakeRoom(w) \/ Wakes(w))
    /\ \A r \in Reqs : WF_vars(Resend(r) \/ Abort(r))

Spec == Init /\ [][Next]_vars /\ Fairness

-----------------------------------------------------------------------------
(* Properties *)

(* Nothing holds the room: no request in it waits for the user's word. *)
Free == Queued # {} /\ refused \cap Queued = {} /\ parked = {}

(* A room that a failure switched off and that nothing parked holds is on    *)
(* somebody's way to a wake: the failure is in the channel or in hand, a     *)
(* timer sleeps or has fired, the sync loop or a command is about to. Left   *)
(* out is the room whose blocker was withdrawn by another way while it was   *)
(* off, or whose missed failure came with an unreadable store (`lapse').     *)
OnItsWay ==
    \/ \E i \in DOMAIN updates : updates[i].cause # "refused"
    \/ lagged \/ recovery # "idle" \/ pending
    \/ \E w \in Wakers : hand[w] # "idle"
    \/ \E r \in Reqs : user[r] # "none"

NobodyStranded == Free /\ ~enabled /\ ~lapse => OnItsWay

(* What was parked waits for the user: neither another failure, the line's   *)
(* return, a lagging channel nor a request discarded beside it frees it. It   *)
(* is let go on a retry or a discard of it, or when the queue no longer holds *)
(* it.                                                                       *)
OnlyUserReleases ==
    [][\A r \in parked \ parked' :
           user'[r] \in {"resend", "discard"} \/ r \notin Queued]_vars

(* A free room does not stay off for ever.                                   *)
RoomComesBack == (Free /\ ~enabled /\ ~lapse) ~> (enabled \/ ~Free \/ lapse)

(* wake_running: "every room with something queued goes on, parked rooms     *)
(* excepted": a room with something queued that it passes over holds         *)
(* something parked.                                                         *)
SkippedRoomHasParked ==
    [][\A w \in Wakers :
           (WakeRoom(w) /\ hand'[w] = "idle" /\ Queued # {}) => parked \cap Queued # {}]_vars
=============================================================================
