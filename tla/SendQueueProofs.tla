-------------------------- MODULE SendQueueProofs --------------------------
(* Proofs about SendQueue, for any requests of any kind, any limits and any   *)
(* capacity of the channel: a room nothing holds is always on somebody's way  *)
(* to a wake, and what was parked waits for the user.                         *)
EXTENDS SendQueue, TLAPS

-----------------------------------------------------------------------------
(* The inductive invariant *)

(* Only a room that is on sends, and what it sends is queued and not refused.  *)
FlyingWhileOn == flying # None => enabled

(* The stranded room's guarantee, stated for the empty queue too, since a new   *)
(* request makes it a room with something queued.                             *)
OffOnItsWay ==
    ~enabled /\ ~lapse /\ refused \cap Queued = {} /\ parked = {} => OnItsWay

(* What flies is queued and not refused yet: its refusal leaves something       *)
(* refused in the queue, and no stuck reaction is on its way.                   *)
FlyingQueued == flying # None => flying \in Queued \ refused

(* A request nobody has made yet is not known anywhere.                        *)
UnsentUnknown ==
    /\ unsent \cap Queued = {}
    /\ unsent \cap parked = {}
    /\ \A i \in DOMAIN updates : updates[i].txn \notin unsent
    /\ recovery = "counting" => update.txn \notin unsent

(* Nothing is parked between the read of the echoes and the count, so what is   *)
(* parked and still queued was read.                                          *)
SeenCovers == recovery = "counting" => update \in Updates /\ parked \cap Queued \subseteq seen

IInv == TypeOK /\ FlyingWhileOn /\ FlyingQueued /\ OffOnItsWay /\ UnsentUnknown /\ SeenCovers

-----------------------------------------------------------------------------
(* The queue *)

(* A request taken out leaves the others, and brings none.                     *)
LEMMA WithoutKeeps ==
    ASSUME queue \in Seq(Reqs), NEW r
    PROVE  LET Left == {Without(r)[i] : i \in DOMAIN Without(r)}
           IN  /\ Without(r) \in Seq(Reqs)
               /\ Left \subseteq Queued
               /\ Queued \ {r} \subseteq Left
<1>1. CASE r \notin Queued
  BY <1>1 DEF Without, Queued
<1>2. CASE r \in Queued
  <2>1. Place(r) \in 1..Len(queue) /\ queue[Place(r)] = r
    BY <1>2 DEF Place, Queued
  <2>2. Len(queue) \in Nat \ {0} /\ DOMAIN queue = 1..Len(queue)
    BY <2>1
  <2>3. Without(r) = [i \in 1..(Len(queue) - 1) |-> queue[IF i < Place(r) THEN i ELSE i + 1]]
    BY <1>2 DEF Without
  <2>4. \A i \in 1..(Len(queue) - 1) : (IF i < Place(r) THEN i ELSE i + 1) \in 1..Len(queue)
    BY <2>1, <2>2
  <2>5. /\ Without(r) \in Seq(Reqs) /\ DOMAIN Without(r) = 1..(Len(queue) - 1)
        /\ \A i \in DOMAIN Without(r) : Without(r)[i] \in Queued
    <3>1. Len(queue) - 1 \in Nat /\ Without(r) \in [1..(Len(queue) - 1) -> Reqs]
      BY <2>2, <2>3, <2>4
    <3> QED
      BY <2>2, <2>3, <2>4, <3>1 DEF Queued
  <2>6. ASSUME NEW j \in 1..Len(queue), queue[j] # r
        PROVE  \E i \in DOMAIN Without(r) : Without(r)[i] = queue[j]
    <3>1. CASE j < Place(r)
      BY <2>1, <2>2, <2>3, <2>5, <3>1
    <3>2. CASE j > Place(r)
      <4>1. j - 1 \in 1..(Len(queue) - 1) /\ ~(j - 1 < Place(r)) /\ (j - 1) + 1 = j
        BY <2>1, <2>2, <3>2
      <4> QED
        BY <2>3, <2>5, <4>1
    <3> QED
      BY <2>1, <2>6, <3>1, <3>2
  <2> QED
    BY <2>2, <2>5, <2>6 DEF Queued
<1> QED
  BY <1>1, <1>2

(* A request made or queued anew joins the others.                             *)
LEMMA AppendJoins ==
    ASSUME NEW q \in Seq(Reqs), NEW r \in Reqs
    PROVE  LET s == Append(q, r)
           IN  /\ s \in Seq(Reqs)
               /\ {s[i] : i \in DOMAIN s} = {q[i] : i \in DOMAIN q} \cup {r}
<1> DEFINE s == Append(q, r)
<1>1. s \in Seq(Reqs) /\ DOMAIN s = 1..(Len(q) + 1) /\ Len(q) \in Nat /\ DOMAIN q = 1..Len(q)
  OBVIOUS
<1>2. \A i \in 1..Len(q) : s[i] = q[i]
  OBVIOUS
<1>3. s[Len(q) + 1] = r
  OBVIOUS
<1> HIDE DEF s
<1>4. {s[i] : i \in DOMAIN s} = {q[i] : i \in DOMAIN q} \cup {r}
  BY <1>1, <1>2, <1>3
<1> QED
  BY <1>1, <1>4 DEF s

-----------------------------------------------------------------------------
(* The channel *)

(* A new update is the last in the channel, and brings no other.               *)
LEMMA TellsAddsOne ==
    ASSUME TypeOK, NEW u \in Updates, Tells(u)
    PROVE  /\ updates' \in Seq(Updates) /\ Len(updates') <= MaxUpdates
           /\ lagged' \in BOOLEAN
           /\ \A i \in DOMAIN updates' : updates'[i] = u \/ \E j \in DOMAIN updates : updates'[i] = updates[j]
           /\ \E i \in DOMAIN updates' : updates'[i] = u
<1> DEFINE old == IF Len(updates) < MaxUpdates THEN updates ELSE Tail(updates)
<1>1. updates \in Seq(Updates) /\ Len(updates) \in Nat /\ Len(updates) <= MaxUpdates
      /\ MaxUpdates \in Nat /\ MaxUpdates > 0
  BY AttemptsAssumption DEF TypeOK
<1>2. /\ old \in Seq(Updates) /\ Len(old) \in Nat /\ Len(old) < MaxUpdates
      /\ \A i \in 1..Len(old) : \E j \in DOMAIN updates : old[i] = updates[j]
  <2>1. CASE Len(updates) < MaxUpdates
    BY <1>1, <2>1
  <2>2. CASE Len(updates) = MaxUpdates
    <3>1. updates # <<>>
      BY <1>1, <2>2
    <3>2. /\ Tail(updates) \in Seq(Updates) /\ Len(Tail(updates)) = Len(updates) - 1
          /\ \A i \in 1..Len(Tail(updates)) : Tail(updates)[i] = updates[i + 1] /\ i + 1 \in DOMAIN updates
      BY <1>1, <3>1
    <3> QED
      BY <1>1, <2>2, <3>2
  <2> QED
    BY <1>1, <2>1, <2>2
<1>3. updates' = Append(old, u)
  BY DEF Tells
<1> HIDE DEF old
<1>4. /\ updates' \in Seq(Updates) /\ DOMAIN updates' = 1..(Len(old) + 1) /\ Len(updates') = Len(old) + 1
      /\ updates'[Len(old) + 1] = u
      /\ \A i \in 1..Len(old) : updates'[i] = old[i]
  BY <1>2, <1>3
<1>5. \A i \in 1..(Len(old) + 1) : i = Len(old) + 1 \/ i \in 1..Len(old)
  BY <1>2
<1>6. Len(updates') <= MaxUpdates /\ lagged' \in BOOLEAN
  BY <1>1, <1>2, <1>4 DEF Tells, TypeOK
<1>7. \A i \in DOMAIN updates' : updates'[i] = u \/ \E j \in DOMAIN updates : updates'[i] = updates[j]
  BY <1>2, <1>4, <1>5
<1>8. \E i \in DOMAIN updates' : updates'[i] = u
  BY <1>2, <1>4
<1> QED
  BY <1>4, <1>6, <1>7, <1>8

(* Taking the first update out leaves the others.                              *)
LEMMA TailKeepsOthers ==
    ASSUME TypeOK, updates # <<>>
    PROVE  /\ Head(updates) \in Updates /\ Head(updates) = updates[1] /\ 1 \in DOMAIN updates
           /\ Tail(updates) \in Seq(Updates) /\ Len(Tail(updates)) <= MaxUpdates
           /\ \A i \in DOMAIN Tail(updates) : \E j \in DOMAIN updates : Tail(updates)[i] = updates[j]
           /\ \A j \in DOMAIN updates : j = 1 \/ \E i \in DOMAIN Tail(updates) : Tail(updates)[i] = updates[j]
<1>1. updates \in Seq(Updates) /\ Len(updates) \in Nat \ {0} /\ Len(updates) <= MaxUpdates /\ MaxUpdates \in Nat
  BY AttemptsAssumption DEF TypeOK
<1>2. /\ Tail(updates) \in Seq(Updates) /\ Len(Tail(updates)) = Len(updates) - 1
      /\ DOMAIN Tail(updates) = 1..(Len(updates) - 1) /\ DOMAIN updates = 1..Len(updates)
      /\ \A i \in 1..(Len(updates) - 1) : Tail(updates)[i] = updates[i + 1]
  BY <1>1
<1>3. \A j \in 2..Len(updates) : j - 1 \in 1..(Len(updates) - 1) /\ Tail(updates)[j - 1] = updates[j]
  BY <1>1, <1>2
<1>4. \A i \in 1..(Len(updates) - 1) : i + 1 \in 1..Len(updates)
  BY <1>1
<1>5. \A i \in DOMAIN Tail(updates) : \E j \in DOMAIN updates : Tail(updates)[i] = updates[j]
  BY <1>1, <1>2, <1>4
<1>6. \A j \in DOMAIN updates : j = 1 \/ \E i \in DOMAIN Tail(updates) : Tail(updates)[i] = updates[j]
  <2>1. \A j \in 1..Len(updates) : j = 1 \/ j \in 2..Len(updates)
    BY <1>1
  <2> QED
    BY <1>2, <1>3, <2>1
<1>7. Len(Tail(updates)) <= MaxUpdates
  BY <1>1, <1>2
<1>8. Head(updates) \in Updates /\ Head(updates) = updates[1] /\ 1 \in DOMAIN updates
  BY <1>1
<1> QED
  BY <1>2, <1>5, <1>6, <1>7, <1>8

-----------------------------------------------------------------------------
(* Parking *)

(* A count keeps the types; it frees the room only on the way to a timer, and   *)
(* parks nothing but the request it counts.                                    *)
LEMMA CountKeepsTypes ==
    ASSUME TypeOK, NEW r \in Reqs, NEW attachment \in BOOLEAN, Count(r, attachment)
    PROVE  /\ attempts' \in [Reqs -> Nat] /\ age' \in [Reqs -> Ages]
           /\ parked' \subseteq (parked \cap seen) \cup {r} /\ waiting' \in BOOLEAN
           /\ recovery' \in {"idle", "arming"}
           /\ recovery' = "idle" => parked' # {}
           /\ parked \cap seen \subseteq parked'
<1> DEFINE kept == [q \in Reqs |-> IF q \in seen THEN attempts[q] ELSE 0]
           limit == IF attachment THEN AttachmentAttempts ELSE TextAttempts
           tried == Tried(r, kept[r], limit)
           park == IF attachment
                   THEN tried >= AttachmentAttempts
                   ELSE tried >= TextAttempts /\ age[r] = "patient"
<1>1. kept \in [Reqs -> Nat] /\ limit \in Nat
  BY AttemptsAssumption DEF TypeOK
<1>2. tried \in Nat
  BY <1>1 DEF Tried
<1>3. CASE r \in parked \cap seen
  <2>1. parked' = parked \cap seen /\ attempts' = kept /\ recovery' = "idle" /\ UNCHANGED <<age, waiting>>
    BY <1>3 DEF Count
  <2> QED
    BY <1>1, <1>3, <2>1 DEF TypeOK
<1>4. CASE r \notin parked \cap seen
  <2>1. /\ parked' = (parked \cap seen) \cup (IF park THEN {r} ELSE {})
        /\ attempts' = [kept EXCEPT ![r] = IF park THEN 0 ELSE tried]
        /\ age' = [age EXCEPT ![r] = IF park \/ kept[r] = 0 \/ @ = "stale" THEN "young" ELSE @]
        /\ waiting' = ~park
        /\ recovery' = IF park THEN "idle" ELSE "arming"
    BY <1>4 DEF Count
  <2> HIDE DEF kept, tried, park
  <2>2. attempts' \in [Reqs -> Nat]
    BY <1>1, <1>2, <2>1
  <2>3. age' \in [Reqs -> Ages]
    BY <2>1 DEF TypeOK, Ages
  <2> QED
    BY <2>1, <2>2, <2>3
<1> QED
  BY <1>3, <1>4

-----------------------------------------------------------------------------
(* Types *)

USE DEF sdkVars, channel, parkingVars, recoveryVars

(* A failure is handled only once one was taken: its update is an update.       *)
LEMMA TypeStep == TypeOK /\ SeenCovers /\ [Next]_vars => TypeOK'
<1> SUFFICES ASSUME TypeOK, SeenCovers, [Next]_vars PROVE TypeOK'
  OBVIOUS
<1>1. ASSUME NEW r \in Reqs, Queue(r) PROVE TypeOK'
  <2>1. queue' \in Seq(Reqs)
    BY <1>1, AppendJoins DEF Queue, TypeOK
  <2> QED
    BY <1>1, <2>1 DEF Queue, TypeOK
<1>2. ASSUME NEW r \in Reqs, StartSend(r) PROVE TypeOK'
  BY <1>2 DEF StartSend, TypeOK
<1>3. CASE Sent
  BY <1>3, WithoutKeeps DEF Sent, TypeOK
<1>4. ASSUME NEW cause \in Causes, Fails(cause) PROVE TypeOK'
  <2>1. [txn |-> flying, cause |-> cause] \in Updates
    BY <1>4 DEF Fails, TypeOK, Updates
  <2>2. updates' \in Seq(Updates) /\ Len(updates') <= MaxUpdates /\ lagged' \in BOOLEAN
    BY <1>4, <2>1, TellsAddsOne DEF Fails
  <2>3. failures' \in 0..MaxFailures
    BY <1>4, AttemptsAssumption DEF Fails, TypeOK
  <2> QED
    BY <1>4, <2>2, <2>3 DEF Fails, TypeOK
<1>5. CASE Refuses
  <2>1. [txn |-> flying, cause |-> "refused"] \in Updates
    BY <1>5 DEF Refuses, TypeOK, Updates
  <2>2. updates' \in Seq(Updates) /\ Len(updates') <= MaxUpdates /\ lagged' \in BOOLEAN
    BY <1>5, <2>1, TellsAddsOne DEF Refuses
  <2>3. refused' \subseteq Reqs /\ there' \subseteq refused' /\ failures' \in 0..MaxFailures
    BY <1>5, AttemptsAssumption DEF Refuses, TypeOK
  <2> QED
    BY <1>5, <2>2, <2>3 DEF Refuses, TypeOK
<1>6. CASE RunsOver
  BY <1>6, TailKeepsOthers DEF RunsOver, TypeOK
<1>7. ASSUME NEW r \in Reqs, Withdraw(r) PROVE TypeOK'
  BY <1>7, WithoutKeeps DEF Withdraw, TypeOK
<1>8. ASSUME NEW r \in Reqs, Grows(r) PROVE TypeOK'
  BY <1>8 DEF Grows, TypeOK, Ages
<1>9. CASE TakeRefused
  BY <1>9, TailKeepsOthers DEF TakeRefused, Takes, TypeOK
<1>10. CASE TakeFailure
  <2>1. Queued \subseteq Reqs
    BY DEF Queued, TypeOK
  <2> QED
    BY <1>10, <2>1, TailKeepsOthers DEF TakeFailure, Takes, TypeOK
<1>11. CASE EchoesUnreadable
  BY <1>11, TailKeepsOthers DEF EchoesUnreadable, Takes, TypeOK
<1>12. CASE RecoverableFailure
  <2> DEFINE attachment == update.txn \in Attachments \cap seen
  <2>1. update.txn \in Reqs /\ attachment \in BOOLEAN
    BY <1>12 DEF RecoverableFailure, SeenCovers, Updates
  <2>2. CASE CountsAsAttempt(update.cause, attachment)
    <3>1. Count(update.txn, attachment)
      BY <1>12, <2>2 DEF RecoverableFailure
    <3>2. /\ attempts' \in [Reqs -> Nat] /\ age' \in [Reqs -> Ages]
          /\ parked' \subseteq (parked \cap seen) \cup {update.txn} /\ waiting' \in BOOLEAN
          /\ recovery' \in {"idle", "arming"}
      BY <2>1, <3>1, CountKeepsTypes
    <3> QED
      BY <1>12, <2>1, <3>2 DEF RecoverableFailure, TypeOK
  <2>3. CASE ~CountsAsAttempt(update.cause, attachment)
    <3>1. attempts' \in [Reqs -> Nat]
      BY <1>12, <2>3 DEF RecoverableFailure, TypeOK
    <3> QED
      BY <1>12, <2>3, <3>1 DEF RecoverableFailure, TypeOK
  <2> QED
    BY <2>2, <2>3
<1>13. CASE WakeLater
  BY <1>13 DEF WakeLater, TypeOK
<1>14. CASE Lagged
  BY <1>14 DEF Lagged, Missed, MayBeOff, TypeOK
<1>15. CASE RoomsToWake
  BY <1>15 DEF RoomsToWake, TypeOK
<1>16. CASE TimerFires
  BY <1>16 DEF TimerFires, TypeOK
<1>17. CASE SyncRuns
  BY <1>17 DEF SyncRuns, Missed, MayBeOff, TypeOK
<1>18. ASSUME NEW w \in Wakers, WakeRoom(w) \/ Wakes(w) PROVE TypeOK'
  BY <1>18 DEF WakeRoom, Wakes, SwitchOn, TypeOK
<1>19. ASSUME NEW r \in Reqs, Retry(r) \/ Discard(r) PROVE TypeOK'
  <2>1. PICK what \in {"resend", "discard"} : Decide(r, what)
    BY <1>19 DEF Retry, Discard
  <2>2. attempts' \in [Reqs -> Nat]
    BY <2>1 DEF Decide, Release, TypeOK
  <2>3. age' \in [Reqs -> Ages]
    BY <2>1 DEF Decide, Release, TypeOK, Ages
  <2>4. user' \in [Reqs -> {"none", "resend", "discard"}]
    BY <2>1 DEF Decide, TypeOK
  <2> QED
    BY <2>1, <2>2, <2>3, <2>4 DEF Decide, Release, TypeOK
<1>20. ASSUME NEW r \in Reqs, Resend(r) PROVE TypeOK'
  <2>1. queue' \in {queue, Without(r), Append(Without(r), r)}
    BY <1>20 DEF Resend
  <2>2. Without(r) \in Seq(Reqs)
    BY WithoutKeeps DEF TypeOK
  <2>3. Append(Without(r), r) \in Seq(Reqs)
    BY <2>2
  <2>4. queue' \in Seq(Reqs)
    BY <2>1, <2>2, <2>3 DEF TypeOK
  <2> QED
    BY <1>20, <2>4 DEF Resend, SwitchOn, TypeOK
<1>21. ASSUME NEW r \in Reqs, Abort(r) PROVE TypeOK'
  BY <1>21, WithoutKeeps DEF Abort, SwitchOn, TypeOK
<1>22. ASSUME NEW r \in Reqs, Stuck(r) PROVE TypeOK'
  BY <1>22, WithoutKeeps DEF Stuck, SwitchOn, TypeOK
<1>23. CASE UNCHANGED vars
  BY <1>23 DEF vars, TypeOK
<1> QED
  BY <1>1, <1>2, <1>3, <1>4, <1>5, <1>6, <1>7, <1>8, <1>9, <1>10, <1>11, <1>12, <1>13, <1>14, <1>15,
     <1>16, <1>17, <1>18, <1>19, <1>20, <1>21, <1>22, <1>23
  DEF Next, RecoveryStep, WakerStep

-----------------------------------------------------------------------------
(* What a step brings *)

(* No step makes a request known that was not: only a new one joins the queue,   *)
(* only what flies is told of, only the update in hand is counted and parked.   *)
LEMMA StepKnows ==
    ASSUME TypeOK, SeenCovers, [Next]_vars
    PROVE  /\ unsent' \subseteq unsent /\ Queued' \subseteq Queued \cup (unsent \ unsent')
           /\ \A r \in parked' \ parked : recovery = "counting" /\ r = update.txn
           /\ \A i \in DOMAIN updates' :
                 \/ flying # None /\ updates'[i].txn = flying
                 \/ \E j \in DOMAIN updates : updates'[i] = updates[j]
           /\ recovery' = "counting" =>
                 \/ recovery = "counting" /\ update' = update
                 \/ \E j \in DOMAIN updates : update' = updates[j]
<1> DEFINE Brings == /\ unsent' \subseteq unsent /\ Queued' \subseteq Queued \cup (unsent \ unsent')
                     /\ \A r \in parked' \ parked : recovery = "counting" /\ r = update.txn
                     /\ \A i \in DOMAIN updates' :
                           \/ flying # None /\ updates'[i].txn = flying
                           \/ \E j \in DOMAIN updates : updates'[i] = updates[j]
                     /\ recovery' = "counting" =>
                           \/ recovery = "counting" /\ update' = update
                           \/ \E j \in DOMAIN updates : update' = updates[j]
<1>a. ASSUME queue' = queue PROVE Queued' = Queued
  BY <1>a DEF Queued
<1>b. ASSUME NEW r, queue' = Without(r) PROVE Queued' \subseteq Queued
  <2>1. {Without(r)[i] : i \in DOMAIN Without(r)} \subseteq Queued
    BY WithoutKeeps DEF TypeOK
  <2>2. Queued' = {Without(r)[i] : i \in DOMAIN Without(r)}
    BY <1>b DEF Queued
  <2> QED
    BY <2>1, <2>2
<1>1. ASSUME NEW r \in Reqs, Queue(r) PROVE Brings
  <2>1. Queued' = Queued \cup {r}
    <3>1. queue \in Seq(Reqs) /\ queue' = Append(queue, r)
      BY <1>1 DEF Queue, TypeOK
    <3>2. {Append(queue, r)[i] : i \in DOMAIN Append(queue, r)} = Queued \cup {r}
      BY <3>1, AppendJoins DEF Queued
    <3> QED
      BY <3>1, <3>2 DEF Queued
  <2>2. r \in unsent \ unsent' /\ unsent' \subseteq unsent
    BY <1>1 DEF Queue
  <2> QED
    BY <1>1, <2>1, <2>2 DEF Queue
<1>2. ASSUME NEW r \in Reqs, StartSend(r) PROVE Brings
  BY <1>2, <1>a DEF StartSend
<1>3. CASE Sent
  BY <1>3, <1>b DEF Sent
<1>4. ASSUME NEW cause \in Causes, Fails(cause) PROVE Brings
  <2>1. [txn |-> flying, cause |-> cause] \in Updates
    BY <1>4 DEF Fails, TypeOK, Updates
  <2>2. \A i \in DOMAIN updates' : updates'[i] = [txn |-> flying, cause |-> cause]
                                 \/ \E j \in DOMAIN updates : updates'[i] = updates[j]
    BY <1>4, <2>1, TellsAddsOne DEF Fails
  <2> QED
    BY <1>4, <1>a, <2>2 DEF Fails
<1>5. CASE Refuses
  <2>1. [txn |-> flying, cause |-> "refused"] \in Updates
    BY <1>5 DEF Refuses, TypeOK, Updates
  <2>2. \A i \in DOMAIN updates' : updates'[i] = [txn |-> flying, cause |-> "refused"]
                                 \/ \E j \in DOMAIN updates : updates'[i] = updates[j]
    BY <1>5, <2>1, TellsAddsOne DEF Refuses
  <2> QED
    BY <1>5, <1>a, <2>2 DEF Refuses
<1>6. CASE RunsOver
  BY <1>6, <1>a, TailKeepsOthers DEF RunsOver
<1>7. ASSUME NEW r \in Reqs, Withdraw(r) PROVE Brings
  BY <1>7, <1>b DEF Withdraw
<1>8. ASSUME NEW r \in Reqs, Grows(r) PROVE Brings
  BY <1>8, <1>a DEF Grows
<1>9. CASE TakeRefused
  BY <1>9, <1>a, TailKeepsOthers DEF TakeRefused, Takes
<1>10. CASE TakeFailure
  BY <1>10, <1>a, TailKeepsOthers DEF TakeFailure, Takes
<1>11. CASE EchoesUnreadable
  BY <1>11, <1>a, TailKeepsOthers DEF EchoesUnreadable, Takes
<1>12. CASE RecoverableFailure
  <2> DEFINE attachment == update.txn \in Attachments \cap seen
  <2>1. update.txn \in Reqs /\ attachment \in BOOLEAN /\ recovery = "counting"
    BY <1>12 DEF RecoverableFailure, SeenCovers, Updates
  <2>2. parked' \subseteq (parked \cap seen) \cup {update.txn} /\ recovery' # "counting"
    <3>1. CASE CountsAsAttempt(update.cause, attachment)
      <4>1. Count(update.txn, attachment)
        BY <1>12, <3>1 DEF RecoverableFailure
      <4> QED
        BY <2>1, <4>1, CountKeepsTypes
    <3>2. CASE ~CountsAsAttempt(update.cause, attachment)
      BY <1>12, <3>2 DEF RecoverableFailure
    <3> QED
      BY <3>1, <3>2
  <2> QED
    BY <1>12, <1>a, <2>1, <2>2 DEF RecoverableFailure
<1>13. CASE WakeLater
  BY <1>13, <1>a DEF WakeLater
<1>14. CASE Lagged
  BY <1>14, <1>a DEF Lagged
<1>15. CASE RoomsToWake
  BY <1>15, <1>a DEF RoomsToWake
<1>16. CASE TimerFires
  BY <1>16, <1>a DEF TimerFires
<1>17. CASE SyncRuns
  BY <1>17, <1>a DEF SyncRuns
<1>18. ASSUME NEW w \in Wakers, WakeRoom(w) \/ Wakes(w) PROVE Brings
  BY <1>18, <1>a DEF WakeRoom, Wakes
<1>19. ASSUME NEW r \in Reqs, Retry(r) \/ Discard(r) PROVE Brings
  BY <1>19, <1>a DEF Retry, Discard, Decide, Release
<1>20. ASSUME NEW r \in Reqs, Resend(r) PROVE Brings
  <2>1. CASE queue' = queue
    BY <1>20, <1>a, <2>1 DEF Resend
  <2>2. CASE r \in Queued /\ queue' = Append(Without(r), r)
    <3>1. Without(r) \in Seq(Reqs) /\ {Without(r)[i] : i \in DOMAIN Without(r)} \subseteq Queued
      BY WithoutKeeps DEF TypeOK
    <3>2. Queued' \subseteq Queued
      BY <2>2, <3>1, AppendJoins DEF Queued
    <3> QED
      BY <1>20, <3>2 DEF Resend
  <2>3. CASE queue' = Without(r)
    BY <1>20, <1>b, <2>3 DEF Resend
  <2> QED
    BY <1>20, <2>1, <2>2, <2>3 DEF Resend
<1>21. ASSUME NEW r \in Reqs, Abort(r) PROVE Brings
  BY <1>21, <1>a, <1>b DEF Abort
<1>22. ASSUME NEW r \in Reqs, Stuck(r) PROVE Brings
  BY <1>22, <1>b DEF Stuck
<1>23. CASE UNCHANGED vars
  BY <1>23, <1>a DEF vars
<1> QED
  BY <1>1, <1>2, <1>3, <1>4, <1>5, <1>6, <1>7, <1>8, <1>9, <1>10, <1>11, <1>12, <1>13, <1>14, <1>15,
     <1>16, <1>17, <1>18, <1>19, <1>20, <1>21, <1>22, <1>23
  DEF Next, RecoveryStep, WakerStep

(* What nobody has made yet stays unknown.                                      *)
LEMMA UnsentStep ==
    TypeOK /\ SeenCovers /\ FlyingQueued /\ UnsentUnknown /\ [Next]_vars => UnsentUnknown'
<1> SUFFICES ASSUME TypeOK, SeenCovers, FlyingQueued, UnsentUnknown, [Next]_vars PROVE UnsentUnknown'
  OBVIOUS
<1>1. /\ unsent' \subseteq unsent /\ Queued' \subseteq Queued \cup (unsent \ unsent')
      /\ \A r \in parked' \ parked : recovery = "counting" /\ r = update.txn
      /\ \A i \in DOMAIN updates' :
            \/ flying # None /\ updates'[i].txn = flying
            \/ \E j \in DOMAIN updates : updates'[i] = updates[j]
      /\ recovery' = "counting" =>
            \/ recovery = "counting" /\ update' = update
            \/ \E j \in DOMAIN updates : update' = updates[j]
  BY StepKnows
<1>2. (unsent \cap Queued)' = {} /\ (unsent \cap parked)' = {}
  <2>1. recovery = "counting" => update.txn \notin unsent
    BY DEF UnsentUnknown
  <2> QED
    BY <1>1, <2>1 DEF UnsentUnknown
<1>3. \A i \in DOMAIN updates' : updates'[i].txn \notin unsent'
  BY <1>1 DEF UnsentUnknown, FlyingQueued
<1>4. recovery' = "counting" => update'.txn \notin unsent'
  BY <1>1 DEF UnsentUnknown
<1> QED
  BY <1>2, <1>3, <1>4 DEF UnsentUnknown

(* A failure counted is on its way to a timer, or parked; what was parked and read *)
(* stays parked.                                                               *)
LEMMA CountStops ==
    ASSUME TypeOK, SeenCovers, RecoverableFailure
    PROVE  /\ recovery' \in {"idle", "arming"}
           /\ recovery' = "idle" => parked' # {}
           /\ parked \cap seen \subseteq parked'
<1> DEFINE attachment == update.txn \in Attachments \cap seen
<1>1. update.txn \in Reqs /\ attachment \in BOOLEAN
  BY DEF RecoverableFailure, SeenCovers, Updates
<1>2. CASE CountsAsAttempt(update.cause, attachment)
  BY <1>1, <1>2, CountKeepsTypes DEF RecoverableFailure
<1>3. CASE ~CountsAsAttempt(update.cause, attachment)
  BY <1>3 DEF RecoverableFailure
<1> QED
  BY <1>2, <1>3

(* What is parked while a failure is counted was read with the echoes.          *)
LEMMA SeenStep ==
    TypeOK /\ SeenCovers /\ UnsentUnknown /\ [Next]_vars => SeenCovers'
<1> SUFFICES ASSUME TypeOK, SeenCovers, UnsentUnknown, [Next]_vars, recovery' = "counting"
             PROVE  update' \in Updates /\ (parked \cap Queued)' \subseteq seen'
  BY DEF SeenCovers
<1>1. /\ Queued' \subseteq Queued \cup (unsent \ unsent')
      /\ \A r \in parked' \ parked : recovery = "counting" /\ r = update.txn
  BY StepKnows
<1>2. CASE TakeFailure
  <2>1. Queued' = Queued /\ parked' = parked /\ seen' = Queued
    BY <1>2 DEF TakeFailure, Queued
  <2>2. update' \in Updates
    BY <1>2, TailKeepsOthers DEF TakeFailure, Takes
  <2> QED
    BY <2>1, <2>2
<1>3. CASE ~TakeFailure
  <2>1. recovery = "counting" /\ update' = update /\ seen' = seen
    BY <1>3
    DEF Next, RecoveryStep, WakerStep, Queue, StartSend, Withdraw, Grows, Sent, Refuses, RunsOver, Fails,
        TakeRefused, EchoesUnreadable, RecoverableFailure, Count, WakeLater, Lagged, RoomsToWake, Takes,
        TimerFires, WakeRoom, Wakes, SyncRuns, Retry, Discard, Decide, Release, Resend, Abort, Stuck, vars
  <2>2. parked' \subseteq parked
    <3>1. CASE RecoverableFailure
      BY <3>1, CountStops
    <3>2. CASE ~RecoverableFailure
      BY <1>3, <2>1, <3>2
      DEF Next, RecoveryStep, WakerStep, Queue, StartSend, Withdraw, Grows, Sent, Refuses, RunsOver, Fails,
          TakeRefused, EchoesUnreadable, WakeLater, Lagged, RoomsToWake, Takes,
          TimerFires, WakeRoom, Wakes, SyncRuns, Retry, Discard, Decide, Release, Resend, Abort, Stuck, vars
    <3> QED
      BY <3>1, <3>2
  <2> QED
    BY <1>1, <2>1, <2>2 DEF SeenCovers, UnsentUnknown
<1> QED
  BY <1>2, <1>3

(* Only a room that is on sends, and what it sends stays queued until it is out.  *)
LEMMA FlyingStep ==
    TypeOK /\ FlyingWhileOn /\ FlyingQueued /\ [Next]_vars => (FlyingWhileOn /\ FlyingQueued)'
<1> SUFFICES ASSUME TypeOK, FlyingWhileOn, FlyingQueued, [Next]_vars, flying' # None
             PROVE  enabled' /\ flying' \in Queued' \ refused'
  BY DEF FlyingWhileOn, FlyingQueued
<1>a. ASSUME queue' = queue PROVE Queued' = Queued
  BY <1>a DEF Queued
<1>b. ASSUME NEW r, queue' = Without(r) PROVE Queued \ {r} \subseteq Queued'
  <2>1. Queued \ {r} \subseteq {Without(r)[i] : i \in DOMAIN Without(r)}
    BY WithoutKeeps DEF TypeOK
  <2>2. Queued' = {Without(r)[i] : i \in DOMAIN Without(r)}
    BY <1>b DEF Queued
  <2> QED
    BY <2>1, <2>2
<1>c. CASE flying' = flying /\ enabled' = enabled /\ queue' = queue /\ refused' = refused
  BY <1>a, <1>c DEF FlyingWhileOn, FlyingQueued
<1>1. ASSUME NEW r \in Reqs, Queue(r) PROVE enabled' /\ flying' \in Queued' \ refused'
  <2>1. queue \in Seq(Reqs) /\ queue' = Append(queue, r)
    BY <1>1 DEF Queue, TypeOK
  <2>2. {Append(queue, r)[i] : i \in DOMAIN Append(queue, r)} = Queued \cup {r}
    BY <2>1, AppendJoins DEF Queued
  <2>3. Queued \subseteq Queued'
    BY <2>1, <2>2 DEF Queued
  <2> QED
    BY <1>1, <2>3 DEF Queue, FlyingWhileOn, FlyingQueued
<1>2. ASSUME NEW r \in Reqs, StartSend(r) PROVE enabled' /\ flying' \in Queued' \ refused'
  <2>1. r \in Queued \ refused
    BY <1>2 DEF StartSend, Queued
  <2> QED
    BY <1>2, <1>a, <2>1 DEF StartSend
<1>3. ASSUME NEW r \in Reqs, Withdraw(r) PROVE enabled' /\ flying' \in Queued' \ refused'
  BY <1>3, <1>b DEF Withdraw, FlyingWhileOn, FlyingQueued
<1>4. ASSUME NEW r \in Reqs, Resend(r) PROVE enabled' /\ flying' \in Queued' \ refused'
  <2>1. flying' = flying /\ enabled' /\ refused' \subseteq refused
    BY <1>4 DEF Resend, SwitchOn
  <2>2. CASE queue' = queue
    BY <1>a, <2>1, <2>2 DEF FlyingQueued
  <2>3. CASE r # flying /\ queue' = Append(Without(r), r)
    <3>1. /\ Without(r) \in Seq(Reqs)
          /\ Queued \ {r} \subseteq {Without(r)[i] : i \in DOMAIN Without(r)}
      BY WithoutKeeps DEF TypeOK
    <3>2. Queued \ {r} \subseteq {Append(Without(r), r)[i] : i \in DOMAIN Append(Without(r), r)}
      BY <3>1, AppendJoins
    <3>3. Queued \ {r} \subseteq Queued'
      BY <2>3, <3>2 DEF Queued
    <3> QED
      BY <2>1, <2>3, <3>3 DEF FlyingQueued
  <2>4. CASE r # flying /\ queue' = Without(r)
    BY <1>b, <2>1, <2>4 DEF FlyingQueued
  <2> QED
    BY <1>4, <2>2, <2>3, <2>4 DEF Resend
<1>5. ASSUME NEW r \in Reqs, Abort(r) PROVE enabled' /\ flying' \in Queued' \ refused'
  <2>1. CASE UNCHANGED <<queue, refused, flying>>
    BY <1>5, <1>a, <2>1 DEF Abort, SwitchOn, FlyingQueued
  <2>2. CASE /\ queue' = Without(r) /\ refused' = refused \ {r}
             /\ flying' = IF flying = r THEN None ELSE flying
    BY <1>5, <1>b, <2>2 DEF Abort, SwitchOn, FlyingQueued
  <2> QED
    BY <1>5, <2>1, <2>2 DEF Abort
<1>6. ASSUME NEW r \in Reqs, Stuck(r) PROVE enabled' /\ flying' \in Queued' \ refused'
  <2>1. r # flying
    BY <1>6 DEF Stuck, FlyingQueued, TypeOK
  <2> QED
    BY <1>6, <1>b, <2>1 DEF Stuck, SwitchOn, FlyingQueued
<1>7. ASSUME NEW w \in Wakers, Wakes(w) PROVE enabled' /\ flying' \in Queued' \ refused'
  BY <1>7, <1>a DEF Wakes, SwitchOn, FlyingQueued
<1>8. Sent \/ Refuses \/ (\E cause \in Causes : Fails(cause)) => flying' = None
  BY DEF Sent, Refuses, Fails
<1>9. \/ \E r \in Reqs : Grows(r) \/ Retry(r) \/ Discard(r)
      \/ RecoveryStep \/ TimerFires \/ SyncRuns \/ RunsOver \/ UNCHANGED vars
      \/ \E w \in Wakers : WakeRoom(w)
      => flying' = flying /\ enabled' = enabled /\ queue' = queue /\ refused' = refused
  BY DEF Grows, Retry, Discard, Decide, RecoveryStep, TakeRefused, TakeFailure, EchoesUnreadable,
         RecoverableFailure, WakeLater, Lagged, RoomsToWake, TimerFires, SyncRuns, RunsOver, WakeRoom, vars
<1> QED
  BY <1>1, <1>2, <1>3, <1>4, <1>5, <1>6, <1>7, <1>8, <1>9, <1>c DEF Next, WakerStep

(* A room that is off and not held stays on somebody's way.                      *)
LEMMA OffStep ==
    TypeOK /\ SeenCovers /\ FlyingWhileOn /\ FlyingQueued /\ OffOnItsWay /\ [Next]_vars => OffOnItsWay'
<1> SUFFICES ASSUME TypeOK, SeenCovers, FlyingWhileOn, FlyingQueued, OffOnItsWay, [Next]_vars,
                    ~enabled', ~lapse', (refused \cap Queued)' = {}, parked' = {}
             PROVE  OnItsWay'
  BY DEF OffOnItsWay
<1>a. ASSUME queue' = queue PROVE Queued' = Queued
  BY <1>a DEF Queued
<1>1. ASSUME NEW r \in Reqs, Queue(r) PROVE OnItsWay'
  <2>1. queue \in Seq(Reqs) /\ queue' = Append(queue, r)
    BY <1>1 DEF Queue, TypeOK
  <2>2. {Append(queue, r)[i] : i \in DOMAIN Append(queue, r)} = Queued \cup {r}
    BY <2>1, AppendJoins DEF Queued
  <2>3. Queued \subseteq Queued'
    BY <2>1, <2>2 DEF Queued
  <2>4. ~enabled /\ ~lapse /\ refused \cap Queued = {} /\ parked = {}
    BY <1>1, <2>3 DEF Queue
  <2> QED
    BY <1>1, <2>4 DEF Queue, OffOnItsWay, OnItsWay
<1>2. CASE (\E r \in Reqs : StartSend(r)) \/ Sent
  BY <1>2 DEF StartSend, Sent, FlyingWhileOn
<1>3. ASSUME NEW cause \in Causes, Fails(cause) PROVE OnItsWay'
  <2>1. [txn |-> flying, cause |-> cause] \in Updates
    BY <1>3 DEF Fails, TypeOK, Updates
  <2>2. PICK i \in DOMAIN updates' : updates'[i] = [txn |-> flying, cause |-> cause]
    BY <1>3, <2>1, TellsAddsOne DEF Fails
  <2>3. updates'[i].cause # "refused"
    BY <2>2 DEF Causes
  <2> QED
    BY <2>3 DEF OnItsWay
<1>4. CASE Refuses
  BY <1>4, <1>a DEF Refuses, FlyingQueued
<1>5. CASE RunsOver
  BY <1>5 DEF RunsOver, OnItsWay
<1>6. ASSUME NEW r \in Reqs, Withdraw(r) PROVE OnItsWay'
  BY <1>6 DEF Withdraw
<1>7. ASSUME NEW r \in Reqs, Grows(r) PROVE OnItsWay'
  BY <1>7, <1>a DEF Grows, OffOnItsWay, OnItsWay
<1>8. CASE TakeRefused
  <2>1. ~enabled /\ ~lapse /\ refused \cap Queued = {} /\ parked = {}
    BY <1>8, <1>a DEF TakeRefused
  <2>2. OnItsWay /\ ~lagged /\ recovery = "idle"
    BY <1>8, <2>1 DEF OffOnItsWay, TakeRefused, Takes
  <2>3. CASE \E i \in DOMAIN updates : updates[i].cause # "refused"
    <3>1. PICK j \in DOMAIN updates : updates[j].cause # "refused"
      BY <2>3
    <3>2. j # 1
      BY <1>8, <3>1, TailKeepsOthers DEF TakeRefused, Takes
    <3>3. \E i \in DOMAIN Tail(updates) : Tail(updates)[i] = updates[j]
      BY <1>8, <3>1, <3>2, TailKeepsOthers DEF TakeRefused, Takes
    <3>4. \E i \in DOMAIN updates' : updates'[i].cause # "refused"
      BY <1>8, <3>1, <3>3 DEF TakeRefused, Takes
    <3> QED
      BY <3>4 DEF OnItsWay
  <2>4. CASE ~\E i \in DOMAIN updates : updates[i].cause # "refused"
    BY <1>8, <2>2, <2>4 DEF TakeRefused, OnItsWay
  <2> QED
    BY <2>3, <2>4
<1>9. CASE TakeFailure \/ EchoesUnreadable
  BY <1>9 DEF TakeFailure, EchoesUnreadable, OnItsWay
<1>10. CASE RecoverableFailure
  <2>1. recovery' = "arming"
    BY <1>10, CountStops
  <2> QED
    BY <2>1 DEF OnItsWay
<1>11. CASE WakeLater
  BY <1>11 DEF WakeLater, OnItsWay
<1>12. CASE Lagged
  BY <1>12 DEF Lagged, Missed, OnItsWay
<1>13. CASE RoomsToWake
  BY <1>13 DEF RoomsToWake, OnItsWay
<1>14. CASE TimerFires
  <2>1. hand'["timer"] = "check"
    BY <1>14 DEF TimerFires, TypeOK, Wakers
  <2> QED
    BY <2>1 DEF OnItsWay, Wakers
<1>15. CASE SyncRuns
  <2>1. hand'["sync"] = "check"
    BY <1>15 DEF SyncRuns, Missed, TypeOK, Wakers
  <2> QED
    BY <2>1 DEF OnItsWay, Wakers
<1>16. ASSUME NEW w \in Wakers, WakeRoom(w) PROVE OnItsWay'
  <2>1. hand'[w] = "enable"
    BY <1>16 DEF WakeRoom, TypeOK
  <2> QED
    BY <2>1 DEF OnItsWay
<1>17. ASSUME NEW w \in Wakers, Wakes(w) PROVE OnItsWay'
  BY <1>17 DEF Wakes, SwitchOn
<1>18. ASSUME NEW r \in Reqs, Resend(r) \/ Abort(r) \/ Stuck(r) PROVE OnItsWay'
  BY <1>18 DEF Resend, Abort, Stuck, SwitchOn
<1>19. ASSUME NEW r \in Reqs, Retry(r) \/ Discard(r) PROVE OnItsWay'
  <2>1. user'[r] # "none"
    BY <1>19 DEF Retry, Discard, Decide, TypeOK
  <2> QED
    BY <2>1 DEF OnItsWay
<1>20. CASE UNCHANGED vars
  BY <1>20, <1>a DEF vars, OffOnItsWay, OnItsWay
<1> QED
  BY <1>1, <1>2, <1>3, <1>4, <1>5, <1>6, <1>7, <1>8, <1>9, <1>10, <1>11, <1>12, <1>13, <1>14, <1>15,
     <1>16, <1>17, <1>18, <1>19, <1>20
  DEF Next, RecoveryStep, WakerStep

-----------------------------------------------------------------------------
(* The invariant holds, and what it is for *)

(* A process begins with its rooms on and nothing known of its failures.          *)
LEMMA InitInv == Init => IInv
<1> SUFFICES ASSUME Init PROVE IInv
  OBVIOUS
<1>1. queue \in Seq(Reqs)
  <2>1. PICK n \in 0..Cardinality(Reqs) : queue \in [1..n -> Reqs]
    BY DEF Init
  <2> QED
    BY <2>1
<1>2. Queued \subseteq Reqs
  BY <1>1 DEF Queued
<1>3. updates \in Seq(Updates) /\ Len(updates) = 0 /\ DOMAIN updates = {}
  BY DEF Init
<1>4. attempts \in [Reqs -> Nat] /\ age \in [Reqs -> Ages] /\ hand \in [Wakers -> {"idle", "check", "enable"}]
      /\ user \in [Reqs -> {"none", "resend", "discard"}]
  BY DEF Init, Ages
<1>5. TypeOK
  <2>1. unsent \subseteq Reqs /\ refused \subseteq Reqs /\ there \subseteq refused
    BY <1>2 DEF Init
  <2>2. failures \in 0..MaxFailures /\ Len(updates) <= MaxUpdates
    BY <1>3, AttemptsAssumption DEF Init
  <2>3. enabled \in BOOLEAN /\ flying = None /\ lagged \in BOOLEAN /\ parked = {} /\ waiting \in BOOLEAN
        /\ recovery = "idle" /\ update = None /\ seen = {} /\ pending \in BOOLEAN /\ lapse \in BOOLEAN
    BY DEF Init
  <2> QED
    BY <1>1, <1>3, <1>4, <2>1, <2>2, <2>3 DEF TypeOK
<1>6. UnsentUnknown
  BY <1>3 DEF Init, UnsentUnknown
<1> QED
  BY <1>5, <1>6 DEF Init, IInv, FlyingWhileOn, FlyingQueued, OffOnItsWay, SeenCovers

(* Every step keeps it.                                                          *)
LEMMA StepInv == IInv /\ [Next]_vars => IInv'
  BY TypeStep, FlyingStep, OffStep, UnsentStep, SeenStep DEF IInv

(* It holds of every run.                                                        *)
THEOREM Inductive == Spec => []IInv
  BY InitInv, StepInv, PTL DEF Spec

(* Every variable keeps its type in every run: counts, windows, channel, queue.   *)
THEOREM TypeCorrect == Spec => []TypeOK
<1>1. IInv => TypeOK
  BY DEF IInv
<1> QED
  BY <1>1, Inductive, PTL

(* Whatever fails, lags or is raced, a room nothing holds is on somebody's way to  *)
(* a wake: recovery, timers, the sync and the commands never all let go of it.     *)
THEOREM NeverStranded == Spec => []NobodyStranded
<1>1. IInv => NobodyStranded
  BY DEF IInv, OffOnItsWay, NobodyStranded, Free
<1> QED
  BY <1>1, Inductive, PTL

(* What was parked is let go only on the user's word, or once it is not queued.    *)
THEOREM ParkedWaitsForUser == Spec => OnlyUserReleases
<1> DEFINE Released == \A r \in parked \ parked' :
                          user'[r] \in {"resend", "discard"} \/ r \notin Queued
<1>1. ASSUME IInv, [Next]_vars PROVE [Released]_vars
  <2>1. CASE RecoverableFailure
    <3>1. parked \cap seen \subseteq parked' /\ parked \cap Queued \subseteq seen
      BY <1>1, <2>1, CountStops DEF IInv, SeenCovers, RecoverableFailure
    <3> QED
      BY <3>1
  <2>2. ASSUME NEW r \in Reqs, Retry(r) \/ Discard(r) PROVE Released
    <3>1. parked \ parked' \subseteq {r} /\ user'[r] \in {"resend", "discard"}
      BY <1>1, <2>2 DEF Retry, Discard, Decide, Release, IInv, TypeOK
    <3> QED
      BY <3>1
  <2>3. CASE ~RecoverableFailure /\ ~(\E r \in Reqs : Retry(r) \/ Discard(r))
    <3>1. parked' = parked
      BY <1>1, <2>3
      DEF Next, RecoveryStep, WakerStep, Queue, StartSend, Withdraw, Grows, Sent, Refuses, RunsOver, Fails,
          TakeRefused, TakeFailure, EchoesUnreadable, WakeLater, Lagged, RoomsToWake, Takes,
          TimerFires, WakeRoom, Wakes, SyncRuns, Resend, Abort, Stuck, vars
    <3> QED
      BY <3>1
  <2> QED
    BY <2>1, <2>2, <2>3
<1> QED
  BY <1>1, Inductive, PTL DEF Spec, OnlyUserReleases
============================================================================
