------------------------- MODULE ReplyDebtProofs -------------------------
(* Proofs about ReplyDebt, for any sets of commands: no id is answered      *)
(* twice, and no debt is left without somebody who will pay it.             *)
EXTENDS ReplyDebt, TLAPS

-----------------------------------------------------------------------------
(* The inductive invariant *)

(* Before its answer a command's task is in one of these places. *)
Unanswered == {"spawned", "running", "gated", "cancelling", "cancelled", "aborting"}

(* The channel holds each queued command once. *)
InboxQueued == /\ \A i \in DOMAIN inbox : task[inbox[i]] = "queued"
               /\ \A i, j \in DOMAIN inbox : inbox[i] = inbox[j] => i = j

(* A command that has not started owes and was told nothing. *)
Unheard(id) == heard[id] = 0 /\ \A a \in Actors : sending[a] # id

FreshOwesNothing ==
    \A id \in Ids : task[id] \in {"unsent", "queued"} =>
        id \notin owed /\ id \notin settled /\ Unheard(id)

(* What is owed was not heard and is in nobody's hands; one hand at most       *)
(* holds an answer, and what a hand holds was not heard.                      *)
OwedUnheard == \A id \in owed : id \notin settled /\ Unheard(id)
OneHand == \A a \in Actors : sending[a] # None =>
               /\ heard[sending[a]] = 0
               /\ \A b \in Actors : sending[b] = sending[a] => a = b

(* A command that may still answer is owed an answer, or was stood in for; a   *)
(* stand-in only ever answers for a command a drain may abort.                *)
OnlyPlainsSettled == settled \subseteq Plains
PlainHasDebt == \A id \in Plains : task[id] \in {"spawned", "running"} => id \in owed \cup settled
SessionOwed == \A id \in Ids \ Plains : task[id] \in Unanswered => id \in owed
WorkerOwed == \A id \in Logins : worker[id] # "none" /\ ~said[id] => id \in owed

(* A worker exists once its command has done its part, and only then. *)
WorkerAfterCommand ==
    /\ \A id \in Logins : task[id] \in Unanswered \cup {"unsent", "queued"} => worker[id] = "none"
    /\ \A id \in Logins : worker[id] = "none" => ~said[id] /\ id \notin cut
    /\ login # None => worker[login] # "none"
    /\ target # None => worker[target] # "none"

(* What is registered, or about to be, has been spawned. *)
AbortedStarted == \A id \in Ids : task[id] \in {"unsent", "queued"} =>
    id \notin registry \cup todo \cup aborted \cup {entering}

(* The gate's holder, and what only it does. *)
HoldersGate ==
    /\ \A id \in Ids : task[id] \in {"gated", "cancelling", "cancelled", "aborting"} => gate = id
    /\ target # None => gate # None /\ task[gate] = "cancelling"
    /\ todo # {} => gate # None /\ task[gate] = "aborting"

(* Who pays once the task or the worker is gone. *)
AbortedInTodo == \A id \in aborted : id \in owed => id \in todo
CutAwaited == \A id \in cut : worker[id] # "ended" => target = id
SaidOrAwaited == \A id \in Logins :
    /\ worker[id] \in {"waiting", "over"} => said[id]
    /\ worker[id] = "ended" /\ ~said[id] => target = id
DebtHasOwner == \A id \in owed :
    \/ task[id] \in Unanswered
    \/ id \in todo
    \/ id \in Logins /\ worker[id] # "none" /\ ~said[id]

Core == OwedUnheard /\ OneHand /\ AtMostOnce
Debts == OnlyPlainsSettled /\ PlainHasDebt /\ SessionOwed /\ WorkerOwed
Control == InboxQueued /\ WorkerAfterCommand /\ HoldersGate /\ AbortedStarted
Owners == AbortedInTodo /\ CutAwaited /\ SaidOrAwaited /\ DebtHasOwner

IInv == TypeOK /\ Core /\ FreshOwesNothing /\ Debts /\ Control /\ Owners

USE DEF Ids, taskVars, gateVars, loginVars, debtVars

-----------------------------------------------------------------------------
(* Types *)

(* A pair of a role and a command is a thread. *)
LEMMA ActorTypes == ASSUME NEW id \in Ids PROVE Command(id) \in Actors /\ Worker(id) \in Actors
BY DEF Command, Worker, Actors

(* A session's command is none a drain may abort. *)
LEMMA SessionKinds == Logins \cup Aborts \cup Leaves = Ids \ Plains
BY KindsAssumption

(* What settling a debt does, whichever way: the id is owed no longer, only    *)
(* this thread's hand and this id's note change.                              *)
Handles(a, id) == Emit(a, id) \/ StandIn(a, id) \/ AnswerIfOwed(a, id)

LEMMA HandlesTypes ==
    ASSUME TypeOK, NEW a \in Actors, NEW id \in Ids, Handles(a, id)
    PROVE /\ owed' \subseteq Ids /\ settled' \subseteq Ids
          /\ sending' \in [Actors -> Ids \cup {None}]
BY DEF TypeOK, Handles, Emit, StandIn, AnswerIfOwed, Idle

LEMMA OnceTypes ==
    ASSUME TypeOK, NEW a \in Actors, NEW id \in Logins, AnswerOnce(a, id)
    PROVE /\ owed' \subseteq Ids /\ settled' \subseteq Ids
          /\ sending' \in [Actors -> Ids \cup {None}]
          /\ said' \in [Logins -> BOOLEAN]
BY HandlesTypes DEF TypeOK, AnswerOnce, Handles, Emit, Idle

LEMMA TypeStep == TypeOK /\ [Next]_vars => TypeOK'
<1> SUFFICES ASSUME TypeOK, [Next]_vars PROVE TypeOK'
  OBVIOUS
<1>1. CASE UNCHANGED vars
  BY <1>1 DEF vars, TypeOK
<1>2. CASE Dispatch
  BY <1>2 DEF TypeOK, Dispatch, TaskStates
<1>3. CASE Register
  BY <1>3 DEF TypeOK, Register
<1>4. ASSUME NEW a \in Actors, Deliver(a) PROVE TypeOK'
  BY <1>4 DEF TypeOK, Deliver, Idle
<1>5. ASSUME NEW id \in Ids, Ask(id) PROVE TypeOK'
  BY <1>5 DEF TypeOK, Ask, TaskStates
<1>6. ASSUME NEW id \in Ids, \/ FirstPoll(id) \/ DropUnpolled(id) \/ Ended(id) \/ TakeGate(id)
                             \/ Finish(id)
      PROVE TypeOK'
  BY <1>6 DEF TypeOK, Moves, FirstPoll, DropUnpolled, Ended, TakeGate, Finish, TaskStates
<1>7. ASSUME NEW id \in Ids, Reply(id) \/ Panic(id) \/ DropAborted(id) PROVE TypeOK'
  <2>1. Handles(Command(id), id)
    BY <1>7 DEF Handles, Reply, Panic, DropAborted
  <2>2. task' \in [Ids -> TaskStates]
    BY <1>7 DEF TypeOK, Moves, Reply, Panic, DropAborted, TaskStates
  <2> QED
    BY <1>7, <2>1, <2>2, HandlesTypes, ActorTypes DEF TypeOK, Reply, Panic, DropAborted
<1>8. ASSUME NEW id \in Ids, LoginRefused(id) \/ AbortReplies(id) \/ LeaveReplies(id) PROVE TypeOK'
  <2>1. Handles(Command(id), id)
    BY <1>8 DEF Handles, LoginRefused, AbortReplies, LeaveReplies
  <2>2. task' \in [Ids -> TaskStates]
    BY <1>8 DEF TypeOK, Moves, LoginRefused, AbortReplies, LeaveReplies, TaskStates
  <2> QED
    BY <1>8, <2>1, <2>2, HandlesTypes, ActorTypes DEF TypeOK, LoginRefused, AbortReplies, LeaveReplies
<1>9. ASSUME NEW id \in Ids, LoginReuses(id) \/ SpawnLogin(id) PROVE TypeOK'
  BY <1>9 DEF TypeOK, Moves, LoginReuses, SpawnLogin, TaskStates, WorkerStates
<1>10. ASSUME NEW id \in Ids, Cancel(id) PROVE TypeOK'
  BY <1>10 DEF TypeOK, Moves, Cancel, TaskStates
<1>11. ASSUME NEW id \in Ids, Cancelled(id) PROVE TypeOK'
  <2>1. target \in Logins /\ AnswerOnce(Command(id), target)
    BY <1>11 DEF TypeOK, Cancelled
  <2>2. task' \in [Ids -> TaskStates]
    BY <1>11 DEF TypeOK, Moves, Cancelled, TaskStates
  <2> QED
    BY <1>11, <2>1, <2>2, OnceTypes, ActorTypes DEF TypeOK, Cancelled
<1>12. ASSUME NEW id \in Ids, DrainGivesUp(id) PROVE TypeOK'
  BY <1>12 DEF TypeOK, Moves, DrainGivesUp, TaskStates
<1>13. ASSUME NEW id \in Ids, NEW p \in Plains, AbortStraggler(id, p) PROVE TypeOK'
  BY <1>13 DEF TypeOK, AbortStraggler
<1>14. ASSUME NEW id \in Ids, NEW p \in Plains, AnswerStraggler(id, p) PROVE TypeOK'
  <2>1. Handles(Command(id), p)
    BY <1>14 DEF Handles, AnswerStraggler
  <2> QED
    BY <1>14, <2>1, HandlesTypes, ActorTypes DEF TypeOK, AnswerStraggler
<1>15. ASSUME NEW id \in Logins, WorkerSays(id) \/ WorkerReplies(id) \/ WorkerPanics(id) PROVE TypeOK'
  <2>1. AnswerOnce(Worker(id), id)
    BY <1>15 DEF WorkerSays, WorkerReplies, WorkerPanics
  <2>2. worker' \in [Logins -> WorkerStates]
    BY <1>15 DEF TypeOK, WorkerMoves, WorkerSays, WorkerReplies, WorkerPanics, WorkerStates
  <2> QED
    BY <1>15, <2>1, <2>2, OnceTypes, ActorTypes DEF TypeOK, WorkerSays, WorkerReplies, WorkerPanics
<1>16. ASSUME NEW id \in Logins, WorkerFails(id) PROVE TypeOK'
  BY <1>16 DEF TypeOK, WorkerMoves, WorkerFails, WorkerStates
<1>17. ASSUME NEW id \in Logins, WorkerEnds(id) \/ WorkerCut(id) PROVE TypeOK'
  BY <1>17 DEF TypeOK, WorkerEnds, WorkerCut, WorkerStates
<1> QED
  BY <1>1, <1>2, <1>3, <1>4, <1>5, <1>6, <1>7, <1>8, <1>9, <1>10, <1>11, <1>12, <1>13, <1>14, <1>15,
     <1>16, <1>17 DEF Next, CommandStep, GateStep, Drops, WorkerStep
-----------------------------------------------------------------------------
(* The control state: where the tasks, the gate and the workers are. *)

LEMMA InboxStep == TypeOK /\ InboxQueued /\ [Next]_vars => InboxQueued'
<1> SUFFICES ASSUME TypeOK, InboxQueued, [Next]_vars PROVE InboxQueued'
  OBVIOUS
<1>1. CASE UNCHANGED vars
  BY <1>1 DEF vars, InboxQueued
<1>2. CASE Dispatch
  <2>1. /\ inbox' = Tail(inbox) /\ inbox # <<>>
        /\ task' = [task EXCEPT ![Head(inbox)] = "spawned"]
    BY <1>2 DEF Dispatch
  <2>2. \A i \in DOMAIN inbox' : i + 1 \in DOMAIN inbox /\ inbox'[i] = inbox[i + 1] /\ i + 1 # 1
    BY <2>1 DEF TypeOK
  <2>3. \A i \in DOMAIN inbox' : inbox'[i] # Head(inbox)
    BY <2>1, <2>2 DEF TypeOK, InboxQueued
  <2> QED
    BY <2>1, <2>2, <2>3 DEF TypeOK, InboxQueued
<1>3. ASSUME NEW id \in Ids, Ask(id) PROVE InboxQueued'
  <2>1. /\ inbox' = Append(inbox, id) /\ task[id] = "unsent"
        /\ task' = [task EXCEPT ![id] = "queued"]
    BY <1>3 DEF Ask
  <2>2. \A i \in DOMAIN inbox' : \/ i \in DOMAIN inbox /\ inbox'[i] = inbox[i]
                                 \/ i = Len(inbox) + 1 /\ inbox'[i] = id
    BY <2>1 DEF TypeOK
  <2> QED
    BY <2>1, <2>2 DEF TypeOK, InboxQueued
<1>4. ASSUME inbox' = inbox, \A id \in Ids : task[id] = "queued" => task'[id] = "queued"
      PROVE InboxQueued'
  BY <1>4 DEF TypeOK, InboxQueued
<1>5. ASSUME NEW id \in Ids, CommandStep(id) \/ Panic(id) PROVE InboxQueued'
  BY <1>4, <1>5 DEF TypeOK, CommandStep, Drops, GateStep, Moves, FirstPoll, DropUnpolled, DropAborted,
     Reply, Panic, Finish, Ended, TakeGate, LoginReuses, Cancel, Cancelled, LoginRefused, SpawnLogin,
     AbortReplies, DrainGivesUp, LeaveReplies, AbortStraggler, AnswerStraggler
<1>6. ASSUME NEW id \in Logins, WorkerStep(id) \/ WorkerPanics(id) \/ WorkerEnds(id) PROVE InboxQueued'
  BY <1>4, <1>6 DEF WorkerStep, WorkerSays, WorkerFails, WorkerReplies, WorkerCut, WorkerPanics, WorkerEnds
<1>7. ASSUME NEW a \in Actors, Deliver(a) PROVE InboxQueued'
  BY <1>4, <1>7 DEF Deliver
<1>8. CASE Register
  BY <1>4, <1>8 DEF Register
<1> QED
  BY <1>1, <1>2, <1>3, <1>5, <1>6, <1>7, <1>8 DEF Next

LEMMA GateHolders == TypeOK /\ InboxQueued /\ HoldersGate /\ [Next]_vars => HoldersGate'
<1> SUFFICES ASSUME TypeOK, InboxQueued, HoldersGate, [Next]_vars PROVE HoldersGate'
  OBVIOUS
<1>1. CASE UNCHANGED vars
  BY <1>1 DEF vars, HoldersGate
<1>2. CASE Dispatch
  BY <1>2 DEF TypeOK, Dispatch, HoldersGate, InboxQueued
<1>3. CASE Register
  BY <1>3 DEF Register, HoldersGate
<1>4. ASSUME NEW a \in Actors, Deliver(a) PROVE HoldersGate'
  BY <1>4 DEF Deliver, HoldersGate
<1>5. ASSUME NEW id \in Ids, Ask(id) PROVE HoldersGate'
  BY <1>5 DEF TypeOK, Ask, HoldersGate
<1>6. ASSUME NEW id \in Ids, CommandStep(id) \/ Panic(id) PROVE HoldersGate'
  BY <1>6, KindsAssumption DEF TypeOK, HoldersGate, CommandStep, Drops, GateStep, Moves, FirstPoll,
     DropUnpolled, DropAborted, Reply, Panic, Finish, Ended, TakeGate, LoginReuses, Cancel, Cancelled,
     LoginRefused, SpawnLogin, AbortReplies, DrainGivesUp, LeaveReplies, AbortStraggler, AnswerStraggler
<1>7. ASSUME NEW id \in Logins, WorkerStep(id) \/ WorkerPanics(id) \/ WorkerEnds(id) PROVE HoldersGate'
  BY <1>7 DEF HoldersGate, WorkerStep, WorkerSays, WorkerFails, WorkerReplies, WorkerCut, WorkerPanics,
     WorkerEnds
<1> QED
  BY <1>1, <1>2, <1>3, <1>4, <1>5, <1>6, <1>7 DEF Next

LEMMA WorkersFollow ==
    TypeOK /\ InboxQueued /\ WorkerAfterCommand /\ [Next]_vars => WorkerAfterCommand'
<1> SUFFICES ASSUME TypeOK, InboxQueued, WorkerAfterCommand, [Next]_vars PROVE WorkerAfterCommand'
  OBVIOUS
<1> USE KindsAssumption DEF Unanswered
<1>1. CASE UNCHANGED vars
  BY <1>1 DEF vars, WorkerAfterCommand
<1>2. CASE Dispatch
  BY <1>2 DEF TypeOK, Dispatch, WorkerAfterCommand, InboxQueued
<1>3. CASE Register
  BY <1>3 DEF Register, WorkerAfterCommand
<1>4. ASSUME NEW a \in Actors, Deliver(a) PROVE WorkerAfterCommand'
  BY <1>4 DEF Deliver, WorkerAfterCommand
<1>5. ASSUME NEW id \in Ids, Ask(id) PROVE WorkerAfterCommand'
  BY <1>5 DEF TypeOK, Ask, WorkerAfterCommand
<1>6. ASSUME NEW id \in Ids, CommandStep(id) \/ Panic(id) PROVE WorkerAfterCommand'
  <2>1. CASE LoginReuses(id) \/ SpawnLogin(id)
    <3>1. /\ id \in Logins /\ login' = id /\ worker' = [worker EXCEPT ![id] = "running"]
          /\ task' = [task EXCEPT ![id] = "over"] /\ UNCHANGED <<target, said, cut>>
      BY <2>1 DEF Moves, LoginReuses, SpawnLogin
    <3> QED
      BY <3>1 DEF TypeOK, WorkerAfterCommand
  <2>2. CASE Cancel(id)
    BY <2>2 DEF TypeOK, WorkerAfterCommand, Moves, Cancel
  <2>3. CASE Cancelled(id)
    BY <2>3 DEF TypeOK, WorkerAfterCommand, Moves, Cancelled, AnswerOnce
  <2>4. CASE ~(LoginReuses(id) \/ SpawnLogin(id) \/ Cancel(id) \/ Cancelled(id))
    BY <1>6, <2>4 DEF TypeOK, WorkerAfterCommand, CommandStep, Drops, GateStep, Moves, FirstPoll,
       DropUnpolled, DropAborted, Reply, Panic, Finish, Ended, TakeGate,
       LoginRefused, AbortReplies, DrainGivesUp, LeaveReplies, AbortStraggler, AnswerStraggler
  <2> QED
    BY <2>1, <2>2, <2>3, <2>4
<1>7. ASSUME NEW id \in Logins, WorkerStep(id) \/ WorkerPanics(id) \/ WorkerEnds(id) PROVE WorkerAfterCommand'
  BY <1>7 DEF TypeOK, WorkerAfterCommand, WorkerMoves, WorkerStep, WorkerSays, WorkerFails, WorkerReplies,
     WorkerCut, WorkerPanics, WorkerEnds, AnswerOnce
<1> QED
  BY <1>1, <1>2, <1>3, <1>4, <1>5, <1>6, <1>7 DEF Next
LEMMA OnlyStartedAborted == TypeOK /\ InboxQueued /\ AbortedStarted /\ [Next]_vars => AbortedStarted'
<1> SUFFICES ASSUME TypeOK, InboxQueued, AbortedStarted, [Next]_vars PROVE AbortedStarted'
  OBVIOUS
<1> DEFINE Fresh(x) == task[x] \in {"unsent", "queued"}
<1>1. ASSUME \A x \in Ids : Fresh(x)' => Fresh(x),
             registry' \cup todo' \cup aborted' \subseteq registry \cup todo \cup aborted,
             entering' = entering
      PROVE AbortedStarted'
  BY <1>1 DEF AbortedStarted
<1>2. CASE UNCHANGED vars
  BY <1>2 DEF vars, AbortedStarted
<1>3. CASE Dispatch
  <2>1. Head(inbox) \in Ids /\ task' = [task EXCEPT ![Head(inbox)] = "spawned"]
    BY <1>3 DEF TypeOK, Dispatch
  <2> QED
    BY <1>3, <2>1, KindsAssumption DEF TypeOK, Dispatch, AbortedStarted
<1>4. CASE Register
  BY <1>4, KindsAssumption DEF TypeOK, Register, AbortedStarted
<1>5. ASSUME NEW a \in Actors, Deliver(a) PROVE AbortedStarted'
  BY <1>1, <1>5 DEF Deliver
<1>6. ASSUME NEW id \in Ids, Ask(id) PROVE AbortedStarted'
  BY <1>1, <1>6 DEF Ask, TypeOK
<1>7. ASSUME NEW id \in Ids, NEW p \in Plains, AbortStraggler(id, p) \/ AnswerStraggler(id, p)
      PROVE AbortedStarted'
  BY <1>1, <1>7 DEF AbortStraggler, AnswerStraggler
<1>8. ASSUME NEW id \in Ids, DrainGivesUp(id) PROVE AbortedStarted'
  BY <1>1, <1>8 DEF DrainGivesUp, Moves, TypeOK
<1>9. ASSUME NEW id \in Ids, Reply(id) \/ Panic(id) \/ DropAborted(id) \/ LoginRefused(id)
                 \/ AbortReplies(id) \/ LeaveReplies(id) \/ Cancelled(id)
      PROVE AbortedStarted'
  BY <1>1, <1>9 DEF Reply, Panic, DropAborted, LoginRefused, AbortReplies, LeaveReplies, Cancelled, Moves, TypeOK
<1>10. ASSUME NEW id \in Ids, FirstPoll(id) \/ DropUnpolled(id) \/ Finish(id) \/ Ended(id) \/ TakeGate(id)
                 \/ LoginReuses(id) \/ Cancel(id) \/ SpawnLogin(id)
       PROVE AbortedStarted'
  BY <1>1, <1>10 DEF FirstPoll, DropUnpolled, Finish, Ended, TakeGate, LoginReuses, Cancel, SpawnLogin, Moves,
     TypeOK
<1>11. ASSUME NEW id \in Logins, WorkerStep(id) \/ WorkerPanics(id) \/ WorkerEnds(id) PROVE AbortedStarted'
  BY <1>1, <1>11 DEF WorkerStep, WorkerSays, WorkerFails, WorkerReplies, WorkerCut, WorkerPanics, WorkerEnds
<1> QED
  BY <1>2, <1>3, <1>4, <1>5, <1>6, <1>7, <1>8, <1>9, <1>10, <1>11 DEF Next, CommandStep, GateStep, Drops

-----------------------------------------------------------------------------
(* The debts: what settling one does to all of them. *)

LEMMA Handling ==
    ASSUME TypeOK, Core, NEW a \in Actors, NEW id \in Ids, Handles(a, id),
           Emit(a, id) => id \in owed \cup settled, heard' = heard
    PROVE /\ Core'
          /\ owed' = owed \ {id}
          /\ settled' \ {id} = settled \ {id}
          /\ id \in settled' => id \in owed \/ (id \in settled /\ ~Emit(a, id))
          /\ \A x \in Ids : x # id /\ Unheard(x) => Unheard(x)'
<1> USE DEF Core, Handles, Emit, StandIn, AnswerIfOwed, Idle
<1>1. owed' = owed \ {id}
  BY DEF OwedUnheard
<1>2. settled' \ {id} = settled \ {id}
  OBVIOUS
<1>3. id \in settled' => id \in owed \/ (id \in settled /\ ~Emit(a, id))
  OBVIOUS
<1>4. \/ sending' = sending
      \/ id \in owed /\ sending' = [sending EXCEPT ![a] = id]
  BY DEF OwedUnheard
<1>5. ASSUME NEW x \in Ids, x # id, Unheard(x) PROVE Unheard(x)'
  BY <1>4, <1>5 DEF Unheard, TypeOK
<1>6. OwedUnheard'
  <2> SUFFICES ASSUME NEW x \in owed' PROVE x \notin settled' /\ Unheard(x)'
    BY DEF OwedUnheard
  <2>1. x \in owed /\ x # id /\ x \in Ids
    BY <1>1 DEF TypeOK
  <2> QED
    BY <1>2, <1>5, <2>1 DEF OwedUnheard
<1>7. OneHand'
  <2>1. CASE sending' = sending
    BY <2>1 DEF OneHand
  <2>2. CASE id \in owed /\ sending' = [sending EXCEPT ![a] = id]
    <3>1. heard[id] = 0 /\ (\A b \in Actors : sending[b] # id) /\ id # None
      BY <2>2, KindsAssumption DEF OwedUnheard, Unheard
    <3>2. \A b \in Actors : sending'[b] = IF b = a THEN id ELSE sending[b]
      BY <2>2 DEF TypeOK
    <3>3. ASSUME NEW b \in Actors, sending'[b] # None
          PROVE  heard'[sending'[b]] = 0
      BY <3>1, <3>2, <3>3 DEF OneHand
    <3>4. ASSUME NEW b \in Actors, sending'[b] # None,
                 NEW c \in Actors, sending'[c] = sending'[b]
          PROVE  b = c
      <4>1. CASE b = a \/ c = a
        BY <3>1, <3>2, <3>4, <4>1
      <4>2. CASE b # a /\ c # a
        BY <3>2, <3>4, <4>2 DEF OneHand
      <4> QED
        BY <4>1, <4>2
    <3> QED
      BY <3>3, <3>4 DEF OneHand
  <2> QED
    BY <1>4, <2>1, <2>2
<1>8. AtMostOnce'
  BY DEF AtMostOnce
<1> QED
  BY <1>1, <1>2, <1>3, <1>5, <1>6, <1>7, <1>8

(* Handing a message over is heard once, and only by the id in the hand. *)
LEMMA Delivering ==
    ASSUME TypeOK, Core, NEW a \in Actors, Deliver(a)
    PROVE Core' /\ \A x \in Ids : Unheard(x) /\ x # sending[a] => Unheard(x)'
<1> DEFINE said0 == sending[a]
<1>1. /\ said0 \in Ids /\ heard[said0] = 0
      /\ heard' = [heard EXCEPT ![said0] = 1]
      /\ sending' = [sending EXCEPT ![a] = None]
      /\ owed' = owed /\ settled' = settled
  <2>1. said0 \in Ids /\ heard[said0] = 0
    BY DEF Deliver, Idle, Core, OneHand, TypeOK
  <2> QED
    BY <2>1 DEF Deliver
<1>2. ASSUME NEW x \in Ids, Unheard(x), x # said0 PROVE Unheard(x)'
  BY <1>1, <1>2, KindsAssumption DEF Unheard, TypeOK
<1>3. OwedUnheard'
  BY <1>1, <1>2 DEF Core, OwedUnheard, Unheard, TypeOK
<1>4. OneHand'
  BY <1>1 DEF Core, OneHand, TypeOK
<1>5. AtMostOnce'
  BY <1>1 DEF Core, AtMostOnce, TypeOK
<1> QED
  BY <1>2, <1>3, <1>4, <1>5 DEF Core

-----------------------------------------------------------------------------
(* Whoever is about to answer is owed the answer, or was stood in for. *)

(* The ids a step settles, and what the rest of the step leaves alone. *)
LEMMA CoreStep ==
    TypeOK /\ Core /\ FreshOwesNothing /\ Debts /\ Control /\ [Next]_vars => Core'
<1> SUFFICES ASSUME TypeOK, Core, FreshOwesNothing, Debts, Control, [Next]_vars PROVE Core'
  OBVIOUS
<1> USE KindsAssumption
<1>1. ASSUME UNCHANGED <<owed, settled, sending, heard>> PROVE Core'
  BY <1>1 DEF Core, OwedUnheard, OneHand, AtMostOnce, Unheard
<1>2. CASE UNCHANGED vars
  BY <1>1, <1>2 DEF vars
<1>3. CASE Dispatch
  <2> DEFINE id == Head(inbox)
  <2>1. id \in Ids /\ task[id] = "queued"
    BY <1>3 DEF TypeOK, Dispatch, Control, InboxQueued
  <2>2. /\ owed' = owed \cup {id} /\ settled' = settled \ {id}
        /\ sending' = sending /\ heard' = heard
    BY <1>3 DEF Dispatch
  <2>3. Unheard(id)
    BY <2>1 DEF FreshOwesNothing
  <2> HIDE DEF id
  <2> QED
    BY <2>1, <2>2, <2>3 DEF Core, OwedUnheard, OneHand, AtMostOnce, Unheard
<1>4. CASE Register
  BY <1>1, <1>4 DEF Register
<1>5. ASSUME NEW a \in Actors, Deliver(a) PROVE Core'
  BY <1>5, Delivering
<1>6. ASSUME NEW id \in Ids, Ask(id) PROVE Core'
  BY <1>1, <1>6 DEF Ask
<1>7. ASSUME NEW a \in Actors, NEW x \in Ids, Handles(a, x), Emit(a, x) => x \in owed \cup settled,
             heard' = heard
      PROVE Core'
  BY <1>7, Handling
<1>8. ASSUME NEW a \in Actors, NEW l \in Logins, AnswerOnce(a, l), worker[l] # "none", heard' = heard
      PROVE Core'
  BY <1>1, <1>7, <1>8 DEF AnswerOnce, Handles, Debts, WorkerOwed
<1>9. ASSUME NEW id \in Ids, Reply(id) PROVE Core'
  BY <1>7, <1>9, ActorTypes DEF Reply, Moves, Handles, Debts, PlainHasDebt
<1>10. ASSUME NEW id \in Ids, LoginRefused(id) \/ AbortReplies(id) \/ LeaveReplies(id) PROVE Core'
  <2>1. id \in owed /\ Emit(Command(id), id) /\ heard' = heard
    <3>0. id \in Logins \cup Aborts \cup Leaves
      BY <1>10, SessionKinds DEF LoginRefused, AbortReplies, LeaveReplies, Moves
    <3>1. id \in Ids \ Plains
      BY <3>0, SessionKinds
    <3>2. task[id] \in Unanswered /\ Emit(Command(id), id) /\ heard' = heard
      BY <1>10 DEF LoginRefused, AbortReplies, LeaveReplies, Moves, Unanswered
    <3> QED
      BY <3>1, <3>2 DEF Debts, SessionOwed
  <2> QED
    BY <2>1, <1>7, ActorTypes DEF Handles
<1>11. ASSUME NEW a \in Actors, NEW x \in Ids, StandIn(a, x) \/ AnswerIfOwed(a, x), heard' = heard
       PROVE Core'
  BY <1>1, <1>7, <1>11 DEF Handles, Emit, StandIn, AnswerIfOwed, Idle, Core, OwedUnheard, OneHand,
     AtMostOnce
<1>12. ASSUME NEW id \in Ids, Panic(id) \/ DropAborted(id) PROVE Core'
  BY <1>11, <1>12, ActorTypes DEF Panic, DropAborted
<1>13. ASSUME NEW id \in Ids, Cancelled(id) PROVE Core'
  BY <1>8, <1>13, ActorTypes DEF Cancelled, Control, WorkerAfterCommand, TypeOK
<1>14. ASSUME NEW id \in Ids, NEW p \in Plains, AnswerStraggler(id, p) PROVE Core'
  BY <1>11, <1>14, ActorTypes DEF AnswerStraggler
<1>15. ASSUME NEW id \in Ids, NEW p \in Plains, AbortStraggler(id, p) PROVE Core'
  BY <1>1, <1>15 DEF AbortStraggler
<1>16. ASSUME NEW id \in Ids, FirstPoll(id) \/ DropUnpolled(id) \/ Finish(id) \/ Ended(id) \/ TakeGate(id)
                 \/ LoginReuses(id) \/ Cancel(id) \/ SpawnLogin(id) \/ DrainGivesUp(id)
       PROVE Core'
  BY <1>1, <1>16 DEF FirstPoll, DropUnpolled, Finish, Ended, TakeGate, LoginReuses, Cancel, SpawnLogin, DrainGivesUp
<1>17. ASSUME NEW id \in Logins, WorkerSays(id) \/ WorkerReplies(id) \/ WorkerPanics(id) PROVE Core'
  <2>1. AnswerOnce(Worker(id), id) /\ worker[id] # "none" /\ heard' = heard
    BY <1>17 DEF WorkerSays, WorkerReplies, WorkerPanics, WorkerMoves
  <2> QED
    BY <2>1, <1>8, ActorTypes
<1>18. ASSUME NEW id \in Logins, WorkerFails(id) \/ WorkerEnds(id) \/ WorkerCut(id) PROVE Core'
  BY <1>1, <1>18 DEF WorkerFails, WorkerEnds, WorkerCut
<1> QED
  BY <1>2, <1>3, <1>4, <1>5, <1>6, <1>9, <1>10, <1>12, <1>13, <1>14, <1>15, <1>16, <1>17, <1>18
  DEF Next, CommandStep, GateStep, Drops, WorkerStep
(* A step that settles one id, or none, leaves the others' debts as they were. *)
LEMMA FreshStep ==
    TypeOK /\ Core /\ FreshOwesNothing /\ Debts /\ Control /\ [Next]_vars => FreshOwesNothing'
<1> SUFFICES ASSUME TypeOK, Core, FreshOwesNothing, Debts, Control, [Next]_vars PROVE FreshOwesNothing'
  OBVIOUS
<1> DEFINE Fresh(x) == task[x] \in {"unsent", "queued"}
<1>1. ASSUME \A x \in Ids : Fresh(x)' => Fresh(x), UNCHANGED <<owed, settled, sending, heard>>
      PROVE FreshOwesNothing'
  BY <1>1 DEF FreshOwesNothing, Unheard
<1>2. ASSUME NEW a \in Actors, NEW id \in Ids, Handles(a, id), ~Fresh(id), heard' = heard,
             Emit(a, id) => id \in owed \cup settled, \A x \in Ids : Fresh(x)' => Fresh(x)
      PROVE FreshOwesNothing'
  <2>1. \A x \in Ids : x # id /\ Unheard(x) => Unheard(x)'
    BY <1>2, Handling
  <2>2. owed' = owed \ {id} /\ settled' \ {id} = settled \ {id}
    BY <1>2, Handling
  <2> QED
    BY <1>2, <2>1, <2>2 DEF FreshOwesNothing
<1>3. ASSUME NEW a \in Actors, NEW id \in Logins, AnswerOnce(a, id), worker[id] # "none", heard' = heard,
             \A x \in Ids : Fresh(x)' => Fresh(x)
      PROVE FreshOwesNothing'
  <2>1. ~Fresh(id)
    BY <1>3 DEF Control, WorkerAfterCommand
  <2>2. CASE said[id]
    BY <1>1, <1>3, <2>2 DEF AnswerOnce
  <2>3. CASE ~said[id]
    <3>1. Emit(a, id) /\ id \in owed
      BY <1>3, <2>3 DEF AnswerOnce, Debts, WorkerOwed
    <3> HIDE DEF Fresh
    <3> QED
      BY <1>2, <1>3, <2>1, <3>1 DEF Handles
  <2> QED
    BY <2>2, <2>3
<1>4. CASE UNCHANGED vars
  BY <1>1, <1>4 DEF vars
<1>5. CASE Dispatch
  <2>1. Head(inbox) \in Ids /\ task' = [task EXCEPT ![Head(inbox)] = "spawned"]
    BY <1>5 DEF TypeOK, Dispatch
  <2>2. owed' = owed \cup {Head(inbox)} /\ settled' = settled \ {Head(inbox)}
        /\ sending' = sending /\ heard' = heard
    BY <1>5 DEF Dispatch
  <2> QED
    BY <2>1, <2>2 DEF TypeOK, FreshOwesNothing, Unheard
<1>6. CASE Register
  BY <1>1, <1>6 DEF Register
<1>7. ASSUME NEW a \in Actors, Deliver(a) PROVE FreshOwesNothing'
  <2>1. \A x \in Ids : Unheard(x) /\ x # sending[a] => Unheard(x)'
    BY <1>7, Delivering
  <2>2. \A x \in Ids : Unheard(x) => x # sending[a]
    BY DEF Unheard
  <2> QED
    BY <1>7, <2>1, <2>2 DEF Deliver, FreshOwesNothing
<1>8. ASSUME NEW id \in Ids, Ask(id) PROVE FreshOwesNothing'
  BY <1>1, <1>8 DEF Ask, TypeOK
<1>9. ASSUME NEW id \in Ids, Reply(id) \/ Panic(id) \/ DropAborted(id) \/ LoginRefused(id)
                 \/ AbortReplies(id) \/ LeaveReplies(id)
      PROVE FreshOwesNothing'
  <2>1. Handles(Command(id), id) /\ ~Fresh(id) /\ heard' = heard
    BY <1>9 DEF Handles, Reply, Panic, DropAborted, LoginRefused, AbortReplies, LeaveReplies, Moves
  <2>2. \A x \in Ids : Fresh(x)' => Fresh(x)
    BY <1>9 DEF TypeOK, Reply, Panic, DropAborted, LoginRefused, AbortReplies, LeaveReplies, Moves
  <2>3. Emit(Command(id), id) => id \in owed \cup settled
    <3>1. CASE Reply(id)
      BY <3>1 DEF Reply, Moves, Debts, PlainHasDebt
    <3>2. CASE LoginRefused(id) \/ AbortReplies(id) \/ LeaveReplies(id)
      <4>1. id \in Ids \ Plains /\ task[id] \in Unanswered
        BY <3>2, SessionKinds DEF LoginRefused, AbortReplies, LeaveReplies, Moves, Unanswered
      <4> QED
        BY <4>1 DEF Debts, SessionOwed
    <3>3. CASE Panic(id) \/ DropAborted(id)
      BY <3>3, ActorTypes, KindsAssumption DEF Panic, DropAborted, Emit, StandIn, AnswerIfOwed, Idle, TypeOK
    <3> QED
      BY <1>9, <3>1, <3>2, <3>3
  <2> HIDE DEF Fresh
  <2> QED
    BY <1>2, <2>1, <2>2, <2>3, ActorTypes
<1>10. ASSUME NEW id \in Ids, Cancelled(id) PROVE FreshOwesNothing'
  <2>1. target \in Logins /\ AnswerOnce(Command(id), target) /\ worker[target] # "none" /\ heard' = heard
    BY <1>10 DEF Cancelled, TypeOK
  <2>2. \A x \in Ids : Fresh(x)' => Fresh(x)
    BY <1>10 DEF Cancelled, TypeOK, Moves
  <2> HIDE DEF Fresh
  <2> QED
    BY <1>3, <2>1, <2>2, ActorTypes
<1>11. ASSUME NEW id \in Ids, NEW p \in Plains, AnswerStraggler(id, p) PROVE FreshOwesNothing'
  <2>1. StandIn(Command(id), p) /\ heard' = heard /\ task' = task
    BY <1>11 DEF AnswerStraggler
  <2>2. CASE p \in owed
    <3>1. ~Fresh(p)
      BY <2>2 DEF FreshOwesNothing
    <3>2. \A x \in Ids : Fresh(x)' => Fresh(x)
      BY <2>1
    <3> HIDE DEF Fresh
    <3> QED
      BY <1>2, <2>1, <2>2, <3>1, <3>2, ActorTypes DEF Handles
  <2>3. CASE p \notin owed
    BY <1>1, <2>1, <2>3 DEF StandIn
  <2> QED
    BY <2>2, <2>3
<1>12. ASSUME NEW id \in Ids, NEW p \in Plains, AbortStraggler(id, p) PROVE FreshOwesNothing'
  BY <1>1, <1>12 DEF AbortStraggler
<1>13. ASSUME NEW id \in Ids, FirstPoll(id) \/ DropUnpolled(id) \/ Finish(id) \/ Ended(id) \/ TakeGate(id)
                 \/ LoginReuses(id) \/ Cancel(id) \/ SpawnLogin(id) \/ DrainGivesUp(id)
       PROVE FreshOwesNothing'
  BY <1>1, <1>13 DEF TypeOK, FirstPoll, DropUnpolled, Finish, Ended, TakeGate, LoginReuses, Cancel, SpawnLogin,
     DrainGivesUp, Moves
<1>14. ASSUME NEW id \in Logins, WorkerSays(id) \/ WorkerReplies(id) \/ WorkerPanics(id) PROVE FreshOwesNothing'
  <2>1. AnswerOnce(Worker(id), id) /\ worker[id] # "none" /\ heard' = heard /\ task' = task
    BY <1>14 DEF WorkerSays, WorkerReplies, WorkerPanics, WorkerMoves
  <2>2. \A x \in Ids : Fresh(x)' => Fresh(x)
    BY <2>1
  <2> HIDE DEF Fresh
  <2> QED
    BY <1>3, <2>1, <2>2, ActorTypes
<1>15. ASSUME NEW id \in Logins, WorkerFails(id) \/ WorkerEnds(id) \/ WorkerCut(id) PROVE FreshOwesNothing'
  BY <1>1, <1>15 DEF WorkerFails, WorkerEnds, WorkerCut
<1> QED
  BY <1>4, <1>5, <1>6, <1>7, <1>8, <1>9, <1>10, <1>11, <1>12, <1>13, <1>14, <1>15
  DEF Next, CommandStep, GateStep, Drops, WorkerStep
(* A settled id moves on: its command past its answer, or its sign-in past     *)
(* said; a stand-in keeps the debt on record, and only for a plain command.    *)
LEMMA DebtsStep == TypeOK /\ Core /\ Debts /\ Control /\ [Next]_vars => Debts'
<1> SUFFICES ASSUME TypeOK, Core, Debts, Control, [Next]_vars PROVE Debts'
  OBVIOUS
<1> USE SessionKinds DEF Debts, OnlyPlainsSettled, PlainHasDebt, SessionOwed, WorkerOwed
<1>1. CASE UNCHANGED vars
  BY <1>1 DEF vars
<1>2. CASE Dispatch
  <2>1. Head(inbox) \in Ids /\ task' = [task EXCEPT ![Head(inbox)] = "spawned"]
    BY <1>2 DEF TypeOK, Dispatch
  <2>2. owed' = owed \cup {Head(inbox)} /\ settled' = settled \ {Head(inbox)}
        /\ UNCHANGED <<worker, said>>
    BY <1>2 DEF Dispatch
  <2> QED
    BY <2>1, <2>2 DEF TypeOK, Unanswered
<1>3. CASE Register
  BY <1>3 DEF Register
<1>4. ASSUME NEW a \in Actors, Deliver(a) PROVE Debts'
  BY <1>4 DEF Deliver
<1>5. ASSUME NEW id \in Ids, Ask(id) PROVE Debts'
  BY <1>5 DEF Ask, TypeOK, Unanswered
<1>6. ASSUME NEW id \in Plains, Reply(id) \/ Panic(id) \/ DropAborted(id) PROVE Debts'
  <2>1. Handles(Command(id), id) /\ UNCHANGED <<heard, worker, said>>
    BY <1>6 DEF Handles, Reply, Panic, DropAborted
  <2>2. \E to \in {"over", "cutoff"} : task' = [task EXCEPT ![id] = to]
    BY <1>6 DEF Reply, Panic, DropAborted, Moves
  <2>3. owed' = owed \ {id} /\ settled' \ {id} = settled \ {id}
    BY <2>1 DEF Handles, Emit, StandIn, AnswerIfOwed, Core, OwedUnheard
  <2> QED
    BY <2>1, <2>2, <2>3 DEF TypeOK, Unanswered
<1>7. ASSUME NEW id \in Ids, LoginRefused(id) \/ AbortReplies(id) \/ LeaveReplies(id) PROVE Debts'
  <2>1. Emit(Command(id), id) /\ UNCHANGED <<worker, said>>
    BY <1>7 DEF LoginRefused, AbortReplies, LeaveReplies
  <2>2. /\ id \in Ids \ Plains /\ task' = [task EXCEPT ![id] = "over"]
        /\ task[id] \in Unanswered
    BY <1>7 DEF LoginRefused, AbortReplies, LeaveReplies, Moves, Unanswered
  <2>3. owed' = owed \ {id} /\ settled' \subseteq settled /\ settled' \ {id} = settled \ {id}
    BY <2>1, <2>2 DEF Emit
  <2>4. id \in Logins => worker[id] = "none"
    BY <2>2 DEF Control, WorkerAfterCommand
  <2> QED
    BY <2>1, <2>2, <2>3, <2>4 DEF TypeOK, Unanswered
<1>8. ASSUME NEW a \in Actors, NEW l \in Logins, AnswerOnce(a, l), worker[l] # "none",
             worker'[l] # "none", \A x \in Logins : x # l => worker'[x] = worker[x],
             \A x \in Ids : task'[x] \in Unanswered => task[x] \in Unanswered,
             \A x \in Plains : task'[x] \in {"spawned", "running"} => task[x] \in {"spawned", "running"}
      PROVE Debts'
  <2>1. task[l] \notin Unanswered /\ l \notin Plains
    BY <1>8 DEF Control, WorkerAfterCommand
  <2>2. CASE said[l]
    BY <1>8, <2>2 DEF AnswerOnce
  <2>3. CASE ~said[l]
    <3>1. /\ owed' = owed \ {l} /\ settled' = settled
          /\ said' = [said EXCEPT ![l] = TRUE]
      BY <1>8, <2>1, <2>3 DEF AnswerOnce, Emit
    <3> QED
      BY <1>8, <2>1, <3>1 DEF TypeOK
  <2> QED
    BY <2>2, <2>3
<1>9. ASSUME NEW id \in Ids, Cancelled(id) PROVE Debts'
  <2>1. /\ target \in Logins /\ AnswerOnce(Command(id), target) /\ worker[target] # "none"
        /\ worker' = worker
    BY <1>9 DEF Cancelled, TypeOK
  <2>2. task' = [task EXCEPT ![id] = "cancelled"] /\ task[id] = "cancelling"
    BY <1>9 DEF Cancelled, Moves
  <2>3. \A x \in Ids : task'[x] \in Unanswered => task[x] \in Unanswered
    BY <2>2 DEF TypeOK, Unanswered
  <2>4. \A x \in Plains : task'[x] \in {"spawned", "running"} => task[x] \in {"spawned", "running"}
    BY <2>2 DEF TypeOK
  <2> QED
    BY <1>8, <2>1, <2>3, <2>4, ActorTypes
<1>10. ASSUME NEW id \in Ids, NEW p \in Plains, AnswerStraggler(id, p) PROVE Debts'
  <2>1. StandIn(Command(id), p) /\ UNCHANGED <<task, worker, said>>
    BY <1>10 DEF AnswerStraggler
  <2> QED
    BY <2>1 DEF StandIn
<1>11. ASSUME NEW id \in Ids, NEW p \in Plains, AbortStraggler(id, p) PROVE Debts'
  BY <1>11 DEF AbortStraggler
<1>12. ASSUME NEW id \in Ids, LoginReuses(id) \/ SpawnLogin(id) PROVE Debts'
  <2>1. /\ id \in Logins /\ worker' = [worker EXCEPT ![id] = "running"]
        /\ task[id] \in Unanswered /\ task' = [task EXCEPT ![id] = "over"]
        /\ UNCHANGED <<owed, settled, said>>
    BY <1>12 DEF LoginReuses, SpawnLogin, Moves, Unanswered
  <2>2. id \in owed
    BY <2>1
  <2> QED
    BY <2>1, <2>2 DEF TypeOK, Unanswered
<1>13. ASSUME NEW id \in Ids, FirstPoll(id) \/ DropUnpolled(id) \/ Finish(id) \/ Ended(id) \/ TakeGate(id)
                 \/ Cancel(id) \/ DrainGivesUp(id)
       PROVE Debts'
  <2>1. UNCHANGED <<owed, settled, worker, said>>
    BY <1>13 DEF FirstPoll, DropUnpolled, Finish, Ended, TakeGate, Cancel, DrainGivesUp
  <2>2. \A x \in Ids : task'[x] \in Unanswered => task[x] \in Unanswered
    BY <1>13 DEF TypeOK, FirstPoll, DropUnpolled, Finish, Ended, TakeGate, Cancel, DrainGivesUp, Moves, Unanswered
  <2>3. \A x \in Plains : task'[x] \in {"spawned", "running"} => task[x] \in {"spawned", "running"}
    BY <1>13 DEF TypeOK, FirstPoll, DropUnpolled, Finish, Ended, TakeGate, Cancel, DrainGivesUp, Moves
  <2> QED
    BY <2>1, <2>2, <2>3
<1>14. ASSUME NEW id \in Logins, WorkerSays(id) \/ WorkerReplies(id) \/ WorkerPanics(id) PROVE Debts'
  <2>1. AnswerOnce(Worker(id), id) /\ worker[id] # "none" /\ task' = task
    BY <1>14 DEF WorkerSays, WorkerReplies, WorkerPanics, WorkerMoves
  <2>2. worker'[id] # "none" /\ \A x \in Logins : x # id => worker'[x] = worker[x]
    BY <1>14 DEF TypeOK, WorkerSays, WorkerReplies, WorkerPanics, WorkerMoves
  <2> QED
    BY <1>8, <2>1, <2>2, ActorTypes
<1>15. ASSUME NEW id \in Logins, WorkerFails(id) \/ WorkerEnds(id) \/ WorkerCut(id) PROVE Debts'
  <2>1. UNCHANGED <<owed, settled, said, task>> /\ worker[id] # "none"
    BY <1>15 DEF WorkerFails, WorkerEnds, WorkerCut, WorkerMoves
  <2>2. \A x \in Logins : worker'[x] # "none" => worker[x] # "none"
    BY <1>15, <2>1 DEF TypeOK, WorkerFails, WorkerEnds, WorkerCut, WorkerMoves
  <2> QED
    BY <2>1, <2>2
<1>16. ASSUME NEW id \in Ids, DropAborted(id) PROVE id \in Plains
  BY <1>16 DEF DropAborted, TypeOK
<1>17. ASSUME NEW id \in Ids, Reply(id) \/ Panic(id) PROVE id \in Plains
  BY <1>17 DEF Reply, Panic
<1> QED
  BY <1>1, <1>2, <1>3, <1>4, <1>5, <1>6, <1>7, <1>9, <1>10, <1>11, <1>12, <1>13, <1>14, <1>15, <1>16, <1>17
  DEF Next, CommandStep, GateStep, Drops, WorkerStep
-----------------------------------------------------------------------------
(* Who is left to pay. *)

LEMMA OwnersStep == TypeOK /\ Core /\ Debts /\ Control /\ Owners /\ [Next]_vars => Owners'
<1> SUFFICES ASSUME TypeOK, Core, Debts, Control, Owners, [Next]_vars PROVE Owners'
  OBVIOUS
<1> USE SessionKinds DEF Owners, AbortedInTodo, CutAwaited, SaidOrAwaited, DebtHasOwner
<1>1. CASE UNCHANGED vars
  BY <1>1 DEF vars
<1>2. CASE Dispatch
  <2>1. /\ Head(inbox) \in Ids /\ task[Head(inbox)] = "queued"
        /\ task' = [task EXCEPT ![Head(inbox)] = "spawned"]
    BY <1>2 DEF TypeOK, Dispatch, Control, InboxQueued
  <2>2. owed' = owed \cup {Head(inbox)} /\ UNCHANGED <<aborted, gateVars, loginVars>>
    BY <1>2 DEF Dispatch
  <2>3. Head(inbox) \notin aborted
    BY <2>1 DEF Control, AbortedStarted
  <2> QED
    BY <2>1, <2>2, <2>3 DEF TypeOK, Unanswered
<1>3. CASE Register
  BY <1>3 DEF Register
<1>4. ASSUME NEW a \in Actors, Deliver(a) PROVE Owners'
  BY <1>4 DEF Deliver
<1>5. ASSUME NEW id \in Ids, Ask(id) PROVE Owners'
  BY <1>5 DEF Ask, TypeOK, Unanswered
<1>6. ASSUME NEW id \in Plains, Reply(id) \/ Panic(id) \/ DropAborted(id) PROVE Owners'
  <2>1. Handles(Command(id), id) /\ UNCHANGED <<aborted, gateVars, loginVars>>
    BY <1>6 DEF Handles, Reply, Panic, DropAborted
  <2>2. \A x \in Ids : x # id => task'[x] = task[x]
    BY <1>6 DEF TypeOK, Reply, Panic, DropAborted, Moves
  <2>3. owed' = owed \ {id}
    BY <2>1 DEF Handles, Emit, StandIn, AnswerIfOwed, Core, OwedUnheard
  <2> QED
    BY <2>1, <2>2, <2>3 DEF TypeOK
<1>7. ASSUME NEW id \in Ids, LoginRefused(id) \/ AbortReplies(id) \/ LeaveReplies(id) PROVE Owners'
  <2>1. Emit(Command(id), id) /\ UNCHANGED <<aborted, target, todo, loginVars>>
    BY <1>7 DEF LoginRefused, AbortReplies, LeaveReplies
  <2>2. /\ id \in Ids \ Plains
        /\ \A x \in Ids : x # id => task'[x] = task[x]
    BY <1>7 DEF TypeOK, LoginRefused, AbortReplies, LeaveReplies, Moves
  <2>3. owed' = owed \ {id}
    BY <2>1, <2>2 DEF Emit, Debts, OnlyPlainsSettled
  <2> QED
    BY <2>1, <2>2, <2>3 DEF TypeOK
<1>8. ASSUME NEW a \in Actors, NEW l \in Logins, AnswerOnce(a, l), UNCHANGED <<aborted, cut, todo>>,
             \/ target' = target
             \/ target = l /\ worker[l] = "ended",
             worker'[l] \in {worker[l], "waiting", "over"},
             \A x \in Logins : x # l => worker'[x] = worker[x],
             worker[l] # "none", l \in cut /\ worker'[l] # "ended" => target' = l,
             \A x \in Ids : task[x] \in Unanswered => task'[x] \in Unanswered
      PROVE Owners'
  <2>0. l \notin settled
    BY DEF Debts, OnlyPlainsSettled
  <2>1. owed' = owed \ {l} \/ (owed' = owed /\ said[l])
    BY <1>8, <2>0 DEF AnswerOnce, Emit
  <2>2. said' = [said EXCEPT ![l] = TRUE]
    BY <1>8 DEF AnswerOnce, TypeOK
  <2>3. \A x \in owed' : x \in owed /\ (x \in Logins /\ ~said[x] => x # l)
    BY <2>1 DEF TypeOK
  <2>4. AbortedInTodo' /\ CutAwaited'
    BY <1>8, <2>3 DEF TypeOK
  <2>5. SaidOrAwaited'
    BY <1>8, <2>2 DEF TypeOK
  <2>6. DebtHasOwner'
    BY <1>8, <2>2, <2>3 DEF TypeOK
  <2> QED
    BY <2>4, <2>5, <2>6
<1>9. ASSUME NEW id \in Ids, Cancelled(id) PROVE Owners'
  <2>1. /\ target \in Logins /\ AnswerOnce(Command(id), target) /\ worker[target] = "ended"
        /\ UNCHANGED <<worker, aborted, cut, todo>>
    BY <1>9 DEF Cancelled, TypeOK
  <2>2. \A x \in Ids : task[x] \in Unanswered => task'[x] \in Unanswered
    BY <1>9 DEF Cancelled, Moves, TypeOK, Unanswered
  <2> QED
    BY <1>8, <2>1, <2>2, ActorTypes
<1>10. ASSUME NEW id \in Ids, NEW p \in Plains, AnswerStraggler(id, p) PROVE Owners'
  <2>1. owed' = owed \ {p} /\ todo' = todo \ {p} /\ UNCHANGED <<taskVars, target, loginVars>>
    BY <1>10 DEF AnswerStraggler, StandIn
  <2> QED
    BY <2>1 DEF TypeOK
<1>11. ASSUME NEW id \in Ids, NEW p \in Plains, AbortStraggler(id, p) PROVE Owners'
  BY <1>11 DEF AbortStraggler
<1>12. ASSUME NEW id \in Ids, LoginReuses(id) \/ SpawnLogin(id) PROVE Owners'
  <2>1. /\ id \in Logins /\ worker' = [worker EXCEPT ![id] = "running"]
        /\ task[id] \in Unanswered /\ task' = [task EXCEPT ![id] = "over"]
        /\ UNCHANGED <<owed, said, cut, aborted, target, todo>>
    BY <1>12 DEF LoginReuses, SpawnLogin, Moves, Unanswered
  <2>2. worker[id] = "none" /\ ~said[id] /\ id \notin cut
    BY <2>1 DEF Control, WorkerAfterCommand
  <2> QED
    BY <2>1, <2>2 DEF TypeOK
<1>13. ASSUME NEW id \in Ids, Cancel(id) PROVE Owners'
  <2>1. /\ UNCHANGED <<owed, aborted, todo, worker, said>>
        /\ cut' = cut \cup ({login} \ {None}) /\ target' = login
    BY <1>13 DEF Cancel
  <2>2. \A x \in Ids : task[x] \in Unanswered => task'[x] \in Unanswered
    BY <1>13 DEF Cancel, Moves, TypeOK, Unanswered
  <2>3. target = None
    BY <1>13 DEF Cancel, Moves, Control, HoldersGate
  <2>4. CutAwaited'
    BY <2>1, <2>3, KindsAssumption DEF TypeOK
  <2>5. SaidOrAwaited'
    BY <2>1, <2>3, KindsAssumption DEF TypeOK
  <2> QED
    BY <2>1, <2>2, <2>4, <2>5 DEF TypeOK
<1>14. ASSUME NEW id \in Ids, DrainGivesUp(id) PROVE Owners'
  <2>1. task[id] = "cancelled" /\ UNCHANGED <<owed, aborted, target, loginVars>>
    BY <1>14 DEF DrainGivesUp, Moves
  <2>2. todo = {}
    BY <2>1 DEF Control, HoldersGate
  <2>3. \A x \in Ids : task[x] \in Unanswered => task'[x] \in Unanswered
    BY <1>14 DEF DrainGivesUp, Moves, TypeOK, Unanswered
  <2> QED
    BY <2>1, <2>2, <2>3 DEF TypeOK
<1>15. ASSUME NEW id \in Ids, FirstPoll(id) \/ TakeGate(id) PROVE Owners'
  <2>1. UNCHANGED <<owed, aborted, target, todo, loginVars>>
    BY <1>15 DEF FirstPoll, TakeGate
  <2>2. \A x \in Ids : task[x] \in Unanswered => task'[x] \in Unanswered
    BY <1>15 DEF FirstPoll, TakeGate, Moves, TypeOK, Unanswered
  <2> QED
    BY <2>1, <2>2 DEF TypeOK
<1>16. ASSUME NEW id \in Ids, DropUnpolled(id) PROVE Owners'
  BY <1>16 DEF TypeOK, DropUnpolled, Moves, Unanswered
<1>17. ASSUME NEW id \in Ids, Finish(id) \/ Ended(id) PROVE Owners'
  BY <1>17 DEF TypeOK, Finish, Ended, Moves, Unanswered
<1>18. ASSUME NEW id \in Logins, WorkerSays(id) \/ WorkerReplies(id) \/ WorkerPanics(id) PROVE Owners'
  <2>1. AnswerOnce(Worker(id), id) /\ worker[id] \in {"running", "due", "waiting"}
        /\ UNCHANGED <<taskVars, gateVars, cut>>
    BY <1>18 DEF WorkerSays, WorkerReplies, WorkerPanics, WorkerMoves
  <2>2. /\ worker'[id] \in {"waiting", "over"}
        /\ \A x \in Logins : x # id => worker'[x] = worker[x]
    BY <1>18 DEF TypeOK, WorkerSays, WorkerReplies, WorkerPanics, WorkerMoves
  <2>3. id \in cut => target = id
    BY <2>1
  <2> QED
    BY <1>8, <2>1, <2>2, <2>3, ActorTypes
<1>19. ASSUME NEW id \in Logins, WorkerFails(id) PROVE Owners'
  BY <1>19 DEF TypeOK, WorkerFails, WorkerMoves
<1>20. ASSUME NEW id \in Logins, WorkerEnds(id) PROVE Owners'
  BY <1>20 DEF TypeOK, WorkerEnds
<1>21. ASSUME NEW id \in Logins, WorkerCut(id) PROVE Owners'
  BY <1>21 DEF TypeOK, WorkerCut
<1>22. ASSUME NEW id \in Ids, DropAborted(id) PROVE id \in Plains
  BY <1>22 DEF DropAborted, TypeOK
<1>23. ASSUME NEW id \in Ids, Reply(id) \/ Panic(id) PROVE id \in Plains
  BY <1>23 DEF Reply, Panic
<1> QED
  BY <1>1, <1>2, <1>3, <1>4, <1>5, <1>6, <1>7, <1>9, <1>10, <1>11, <1>12, <1>13, <1>14, <1>15, <1>16, <1>17,
     <1>18, <1>19, <1>20, <1>21, <1>22, <1>23
  DEF Next, CommandStep, GateStep, Drops, WorkerStep
-----------------------------------------------------------------------------
LEMMA InitHolds == Init => IInv
<1> SUFFICES ASSUME Init PROVE IInv
  OBVIOUS
<1> USE KindsAssumption DEF Init
<1>1. TypeOK
  <2>1. inbox \in Seq(Ids) /\ task \in [Ids -> TaskStates] /\ heard \in [Ids -> Nat]
    BY DEF TaskStates
  <2>2. worker \in [Logins -> WorkerStates] /\ said \in [Logins -> BOOLEAN]
    BY DEF WorkerStates
  <2>3. sending \in [Actors -> Ids \cup {None}]
    OBVIOUS
  <2> QED
    BY <2>1, <2>2, <2>3 DEF TypeOK
<1>2. Core /\ FreshOwesNothing
  BY DEF Core, OwedUnheard, OneHand, AtMostOnce, FreshOwesNothing, Unheard
<1>3. Debts
  BY DEF Debts, OnlyPlainsSettled, PlainHasDebt, SessionOwed, WorkerOwed, Unanswered
<1>4. Control
  BY DEF Control, InboxQueued, WorkerAfterCommand, HoldersGate, AbortedStarted
<1>5. Owners
  BY DEF Owners, AbortedInTodo, CutAwaited, SaidOrAwaited, DebtHasOwner
<1> QED
  BY <1>1, <1>2, <1>3, <1>4, <1>5 DEF IInv

LEMMA Inductive == IInv /\ [Next]_vars => IInv'
<1> SUFFICES ASSUME IInv, [Next]_vars PROVE IInv'
  OBVIOUS
<1>1. TypeOK'
  BY TypeStep DEF IInv
<1>2. Core' /\ FreshOwesNothing'
  BY CoreStep, FreshStep DEF IInv
<1>3. Debts' /\ Owners'
  BY DebtsStep, OwnersStep DEF IInv
<1>4. Control'
  BY InboxStep, WorkersFollow, GateHolders, OnlyStartedAborted DEF IInv, Control
<1> QED
  BY <1>1, <1>2, <1>3, <1>4 DEF IInv

LEMMA AlwaysHolds == Spec => []IInv
BY InitHolds, Inductive, PTL DEF Spec

(* No id is answered twice, whoever races for it: the protocol's promise of  *)
(* one answer, for every set of commands.                                    *)
THEOREM AnsweredOnce == Spec => []AtMostOnce
<1>1. IInv => AtMostOnce
  BY DEF IInv, Core
<1> QED
  BY <1>1, AlwaysHolds, PTL

(* No debt is left without somebody to pay it: a command aborted before its   *)
(* first poll, a sign-in cancelled, a straggler cut off by a sign-out.        *)
THEOREM DebtsArePaid == Spec => []NobodyForgotten
<1>1. IInv => NobodyForgotten
  <2> SUFFICES ASSUME IInv, NEW id \in owed PROVE Payer(id)
    BY DEF NobodyForgotten
  <2>1. CASE task[id] \in Unanswered \/ id \in todo
    BY <2>1 DEF Payer, Unanswered
  <2>2. CASE id \in Logins /\ worker[id] # "none" /\ ~said[id]
    BY <2>2 DEF IInv, TypeOK, WorkerStates, Owners, SaidOrAwaited, Payer
  <2> QED
    BY <2>1, <2>2 DEF IInv, Owners, DebtHasOwner
<1> QED
  BY <1>1, AlwaysHolds, PTL

(* Every step of the core is a step of the promise, or none: a command is     *)
(* asked, or one that was asked and not answered is answered.                 *)
THEOREM StepsKeepPromise == Spec => Promise!Init /\ [][Promise!Next]_Promise!vars
<1>1. Init => Promise!Init
  BY DEF Init, Promise!Init
<1>2. IInv /\ [Next]_vars => [Promise!Next]_Promise!vars
  <2> SUFFICES ASSUME IInv, [Next]_vars PROVE [Promise!Next]_Promise!vars
    OBVIOUS
  <2>1. ASSUME NEW a \in Actors, Deliver(a) PROVE [Promise!Next]_Promise!vars
    <3> DEFINE id == sending[a]
    <3>1. id \in Ids /\ heard[id] = 0
      BY <2>1 DEF IInv, TypeOK, Core, OneHand, Deliver, Idle
    <3>2. task[id] # "unsent"
      BY <3>1 DEF IInv, FreshOwesNothing, Unheard
    <3>3. heard' = [heard EXCEPT ![id] = 1] /\ task' = task
      BY <2>1, <3>1 DEF Deliver
    <3>4. Promise!Answer(id)
      BY <3>1, <3>2, <3>3 DEF Promise!Answer
    <3> HIDE DEF id
    <3> QED
      BY <3>1, <3>4 DEF Promise!Next
  <2>2. ASSUME NEW id \in Ids, Ask(id) PROVE [Promise!Next]_Promise!vars
    <3>1. Promise!Ask(id)
      BY <2>2 DEF Ask, Promise!Ask, IInv, TypeOK
    <3> QED
      BY <3>1 DEF Promise!Next
  <2>3. ASSUME heard' = heard, \A x \in Ids : task'[x] = "unsent" <=> task[x] = "unsent"
        PROVE [Promise!Next]_Promise!vars
    BY <2>3 DEF Promise!vars
  <2>4. CASE UNCHANGED vars
    BY <2>3, <2>4 DEF vars
  <2>5. CASE Dispatch
    <3>1. /\ Head(inbox) \in Ids /\ task[Head(inbox)] = "queued" /\ heard' = heard
          /\ task' = [task EXCEPT ![Head(inbox)] = "spawned"]
      BY <2>5 DEF Dispatch, IInv, TypeOK, Control, InboxQueued
    <3> QED
      BY <2>3, <3>1 DEF IInv, TypeOK
  <2>6. CASE Register
    BY <2>3, <2>6 DEF Register
  <2>7. ASSUME NEW id \in Ids, NEW p \in Plains, AbortStraggler(id, p) \/ AnswerStraggler(id, p)
        PROVE [Promise!Next]_Promise!vars
    BY <2>3, <2>7 DEF AbortStraggler, AnswerStraggler
  <2>8. ASSUME NEW id \in Ids, Reply(id) \/ Panic(id) \/ DropAborted(id) \/ LoginRefused(id)
                   \/ AbortReplies(id) \/ LeaveReplies(id) \/ Cancelled(id)
        PROVE [Promise!Next]_Promise!vars
    BY <2>3, <2>8 DEF Reply, Panic, DropAborted, LoginRefused, AbortReplies, LeaveReplies, Cancelled, Moves,
       IInv, TypeOK
  <2>9. ASSUME NEW id \in Ids, FirstPoll(id) \/ DropUnpolled(id) \/ Finish(id) \/ Ended(id) \/ TakeGate(id)
                   \/ LoginReuses(id) \/ Cancel(id) \/ SpawnLogin(id) \/ DrainGivesUp(id)
        PROVE [Promise!Next]_Promise!vars
    BY <2>3, <2>9 DEF FirstPoll, DropUnpolled, Finish, Ended, TakeGate, LoginReuses, Cancel, SpawnLogin,
       DrainGivesUp, Moves, IInv, TypeOK
  <2>10. ASSUME NEW id \in Logins, WorkerStep(id) \/ WorkerPanics(id) \/ WorkerEnds(id)
         PROVE [Promise!Next]_Promise!vars
    BY <2>3, <2>10 DEF WorkerStep, WorkerSays, WorkerFails, WorkerReplies, WorkerCut, WorkerPanics, WorkerEnds
  <2> QED
    BY <2>1, <2>2, <2>4, <2>5, <2>6, <2>7, <2>8, <2>9, <2>10 DEF Next, CommandStep, GateStep, Drops
<1> QED
  BY <1>1, <1>2, AlwaysHolds, PTL DEF Spec

(* An answer on its way or heard stays so, and what a step settles is on its way. *)
Answered(id) == heard[id] = 1 \/ \E a \in Actors : sending[a] = id
SettledAnswered == \A id \in settled : Answered(id)
StaysAnswered ==
    /\ \A x \in Ids : Answered(x) => Answered(x)'
    /\ \A x \in settled' : x \in settled \/ Answered(x)'

LEMMA HandlingAnswers ==
    ASSUME TypeOK, NEW a \in Actors, NEW id \in Ids, Handles(a, id), heard' = heard
    PROVE StaysAnswered
<1> USE KindsAssumption
<1>1. CASE sending' = sending /\ settled' \subseteq settled
  BY <1>1 DEF StaysAnswered, Answered
<1>2. CASE /\ sending' = [sending EXCEPT ![a] = id] /\ settled' \subseteq settled \cup {id}
           /\ sending[a] = None
  <2>1. \A b \in Actors : sending'[b] = IF b = a THEN id ELSE sending[b]
    BY <1>2 DEF TypeOK
  <2>2. \A x \in Ids : x # None
    OBVIOUS
  <2>3. \A x \in Ids : Answered(x) => Answered(x)'
    BY <1>2, <2>1, <2>2 DEF Answered
  <2>4. Answered(id)'
    BY <2>1 DEF Answered
  <2> QED
    BY <1>2, <2>3, <2>4 DEF StaysAnswered
<1> QED
  BY <1>1, <1>2 DEF Handles, Emit, StandIn, AnswerIfOwed, Idle

LEMMA AnswersStay == IInv /\ [Next]_vars => StaysAnswered
<1> SUFFICES ASSUME IInv, [Next]_vars PROVE StaysAnswered
  OBVIOUS
<1>0. TypeOK
  BY DEF IInv
<1>1. ASSUME settled' \subseteq settled, UNCHANGED <<sending, heard>> PROVE StaysAnswered
  BY <1>1 DEF StaysAnswered, Answered
<1>2. CASE UNCHANGED vars
  BY <1>1, <1>2 DEF vars
<1>3. CASE Dispatch \/ Register
  BY <1>1, <1>3 DEF Dispatch, Register
<1>4. ASSUME NEW a \in Actors, Deliver(a) PROVE StaysAnswered
  <2>1. /\ sending[a] \in Ids /\ heard[sending[a]] = 0
    BY <1>4 DEF IInv, TypeOK, Core, OneHand, Deliver, Idle
  <2>2. /\ heard' = [heard EXCEPT ![sending[a]] = 1]
        /\ sending' = [sending EXCEPT ![a] = None] /\ settled' = settled
    BY <1>4, <2>1 DEF Deliver
  <2>3. \A x \in Ids : heard'[x] = IF x = sending[a] THEN 1 ELSE heard[x]
    BY <2>1, <2>2, <1>0 DEF TypeOK
  <2>4. \A b \in Actors : b # a => sending'[b] = sending[b]
    BY <2>2, <1>0 DEF TypeOK
  <2>5. \A x \in Ids : Answered(x) => Answered(x)'
    BY <2>3, <2>4 DEF Answered
  <2> QED
    BY <2>2, <2>5 DEF StaysAnswered
<1>5. ASSUME NEW a \in Actors, NEW x \in Ids, Handles(a, x) \/ UNCHANGED debtVars, heard' = heard
      PROVE StaysAnswered
  BY <1>0, <1>1, <1>5, HandlingAnswers
<1>6. ASSUME NEW a \in Actors, NEW l \in Logins, AnswerOnce(a, l), heard' = heard
      PROVE StaysAnswered
  BY <1>5, <1>6 DEF AnswerOnce, Handles
<1>7. ASSUME NEW id \in Ids,
             Reply(id) \/ LoginRefused(id) \/ AbortReplies(id) \/ LeaveReplies(id) \/ Panic(id)
                \/ DropAborted(id)
      PROVE StaysAnswered
  BY <1>5, <1>7, ActorTypes DEF Reply, LoginRefused, AbortReplies, LeaveReplies, Panic, DropAborted, Handles
<1>8. ASSUME NEW id \in Ids, Cancelled(id) PROVE StaysAnswered
  <2>1. target \in Logins /\ AnswerOnce(Command(id), target) /\ heard' = heard
    BY <1>0, <1>8 DEF Cancelled, TypeOK
  <2> QED
    BY <1>6, <2>1, ActorTypes
<1>9. ASSUME NEW id \in Ids, NEW p \in Plains, AnswerStraggler(id, p) PROVE StaysAnswered
  BY <1>5, <1>9, ActorTypes DEF AnswerStraggler, Handles
<1>10. ASSUME NEW id \in Ids, NEW p \in Plains, AbortStraggler(id, p) PROVE StaysAnswered
  BY <1>1, <1>10 DEF AbortStraggler
<1>11. ASSUME NEW id \in Ids, Ask(id) \/ FirstPoll(id) \/ DropUnpolled(id) \/ Finish(id) \/ Ended(id)
                  \/ TakeGate(id) \/ LoginReuses(id) \/ Cancel(id) \/ SpawnLogin(id) \/ DrainGivesUp(id)
       PROVE StaysAnswered
  BY <1>1, <1>11 DEF Ask, FirstPoll, DropUnpolled, Finish, Ended, TakeGate, LoginReuses, Cancel,
     SpawnLogin, DrainGivesUp
<1>12. ASSUME NEW id \in Logins, WorkerSays(id) \/ WorkerReplies(id) \/ WorkerPanics(id)
       PROVE StaysAnswered
  BY <1>6, <1>12, ActorTypes DEF WorkerSays, WorkerReplies, WorkerPanics
<1>13. ASSUME NEW id \in Logins, WorkerFails(id) \/ WorkerEnds(id) \/ WorkerCut(id)
       PROVE StaysAnswered
  BY <1>1, <1>13 DEF WorkerFails, WorkerEnds, WorkerCut
<1> QED
  BY <1>2, <1>3, <1>4, <1>7, <1>8, <1>9, <1>10, <1>11, <1>12, <1>13
  DEF Next, CommandStep, GateStep, Drops, WorkerStep

(* What a teardown answered "signed out" stays answered so, for every set of      *)
(* commands: settled without an answer on its way, an id would drop its late reply  *)
(* and nothing would ever be heard of it (reply_if_pending, emit).               *)
THEOREM SettledStaysAnswered == Spec => []SettledWasAnswered
<1>1. Init => SettledAnswered
  BY DEF Init, SettledAnswered
<1>2. IInv /\ SettledAnswered /\ [Next]_vars => SettledAnswered'
  <2> SUFFICES ASSUME IInv, SettledAnswered, [Next]_vars, NEW x \in settled' PROVE Answered(x)'
    BY DEF SettledAnswered
  <2>1. StaysAnswered
    BY AnswersStay
  <2>2. CASE x \in settled
    BY <2>1, <2>2 DEF SettledAnswered, StaysAnswered, IInv, TypeOK
  <2>3. CASE x \notin settled
    BY <2>1, <2>3 DEF StaysAnswered
  <2> QED
    BY <2>2, <2>3
<1>3. IInv /\ SettledAnswered => SettledWasAnswered
  BY DEF IInv, Core, OwedUnheard, SettledAnswered, Answered, SettledWasAnswered
<1> QED
  BY <1>1, <1>2, <1>3, AlwaysHolds, PTL DEF Spec

(* Every variable keeps its type, for every set of commands: the channel holds     *)
(* commands, the sink's two sets ids, a hand one message at most.                 *)
THEOREM TypeCorrect == Spec => []TypeOK
<1>1. IInv => TypeOK
  BY DEF IInv
<1> QED
  BY <1>1, AlwaysHolds, PTL
=============================================================================
