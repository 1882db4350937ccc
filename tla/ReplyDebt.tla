---------------------------- MODULE ReplyDebt ----------------------------
(* The answers the core owes: the sink's two sets of debts, the dispatcher  *)
(* that spawns a task per command, the guard a task carries, the sign-in's  *)
(* worker that answers for its command, and the teardown that cancels a     *)
(* sign-in and aborts the commands still running (core/src/runtime.rs,      *)
(* core/src/runtime/lifecycle.rs).                                          *)
(*                                                                          *)
(* An emission takes two steps: the debt is settled under the lock, the     *)
(* message is handed over after it. Nothing awaits between the two, so an   *)
(* abort, which lands at an await, never falls there; other threads do.     *)
(* Deadlines are not counted: a drain may give up at any time.              *)
EXTENDS Naturals, Sequences

CONSTANTS Plains,       \* commands a teardown may abort; each answers itself
          Logins,       \* login.start, login.deviceCode, login.password
          Aborts,       \* login.abort
          Leaves,       \* logout: cancels the sign-in, drains the commands
          None

Ids == Plains \cup Logins \cup Aborts \cup Leaves

ASSUME KindsAssumption ==
    /\ None \notin Ids
    /\ Plains \cap (Logins \cup Aborts \cup Leaves) = {}
    /\ Logins \cap (Aborts \cup Leaves) = {}
    /\ Aborts \cap Leaves = {}

TaskStates == {"unsent", "queued", "spawned", "running", "gated", "cancelling",
               "cancelled", "aborting", "over", "cutoff", "ending", "gone"}
WorkerStates == {"none", "running", "due", "waiting", "over", "ended"}

VARIABLES inbox,        \* the channel into the dispatcher
          task,         \* where each command's task is
          entering,     \* spawned, not yet in the registry
          registry,     \* State::commands
          aborted,      \* commands whose abort handle was used
          gate,         \* the command holding the session gate
          target,       \* the sign-in its holder waits out
          todo,         \* stragglers the drain still has to abort or answer
          login,        \* State::login_task
          prelogin,     \* the slot is in Phase::Prelogin
          worker,       \* the network part of each sign-in
          said,         \* LoginTask::answered
          cut,          \* workers that were aborted
          owed,         \* Debts::unanswered
          settled,      \* Debts::settled
          sending,      \* the id a thread is handing over outside the lock
          heard         \* how often the front end heard an answer to each id

taskVars == <<inbox, task, entering, registry, aborted>>
gateVars == <<gate, target, todo>>
loginVars == <<login, prelogin, worker, said, cut>>
debtVars == <<owed, settled, sending>>
vars == <<taskVars, gateVars, loginVars, debtVars, heard>>

(* A command's own thread and, for a sign-in, its worker's: each hands over one *)
(* message at a time.                                                          *)
Actors == {"command", "worker"} \X Ids
Command(id) == <<"command", id>>
Worker(id) == <<"worker", id>>
Idle(a) == sending[a] = None

TypeOK ==
    /\ inbox \in Seq(Ids)
    /\ task \in [Ids -> TaskStates]
    /\ entering \in Plains \cup {None}
    /\ registry \subseteq Plains
    /\ aborted \subseteq Plains
    /\ gate \in Ids \cup {None}
    /\ target \in Logins \cup {None}
    /\ todo \subseteq Plains
    /\ login \in Logins \cup {None}
    /\ prelogin \in BOOLEAN
    /\ worker \in [Logins -> WorkerStates]
    /\ said \in [Logins -> BOOLEAN]
    /\ cut \subseteq Logins
    /\ owed \subseteq Ids
    /\ settled \subseteq Ids
    /\ sending \in [Actors -> Ids \cup {None}]
    /\ heard \in [Ids -> Nat]

Init ==
    /\ inbox = <<>>
    /\ task = [id \in Ids |-> "unsent"]
    /\ entering = None
    /\ registry = {} /\ aborted = {}
    /\ gate = None /\ target = None /\ todo = {}
    /\ login = None /\ prelogin = FALSE
    /\ worker = [id \in Logins |-> "none"]
    /\ said = [id \in Logins |-> FALSE]
    /\ cut = {}
    /\ owed = {} /\ settled = {}
    /\ sending = [a \in Actors |-> None]
    /\ heard = [id \in Ids |-> 0]

-----------------------------------------------------------------------------
(* Sink *)

(* A bug: the reply does not look whether a stand-in was first. *)
EmitAlways(a, id) ==
    /\ Idle(a)
    /\ owed' = owed \ {id}
    /\ sending' = [sending EXCEPT ![a] = id]
    /\ settled' = settled \ {id}

(* A reply: dropped, and the id let go, where a stand-in answered first. *)
Emit(a, id) ==
    /\ Idle(a)
    /\ IF id \in settled
       THEN settled' = settled \ {id} /\ UNCHANGED <<owed, sending>>
       ELSE /\ owed' = owed \ {id}
            /\ sending' = [sending EXCEPT ![a] = id]
            /\ UNCHANGED settled

(* Answers in the command's place if it is still owed. *)
StandIn(a, id) ==
    /\ Idle(a)
    /\ IF id \in owed
       THEN /\ owed' = owed \ {id}
            /\ settled' = settled \cup {id}
            /\ sending' = [sending EXCEPT ![a] = id]
       ELSE UNCHANGED debtVars

(* Answers if nothing has; for a command that cannot reply later. *)
AnswerIfOwed(a, id) ==
    /\ Idle(a)
    /\ IF id \in owed
       THEN owed' = owed \ {id} /\ sending' = [sending EXCEPT ![a] = id]
       ELSE UNCHANGED <<owed, sending>>
    /\ UNCHANGED settled

(* answer_once: a sign-in's answer, whoever gets there first. *)
AnswerOnce(a, id) ==
    IF said[id]
    THEN UNCHANGED <<said, debtVars>>
    ELSE said' = [said EXCEPT ![id] = TRUE] /\ Emit(a, id)

Deliver(a) ==
    /\ ~Idle(a)
    /\ heard' = [heard EXCEPT ![sending[a]] = @ + 1]
    /\ sending' = [sending EXCEPT ![a] = None]
    /\ UNCHANGED <<owed, settled, taskVars, gateVars, loginVars>>

-----------------------------------------------------------------------------
(* The dispatcher *)

Ask(id) ==
    /\ task[id] = "unsent"
    /\ task' = [task EXCEPT ![id] = "queued"]
    /\ inbox' = Append(inbox, id)
    /\ UNCHANGED <<entering, registry, aborted, gateVars, loginVars, debtVars, heard>>

Dispatch ==
    /\ inbox # <<>> /\ entering = None
    /\ LET id == Head(inbox) IN
        /\ owed' = owed \cup {id}
        /\ settled' = settled \ {id}
        /\ task' = [task EXCEPT ![id] = "spawned"]
        /\ entering' = IF id \in Plains THEN id ELSE None
    /\ inbox' = Tail(inbox)
    /\ UNCHANGED <<registry, aborted, sending, gateVars, loginVars, heard>>

Register ==
    /\ entering # None
    /\ registry' = IF task[entering] = "gone" THEN registry ELSE registry \cup {entering}
    /\ entering' = None
    /\ UNCHANGED <<inbox, task, aborted, gateVars, loginVars, debtVars, heard>>

Moves(id, from, to) == task[id] = from /\ task' = [task EXCEPT ![id] = to]

FirstPoll(id) ==
    /\ id \notin aborted
    /\ Moves(id, "spawned", "running")
    /\ UNCHANGED <<inbox, entering, registry, aborted, gateVars, loginVars, debtVars, heard>>

(* Aborted before its first poll a task has no guard: it goes without a word. *)
DropUnpolled(id) ==
    /\ id \in aborted
    /\ Moves(id, "spawned", "gone")
    /\ UNCHANGED <<inbox, entering, registry, aborted, gateVars, loginVars, debtVars, heard>>

(* The future dropped at an await: the guard answers if nobody has. *)
DropAborted(id) ==
    /\ id \in aborted
    /\ task[id] \in {"running", "over"}
    /\ task' = [task EXCEPT ![id] = "cutoff"]
    /\ StandIn(Command(id), id)
    /\ UNCHANGED <<inbox, entering, registry, aborted, gateVars, loginVars, heard>>

(* The guard unregisters; the runtime calls the task finished a little later. *)
Finish(id) ==
    /\ task[id] \in {"over", "cutoff"}
    /\ Idle(Command(id))
    /\ task' = [task EXCEPT ![id] = "ending"]
    /\ registry' = registry \ {id}
    /\ gate' = IF gate = id THEN None ELSE gate
    /\ UNCHANGED <<inbox, entering, aborted, target, todo, loginVars, debtVars, heard>>

Ended(id) ==
    /\ Moves(id, "ending", "gone")
    /\ UNCHANGED <<inbox, entering, registry, aborted, gateVars, loginVars, debtVars, heard>>

-----------------------------------------------------------------------------
(* Commands that answer themselves *)

Reply(id) ==
    /\ id \in Plains
    /\ Moves(id, "running", "over")
    /\ Emit(Command(id), id)
    /\ UNCHANGED <<inbox, entering, registry, aborted, gateVars, loginVars, heard>>

(* A panic, before the answer or after it, is caught at the task's root. *)
Panic(id) ==
    /\ id \in Plains
    /\ task[id] \in {"running", "over"}
    /\ task' = [task EXCEPT ![id] = "over"]
    /\ AnswerIfOwed(Command(id), id)
    /\ UNCHANGED <<inbox, entering, registry, aborted, gateVars, loginVars, heard>>

-----------------------------------------------------------------------------
(* The session's commands, under the gate *)

TakeGate(id) ==
    /\ id \notin Plains
    /\ gate = None
    /\ Moves(id, "running", "gated")
    /\ gate' = id
    /\ UNCHANGED <<inbox, entering, registry, aborted, target, todo, loginVars, debtVars, heard>>

(* The password form's sign-in takes the client the first one vetted; the     *)
(* earlier worker is let go of, not cancelled.                                *)
LoginReuses(id) ==
    /\ id \in Logins /\ prelogin
    /\ Moves(id, "gated", "over")
    /\ prelogin' = FALSE
    /\ login' = id
    /\ worker' = [worker EXCEPT ![id] = "running"]
    /\ UNCHANGED <<inbox, entering, registry, aborted, gateVars, said, cut, debtVars, heard>>

(* A bug: the handle is aborted whether there was one or not. *)
CancelAnyway(id) ==
    /\ Moves(id, "gated", "cancelling")
    /\ target' = login
    /\ cut' = cut \cup {login}
    /\ login' = None
    /\ prelogin' = FALSE
    /\ UNCHANGED <<inbox, entering, registry, aborted, gate, todo, worker, said, debtVars, heard>>

(* cancel_login takes the running sign-in and aborts it ... *)
Cancel(id) ==
    /\ Moves(id, "gated", IF login = None THEN "cancelled" ELSE "cancelling")
    /\ target' = login
    /\ cut' = cut \cup ({login} \ {None})
    /\ login' = None
    /\ prelogin' = FALSE
    /\ UNCHANGED <<inbox, entering, registry, aborted, gate, todo, worker, said, debtVars, heard>>

(* A bug: whoever cancels a sign-in leaves its command without an answer. *)
CancelledUnsaid(id) ==
    /\ target # None /\ worker[target] = "ended"
    /\ Moves(id, "cancelling", "cancelled")
    /\ target' = None
    /\ UNCHANGED <<inbox, entering, registry, aborted, gate, todo, login, prelogin, worker,
                   cut, heard, said, debtVars>>

(* ... waits until it is gone, and answers its command if it had not. *)
Cancelled(id) ==
    /\ target # None /\ worker[target] = "ended"
    /\ Moves(id, "cancelling", "cancelled")
    /\ AnswerOnce(Command(id), target)
    /\ target' = None
    /\ UNCHANGED <<inbox, entering, registry, aborted, gate, todo, login, prelogin, worker,
                   cut, heard>>

(* A sign-in refused at the gate, or whose client could not be built. *)
LoginRefused(id) ==
    /\ id \in Logins
    /\ task[id] \in {"gated", "cancelled"}
    /\ task' = [task EXCEPT ![id] = "over"]
    /\ Emit(Command(id), id)
    /\ UNCHANGED <<inbox, entering, registry, aborted, gateVars, loginVars, heard>>

SpawnLogin(id) ==
    /\ id \in Logins
    /\ Idle(Command(id))
    /\ Moves(id, "cancelled", "over")
    /\ login' = id
    /\ worker' = [worker EXCEPT ![id] = "running"]
    /\ UNCHANGED <<inbox, entering, registry, aborted, gateVars, prelogin, said, cut,
                   debtVars, heard>>

AbortReplies(id) ==
    /\ id \in Aborts
    /\ Moves(id, "cancelled", "over")
    /\ gate' = None
    /\ Emit(Command(id), id)
    /\ UNCHANGED <<inbox, entering, registry, aborted, target, todo, loginVars, heard>>

(* The drain's last look: what has finished leaves the registry. *)
DrainGivesUp(id) ==
    /\ id \in Leaves
    /\ Idle(Command(id))
    /\ Moves(id, "cancelled", "aborting")
    /\ registry' = {c \in registry : task[c] # "gone"}
    /\ todo' = registry'
    /\ UNCHANGED <<inbox, entering, aborted, gate, target, loginVars, debtVars, heard>>

AbortStraggler(id, straggler) ==
    /\ task[id] = "aborting"
    /\ straggler \in todo \ aborted
    /\ Idle(Command(id))
    /\ aborted' = aborted \cup {straggler}
    /\ UNCHANGED <<inbox, task, entering, registry, gateVars, loginVars, debtVars, heard>>

(* A bug: the drain leaves the answer to the aborted command's guard. *)
AnswerStragglerByGuard(id, straggler) ==
    /\ task[id] = "aborting"
    /\ straggler \in todo \cap aborted
    /\ todo' = todo \ {straggler}
    /\ UNCHANGED <<taskVars, gate, target, loginVars, debtVars, heard>>

AnswerStraggler(id, straggler) ==
    /\ task[id] = "aborting"
    /\ straggler \in todo \cap aborted
    /\ todo' = todo \ {straggler}
    /\ StandIn(Command(id), straggler)
    /\ UNCHANGED <<taskVars, gate, target, loginVars, heard>>

(* The settle wait is bounded, so the sign-out goes on whatever still runs. *)
LeaveReplies(id) ==
    /\ id \in Leaves /\ todo = {}
    /\ Moves(id, "aborting", "over")
    /\ Emit(Command(id), id)
    /\ UNCHANGED <<inbox, entering, registry, aborted, gateVars, loginVars, heard>>

-----------------------------------------------------------------------------
(* A sign-in's worker *)

WorkerMoves(id, from, to) == worker[id] = from /\ worker' = [worker EXCEPT ![id] = to]

(* The URL, the device code or the outcome; then the user, or the end. *)
WorkerSays(id) ==
    /\ WorkerMoves(id, "running", "waiting")
    /\ AnswerOnce(Worker(id), id)
    /\ UNCHANGED <<taskVars, gateVars, login, prelogin, cut, heard>>

(* A failure takes the gate to give the client back or to keep it for the    *)
(* form, lets it go and answers with no await between.                       *)
WorkerFails(id) ==
    /\ gate = None
    /\ WorkerMoves(id, "running", "due")
    /\ prelogin' \in IF login = id THEN BOOLEAN ELSE {prelogin}
    /\ UNCHANGED <<taskVars, gateVars, login, said, cut, debtVars, heard>>

WorkerReplies(id) ==
    /\ WorkerMoves(id, "due", "over")
    /\ AnswerOnce(Worker(id), id)
    /\ UNCHANGED <<taskVars, gateVars, login, prelogin, cut, heard>>

WorkerPanics(id) ==
    /\ worker[id] \in {"running", "waiting"}
    /\ Idle(Worker(id))
    /\ worker' = [worker EXCEPT ![id] = "over"]
    /\ AnswerOnce(Worker(id), id)
    /\ UNCHANGED <<taskVars, gateVars, login, prelogin, cut, heard>>

WorkerEnds(id) ==
    /\ worker[id] \in {"waiting", "over"}
    /\ Idle(Worker(id))
    /\ worker' = [worker EXCEPT ![id] = "ended"]
    /\ UNCHANGED <<taskVars, gateVars, login, prelogin, said, cut, debtVars, heard>>

WorkerCut(id) ==
    /\ id \in cut
    /\ worker[id] \in {"running", "waiting"}
    /\ Idle(Worker(id))
    /\ worker' = [worker EXCEPT ![id] = "ended"]
    /\ UNCHANGED <<taskVars, gateVars, login, prelogin, said, cut, debtVars, heard>>

-----------------------------------------------------------------------------
Drops(id) == DropUnpolled(id) \/ DropAborted(id)

GateStep(id) ==
    \/ TakeGate(id) \/ LoginReuses(id) \/ Cancel(id) \/ Cancelled(id)
    \/ LoginRefused(id) \/ SpawnLogin(id) \/ AbortReplies(id)
    \/ DrainGivesUp(id) \/ LeaveReplies(id)
    \/ \E straggler \in Plains : AbortStraggler(id, straggler) \/ AnswerStraggler(id, straggler)

CommandStep(id) ==
    \/ FirstPoll(id) \/ Drops(id) \/ Reply(id) \/ Finish(id) \/ Ended(id) \/ GateStep(id)

WorkerStep(id) == WorkerSays(id) \/ WorkerFails(id) \/ WorkerReplies(id) \/ WorkerCut(id)

Next ==
    \/ Dispatch \/ Register
    \/ \E a \in Actors : Deliver(a)
    \/ \E id \in Ids : Ask(id) \/ CommandStep(id) \/ Panic(id)
    \/ \E id \in Logins : WorkerStep(id) \/ WorkerPanics(id) \/ WorkerEnds(id)

(* Threads run and requests end, each within the SDK's retry budget; whether  *)
(* the user ever finishes a sign-in in the browser is nobody's promise.       *)
Fairness ==
    /\ WF_vars(Dispatch) /\ WF_vars(Register)
    /\ \A a \in Actors : WF_vars(Deliver(a))
    /\ \A id \in Ids : WF_vars(CommandStep(id))
    /\ \A id \in Logins : /\ WF_vars(WorkerStep(id))
                          /\ WF_vars(worker[id] = "over" /\ WorkerEnds(id))

Spec == Init /\ [][Next]_vars /\ Fairness

-----------------------------------------------------------------------------
(* Properties *)

(* The front end never hears two answers to one id, whichever of the command, *)
(* its worker, its guard, the drain and the canceller race for it.            *)
AtMostOnce == \A id \in Ids : heard[id] <= 1

(* An id still owed has somebody left who will answer it: its task before the *)
(* answer, the drain that took it on, its sign-in's worker, or the command    *)
(* that cancelled that worker and waits for it to be gone.                    *)
Payer(id) ==
    \/ task[id] \in {"spawned", "running", "gated", "cancelling", "cancelled", "aborting"}
    \/ id \in todo
    \/ /\ id \in Logins
       /\ ~said[id]
       /\ worker[id] \in {"running", "due"} \/ target = id

NobodyForgotten == \A id \in owed : Payer(id)

(* What a teardown answered "signed out" stays answered so: an id is in one   *)
(* set of debts at most, and what was settled has been answered or is on its  *)
(* way to the front end.                                                      *)
SettledWasAnswered ==
    \A id \in settled : /\ id \notin owed
                        /\ heard[id] = 1 \/ \E a \in Actors : sending[a] = id

(* The promise itself, as a refinement: every command asked is answered, and  *)
(* answered once.                                                             *)
Promise == INSTANCE OneAnswer WITH
    asked <- {id \in Ids : task[id] # "unsent"},
    answers <- heard

OneAnswerEach == Promise!Spec
=============================================================================
