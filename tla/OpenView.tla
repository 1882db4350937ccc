------------------------------ MODULE OpenView ------------------------------
(* The open room's view: the page that enters and leaves rooms, the open and *)
(* close commands it sends, the builds that run outside the lock, and the     *)
(* teardown that abandons them (core/src/runtime/conversation.rs, openRoom    *)
(* and closeRoom in src/matrixbridge.cpp).                                   *)
(*                                                                          *)
(* Every command is a task of its own: which of two sent one after the other  *)
(* runs first is open. A view is named by the command that builds it and      *)
(* carries that command's token; the page raises its token with every view    *)
(* it asks for. Threads, which have a slot and a number of their own, are     *)
(* left out.                                                                 *)
EXTENDS Naturals, FiniteSets

CONSTANTS MaxCommands,      \* bound: opens and closes sent in a run
          None

ASSUME CommandsAssumption == MaxCommands \in Nat /\ None \notin 1..MaxCommands

Ids == 1..MaxCommands

Places == {"unsent", "sent", "asking", "taking", "waiting", "looking", "spawning",
           "awaiting", "installing", "done", "aborted"}
Builds == {"none", "running", "starting", "view", "failed", "cancelled", "dead"}
Phases == {"session", "closing", "abandoning", "draining", "drained", "gone"}

VARIABLES page,         \* the front end is in a room
          token,        \* m_timelineGeneration
          awaited,      \* m_openTimelineId
          ready,        \* m_timelineReady
          sent,         \* commands sent so far
          kind, tok,    \* what each command asks, and for which view
          at,           \* where its task is
          num,          \* the number an open drew
          answers,      \* answers the front end has not handled yet
          generation,   \* State::open_generation
          opening,      \* State::opening
          pending,      \* State::pending_open
          view,         \* State::timeline
          build,        \* the view of each open
          cancelled,    \* builds told to stop
          phase         \* the session's slot, and how far its teardown is

pageVars == <<page, token, awaited, ready>>
commandVars == <<sent, kind, tok>>
coreVars == <<generation, opening, pending, view>>
buildVars == <<build, cancelled>>
vars == <<pageVars, commandVars, at, num, answers, coreVars, buildVars, phase>>

TypeOK ==
    /\ page \in BOOLEAN /\ ready \in BOOLEAN
    /\ token \in 0..MaxCommands /\ awaited \in Ids \cup {None}
    /\ sent \in 0..MaxCommands
    /\ kind \in [Ids -> {"open", "close"}] /\ tok \in [Ids -> 0..MaxCommands]
    /\ at \in [Ids -> Places] /\ num \in [Ids -> Nat]
    /\ answers \subseteq Ids
    /\ generation \in Nat
    /\ opening \in Ids \cup {None}
    /\ pending \in Ids \cup {None} /\ view \in Ids \cup {None}
    /\ build \in [Ids -> Builds] /\ cancelled \subseteq Ids
    /\ phase \in Phases

Init ==
    /\ page = FALSE /\ token = 0 /\ awaited = None /\ ready = FALSE
    /\ sent = 0 /\ kind = [i \in Ids |-> "close"] /\ tok = [i \in Ids |-> 0]
    /\ at = [i \in Ids |-> "unsent"] /\ num = [i \in Ids |-> 0]
    /\ answers = {}
    /\ generation = 0 /\ opening = None /\ pending = None /\ view = None
    /\ build = [i \in Ids |-> "none"] /\ cancelled = {}
    /\ phase = "session"

-----------------------------------------------------------------------------
(* The front end *)

Send(what, which) ==
    /\ sent < MaxCommands
    /\ sent' = sent + 1
    /\ kind' = [kind EXCEPT ![sent + 1] = what]
    /\ tok' = [tok EXCEPT ![sent + 1] = which]
    /\ at' = [at EXCEPT ![sent + 1] = "sent"]
    /\ UNCHANGED <<num, answers, coreVars, buildVars, phase>>

(* Another room, another slice of this one, or this one built anew.            *)
OpenRoom ==
    /\ Send("open", token + 1)
    /\ token' = token + 1 /\ awaited' = sent + 1
    /\ page' = TRUE /\ ready' = FALSE

(* The room that is open: the same view is asked for, rows and all.            *)
OpenAgain ==
    /\ page
    /\ Send("open", token)
    /\ awaited' = sent + 1
    /\ UNCHANGED <<page, token, ready>>

CloseRoom ==
    /\ page
    /\ Send("close", token)
    /\ page' = FALSE /\ ready' = FALSE
    /\ UNCHANGED <<token, awaited>>

(* An answer, whatever it says, ends the wait it is for. One nobody waited for   *)
(* when it was sent is passed over.                                            *)
Hear(i) ==
    /\ i \in answers
    /\ answers' = answers \ {i}
    /\ IF i = awaited THEN awaited' = None /\ ready' = TRUE ELSE UNCHANGED <<awaited, ready>>
    /\ UNCHANGED <<page, token, commandVars, at, num, coreVars, buildVars, phase>>

(* The stall watchdog waits two minutes and no longer.                         *)
GivesUp ==
    /\ awaited # None
    /\ awaited' = None /\ ready' = TRUE
    /\ UNCHANGED <<page, token, commandVars, at, num, answers, coreVars, buildVars, phase>>

(* session.changed: no page is in a room any more.                             *)
SignedOut ==
    /\ phase = "gone" /\ page
    /\ page' = FALSE
    /\ UNCHANGED <<token, awaited, ready, commandVars, at, num, answers, coreVars, buildVars, phase>>

-----------------------------------------------------------------------------
(* timeline.open *)

Ends(i) == at' = [at EXCEPT ![i] = "done"] /\ answers' = answers \cup ({i} \cap {awaited})
Moves(i, place) == at' = [at EXCEPT ![i] = place] /\ UNCHANGED answers

Client(i) ==
    /\ at[i] = "sent" /\ kind[i] = "open"
    /\ IF phase = "session" THEN Moves(i, "asking") ELSE Ends(i)
    /\ UNCHANGED <<pageVars, commandVars, num, coreVars, buildVars, phase>>

(* A later open wins: it draws the next number ...                             *)
Draw(i) ==
    /\ at[i] = "asking"
    /\ generation' = generation + 1
    /\ num' = [num EXCEPT ![i] = generation + 1]
    /\ Moves(i, "taking")
    /\ UNCHANGED <<pageVars, commandVars, opening, pending, view, buildVars, phase>>

(* A bug: whatever is not there is stopped, too.                               *)
StopUnasked(p) == pending' = None /\ cancelled' = cancelled \cup {p}

(* ... and stops what is building.                                            *)
Stop(p) == pending' = None /\ cancelled' = cancelled \cup ({p} \ {None})

Take(i) ==
    /\ at[i] = "taking"
    /\ Stop(pending)
    /\ Moves(i, "waiting")
    /\ UNCHANGED <<pageVars, commandVars, num, generation, opening, view, build, phase>>

Lock(i) ==
    /\ at[i] = "waiting" /\ opening = None
    /\ IF generation = num[i]
       THEN opening' = i /\ Moves(i, "looking")
       ELSE UNCHANGED opening /\ Ends(i)
    /\ UNCHANGED <<pageVars, commandVars, num, generation, pending, view, buildVars, phase>>

(* The view asked for is open already.                                         *)
Keep(i) ==
    /\ at[i] = "looking"
    /\ view # None /\ tok[view] = tok[i]
    /\ opening' = None /\ Ends(i)
    /\ UNCHANGED <<pageVars, commandVars, num, generation, pending, view, buildVars, phase>>

Closed(v) == [j \in Ids |-> IF j = v THEN "dead" ELSE build[j]]

(* Another one, or this one with receipts switched on or off.                  *)
Replace(i) ==
    /\ at[i] = "looking"
    /\ build' = Closed(view) /\ view' = None
    /\ Moves(i, "spawning")
    /\ UNCHANGED <<pageVars, commandVars, num, generation, opening, pending, cancelled, phase>>

(* Registered before the lock goes; a number overtaken by now stops its own     *)
(* build.                                                                     *)
Spawn(i) ==
    /\ at[i] = "spawning"
    /\ build' = [build EXCEPT ![i] = "running"]
    /\ IF generation = num[i]
       THEN pending' = i /\ UNCHANGED cancelled
       ELSE cancelled' = cancelled \cup {i} /\ UNCHANGED pending
    /\ opening' = None
    /\ Moves(i, "awaiting")
    /\ UNCHANGED <<pageVars, commandVars, num, generation, view, phase>>

(* A bug: what was built is installed whatever was asked for meanwhile.         *)
CheckNothing(i) ==
    /\ at[i] = "awaiting" /\ opening = None
    /\ build[i] \in {"view", "failed", "cancelled"}
    /\ pending' = IF generation = num[i] THEN None ELSE pending
    /\ IF build[i] = "view"
       THEN opening' = i /\ Moves(i, "installing") /\ UNCHANGED build
       ELSE UNCHANGED opening /\ Ends(i) /\ UNCHANGED build
    /\ UNCHANGED <<pageVars, commandVars, num, generation, view, cancelled, phase>>

(* A bug: the view nobody waits for any more is left running.                  *)
CheckLeaving(i) ==
    /\ at[i] = "awaiting" /\ opening = None
    /\ build[i] \in {"view", "failed", "cancelled"}
    /\ pending' = IF generation = num[i] THEN None ELSE pending
    /\ IF build[i] = "view" /\ generation = num[i]
       THEN opening' = i /\ Moves(i, "installing")
       ELSE UNCHANGED opening /\ Ends(i)
    /\ UNCHANGED <<pageVars, commandVars, num, generation, view, buildVars, phase>>

(* A bug: an open that was overtaken says nothing.                             *)
CheckUnsaid(i) ==
    /\ at[i] = "awaiting" /\ opening = None
    /\ build[i] \in {"view", "failed", "cancelled"}
    /\ pending' = IF generation = num[i] THEN None ELSE pending
    /\ IF build[i] = "view" /\ generation = num[i]
       THEN opening' = i /\ Moves(i, "installing") /\ UNCHANGED build
       ELSE UNCHANGED opening /\ Moves(i, "done") /\ build' = [build EXCEPT ![i] = "dead"]
    /\ UNCHANGED <<pageVars, commandVars, num, generation, view, cancelled, phase>>

(* The build is over. Overtaken, nobody waits for what came of it.             *)
Check(i) ==
    /\ at[i] = "awaiting" /\ opening = None
    /\ build[i] \in {"view", "failed", "cancelled"}
    /\ pending' = IF generation = num[i] THEN None ELSE pending
    /\ IF build[i] = "view" /\ generation = num[i]
       THEN opening' = i /\ Moves(i, "installing") /\ UNCHANGED build
       ELSE UNCHANGED opening /\ Ends(i)
            /\ build' = [build EXCEPT ![i] = IF @ = "view" THEN "dead" ELSE @]
    /\ UNCHANGED <<pageVars, commandVars, num, generation, view, cancelled, phase>>

Install(i) ==
    /\ at[i] = "installing"
    /\ build' = Closed(view) /\ view' = i
    /\ opening' = None /\ Ends(i)
    /\ UNCHANGED <<pageVars, commandVars, num, generation, pending, cancelled, phase>>

-----------------------------------------------------------------------------
(* Building: the request half may be stopped or fail, the local half runs to    *)
(* its end; with nobody left to take it, the view is dropped there.            *)

BuildEnds(i) ==
    /\ build[i] = "running"
    /\ build' = [build EXCEPT ![i] = "failed"]
    /\ UNCHANGED <<pageVars, commandVars, at, num, answers, coreVars, cancelled, phase>>

BuildStarts(i) ==
    /\ build[i] = "running"
    /\ build' = [build EXCEPT ![i] = "starting"]
    /\ UNCHANGED <<pageVars, commandVars, at, num, answers, coreVars, cancelled, phase>>

BuildCancelled(i) ==
    /\ build[i] = "running" /\ i \in cancelled
    /\ build' = [build EXCEPT ![i] = "cancelled"]
    /\ UNCHANGED <<pageVars, commandVars, at, num, answers, coreVars, cancelled, phase>>

BuildDone(i) ==
    /\ build[i] = "starting"
    /\ build' = [build EXCEPT ![i] = IF at[i] = "aborted" THEN "dead" ELSE "view"]
    /\ UNCHANGED <<pageVars, commandVars, at, num, answers, coreVars, cancelled, phase>>

-----------------------------------------------------------------------------
(* timeline.close *)

(* A bug: a close takes whatever view is there.                                *)
CloseAnyTimeline(i) ==
    /\ at[i] = "sent" /\ kind[i] = "close" /\ opening = None
    /\ build' = Closed(view) /\ view' = None
    /\ UNCHANGED <<generation, pending, cancelled>>
    /\ Ends(i)
    /\ UNCHANGED <<pageVars, commandVars, num, opening, phase>>

(* same_view: the token decides. What is only building is stopped.             *)
CloseTimeline(i) ==
    /\ at[i] = "sent" /\ kind[i] = "close" /\ opening = None
    /\ IF view # None
       THEN /\ IF tok[view] = tok[i]
               THEN build' = Closed(view) /\ view' = None
               ELSE UNCHANGED <<build, view>>
            /\ UNCHANGED <<generation, pending, cancelled>>
       ELSE /\ IF pending # None /\ tok[pending] = tok[i]
               THEN generation' = generation + 1 /\ Stop(pending)
               ELSE UNCHANGED <<generation, pending, cancelled>>
            /\ UNCHANGED <<build, view>>
    /\ Ends(i)
    /\ UNCHANGED <<pageVars, commandVars, num, opening, phase>>

-----------------------------------------------------------------------------
(* The teardown of a session *)

Closing ==
    /\ phase = "session"
    /\ phase' = "closing"
    /\ UNCHANGED <<pageVars, commandVars, at, num, answers, coreVars, buildVars>>

(* abandon_opens *)
AbandonDraws ==
    /\ phase = "closing"
    /\ phase' = "abandoning"
    /\ generation' = generation + 1
    /\ UNCHANGED <<pageVars, commandVars, at, num, answers, opening, pending, view, buildVars>>

AbandonTakes ==
    /\ phase = "abandoning"
    /\ phase' = "draining"
    /\ Stop(pending)
    /\ UNCHANGED <<pageVars, commandVars, at, num, answers, generation, opening, view, build>>

Running == {i \in Ids : at[i] \notin {"unsent", "done", "aborted"}}

(* Three seconds are enough for a build that was told to stop and for a local   *)
(* half. What runs on is aborted and answered; a view in its hands goes with it. *)
Drain ==
    /\ phase = "draining"
    /\ \A i \in Ids : build[i] # "starting" /\ (build[i] = "running" => i \notin cancelled)
    /\ phase' = "drained"
    /\ at' = [i \in Ids |-> IF i \in Running THEN "aborted" ELSE at[i]]
    /\ answers' = answers \cup (Running \cap {awaited})
    /\ opening' = None
    /\ build' = [i \in Ids |-> IF i \in Running /\ build[i] = "view" THEN "dead" ELSE build[i]]
    /\ UNCHANGED <<pageVars, commandVars, num, generation, pending, view, cancelled>>

(* A bug: the view is taken without waiting for the commands.                  *)
TakeViewUndrained ==
    /\ phase = "draining"
    /\ phase' = "gone"
    /\ build' = Closed(view) /\ view' = None
    /\ UNCHANGED <<pageVars, commandVars, at, num, answers, generation, opening, pending, cancelled>>

TakeView ==
    /\ phase = "drained"
    /\ phase' = "gone"
    /\ build' = Closed(view) /\ view' = None
    /\ UNCHANGED <<pageVars, commandVars, at, num, answers, generation, opening, pending, cancelled>>

-----------------------------------------------------------------------------
OpenStep(i) ==
    \/ Client(i) \/ Draw(i) \/ Take(i) \/ Keep(i) \/ Replace(i) \/ Spawn(i) \/ Install(i)
LockStep(i) == Lock(i) \/ Check(i) \/ CloseTimeline(i)
BuildStep(i) == BuildEnds(i) \/ BuildStarts(i) \/ BuildCancelled(i) \/ BuildDone(i)
TeardownStep == AbandonDraws \/ AbandonTakes \/ Drain \/ TakeView

Next ==
    \/ OpenRoom \/ OpenAgain \/ CloseRoom \/ GivesUp \/ SignedOut
    \/ \E i \in Ids : Hear(i) \/ OpenStep(i) \/ LockStep(i) \/ BuildStep(i)
    \/ Closing \/ TeardownStep

Spec == Init /\ [][Next]_vars

-----------------------------------------------------------------------------
(* Properties *)

(* Every view whose stream runs is the one installed, or in the hands of the    *)
(* open that built it: being overtaken, closed or aborted leaves none behind     *)
(* that goes on holding the client.                                           *)
OneLiveView ==
    \A i \in Ids : build[i] = "view" => i = view \/ at[i] \in {"awaiting", "installing"}

(* While the session lasts and no open is under way, the view that stands is the  *)
(* one the last open to arrive asked for, however slow the builds before it were. *)
NewestStays ==
    phase = "session" /\ (\A i \in Ids : kind[i] = "open" => at[i] \in {"unsent", "sent", "asking", "done", "aborted"})
        /\ view # None
    => \E j \in Ids : (\A k \in Ids : num[k] <= num[j]) /\ tok[j] = tok[view]

(* No close, however late, takes or stops the view of the room the page is in.   *)
CloseSparesPage ==
    [][\A i \in Ids : CloseTimeline(i) /\ page =>
           /\ view # None /\ view' = None => tok[view] # token
           /\ pending # None /\ pending' = None => tok[pending] # token]_vars

(* A session that is gone leaves no view behind, and none comes after it.        *)
SessionTakesViews == phase = "gone" => view = None /\ \A i \in Ids : build[i] # "view"

(* A room page that waits is waited for: its last open is under way, or its       *)
(* answer is. None was overtaken, aborted or refused without a word.             *)
SpinnerOwed ==
    page /\ ~ready => /\ awaited # None
                      /\ awaited \in answers \/ at[awaited] \notin {"unsent", "done", "aborted"}
=============================================================================
