--------------------------- MODULE OpenViewProofs ---------------------------
(* Proofs about OpenView, for any number of opens and closes: no view is left  *)
(* behind, a session that is gone takes its views with it, and a page that     *)
(* waits is waited for.                                                       *)
EXTENDS OpenView, TLAPS

-----------------------------------------------------------------------------
(* The inductive invariant *)

(* Where the open is whose build is under way, or came to something.           *)
Placed ==
    /\ token <= sent
    /\ view # None => build[view] # "none"
    /\ \A i \in Ids :
        /\ at[i] = "installing" => build[i] # "none"
        /\ i > sent => at[i] = "unsent"
        /\ build[i] \in {"running", "starting"} => at[i] \in {"awaiting", "aborted"}
        /\ build[i] # "none" => at[i] \in {"awaiting", "installing", "done", "aborted"}

(* Behind the drain nothing is under way, and what still comes finds no client. *)
Settled ==
    phase \in {"drained", "gone"} =>
        \A i \in Ids : at[i] \in {"unsent", "sent", "done", "aborted"}

(* A page that is in a room has asked for a view since the last close.         *)
ClosesOlder ==
    \A i \in 1..sent : kind[i] = "close" => tok[i] <= token /\ (page => tok[i] # token)

(* The numbers are the opens' own, in the order they were drawn, and whoever     *)
(* stands between the lock and its release has it.                             *)
Numbered ==
    phase = "session" =>
        /\ \A i \in Ids :
            /\ num[i] <= generation
            /\ at[i] \in {"unsent", "sent", "asking"} => num[i] = 0
            /\ at[i] \in {"taking", "waiting", "looking", "spawning", "awaiting", "installing"}
                   => num[i] # 0
            /\ at[i] = "asking" \/ num[i] # 0 => kind[i] = "open"
            /\ at[i] \in {"looking", "spawning", "installing"} <=> opening = i
            /\ at[i] # "aborted"
        /\ \A i, j \in Ids : num[i] = num[j] /\ num[i] # 0 => i = j

(* The open with the last number drawn is still to look, or has put away what     *)
(* was open, or the view is the one it asked for; where the last number is no      *)
(* open's, a close drew it and there is no view.                                *)
Newest ==
    phase = "session" =>
        /\ (\A i \in Ids : num[i] = 0 \/ num[i] # generation) => view = None /\ opening = None
        /\ \A j \in Ids : num[j] = generation /\ num[j] # 0 =>
            /\ at[j] \in {"spawning", "awaiting", "installing"} => view = None /\ opening \in {j, None}
            /\ at[j] = "done" => opening = None /\ (view # None => tok[view] = tok[j])

IInv ==
    /\ TypeOK /\ Placed /\ Settled /\ ClosesOlder
    /\ OneLiveView /\ SessionTakesViews /\ SpinnerOwed
    /\ Numbered /\ Newest

USE DEF Ids
-----------------------------------------------------------------------------
(* Every variable keeps its type: no number, token or slot leaves its range.   *)

LEMMA SendTyped ==
    ASSUME TypeOK, NEW what \in {"open", "close"}, NEW which \in 0..MaxCommands, Send(what, which)
    PROVE  /\ sent + 1 \in Ids
           /\ sent' \in 0..MaxCommands
           /\ kind' \in [Ids -> {"open", "close"}] /\ tok' \in [Ids -> 0..MaxCommands]
           /\ at' \in [Ids -> Places] /\ at'[sent + 1] = "sent"
           /\ \A i \in Ids : i # sent + 1 => at'[i] = at[i]
BY CommandsAssumption DEF TypeOK, Send, Places

LEMMA EndsTyped ==
    ASSUME TypeOK, NEW i \in Ids, Ends(i)
    PROVE  at' \in [Ids -> Places] /\ answers' \subseteq Ids
BY DEF TypeOK, Ends, Places

LEMMA MovesTyped ==
    ASSUME TypeOK, NEW i \in Ids, NEW place \in Places, Moves(i, place)
    PROVE  at' \in [Ids -> Places] /\ answers' \subseteq Ids
BY DEF TypeOK, Moves

LEMMA TypeKept ==
    ASSUME TypeOK, token <= sent, [Next]_vars
    PROVE  TypeOK'
<1> USE DEF pageVars, commandVars, coreVars, buildVars
<1>1. CASE OpenRoom
  <2>1. token + 1 \in 0..MaxCommands /\ Send("open", token + 1)
    BY <1>1, CommandsAssumption DEF TypeOK, OpenRoom, Send
  <2>2. /\ sent + 1 \in Ids
        /\ sent' \in 0..MaxCommands
        /\ kind' \in [Ids -> {"open", "close"}] /\ tok' \in [Ids -> 0..MaxCommands]
        /\ at' \in [Ids -> Places]
    BY <2>1, SendTyped
  <2> QED
    BY <1>1, <2>1, <2>2 DEF TypeOK, OpenRoom, Send
<1>2. CASE OpenAgain \/ CloseRoom
  <2>1. token \in 0..MaxCommands /\ \E what \in {"open", "close"} : Send(what, token)
    BY <1>2 DEF TypeOK, OpenAgain, CloseRoom
  <2>2. /\ sent + 1 \in Ids
        /\ sent' \in 0..MaxCommands
        /\ kind' \in [Ids -> {"open", "close"}] /\ tok' \in [Ids -> 0..MaxCommands]
        /\ at' \in [Ids -> Places]
    BY <2>1, SendTyped
  <2>3. UNCHANGED <<num, answers, coreVars, buildVars, phase>>
    BY <2>1 DEF Send
  <2>4. /\ token' = token /\ page' \in BOOLEAN /\ ready' \in BOOLEAN
        /\ awaited' \in Ids \cup {None}
    BY <1>2, <2>2 DEF TypeOK, OpenAgain, CloseRoom
  <2> QED
    BY <2>2, <2>3, <2>4 DEF TypeOK
<1>3. CASE GivesUp \/ SignedOut
  BY <1>3 DEF TypeOK, GivesUp, SignedOut
<1>4. CASE Closing \/ AbandonDraws
  <2>1. CASE Closing
    BY <2>1 DEF TypeOK, Closing, Phases
  <2>2. CASE AbandonDraws
    <3>1. generation' \in Nat /\ phase' \in Phases
      BY <2>2 DEF TypeOK, AbandonDraws, Phases
    <3> QED
      BY <2>2, <3>1 DEF TypeOK, AbandonDraws
  <2> QED
    BY <1>4, <2>1, <2>2
<1>5. CASE AbandonTakes
  BY <1>5 DEF TypeOK, AbandonTakes, Stop, Phases
<1>6. CASE Drain
  <2>1. at' \in [Ids -> Places] /\ build' \in [Ids -> Builds] /\ answers' \subseteq Ids
    BY <1>6 DEF TypeOK, Drain, Running, Places, Builds
  <2> QED
    BY <1>6, <2>1 DEF TypeOK, Drain, Phases
<1>7. CASE TakeView
  BY <1>7 DEF TypeOK, TakeView, Closed, Phases, Builds
<1>8. ASSUME NEW i \in Ids, Hear(i)
      PROVE  TypeOK'
  BY <1>8 DEF TypeOK, Hear
<1>9. ASSUME NEW i \in Ids, OpenStep(i)
      PROVE  TypeOK'
  <2>1. CASE Client(i)
    <3>1. at' \in [Ids -> Places] /\ answers' \subseteq Ids
      BY <2>1, EndsTyped, MovesTyped DEF Client, Places
    <3> QED
      BY <2>1, <3>1 DEF TypeOK, Client
  <2>2. CASE Draw(i)
    <3>1. at' \in [Ids -> Places] /\ answers' \subseteq Ids
      BY <2>2, MovesTyped DEF Draw, Places
    <3> QED
      BY <2>2, <3>1 DEF TypeOK, Draw
  <2>3. CASE Take(i)
    <3>1. at' \in [Ids -> Places] /\ answers' \subseteq Ids
      BY <2>3, MovesTyped DEF Take, Places
    <3> QED
      BY <2>3, <3>1 DEF TypeOK, Take, Stop
  <2>4. CASE Keep(i)
    <3>1. at' \in [Ids -> Places] /\ answers' \subseteq Ids
      BY <2>4, EndsTyped DEF Keep
    <3> QED
      BY <2>4, <3>1 DEF TypeOK, Keep
  <2>5. CASE Replace(i)
    <3>1. at' \in [Ids -> Places] /\ answers' \subseteq Ids
      BY <2>5, MovesTyped DEF Replace, Places
    <3> QED
      BY <2>5, <3>1 DEF TypeOK, Replace, Closed, Builds
  <2>6. CASE Spawn(i)
    <3>1. at' \in [Ids -> Places] /\ answers' \subseteq Ids
      BY <2>6, MovesTyped DEF Spawn, Places
    <3> QED
      BY <2>6, <3>1 DEF TypeOK, Spawn, Builds
  <2>7. CASE Install(i)
    <3>1. at' \in [Ids -> Places] /\ answers' \subseteq Ids
      BY <2>7, EndsTyped DEF Install
    <3> QED
      BY <2>7, <3>1 DEF TypeOK, Install, Closed, Builds
  <2> QED
    BY <1>9, <2>1, <2>2, <2>3, <2>4, <2>5, <2>6, <2>7 DEF OpenStep
<1>10. ASSUME NEW i \in Ids, LockStep(i)
       PROVE  TypeOK'
  <2>1. at' \in [Ids -> Places] /\ answers' \subseteq Ids
    BY <1>10, EndsTyped, MovesTyped DEF LockStep, Lock, Check, CloseTimeline, Places
  <2>2. CASE Lock(i)
    BY <2>1, <2>2 DEF TypeOK, Lock
  <2>3. CASE Check(i)
    BY <2>1, <2>3 DEF TypeOK, Check, Builds
  <2>4. CASE CloseTimeline(i)
    <3>1. build' \in [Ids -> Builds] /\ view' \in Ids \cup {None}
      BY <2>4 DEF TypeOK, CloseTimeline, Closed, Builds
    <3>2. generation' \in Nat /\ pending' \in Ids \cup {None} /\ cancelled' \subseteq Ids
      <4>1. CASE view = None /\ pending # None /\ tok[pending] = tok[i]
        <5>1. generation' = generation + 1 /\ Stop(pending)
          BY <2>4, <4>1 DEF CloseTimeline
        <5>2. generation' \in Nat
          BY <5>1 DEF TypeOK
        <5> QED
          BY <4>1, <5>1, <5>2 DEF TypeOK, Stop
      <4>2. CASE ~(view = None /\ pending # None /\ tok[pending] = tok[i])
        BY <2>4, <4>2 DEF TypeOK, CloseTimeline
      <4> QED
        BY <4>1, <4>2
    <3>3. UNCHANGED <<pageVars, commandVars, num, opening, phase>>
      BY <2>4 DEF CloseTimeline
    <3> QED
      BY <2>1, <3>1, <3>2, <3>3 DEF TypeOK
  <2> QED
    BY <1>10, <2>2, <2>3, <2>4 DEF LockStep
<1>11. ASSUME NEW i \in Ids, BuildStep(i)
       PROVE  TypeOK'
  BY <1>11 DEF TypeOK, BuildStep, BuildEnds, BuildStarts, BuildCancelled, BuildDone, Builds
<1>12. CASE UNCHANGED vars
  BY <1>12 DEF TypeOK, vars
<1> QED
  BY <1>1, <1>2, <1>3, <1>4, <1>5, <1>6, <1>7, <1>8, <1>9, <1>10, <1>11, <1>12
     DEF Next, TeardownStep

-----------------------------------------------------------------------------
(* A build belongs to an open that waits for it, installs it or is over.        *)

LEMMA ClosedEnds ==
    ASSUME TypeOK, Placed, build' = Closed(view)
    PROVE  \A j \in Ids : \/ build'[j] = build[j] /\ j # view
                          \/ build'[j] = "dead" /\ build[j] # "none" /\ j = view
<1>1. ASSUME NEW j \in Ids
      PROVE  \/ build'[j] = build[j] /\ j # view
             \/ build'[j] = "dead" /\ build[j] # "none" /\ j = view
  <2>1. build'[j] = IF j = view THEN "dead" ELSE build[j]
    BY DEF Closed
  <2>2. j = view => build[j] # "none"
    BY CommandsAssumption DEF Placed
  <2> QED
    BY <2>1, <2>2
<1> QED
  BY <1>1

LEMMA PlacedKept ==
    ASSUME TypeOK, Placed, [Next]_vars
    PROVE  Placed'
<1> USE DEF pageVars, commandVars, coreVars, buildVars
<1>1. CASE OpenRoom \/ OpenAgain \/ CloseRoom
  <2>1. PICK what \in {"open", "close"}, which \in 0..MaxCommands :
            Send(what, which) /\ token' \in {token, token + 1}
    <3>1. token \in 0..MaxCommands /\ (OpenRoom => token + 1 \in 0..MaxCommands)
      BY CommandsAssumption DEF TypeOK, Placed, OpenRoom, Send
    <3> QED
      BY <1>1, <3>1 DEF OpenRoom, OpenAgain, CloseRoom
  <2>2. /\ sent + 1 \in Ids /\ sent' = sent + 1
        /\ at'[sent + 1] = "sent"
        /\ \A i \in Ids : i # sent + 1 => at'[i] = at[i]
    BY <2>1, SendTyped DEF Send
  <2>3. build' = build /\ view' = view /\ sent \in Nat /\ token \in Nat
    BY <2>1, CommandsAssumption DEF Send, TypeOK
  <2>4. build[sent + 1] = "none" /\ token' <= sent'
    <3>1. at[sent + 1] = "unsent"
      BY <2>2, <2>3 DEF Placed
    <3> QED
      BY <2>1, <2>2, <2>3, <3>1 DEF Placed
  <2> QED
    BY <2>2, <2>3, <2>4 DEF Placed
<1>2. ASSUME UNCHANGED <<token, sent, view, at, build>>
      PROVE  Placed'
  BY <1>2 DEF Placed
<1>3. CASE Drain
  <2>1. UNCHANGED <<token, sent, view>> /\ (view # None => view \in Ids)
    BY <1>3 DEF Drain, TypeOK
  <2>2. ASSUME NEW i \in Ids
        PROVE  /\ at'[i] = IF i \in Running THEN "aborted" ELSE at[i]
               /\ build'[i] = IF i \in Running /\ build[i] = "view" THEN "dead" ELSE build[i]
    BY <1>3 DEF Drain, TypeOK
  <2>3. \A i \in Running : at[i] \notin {"unsent", "done", "aborted"}
    BY DEF Running
  <2> QED
    BY <2>1, <2>2, <2>3 DEF Placed
<1>4. CASE TakeView
  BY <1>4, ClosedEnds DEF TakeView, Placed
<1>5. ASSUME NEW i \in Ids, OpenStep(i) \/ LockStep(i)
      PROVE  Placed'
  <2> USE DEF Ends, Moves, TypeOK, Placed
  <2>1. CASE Client(i) \/ Draw(i) \/ Take(i) \/ Keep(i) \/ Lock(i)
    BY <2>1 DEF Client, Draw, Take, Keep, Lock
  <2>2. CASE Replace(i)
    BY <2>2, ClosedEnds DEF Replace
  <2>3. CASE Spawn(i)
    BY <2>3 DEF Spawn
  <2>4. CASE Install(i)
    BY <2>4, ClosedEnds DEF Install
  <2>5. CASE Check(i)
    BY <2>5 DEF Check
  <2>6. CASE CloseTimeline(i)
    <3>1. /\ build' = build \/ build' = Closed(view)
          /\ view' = view \/ view' = None
      BY <2>6 DEF CloseTimeline
    <3>2. UNCHANGED <<token, sent>> /\ at' = [at EXCEPT ![i] = "done"] /\ at[i] = "sent"
      BY <2>6 DEF CloseTimeline
    <3> QED
      BY <3>1, <3>2, ClosedEnds
  <2> QED
    BY <1>5, <2>1, <2>2, <2>3, <2>4, <2>5, <2>6 DEF OpenStep, LockStep
<1>6. ASSUME NEW i \in Ids, BuildStep(i)
      PROVE  Placed'
  <2>1. /\ build[i] \in {"running", "starting"} /\ UNCHANGED <<token, sent, view, at>>
        /\ \E to \in Builds \ {"none", "running"} :
              build' = [build EXCEPT ![i] = to] /\ (to = "starting" => build[i] = "running")
    BY <1>6 DEF BuildStep, BuildEnds, BuildStarts, BuildCancelled, BuildDone, Builds
  <2>2. build'[i] # "none" /\ \A j \in Ids \ {i} : build'[j] = build[j]
    BY <2>1 DEF TypeOK
  <2>3. at[i] \in {"awaiting", "aborted"}
    BY <2>1 DEF Placed
  <2> QED
    BY <2>1, <2>2, <2>3 DEF TypeOK, Placed
<1>7. ASSUME NEW i \in Ids, Hear(i)
      PROVE  UNCHANGED <<token, sent, view, at, build>>
  BY <1>7 DEF Hear
<1>8. CASE GivesUp \/ SignedOut \/ Closing \/ AbandonDraws \/ AbandonTakes \/ UNCHANGED vars
  <2>1. UNCHANGED <<token, sent, view, at, build>>
    BY <1>8 DEF GivesUp, SignedOut, Closing, AbandonDraws, AbandonTakes, vars
  <2> QED
    BY <1>2, <2>1
<1> QED
  BY <1>1, <1>2, <1>3, <1>4, <1>5, <1>6, <1>7, <1>8 DEF Next, TeardownStep

-----------------------------------------------------------------------------
(* Behind the drain no open goes on.                                          *)

LEMMA SettledKept ==
    ASSUME TypeOK, Settled, [Next]_vars
    PROVE  Settled'
<1> USE DEF pageVars, commandVars, coreVars, buildVars
<1>1. CASE OpenRoom \/ OpenAgain \/ CloseRoom
  <2>1. PICK what, which : Send(what, which)
    BY <1>1 DEF OpenRoom, OpenAgain, CloseRoom
  <2> QED
    BY <2>1 DEF Send, TypeOK, Settled
<1>2. CASE Drain
  <2>1. ASSUME NEW i \in Ids
        PROVE  at'[i] \in {"unsent", "sent", "done", "aborted"}
    BY <1>2 DEF Drain, Running, TypeOK
  <2> QED
    BY <2>1 DEF Settled
<1>3. ASSUME NEW i \in Ids, OpenStep(i)
      PROVE  Settled'
  <2>1. CASE Client(i)
    BY <2>1 DEF Client, Ends, Moves, TypeOK, Settled
  <2>2. CASE Draw(i) \/ Take(i) \/ Keep(i) \/ Replace(i) \/ Spawn(i) \/ Install(i)
    <3>1. at[i] \in {"asking", "taking", "looking", "spawning", "installing"} /\ phase' = phase
      BY <2>2 DEF Draw, Take, Keep, Replace, Spawn, Install
    <3> QED
      BY <3>1 DEF Settled
  <2> QED
    BY <1>3, <2>1, <2>2 DEF OpenStep
<1>4. ASSUME NEW i \in Ids, LockStep(i)
      PROVE  Settled'
  <2>1. CASE Lock(i) \/ Check(i)
    <3>1. at[i] \in {"waiting", "awaiting"} /\ phase' = phase
      BY <2>1 DEF Lock, Check
    <3> QED
      BY <3>1 DEF Settled
  <2>2. CASE CloseTimeline(i)
    BY <2>2 DEF CloseTimeline, Ends, TypeOK, Settled
  <2> QED
    BY <1>4, <2>1, <2>2 DEF LockStep
<1>5. CASE \E i \in Ids : Hear(i) \/ BuildStep(i)
  BY <1>5 DEF Hear, BuildStep, BuildEnds, BuildStarts, BuildCancelled, BuildDone, Settled
<1>6. CASE Closing \/ AbandonDraws \/ AbandonTakes \/ TakeView
  BY <1>6 DEF Closing, AbandonDraws, AbandonTakes, TakeView, Settled
<1>7. CASE GivesUp \/ SignedOut \/ UNCHANGED vars
  BY <1>7 DEF GivesUp, SignedOut, vars, Settled
<1> QED
  BY <1>1, <1>2, <1>3, <1>4, <1>5, <1>6, <1>7 DEF Next, TeardownStep

-----------------------------------------------------------------------------
(* A view is installed, in its open's hands, or closed.                        *)

LEMMA OneLiveViewKept ==
    ASSUME TypeOK, Placed, OneLiveView, [Next]_vars
    PROVE  OneLiveView'
<1> USE DEF pageVars, commandVars, coreVars, buildVars
<1>1. CASE OpenRoom \/ OpenAgain \/ CloseRoom
  <2>1. PICK what, which : Send(what, which)
    BY <1>1 DEF OpenRoom, OpenAgain, CloseRoom
  <2>2. at[sent + 1] = "unsent" /\ build' = build /\ view' = view
    BY <2>1, CommandsAssumption DEF Send, TypeOK, Placed
  <2>3. \A i \in Ids : i # sent + 1 => at'[i] = at[i]
    BY <2>1 DEF Send, TypeOK
  <2> QED
    BY <2>2, <2>3 DEF OneLiveView
<1>2. CASE Drain
  <2>1. ASSUME NEW i \in Ids
        PROVE  /\ i \notin Running => at'[i] = at[i] /\ build'[i] = build[i]
               /\ i \in Running => build'[i] # "view"
    BY <1>2 DEF Drain, TypeOK
  <2>2. view' = view
    BY <1>2 DEF Drain
  <2> QED
    BY <2>1, <2>2 DEF OneLiveView
<1>3. CASE TakeView
  BY <1>3, ClosedEnds DEF TakeView, OneLiveView
<1>4. ASSUME NEW i \in Ids, OpenStep(i) \/ LockStep(i)
      PROVE  OneLiveView'
  <2> USE DEF Ends, Moves, TypeOK, OneLiveView
  <2>1. CASE Client(i) \/ Draw(i) \/ Take(i) \/ Keep(i) \/ Lock(i)
    <3>1. at[i] \in {"sent", "asking", "taking", "waiting", "looking"}
      BY <2>1 DEF Client, Draw, Take, Keep, Lock
    <3>2. build[i] = "none"
      BY <3>1 DEF Placed
    <3>3. build' = build /\ view' = view /\ \A j \in Ids : j # i => at'[j] = at[j]
      BY <2>1 DEF Client, Draw, Take, Keep, Lock
    <3> QED
      BY <3>2, <3>3
  <2>2. CASE Replace(i)
    <3>1. build[i] = "none"
      BY <2>2 DEF Replace, Placed
    <3> QED
      BY <2>2, <3>1, ClosedEnds DEF Replace
  <2>3. CASE Spawn(i)
    BY <2>3 DEF Spawn
  <2>4. CASE Install(i)
    BY <2>4, ClosedEnds DEF Install
  <2>5. CASE Check(i)
    BY <2>5 DEF Check
  <2>6. CASE CloseTimeline(i)
    <3>1. \/ build' = build /\ view' = view
          \/ build' = Closed(view) /\ view' = None
      BY <2>6 DEF CloseTimeline
    <3>2. at[i] = "sent" /\ \A j \in Ids : j # i => at'[j] = at[j]
      BY <2>6 DEF CloseTimeline
    <3>3. build[i] = "none"
      BY <3>2 DEF Placed
    <3> QED
      BY <3>1, <3>2, <3>3, ClosedEnds
  <2> QED
    BY <1>4, <2>1, <2>2, <2>3, <2>4, <2>5, <2>6 DEF OpenStep, LockStep
<1>5. ASSUME NEW i \in Ids, BuildStep(i)
      PROVE  OneLiveView'
  <2>1. PICK result : build' = [build EXCEPT ![i] = result] /\ UNCHANGED <<at, view>>
    BY <1>5 DEF BuildStep, BuildEnds, BuildStarts, BuildCancelled, BuildDone
  <2>2. build[i] \in {"running", "starting"} /\ (build'[i] = "view" => at[i] # "aborted")
    BY <1>5 DEF TypeOK, BuildStep, BuildEnds, BuildStarts, BuildCancelled, BuildDone
  <2>3. at[i] \in {"awaiting", "aborted"}
    BY <2>2 DEF Placed
  <2> QED
    BY <2>1, <2>2, <2>3 DEF TypeOK, OneLiveView
<1>6. ASSUME UNCHANGED <<at, build, view>>
      PROVE  OneLiveView'
  BY <1>6 DEF OneLiveView
<1>7. CASE \/ \E i \in Ids : Hear(i)
           \/ GivesUp \/ SignedOut \/ Closing \/ AbandonDraws \/ AbandonTakes
           \/ UNCHANGED vars
  <2>1. UNCHANGED <<at, build, view>>
    BY <1>7 DEF Hear, GivesUp, SignedOut, Closing, AbandonDraws, AbandonTakes, vars
  <2> QED
    BY <1>6, <2>1
<1> QED
  BY <1>1, <1>2, <1>3, <1>4, <1>5, <1>7 DEF Next, TeardownStep

-----------------------------------------------------------------------------
(* The teardown leaves no view, and none comes after it.                       *)

LEMMA SessionTakesViewsKept ==
    ASSUME TypeOK, Placed, Settled, OneLiveView, SessionTakesViews, [Next]_vars
    PROVE  SessionTakesViews'
<1> USE DEF pageVars, commandVars, coreVars, buildVars
<1>1. CASE TakeView
  <2>1. phase = "drained" /\ build' = Closed(view) /\ view' = None
    BY <1>1 DEF TakeView
  <2>2. ASSUME NEW i \in Ids
        PROVE  build'[i] # "view"
    <3>1. at[i] \notin {"awaiting", "installing"}
      BY <2>1 DEF Settled
    <3>2. build[i] = "view" => i = view
      BY <3>1 DEF OneLiveView
    <3> QED
      BY <2>1, <3>2, ClosedEnds
  <2> QED
    BY <2>1, <2>2 DEF SessionTakesViews
<1>2. CASE Drain \/ Closing \/ AbandonDraws \/ AbandonTakes
  BY <1>2 DEF Drain, Closing, AbandonDraws, AbandonTakes, SessionTakesViews
<1>3. ASSUME UNCHANGED <<phase, view, build>>
      PROVE  SessionTakesViews'
  BY <1>3 DEF SessionTakesViews
<1>4. CASE \/ OpenRoom \/ OpenAgain \/ CloseRoom \/ GivesUp \/ SignedOut
           \/ \E i \in Ids : Hear(i)
           \/ UNCHANGED vars
  <2>1. UNCHANGED <<phase, view, build>>
    BY <1>4 DEF OpenRoom, OpenAgain, CloseRoom, Send, GivesUp, SignedOut, Hear, vars
  <2> QED
    BY <1>3, <2>1
<1>5. ASSUME NEW i \in Ids, OpenStep(i) \/ LockStep(i)
      PROVE  SessionTakesViews'
  <2>1. CASE Client(i) \/ Draw(i) \/ Take(i) \/ Keep(i) \/ Lock(i)
    <3>1. UNCHANGED <<phase, view, build>>
      BY <2>1 DEF Client, Draw, Take, Keep, Lock
    <3> QED
      BY <1>3, <3>1
  <2>2. CASE Replace(i) \/ Spawn(i) \/ Install(i) \/ Check(i)
    <3>1. at[i] \in {"looking", "spawning", "installing", "awaiting"} /\ phase' = phase
      BY <2>2 DEF Replace, Spawn, Install, Check
    <3> QED
      BY <3>1 DEF Settled, SessionTakesViews
  <2>3. CASE CloseTimeline(i)
    <3>1. /\ phase' = phase
          /\ \/ build' = build /\ view' = view
             \/ build' = Closed(view) /\ view' = None
      BY <2>3 DEF CloseTimeline
    <3> QED
      BY <3>1, ClosedEnds DEF SessionTakesViews
  <2> QED
    BY <1>5, <2>1, <2>2, <2>3 DEF OpenStep, LockStep
<1>6. ASSUME NEW i \in Ids, BuildStep(i)
      PROVE  SessionTakesViews'
  <2>1. PICK result : /\ build' = [build EXCEPT ![i] = result]
                      /\ UNCHANGED <<view, phase>>
    BY <1>6 DEF BuildStep, BuildEnds, BuildStarts, BuildCancelled, BuildDone
  <2>2. build[i] \in {"running", "starting"} /\ (build'[i] = "view" => at[i] # "aborted")
    BY <1>6 DEF TypeOK, BuildStep, BuildEnds, BuildStarts, BuildCancelled, BuildDone
  <2>3. phase = "gone" => build'[i] # "view"
    BY <2>2 DEF Placed, Settled
  <2> QED
    BY <2>1, <2>3 DEF TypeOK, SessionTakesViews
<1> QED
  BY <1>1, <1>2, <1>4, <1>5, <1>6 DEF Next, TeardownStep

-----------------------------------------------------------------------------
(* Every open that ends leaves its answer to the page that waits for it.       *)

LEMMA SpinnerOwedKept ==
    ASSUME TypeOK, SpinnerOwed, [Next]_vars
    PROVE  SpinnerOwed'
<1> USE DEF pageVars, commandVars, coreVars, buildVars
<1>1. CASE OpenRoom \/ OpenAgain
  <2>1. PICK what, which : Send(what, which) /\ awaited' = sent + 1
    BY <1>1 DEF OpenRoom, OpenAgain
  <2>2. sent + 1 \in Ids /\ at'[sent + 1] = "sent"
    BY <2>1, CommandsAssumption DEF Send, TypeOK
  <2> QED
    BY <2>1, <2>2, CommandsAssumption DEF SpinnerOwed
<1>2. CASE CloseRoom \/ GivesUp \/ SignedOut
  BY <1>2 DEF CloseRoom, GivesUp, SignedOut, SpinnerOwed
<1>3. ASSUME NEW i \in Ids, Hear(i)
      PROVE  SpinnerOwed'
  BY <1>3 DEF Hear, SpinnerOwed
<1>4. CASE Drain
  <2>1. UNCHANGED <<page, ready, awaited>> /\ answers' = answers \cup (Running \cap {awaited})
    BY <1>4 DEF Drain
  <2>2. awaited \in Ids /\ awaited \notin Running => at'[awaited] = at[awaited]
    BY <1>4 DEF Drain, TypeOK
  <2>3. awaited \in Ids /\ at[awaited] \notin {"unsent", "done", "aborted"} => awaited \in Running
    BY DEF Running
  <2> QED
    BY <2>1, <2>2, <2>3 DEF SpinnerOwed, TypeOK
<1>5. ASSUME UNCHANGED <<page, ready, awaited, answers, at>>
      PROVE  SpinnerOwed'
  BY <1>5 DEF SpinnerOwed
<1>6. CASE \/ Closing \/ AbandonDraws \/ AbandonTakes \/ TakeView
           \/ \E i \in Ids : BuildStep(i)
           \/ UNCHANGED vars
  <2>1. UNCHANGED <<page, ready, awaited, answers, at>>
    BY <1>6 DEF Closing, AbandonDraws, AbandonTakes, TakeView, vars,
                BuildStep, BuildEnds, BuildStarts, BuildCancelled, BuildDone
  <2> QED
    BY <1>5, <2>1
<1>7. ASSUME NEW i \in Ids, OpenStep(i) \/ LockStep(i)
      PROVE  SpinnerOwed'
  <2>1. /\ UNCHANGED <<page, ready, awaited>>
        /\ \/ Ends(i)
           \/ \E place \in Places \ {"unsent", "done", "aborted"} : Moves(i, place)
    BY <1>7 DEF OpenStep, LockStep, Client, Draw, Take, Keep, Replace, Spawn, Install,
                Lock, Check, CloseTimeline, Places
  <2>2. CASE Ends(i)
    <3>1. answers \subseteq answers' /\ (awaited = i => i \in answers')
      BY <2>2 DEF Ends
    <3>2. awaited \in Ids /\ awaited # i => at'[awaited] = at[awaited]
      BY <2>2 DEF Ends, TypeOK
    <3> QED
      BY <2>1, <3>1, <3>2 DEF SpinnerOwed, TypeOK
  <2>3. ASSUME NEW place \in Places \ {"unsent", "done", "aborted"}, Moves(i, place)
        PROVE  SpinnerOwed'
    BY <2>1, <2>3 DEF Moves, SpinnerOwed, TypeOK
  <2> QED
    BY <2>1, <2>2, <2>3
<1> QED
  BY <1>1, <1>2, <1>3, <1>4, <1>6, <1>7 DEF Next, TeardownStep

-----------------------------------------------------------------------------
(* A close carries a token the page has left behind.                           *)

LEMMA ClosesOlderKept ==
    ASSUME TypeOK, Placed, ClosesOlder, [Next]_vars
    PROVE  ClosesOlder'
<1> USE DEF pageVars, commandVars, coreVars, buildVars
<1>1. ASSUME NEW what, NEW which, Send(what, which)
      PROVE  /\ sent \in Nat /\ token \in Nat /\ sent' = sent + 1 /\ sent + 1 \in Ids
             /\ kind'[sent + 1] = what /\ tok'[sent + 1] = which
             /\ \A i \in 1..sent : /\ kind'[i] = kind[i] /\ tok'[i] = tok[i]
                                   /\ tok[i] \in Nat
  BY <1>1, CommandsAssumption DEF Send, TypeOK
<1>2. CASE OpenRoom
  <2>1. Send("open", token + 1) /\ token' = token + 1
    BY <1>2 DEF OpenRoom
  <2> QED
    BY <1>1, <2>1 DEF ClosesOlder
<1>3. CASE OpenAgain
  <2>1. Send("open", token) /\ UNCHANGED <<page, token>>
    BY <1>3 DEF OpenAgain
  <2> QED
    BY <1>1, <2>1 DEF ClosesOlder
<1>4. CASE CloseRoom
  <2>1. Send("close", token) /\ page' = FALSE /\ token' = token
    BY <1>4 DEF CloseRoom
  <2> QED
    BY <1>1, <2>1 DEF ClosesOlder
<1>5. CASE SignedOut
  BY <1>5 DEF SignedOut, ClosesOlder
<1>6. ASSUME UNCHANGED <<page, token, commandVars>>
      PROVE  ClosesOlder'
  BY <1>6 DEF ClosesOlder
<1>7. CASE \/ GivesUp \/ Closing \/ TeardownStep
           \/ \E i \in Ids : Hear(i) \/ OpenStep(i) \/ LockStep(i) \/ BuildStep(i)
           \/ UNCHANGED vars
  <2>1. UNCHANGED <<page, token, commandVars>>
    BY <1>7 DEF GivesUp, Closing, TeardownStep, AbandonDraws, AbandonTakes, Drain, TakeView,
                Hear, OpenStep, Client, Draw, Take, Keep, Replace, Spawn, Install,
                LockStep, Lock, Check, CloseTimeline,
                BuildStep, BuildEnds, BuildStarts, BuildCancelled, BuildDone, vars
  <2> QED
    BY <1>6, <2>1
<1> QED
  BY <1>2, <1>3, <1>4, <1>5, <1>7 DEF Next

LEMMA LateCloseSpares ==
    ASSUME TypeOK, Placed, ClosesOlder,
           NEW i \in Ids, CloseTimeline(i), page
    PROVE  /\ view # None /\ view' = None => tok[view] # token
           /\ pending # None /\ pending' = None => tok[pending] # token
<1>1. at[i] = "sent" /\ kind[i] = "close" /\ i \in 1..sent
  BY DEF CloseTimeline, Placed, TypeOK
<1>2. tok[i] # token
  BY <1>1 DEF ClosesOlder
<1> QED
  BY <1>2 DEF CloseTimeline, coreVars

-----------------------------------------------------------------------------
(* The newest open's view stands.                                             *)

(* A command's task goes somewhere; the others stay.                           *)
LEMMA OneGoes ==
    ASSUME TypeOK, NEW i \in Ids, NEW place \in Places,
           Moves(i, place) \/ (place = "done" /\ Ends(i))
    PROVE  \A j \in Ids : at'[j] = IF j = i THEN place ELSE at[j]
BY DEF TypeOK, Moves, Ends

(* A command that is sent is a new one.                                        *)
LEMMA SendOne ==
    ASSUME TypeOK, Placed, NEW what, NEW which, Send(what, which)
    PROVE  /\ sent + 1 \in Ids
           /\ at[sent + 1] = "unsent" /\ at'[sent + 1] = "sent"
           /\ \A i \in Ids : i # sent + 1 => at'[i] = at[i] /\ kind'[i] = kind[i] /\ tok'[i] = tok[i]
           /\ UNCHANGED <<num, generation, opening, view>>
<1>1. sent \in 0..MaxCommands /\ sent < MaxCommands /\ MaxCommands \in Nat
  BY CommandsAssumption DEF TypeOK, Send
<1>2. sent + 1 \in Ids /\ sent + 1 > sent
  BY <1>1
<1>3. at[sent + 1] = "unsent" /\ at'[sent + 1] = "sent"
  BY <1>2 DEF TypeOK, Placed, Send
<1>4. \A i \in Ids : i # sent + 1 => at'[i] = at[i] /\ kind'[i] = kind[i] /\ tok'[i] = tok[i]
  BY DEF TypeOK, Send
<1>5. UNCHANGED <<num, generation, opening, view>>
  BY DEF Send, coreVars
<1> QED
  BY <1>2, <1>3, <1>4, <1>5

LEMMA NumberedKept ==
    ASSUME TypeOK, Placed, Numbered, [Next]_vars
    PROVE  Numbered'
<1> USE DEF pageVars, commandVars, coreVars, buildVars
<1> SUFFICES ASSUME phase' = "session"
             PROVE  Numbered'
  BY DEF Numbered
<1>ses. phase = "session"
  BY DEF Next, OpenRoom, OpenAgain, CloseRoom, Send, GivesUp, SignedOut, Hear, OpenStep, Client, Draw,
         Take, Keep, Replace, Spawn, Install, LockStep, Lock, Check, CloseTimeline, BuildStep,
         BuildEnds, BuildStarts, BuildCancelled, BuildDone, Closing, TeardownStep, AbandonDraws,
         AbandonTakes, Drain, TakeView, vars
<1>1. CASE OpenRoom \/ OpenAgain \/ CloseRoom
  <2>1. PICK what, which : what \in {"open", "close"} /\ Send(what, which)
    BY <1>1 DEF OpenRoom, OpenAgain, CloseRoom
  <2>2. /\ sent + 1 \in Ids /\ at[sent + 1] = "unsent" /\ at'[sent + 1] = "sent"
        /\ \A i \in Ids : i # sent + 1 => at'[i] = at[i] /\ kind'[i] = kind[i]
        /\ UNCHANGED <<num, generation, opening>>
    BY <2>1, SendOne
  <2> QED
    BY <1>ses, <2>2 DEF Numbered
<1>2. ASSUME UNCHANGED <<kind, at, num, generation, opening>>
      PROVE  Numbered'
  BY <1>ses, <1>2 DEF Numbered
<1>3. CASE \/ GivesUp \/ SignedOut \/ TeardownStep \/ Closing \/ UNCHANGED vars
           \/ \E i \in Ids : Hear(i) \/ BuildStep(i)
  <2>1. UNCHANGED <<kind, at, num, generation, opening>>
    BY <1>ses, <1>3 DEF GivesUp, SignedOut, TeardownStep, AbandonDraws, AbandonTakes, Drain, TakeView,
       Closing, vars, Hear, BuildStep, BuildEnds, BuildStarts, BuildCancelled, BuildDone
  <2> QED
    BY <1>2, <2>1
<1>4. ASSUME NEW i \in Ids, Draw(i)
      PROVE  Numbered'
  <2>1. \A j \in Ids : at'[j] = IF j = i THEN "taking" ELSE at[j]
    BY <1>4, OneGoes DEF Draw, Places
  <2>2. /\ \A j \in Ids : num'[j] = IF j = i THEN generation + 1 ELSE num[j]
        /\ generation' = generation + 1 /\ generation \in Nat /\ \A j \in Ids : num[j] \in Nat
    BY <1>4 DEF Draw, TypeOK
  <2>3. at[i] = "asking" /\ UNCHANGED <<kind, opening>>
    BY <1>4 DEF Draw
  <2> QED
    BY <1>ses, <2>1, <2>2, <2>3 DEF Numbered
<1>5. ASSUME NEW i \in Ids, NEW place \in Places,
             \A j \in Ids : at'[j] = IF j = i THEN place ELSE at[j],
             UNCHANGED <<kind, num>>, generation <= generation', generation' \in Nat,
             place \notin {"unsent", "sent", "aborted"},
             place = "asking" => kind[i] = "open" /\ num[i] = 0,
             num[i] = 0 => place \in {"asking", "done"},
             \/ opening' = opening /\ (place \in {"looking", "spawning", "installing"} <=> opening = i)
             \/ opening = i /\ opening' = None /\ place \notin {"looking", "spawning", "installing"}
             \/ opening = None /\ opening' = i /\ place \in {"looking", "spawning", "installing"}
      PROVE  Numbered'
  <2>1. \A j \in Ids : num[j] <= generation'
    BY <1>ses, <1>5 DEF Numbered, TypeOK
  <2>2. \A j \in Ids : at'[j] \in {"looking", "spawning", "installing"} <=> opening' = j
    <3> SUFFICES ASSUME NEW j \in Ids
                 PROVE  at'[j] \in {"looking", "spawning", "installing"} <=> opening' = j
      OBVIOUS
    <3>1. at[j] \in {"looking", "spawning", "installing"} <=> opening = j
      BY <1>ses DEF Numbered
    <3>2. j # None /\ i # None
      BY CommandsAssumption
    <3>3. CASE j = i
      BY <1>5, <3>2, <3>3
    <3>4. CASE j # i
      BY <1>5, <3>1, <3>2, <3>4
    <3> QED
      BY <3>3, <3>4
  <2> QED
    BY <1>ses, <1>5, <2>1, <2>2 DEF Numbered
<1>6. ASSUME NEW i \in Ids, OpenStep(i) \/ LockStep(i), ~Draw(i)
      PROVE  Numbered'
  <2>1. UNCHANGED <<kind, num>>
    BY <1>6 DEF OpenStep, Client, Take, Keep, Replace, Spawn, Install, LockStep, Lock, Check, CloseTimeline
  <2>2. generation <= generation' /\ generation' \in Nat
    BY <1>6 DEF OpenStep, Client, Take, Keep, Replace, Spawn, Install, LockStep, Lock, Check,
                CloseTimeline, TypeOK
  <2>3. CASE Client(i) \/ Take(i) \/ CloseTimeline(i)
    <3>1. PICK place \in {"asking", "done", "waiting"} :
             /\ \A j \in Ids : at'[j] = IF j = i THEN place ELSE at[j]
             /\ place = "asking" => kind[i] = "open" /\ at[i] = "sent"
             /\ place = "waiting" => at[i] = "taking"
      BY <2>3, OneGoes DEF Client, Take, CloseTimeline, Places
    <3>2. opening' = opening /\ opening # i
      BY <1>ses, <2>3 DEF Client, Take, CloseTimeline, Numbered
    <3> QED
      BY <1>ses, <1>5, <2>1, <2>2, <3>1, <3>2 DEF Numbered, Places
  <2>4. CASE Keep(i) \/ Replace(i) \/ Spawn(i) \/ Install(i)
    <3>1. PICK place \in {"spawning", "awaiting", "done"} :
             /\ \A j \in Ids : at'[j] = IF j = i THEN place ELSE at[j]
             /\ opening' = IF place = "spawning" THEN opening ELSE None
      BY <2>4, OneGoes DEF Keep, Replace, Spawn, Install, Places
    <3>2. opening = i /\ num[i] # 0
      BY <1>ses, <2>4 DEF Keep, Replace, Spawn, Install, Numbered
    <3> QED
      BY <1>5, <2>1, <2>2, <3>1, <3>2 DEF Places
  <2>5. CASE Lock(i) \/ Check(i)
    <3>1. PICK place \in {"looking", "installing", "done"} :
             /\ \A j \in Ids : at'[j] = IF j = i THEN place ELSE at[j]
             /\ opening' = IF place = "done" THEN opening ELSE i
      BY <2>5, OneGoes DEF Lock, Check, Places
    <3>2. opening = None /\ num[i] # 0
      BY <1>ses, <2>5 DEF Lock, Check, Numbered
    <3> QED
      BY <1>5, <2>1, <2>2, <3>1, <3>2, CommandsAssumption DEF Places
  <2> QED
    BY <1>6, <2>3, <2>4, <2>5 DEF OpenStep, LockStep
<1> QED
  BY <1>1, <1>3, <1>4, <1>6 DEF Next

LEMMA NewestKept ==
    ASSUME TypeOK, Placed, Numbered, Newest, [Next]_vars
    PROVE  Newest'
<1> USE DEF pageVars, commandVars, coreVars, buildVars
<1> SUFFICES ASSUME phase' = "session"
             PROVE  Newest'
  BY DEF Newest
<1>ses. phase = "session"
  BY DEF Next, OpenRoom, OpenAgain, CloseRoom, Send, GivesUp, SignedOut, Hear, OpenStep, Client, Draw,
         Take, Keep, Replace, Spawn, Install, LockStep, Lock, Check, CloseTimeline, BuildStep,
         BuildEnds, BuildStarts, BuildCancelled, BuildDone, Closing, TeardownStep, AbandonDraws,
         AbandonTakes, Drain, TakeView, vars
<1>1. CASE OpenRoom \/ OpenAgain \/ CloseRoom
  <2>1. PICK what, which : what \in {"open", "close"} /\ Send(what, which)
    BY <1>1 DEF OpenRoom, OpenAgain, CloseRoom
  <2>2. /\ sent + 1 \in Ids /\ at[sent + 1] = "unsent"
        /\ \A i \in Ids : i # sent + 1 => at'[i] = at[i] /\ tok'[i] = tok[i]
        /\ UNCHANGED <<num, generation, opening, view>>
    BY <2>1, SendOne
  <2>3. num[sent + 1] = 0
    BY <1>ses, <2>2 DEF Numbered
  <2>4. view # None => view \in Ids /\ view # sent + 1
    BY <2>2 DEF Placed, TypeOK
  <2> QED
    BY <1>ses, <2>2, <2>3, <2>4 DEF Newest
<1>2. CASE \/ GivesUp \/ SignedOut \/ TeardownStep \/ Closing \/ UNCHANGED vars
           \/ \E i \in Ids : Hear(i) \/ BuildStep(i)
  <2>1. UNCHANGED <<tok, at, num, generation, opening, view>>
    BY <1>ses, <1>2 DEF GivesUp, SignedOut, TeardownStep, AbandonDraws, AbandonTakes, Drain, TakeView,
       Closing, vars, Hear, BuildStep, BuildEnds, BuildStarts, BuildCancelled, BuildDone
  <2> QED
    BY <1>ses, <2>1 DEF Newest
<1>3. ASSUME NEW i \in Ids, Draw(i)
      PROVE  Newest'
  <2>1. at'[i] = "taking"
    BY <1>3, OneGoes DEF Draw, Places
  <2>2. /\ \A j \in Ids : num'[j] = IF j = i THEN generation + 1 ELSE num[j]
        /\ generation' = generation + 1 /\ generation \in Nat /\ \A j \in Ids : num[j] \in Nat
    BY <1>3 DEF Draw, TypeOK
  <2>3. \A j \in Ids : num'[j] = generation' => j = i
    BY <1>ses, <2>2 DEF Numbered
  <2>4. num'[i] # 0 /\ num'[i] = generation'
    BY <2>2
  <2> QED
    BY <2>1, <2>3, <2>4 DEF Newest
<1>4. ASSUME NEW i \in Ids, NEW place \in Places,
             \A j \in Ids : at'[j] = IF j = i THEN place ELSE at[j],
             UNCHANGED <<tok, num, generation>>
      PROVE  \A j \in Ids : num'[j] = generation' /\ num'[j] # 0 =>
                 num[j] = generation /\ num[j] # 0 /\ (j # i => at'[j] = at[j])
  BY <1>4
<1>5. ASSUME NEW i \in Ids, Client(i) \/ Take(i)
      PROVE  Newest'
  <2>1. PICK place \in {"asking", "done", "waiting"} :
           /\ \A j \in Ids : at'[j] = IF j = i THEN place ELSE at[j]
           /\ place = "done" => at[i] = "sent"
    BY <1>5, OneGoes DEF Client, Take, Places
  <2>2. UNCHANGED <<tok, num, generation, opening, view>>
    BY <1>5 DEF Client, Take
  <2>3. at[i] = "sent" => num[i] = 0
    BY <1>ses DEF Numbered
  <2> QED
    BY <1>ses, <2>1, <2>2, <2>3 DEF Newest
<1>6. ASSUME NEW i \in Ids, Lock(i)
      PROVE  Newest'
  <2>1. at[i] = "waiting" /\ opening = None /\ UNCHANGED <<tok, num, generation, view>>
    BY <1>6 DEF Lock
  <2>2. CASE generation = num[i]
    <3>1. \A j \in Ids : at'[j] = IF j = i THEN "looking" ELSE at[j]
      BY <1>6, <2>2, OneGoes DEF Lock, Places
    <3>2. \A j \in Ids : num[j] = generation /\ num[j] # 0 => j = i
      BY <1>ses, <2>2 DEF Numbered
    <3>3. num[i] # 0
      BY <1>ses, <2>1 DEF Numbered
    <3> QED
      BY <2>1, <2>2, <3>1, <3>2, <3>3 DEF Newest
  <2>3. CASE generation # num[i]
    <3>1. /\ \A j \in Ids : at'[j] = IF j = i THEN "done" ELSE at[j]
          /\ opening' = opening
      BY <1>6, <2>3, OneGoes DEF Lock, Places
    <3> QED
      BY <1>ses, <2>1, <2>3, <3>1 DEF Newest
  <2> QED
    BY <2>2, <2>3
<1>7. ASSUME NEW i \in Ids, Keep(i) \/ Replace(i) \/ Spawn(i) \/ Install(i)
      PROVE  Newest'
  <2>1. opening = i /\ i # None /\ num[i] # 0 /\ UNCHANGED <<tok, num, generation>>
    BY <1>ses, <1>7, CommandsAssumption DEF Keep, Replace, Spawn, Install, Numbered
  <2>2. ASSUME NEW j \in Ids, num[j] = generation, num[j] # 0, j # i
        PROVE  at[j] \notin {"spawning", "awaiting", "installing", "done"}
    BY <1>ses, <2>1, <2>2 DEF Newest
  <2>3. ~(\A j \in Ids : num[j] = 0 \/ num[j] # generation)
    BY <1>ses, <2>1 DEF Newest
  <2>4. CASE Keep(i)
    <3>1. /\ \A j \in Ids : at'[j] = IF j = i THEN "done" ELSE at[j]
          /\ view' = view /\ opening' = None /\ tok[view] = tok[i]
      BY <2>4, OneGoes DEF Keep, Places
    <3> QED
      BY <2>1, <2>2, <2>3, <3>1 DEF Newest
  <2>5. CASE Replace(i)
    <3>1. /\ \A j \in Ids : at'[j] = IF j = i THEN "spawning" ELSE at[j]
          /\ view' = None /\ opening' = opening
      BY <2>5, OneGoes DEF Replace, Places
    <3> QED
      BY <2>1, <2>2, <2>3, <3>1 DEF Newest
  <2>6. CASE Spawn(i)
    <3>1. /\ \A j \in Ids : at'[j] = IF j = i THEN "awaiting" ELSE at[j]
          /\ view' = view /\ opening' = None /\ at[i] = "spawning"
      BY <2>6, OneGoes DEF Spawn, Places
    <3>2. num[i] = generation => view = None
      BY <1>ses, <2>1, <3>1 DEF Newest
    <3> QED
      BY <2>1, <2>2, <2>3, <3>1, <3>2 DEF Newest
  <2>7. CASE Install(i)
    <3>1. /\ \A j \in Ids : at'[j] = IF j = i THEN "done" ELSE at[j]
          /\ view' = i /\ opening' = None
      BY <2>7, OneGoes DEF Install, Places
    <3> QED
      BY <2>1, <2>2, <2>3, <3>1 DEF Newest
  <2> QED
    BY <1>7, <2>4, <2>5, <2>6, <2>7
<1>8. ASSUME NEW i \in Ids, Check(i)
      PROVE  Newest'
  <2>1. /\ at[i] = "awaiting" /\ opening = None /\ num[i] # 0
        /\ UNCHANGED <<tok, num, generation, view>>
    BY <1>ses, <1>8 DEF Check, Numbered
  <2>2. PICK place \in {"installing", "done"} :
           /\ \A j \in Ids : at'[j] = IF j = i THEN place ELSE at[j]
           /\ opening' = IF place = "done" THEN opening ELSE i
           /\ place = "installing" => generation = num[i]
    BY <1>8, OneGoes DEF Check, Places
  <2>3. \A j \in Ids : place = "installing" /\ num[j] = generation => j = i
    BY <1>ses, <2>1, <2>2 DEF Numbered
  <2> QED
    BY <1>ses, <2>1, <2>2, <2>3, CommandsAssumption DEF Newest
<1>9. ASSUME NEW i \in Ids, CloseTimeline(i)
      PROVE  Newest'
  <2>1. /\ \A j \in Ids : at'[j] = IF j = i THEN "done" ELSE at[j]
        /\ at[i] = "sent" /\ opening = None /\ opening' = None /\ UNCHANGED <<tok, num>>
        /\ view' \in {view, None}
    BY <1>9, OneGoes DEF CloseTimeline, Places
  <2>2. num[i] = 0
    BY <1>ses, <2>1 DEF Numbered
  <2>3. CASE generation' = generation
    BY <1>ses, <2>1, <2>2, <2>3 DEF Newest
  <2>4. CASE generation' = generation + 1 /\ view' = None
    <3>1. \A j \in Ids : num[j] # generation'
      BY <1>ses, <2>4 DEF Numbered, TypeOK
    <3> QED
      BY <2>1, <2>4, <3>1 DEF Newest
  <2>5. generation' = generation \/ (generation' = generation + 1 /\ view' = None)
    BY <1>9 DEF CloseTimeline
  <2> QED
    BY <2>3, <2>4, <2>5
<1> QED
  BY <1>1, <1>2, <1>3, <1>5, <1>6, <1>7, <1>8, <1>9 DEF Next, OpenStep, LockStep

LEMMA NewestSaysSo == TypeOK /\ Numbered /\ Newest => NewestStays
<1> SUFFICES ASSUME TypeOK, Numbered, Newest, phase = "session", view # None,
                    \A i \in Ids : kind[i] = "open" => at[i] \in {"unsent", "sent", "asking", "done", "aborted"}
             PROVE  \E j \in Ids : (\A k \in Ids : num[k] <= num[j]) /\ tok[j] = tok[view]
  BY DEF NewestStays
<1>1. PICK j \in Ids : num[j] = generation /\ num[j] # 0
  BY DEF Newest
<1>2. at[j] = "done"
  BY <1>1 DEF Numbered
<1>3. \A k \in Ids : num[k] <= num[j]
  BY <1>1 DEF Numbered
<1> QED
  BY <1>1, <1>2, <1>3 DEF Newest

-----------------------------------------------------------------------------
(* The invariant holds of every run.                                          *)
THEOREM Inductive == Spec => []IInv
<1>1. Init => IInv
  <2> SUFFICES ASSUME Init
               PROVE  IInv
    OBVIOUS
  <2>1. TypeOK
    <3>1. /\ kind \in [Ids -> {"open", "close"}] /\ tok \in [Ids -> 0..MaxCommands]
          /\ at \in [Ids -> Places] /\ num \in [Ids -> Nat] /\ build \in [Ids -> Builds]
      BY CommandsAssumption DEF Init, Places, Builds
    <3>2. page \in BOOLEAN /\ ready \in BOOLEAN /\ phase \in Phases
      BY DEF Init, Phases
    <3>3. token \in 0..MaxCommands /\ sent \in 0..MaxCommands /\ generation \in Nat
      BY CommandsAssumption DEF Init
    <3>4. /\ None \in {awaited} /\ None \in {opening} /\ None \in {pending} /\ None \in {view}
          /\ answers = {} /\ cancelled = {}
      BY DEF Init
    <3> QED
      BY <3>1, <3>2, <3>3, <3>4 DEF TypeOK
  <2>2. Placed /\ Settled /\ ClosesOlder
    BY CommandsAssumption DEF Init, Placed, Settled, ClosesOlder
  <2>3. OneLiveView /\ SessionTakesViews /\ SpinnerOwed
    BY DEF Init, OneLiveView, SessionTakesViews, SpinnerOwed
  <2>4. Numbered /\ Newest
    BY CommandsAssumption DEF Init, Numbered, Newest
  <2> QED
    BY <2>1, <2>2, <2>3, <2>4 DEF IInv
<1>2. IInv /\ [Next]_vars => IInv'
  <2>1. TypeOK /\ Placed /\ [Next]_vars => TypeOK'
    BY TypeKept DEF Placed
  <2> QED
    BY <2>1, PlacedKept, SettledKept, ClosesOlderKept, OneLiveViewKept,
       SessionTakesViewsKept, SpinnerOwedKept, NumberedKept, NewestKept DEF IInv
<1> QED
  BY <1>1, <1>2, PTL DEF Spec

(* Every variable keeps its type.                                             *)
THEOREM TypeCorrect == Spec => []TypeOK
<1>1. IInv => TypeOK
  BY DEF IInv
<1> QED
  BY <1>1, Inductive, PTL

(* However opens, closes, slow builds and a teardown interleave, a view that    *)
(* runs is the installed one or in the hands of the open that built it           *)
(* (conversation.rs: open_timeline, close_timeline).                            *)
THEOREM NoViewLeftBehind == Spec => []OneLiveView
<1>1. IInv => OneLiveView
  BY DEF IInv
<1> QED
  BY <1>1, Inductive, PTL

(* A session that ended has no view, and gets none from a build that was under   *)
(* way (lifecycle.rs: teardown).                                              *)
THEOREM TeardownTakesAll == Spec => []SessionTakesViews
<1>1. IInv => SessionTakesViews
  BY DEF IInv
<1> QED
  BY <1>1, Inductive, PTL

(* A page that shows its spinner has an answer coming (matrixbridge.cpp:        *)
(* m_openTimelineId).                                                        *)
THEOREM SpinnerEnds == Spec => []SpinnerOwed
<1>1. IInv => SpinnerOwed
  BY DEF IInv
<1> QED
  BY <1>1, Inductive, PTL

(* A close that runs late leaves alone the view the page has asked for since     *)
(* (conversation.rs: same_view).                                              *)
THEOREM LateClosesSpare == Spec => CloseSparesPage
<1>1. IInv => (\A i \in Ids : CloseTimeline(i) /\ page =>
                   /\ view # None /\ view' = None => tok[view] # token
                   /\ pending # None /\ pending' = None => tok[pending] # token)
  BY LateCloseSpares DEF IInv
<1> QED
  BY <1>1, Inductive, PTL DEF CloseSparesPage

(* While the session lasts, the view that stands when no open is under way is    *)
(* the one the last open to draw its number asked for, whatever order slow        *)
(* builds came to their ends in (conversation.rs: open_timeline).              *)
THEOREM NewestViewStays == Spec => []NewestStays
<1>1. IInv => NewestStays
  BY NewestSaysSo DEF IInv
<1> QED
  BY <1>1, Inductive, PTL
=============================================================================
