------------------------------ MODULE RoomFeed ------------------------------
(* How the rows of the open room follow the core's list: the views that      *)
(* stream a reset and then diffs, the one queue that carries them to the      *)
(* front end, the model that applies them by position, and the ways back when  *)
(* a position does not fit (start in core/src/timeline.rs,                   *)
(* runtime/conversation.rs, src/difflistmodel.cpp, src/matrixbridge.cpp).     *)
(*                                                                          *)
(* What a list holds is its version: a view at version n has told the first n  *)
(* changes of the room. A diff that finds the rows its view told last makes    *)
(* them the next version; on any other rows it is dropped, which the model     *)
(* notices, or shifts rows nobody can vouch for. A view is named by the       *)
(* command that builds it. The steps an open takes one by one are in OpenView. *)
EXTENDS Naturals, Sequences

CONSTANTS Rooms,
          MaxOpens,       \* bound: timeline.open commands in a run
          UserOpens,      \* bound: those the user's steps may use up
          MaxChanges,     \* bound: changes of the room
          None

ASSUME FeedAssumption ==
    /\ MaxOpens \in Nat /\ UserOpens \in Nat /\ MaxChanges \in Nat
    /\ None \notin Rooms \cup 1..MaxOpens

Ids == 1..MaxOpens
Tokens == 0..MaxOpens
Versions == 0..MaxChanges

(* An open is sent, fetches, streams, and is the room's view until it is closed; *)
(* one that was stopped or refused while it fetched never streamed.             *)
Places == {"unsent", "sent", "building", "streaming", "shown", "closed", "kept", "failed"}
Live == {"streaming", "shown"}

VARIABLES room,           \* m_openRoomId
          token,          \* m_timelineGeneration
          rowsOf, upto,   \* whose list the rows of m_timeline are, up to which change
          wrong,          \* they are nobody's: a diff met rows it was not made for
          drift,          \* m_outOfStep
          thread,         \* a thread is open: m_openThreadRoot
          rebuildAfter,   \* m_rebuildAfterThread
          timer,          \* the room the rebuild's timer was set for
          queue,          \* events and answers on their way to the front end
          sent,           \* open commands sent so far
          tok, anew,      \* an open's token; whether the view it finds will not do
          at,             \* where an open is
          closes,         \* tokens of the close commands not run yet
          asked,          \* resync commands not run yet, by token
          latest,         \* the open that drew the last number, if none did since
          slot,           \* State::timeline
          told, held,     \* the version a view has told; the one its task is telling
          notified,       \* views asked for a reset
          items           \* changes of the room so far

rowVars == <<rowsOf, upto, wrong, drift>>
threadVars == <<thread, rebuildAfter, timer>>
commandVars == <<sent, tok, anew, closes>>
streamVars == <<told, held, notified>>
vars == <<room, token, rowVars, threadVars, queue, commandVars, at, asked, latest, slot,
          streamVars, items>>

Diffs == [is : {"diff"}, tok : Tokens, from : Ids, lo : Versions, hi : Versions, whole : BOOLEAN]
Replies == [is : {"reply"}, tok : Tokens, meant : BOOLEAN]

TypeOK ==
    /\ room \in Rooms \cup {None} /\ token \in Tokens
    /\ rowsOf \in Ids \cup {None} /\ upto \in Versions /\ wrong \in BOOLEAN /\ drift \in BOOLEAN
    /\ thread \in BOOLEAN /\ rebuildAfter \in Rooms \cup {None} /\ timer \in Rooms \cup {None}
    /\ queue \in Seq(Diffs \cup Replies)
    /\ sent \in 0..MaxOpens
    /\ tok \in [Ids -> Tokens] /\ anew \in [Ids -> BOOLEAN] /\ at \in [Ids -> Places]
    /\ closes \subseteq Tokens /\ asked \in [Tokens -> Nat]
    /\ latest \in Ids \cup {None} /\ slot \in Ids \cup {None}
    /\ told \in [Ids -> Versions] /\ held \in [Ids -> Versions]
    /\ notified \subseteq Ids
    /\ items \in Versions

Init ==
    /\ room = None /\ token = 0
    /\ rowsOf = None /\ upto = 0 /\ wrong = FALSE /\ drift = FALSE
    /\ thread = FALSE /\ rebuildAfter = None /\ timer = None
    /\ queue = << >>
    /\ sent = 0 /\ tok = [i \in Ids |-> 0] /\ anew = [i \in Ids |-> FALSE]
    /\ at = [i \in Ids |-> "unsent"]
    /\ closes = {} /\ asked = [t \in Tokens |-> 0]
    /\ latest = None /\ slot = None
    /\ told = [i \in Ids |-> 0] /\ held = [i \in Ids |-> 0] /\ notified = {}
    /\ items = 0

-----------------------------------------------------------------------------
(* The front end *)

(* DiffListModel::clear.                                                      *)
Clear == rowsOf' = None /\ upto' = 0 /\ wrong' = FALSE /\ drift' = FALSE

Send(which, other) ==
    /\ sent < MaxOpens
    /\ sent' = sent + 1
    /\ tok' = [tok EXCEPT ![sent + 1] = which]
    /\ anew' = [anew EXCEPT ![sent + 1] = other]
    /\ at' = [at EXCEPT ![sent + 1] = "sent"]
    /\ UNCHANGED closes

(* A thread that closes lets the rebuild that waited for it run: next turn,     *)
(* because this may run inside openRoom.                                       *)
ClosesThread ==
    /\ thread' = FALSE
    /\ IF thread /\ rebuildAfter # None
       THEN timer' = rebuildAfter /\ rebuildAfter' = None
       ELSE UNCHANGED <<timer, rebuildAfter>>

(* openRoom with a view of its own: another room, another slice, a rebuild.     *)
NewView(r) ==
    /\ Send(token + 1, TRUE)
    /\ token' = token + 1
    /\ room' = r
    /\ Clear

coreVars == <<asked, latest, slot, streamVars, items>>

OpenRoom(r) ==
    /\ sent < UserOpens
    /\ NewView(r)
    /\ ClosesThread
    /\ UNCHANGED <<queue, coreVars>>

(* The room that is open already: the rows stay, and the view, unless it was    *)
(* built under another receipt setting.                                        *)
OpenAgain(receipts) ==
    /\ room # None /\ sent < UserOpens
    /\ Send(token, receipts)
    /\ UNCHANGED <<room, token, rowVars, threadVars, queue, coreVars>>

CloseRoom ==
    /\ room # None
    /\ room' = None
    /\ Clear
    /\ thread' = FALSE
    /\ closes' = closes \cup {token}
    /\ UNCHANGED <<token, rebuildAfter, timer, queue, sent, tok, anew, at, coreVars>>

OpenThread ==
    /\ room # None /\ ~thread
    /\ thread' = TRUE
    /\ UNCHANGED <<room, token, rowVars, rebuildAfter, timer, queue, commandVars, at, coreVars>>

CloseThread ==
    /\ thread
    /\ ClosesThread
    /\ UNCHANGED <<room, token, rowVars, queue, commandVars, at, coreVars>>

TimerFires ==
    /\ timer # None
    /\ timer' = None
    /\ IF timer = room /\ ~thread
       THEN NewView(room)
       ELSE UNCHANGED <<room, token, rowVars, commandVars, at>>
    /\ UNCHANGED <<thread, rebuildAfter, queue, coreVars>>

(* A bug: the room alone tells whose rows they are.                            *)
AnyView(m) == room # None

Mine(m) == room # None /\ m.tok = token

(* applyOperation. A reset or a clear fits anything. The first operation that   *)
(* does not fit asks for the rows anew, and until they come nothing asks again. *)
Fits(m) == m.whole \/ (rowsOf = m.from /\ upto = m.lo /\ ~wrong)

(* A bug: what was out of step stays so.                                        *)
ApplyKeepsDrift(m) ==
    \/ /\ Fits(m)
       /\ rowsOf' = m.from /\ upto' = m.hi /\ wrong' = FALSE
       /\ UNCHANGED <<drift, asked>>
    \/ /\ ~Fits(m)
       /\ wrong' = TRUE
       /\ \/ UNCHANGED <<drift, asked>>
          \/ /\ drift' = TRUE
             /\ asked' = IF drift THEN asked ELSE [asked EXCEPT ![token] = @ + 1]
       /\ UNCHANGED <<rowsOf, upto>>

Apply(m) ==
    \/ /\ Fits(m)
       /\ rowsOf' = m.from /\ upto' = m.hi /\ wrong' = FALSE
       /\ drift' = (drift /\ ~m.whole)
       /\ UNCHANGED asked
    \/ /\ ~Fits(m)
       /\ wrong' = TRUE
       /\ \/ UNCHANGED <<drift, asked>>
          \/ /\ drift' = TRUE
             /\ asked' = IF drift THEN asked ELSE [asked EXCEPT ![token] = @ + 1]
       /\ UNCHANGED <<rowsOf, upto>>

HearDiff ==
    /\ queue # << >> /\ Head(queue).is = "diff"
    /\ queue' = Tail(queue)
    /\ IF Mine(Head(queue)) THEN Apply(Head(queue)) ELSE UNCHANGED <<rowVars, asked>>
    /\ UNCHANGED <<room, token, threadVars, commandVars, at, latest, slot, streamVars, items>>

(* The core had no such view: the room is opened anew. That would close a       *)
(* thread, so with one open the rows go now and the rebuild waits for it.       *)
Reopen ==
    IF thread
    THEN Clear /\ rebuildAfter' = room /\ UNCHANGED <<room, token, commandVars, at>>
    ELSE NewView(room) /\ UNCHANGED rebuildAfter

HearReply ==
    /\ queue # << >> /\ Head(queue).is = "reply"
    /\ queue' = Tail(queue)
    /\ IF Mine(Head(queue)) /\ ~Head(queue).meant
       THEN Reopen
       ELSE UNCHANGED <<room, token, rowVars, rebuildAfter, commandVars, at>>
    /\ UNCHANGED <<thread, timer, coreVars>>

-----------------------------------------------------------------------------
(* The core's commands *)

frontVars == <<room, token, rowVars, threadVars, commandVars>>

(* timeline.open under its lock: the last to draw a number stops what is still   *)
(* being fetched, and keeps the view it finds or closes it.                     *)
OpenTakes(i) ==
    /\ at[i] = "sent"
    /\ latest' = i
    /\ IF slot # None /\ tok[slot] = tok[i] /\ ~anew[i]
       THEN at' = [at EXCEPT ![i] = "kept"] /\ UNCHANGED slot
       ELSE /\ at' = [v \in Ids |-> IF v = i THEN "building"
                                    ELSE IF v = slot THEN "closed" ELSE at[v]]
            /\ slot' = None
    /\ UNCHANGED <<frontVars, queue, asked, streamVars, items>>

(* Refused, past its thirty seconds, or stopped by who came later.              *)
BuildFails(i) ==
    /\ at[i] = "building"
    /\ at' = [at EXCEPT ![i] = "failed"]
    /\ UNCHANGED <<frontVars, queue, asked, latest, slot, streamVars, items>>

(* A bug: the stream begins one change after the list it sent.                   *)
ResetSkips(i) ==
    /\ queue' = Append(queue, [is |-> "diff", tok |-> tok[i], from |-> i,
                               lo |-> items, hi |-> items, whole |-> TRUE])
    /\ told' = [told EXCEPT ![i] = items + 1]
    /\ held' = [held EXCEPT ![i] = items + 1]

(* The whole list as it is now, under the view's token.                         *)
Reset(i) ==
    /\ queue' = Append(queue, [is |-> "diff", tok |-> tok[i], from |-> i,
                               lo |-> items, hi |-> items, whole |-> TRUE])
    /\ told' = [told EXCEPT ![i] = items]
    /\ held' = [held EXCEPT ![i] = items]

(* Fetched, a view subscribes and streams, whoever came later: its local half   *)
(* is not cut off.                                                             *)
BuildStarts(i) ==
    /\ at[i] = "building"
    /\ at' = [at EXCEPT ![i] = "streaming"]
    /\ Reset(i)
    /\ UNCHANGED <<frontVars, asked, latest, slot, notified, items>>

OpenEnds(i) ==
    /\ at[i] = "streaming"
    /\ IF latest = i
       THEN at' = [at EXCEPT ![i] = "shown"] /\ slot' = i
       ELSE at' = [at EXCEPT ![i] = "closed"] /\ UNCHANGED slot
    /\ UNCHANGED <<frontVars, queue, asked, latest, streamVars, items>>

(* timeline.close: the view it names, in its slot or still being built.         *)
CloseTakes(t) ==
    /\ t \in closes
    /\ closes' = closes \ {t}
    /\ IF slot # None
       THEN /\ UNCHANGED latest
            /\ IF tok[slot] = t
               THEN at' = [at EXCEPT ![slot] = "closed"] /\ slot' = None
               ELSE UNCHANGED <<at, slot>>
       ELSE /\ UNCHANGED <<at, slot>>
            /\ IF /\ latest # None /\ at[latest] \in {"building", "streaming"}
                  /\ tok[latest] = t
               THEN latest' = None ELSE UNCHANGED latest
    /\ UNCHANGED <<room, token, rowVars, threadVars, queue, sent, tok, anew, asked,
                   streamVars, items>>

(* A bug: whatever is open was meant.                                           *)
ResyncTakesAny(t) ==
    /\ asked[t] > 0
    /\ asked' = [asked EXCEPT ![t] = @ - 1]
    /\ notified' = notified \cup ({slot} \ {None})
    /\ queue' = Append(queue, [is |-> "reply", tok |-> t, meant |-> TRUE])
    /\ UNCHANGED <<frontVars, at, latest, slot, told, held, items>>

(* timeline.resync: the view in the slot is told, if it is the one meant.       *)
ResyncTakes(t) ==
    LET meant == slot # None /\ tok[slot] = t IN
    /\ asked[t] > 0
    /\ asked' = [asked EXCEPT ![t] = @ - 1]
    /\ notified' = IF meant THEN notified \cup {slot} ELSE notified
    /\ queue' = Append(queue, [is |-> "reply", tok |-> t, meant |-> meant])
    /\ UNCHANGED <<frontVars, at, latest, slot, told, held, items>>

-----------------------------------------------------------------------------
(* A view's stream *)

CoreChanges ==
    /\ items < MaxChanges
    /\ items' = items + 1
    /\ UNCHANGED <<frontVars, queue, at, asked, latest, slot, streamVars>>

(* The task takes what has changed since ...                                   *)
StreamTakes(i) ==
    /\ at[i] \in Live /\ held[i] = told[i] /\ told[i] < items
    /\ held' = [held EXCEPT ![i] = items]
    /\ UNCHANGED <<frontVars, queue, at, asked, latest, slot, told, notified, items>>

(* ... and sends it. Aborted in between it still does: nobody waits for its end.  *)
(* What a batch holds may be a reset of the list.                              *)
StreamTells(i, whole) ==
    /\ held[i] # told[i]
    /\ queue' = Append(queue, [is |-> "diff", tok |-> tok[i], from |-> i,
                               lo |-> told[i], hi |-> held[i], whole |-> whole])
    /\ told' = [told EXCEPT ![i] = held[i]]
    /\ UNCHANGED <<frontVars, at, asked, latest, slot, held, notified, items>>

(* Asked for the rows anew: a subscription of its own, so that the reset and     *)
(* what follows it agree.                                                     *)
StreamResyncs(i) ==
    /\ at[i] \in Live /\ held[i] = told[i] /\ i \in notified
    /\ notified' = notified \ {i}
    /\ Reset(i)
    /\ UNCHANGED <<frontVars, at, asked, latest, slot, items>>

-----------------------------------------------------------------------------

User ==
    \/ \E r \in Rooms : OpenRoom(r)
    \/ \E receipts \in BOOLEAN : OpenAgain(receipts)
    \/ CloseRoom \/ OpenThread \/ CloseThread

Hear == HearDiff \/ HearReply

Command ==
    \/ \E i \in Ids : OpenTakes(i) \/ OpenEnds(i)
    \/ \E t \in Tokens : CloseTakes(t) \/ ResyncTakes(t)

Build == \E i \in Ids : BuildStarts(i) \/ BuildFails(i)

Stream ==
    \E i \in Ids : StreamTakes(i) \/ StreamResyncs(i) \/ \E whole \in BOOLEAN : StreamTells(i, whole)

Next == User \/ Hear \/ TimerFires \/ Command \/ Build \/ Stream \/ CoreChanges

(* Every command is a task of its own, every build has a limit, and every view  *)
(* a task that loops; the front end handles its queue.                         *)
Fairness ==
    /\ WF_vars(Hear) /\ WF_vars(TimerFires)
    /\ \A i \in Ids :
        /\ WF_vars(OpenTakes(i)) /\ WF_vars(OpenEnds(i))
        /\ WF_vars(BuildStarts(i) \/ BuildFails(i))
        /\ WF_vars(StreamResyncs(i)) /\ WF_vars(\E whole \in BOOLEAN : StreamTells(i, whole))
    /\ \A t \in Tokens : WF_vars(ResyncTakes(t))

Spec == Init /\ [][Next]_vars /\ Fairness

-----------------------------------------------------------------------------
(* Properties *)

Streamed(i) == at[i] \in {"streaming", "shown", "closed"}

OneView == \A i, j \in Ids : Streamed(i) /\ Streamed(j) /\ tok[i] = token /\ tok[j] = token => i = j

QueuedOf(i) == {k \in 1..Len(queue) : queue[k].is = "diff" /\ queue[k].from = i}

(* Where one view alone has streamed under the page's token, no diff ever misses  *)
(* its place, whatever other views left in the queue, however often it was sent   *)
(* anew; and when the queue holds nothing of it any more, the rows are the list   *)
(* as the view last told it (timeline.rs start, the token test of                *)
(* matrixbridge.cpp eventTimeline).                                              *)
InStep ==
    room # None /\ OneView =>
        /\ ~wrong /\ ~drift
        /\ \A i \in Ids :
            Streamed(i) /\ tok[i] = token /\ QueuedOf(i) = {} => rowsOf = i /\ upto = told[i]

(* An open of the page's token is on its way, or its view is there to stay. One    *)
(* a later open overtook streams for a moment and is closed.                     *)
Coming(i) ==
    /\ tok[i] = token
    /\ at[i] \in {"sent", "building", "shown"} \/ (at[i] = "streaming" /\ latest = i)

(* What will bring the page its rows anew.                                      *)
ResetQueued == \E k \in 1..Len(queue) : Mine(queue[k]) /\ queue[k].is = "diff" /\ queue[k].whole
RefusalQueued == \E k \in 1..Len(queue) : Mine(queue[k]) /\ queue[k].is = "reply" /\ ~queue[k].meant

(* The model reports a drift once and then stays silent. So while it is out of    *)
(* step the way back is always under way: the request, its refusal, a view that   *)
(* was told, the reset itself, or another build under the token - or no view of   *)
(* the token is left, and the failed open was the page's answer.                 *)
DriftOwed ==
    drift =>
        /\ room # None
        /\ \/ asked[token] > 0 \/ ResetQueued \/ RefusalQueued
           \/ \E i \in notified : tok[i] = token /\ at[i] \in Live
           \/ \E i \in Ids : tok[i] = token /\ at[i] \in {"sent", "building"}
           \/ ~\E i \in Ids : Coming(i)

(* Rows out of step do not stay so while a view of the room is there.            *)
DriftHeals == drift ~> (~drift \/ ~(\E i \in Ids : Coming(i)) \/ sent = MaxOpens)
=============================================================================
