-------------------------- MODULE RoomFeedProofs --------------------------
(* Proofs about RoomFeed, for any rooms and any number of opens and changes:    *)
(* while the rows are out of step, the way back is always under way; and while  *)
(* one view alone streams to them, they stay in step.                          *)
EXTENDS RoomFeed, SequenceTheorems, TLAPS

-----------------------------------------------------------------------------
(* The inductive invariant *)

(* Commands count up, and a token never runs ahead of them.                     *)
Counted ==
    /\ token <= sent
    /\ \A i \in Ids : i > sent => at[i] = "unsent"

(* The slot holds the one view that is shown, and while it does the last open is    *)
(* over.                                                                      *)
OneShown ==
    /\ slot # None => at[slot] = "shown"
    /\ \A i \in Ids : at[i] = "shown" => slot = i
    /\ slot # None /\ latest # None => at[latest] \notin {"building", "streaming"}

(* What will bring the rows anew, as far as the steps keep it.                    *)
Told == \E i \in notified : tok[i] = token /\ at[i] = "shown"
Built == latest # None /\ at[latest] = "building" /\ tok[latest] = token
NoView ==
    \A i \in Ids :
        tok[i] = token => at[i] # "shown" /\ ~(latest = i /\ at[i] \in {"building", "streaming"})

Way == asked[token] > 0 \/ ResetQueued \/ RefusalQueued \/ Told \/ Built \/ NoView

Owed == drift => room # None /\ Way

IInv == TypeOK /\ Counted /\ OneShown /\ Owed

(* What keeps the rows in step, over and above.                                   *)

(* Nothing runs ahead of the page's token.                                       *)
Behind ==
    /\ \A i \in Ids : tok[i] <= token
    /\ \A t \in Tokens : t > token => asked[t] = 0
    /\ \A k \in 1..Len(queue) : queue[k].tok <= token

(* What a view told carries its token, and was told since it streams.              *)
Theirs ==
    \A k \in 1..Len(queue) : queue[k].is = "diff" =>
        Streamed(queue[k].from) /\ queue[k].tok = tok[queue[k].from]

(* Of one view, what comes next in the queue goes on where the one before ended ...  *)
Linked ==
    \A i \in Ids : \A a, b \in QueuedOf(i) :
        a < b /\ (\A c \in QueuedOf(i) : c <= a \/ b <= c)
            => queue[b].whole \/ queue[b].lo = queue[a].hi

(* ... and the last ends where the view is.                                       *)
LastTold ==
    \A i \in Ids : \A a \in QueuedOf(i) :
        (\A c \in QueuedOf(i) : c <= a) => queue[a].hi = told[i]

(* The first of it fits the rows; where there is none, they are the view's.          *)
Ready(i) ==
    /\ QueuedOf(i) = {} => rowsOf = i /\ upto = told[i]
    /\ \A a \in QueuedOf(i) :
           (\A c \in QueuedOf(i) : a <= c)
               => queue[a].whole \/ (rowsOf = i /\ upto = queue[a].lo)

(* While one view alone has streamed to the page, nothing was asked for anew.         *)
InPlace ==
    room # None /\ OneView =>
        /\ ~wrong /\ ~drift /\ asked[token] = 0
        /\ \A k \in 1..Len(queue) : queue[k].is = "reply" => queue[k].tok # token
        /\ \A i \in Ids : Streamed(i) /\ tok[i] = token => Ready(i)

(* A view that is to tell something streams.                                       *)
Telling == \A i \in Ids : held[i] # told[i] => Streamed(i)

StepInv == Behind /\ Telling /\ Theirs /\ Linked /\ LastTold /\ InPlace

USE DEF Ids, Tokens, Versions

-----------------------------------------------------------------------------
(* Types *)

Messages == Diffs \cup Replies

(* Everything TypeOK says but of the queue, the rows and what is being sent.      *)
LEMMA MessagesFit ==
    /\ \A t \in Tokens, i \in Ids, lo, hi \in Versions, whole \in BOOLEAN :
        [is |-> "diff", tok |-> t, from |-> i, lo |-> lo, hi |-> hi, whole |-> whole] \in Messages
    /\ \A t \in Tokens, meant \in BOOLEAN :
        [is |-> "reply", tok |-> t, meant |-> meant] \in Messages
BY DEF Messages, Diffs, Replies

LEMMA AppendTyped ==
    ASSUME queue \in Seq(Messages), NEW m \in Messages PROVE Append(queue, m) \in Seq(Messages)
OBVIOUS

LEMMA HeadTailTyped ==
    ASSUME queue \in Seq(Messages), queue # << >>
    PROVE  Head(queue) \in Messages /\ Tail(queue) \in Seq(Messages)
OBVIOUS

FrontOK ==
    /\ room \in Rooms \cup {None} /\ token \in Tokens
    /\ rowsOf \in Ids \cup {None} /\ upto \in Versions /\ wrong \in BOOLEAN /\ drift \in BOOLEAN
    /\ thread \in BOOLEAN /\ rebuildAfter \in Rooms \cup {None} /\ timer \in Rooms \cup {None}

SentOK ==
    /\ sent \in 0..MaxOpens
    /\ tok \in [Ids -> Tokens] /\ anew \in [Ids -> BOOLEAN] /\ at \in [Ids -> Places]
    /\ closes \subseteq Tokens

CoreOK ==
    /\ asked \in [Tokens -> Nat]
    /\ latest \in Ids \cup {None} /\ slot \in Ids \cup {None}
    /\ told \in [Ids -> Versions] /\ held \in [Ids -> Versions]
    /\ notified \subseteq Ids
    /\ items \in Versions

LEMMA TypeParts == TypeOK <=> FrontOK /\ SentOK /\ CoreOK /\ queue \in Seq(Messages)
BY DEF TypeOK, FrontOK, SentOK, CoreOK, Messages

LEMMA TypePartsNext == TypeOK' <=> FrontOK' /\ SentOK' /\ CoreOK' /\ queue' \in Seq(Messages)
BY DEF TypeOK, FrontOK, SentOK, CoreOK, Messages

(* A command that is sent is the next, and was none before.                       *)
LEMMA SendFacts ==
    ASSUME SentOK, Counted, NEW which \in Tokens, NEW other \in BOOLEAN, Send(which, other),
           token' \in Tokens, token' <= sent + 1
    PROVE  /\ SentOK' /\ Counted'
           /\ sent + 1 \in Ids /\ at[sent + 1] = "unsent"
           /\ at' = [at EXCEPT ![sent + 1] = "sent"]
           /\ \A i \in Ids : i # sent + 1 => tok'[i] = tok[i]
           /\ tok'[sent + 1] = which
<1>1. /\ sent' = sent + 1 /\ sent + 1 \in Ids /\ closes' = closes
      /\ tok' = [tok EXCEPT ![sent + 1] = which]
      /\ anew' = [anew EXCEPT ![sent + 1] = other]
      /\ at' = [at EXCEPT ![sent + 1] = "sent"]
  BY FeedAssumption DEF Send, SentOK
<1>2. at[sent + 1] = "unsent"
  BY <1>1 DEF Counted, SentOK
<1>3. SentOK'
  BY <1>1, FeedAssumption DEF SentOK, Places
<1>4. Counted'
  BY <1>1, FeedAssumption DEF Counted, SentOK
<1> QED BY <1>1, <1>2, <1>3, <1>4 DEF SentOK

LEMMA NewViewFacts ==
    ASSUME FrontOK, SentOK, Counted, NEW r \in Rooms, NewView(r)
    PROVE  /\ SentOK' /\ Counted' /\ room' = r /\ token' \in Tokens
           /\ rowsOf' = None /\ upto' = 0 /\ wrong' = FALSE /\ drift' = FALSE
           /\ sent + 1 \in Ids /\ at[sent + 1] = "unsent"
           /\ at' = [at EXCEPT ![sent + 1] = "sent"]
<1>1. /\ Send(token + 1, TRUE) /\ token' = token + 1 /\ room' = r
      /\ rowsOf' = None /\ upto' = 0 /\ wrong' = FALSE /\ drift' = FALSE
  BY DEF NewView, Clear
<1>2. token + 1 \in Tokens /\ token' <= sent + 1
  BY <1>1, FeedAssumption DEF Send, Counted, FrontOK, SentOK
<1> QED BY <1>1, <1>2, SendFacts

(* What the front end has once its rows are gone.                                 *)
LEMMA ClearedFront ==
    ASSUME room' \in Rooms \cup {None}, token' \in Tokens,
           rowsOf' = None, upto' = 0, wrong' = FALSE, drift' = FALSE, thread' \in BOOLEAN,
           rebuildAfter' \in Rooms \cup {None}, timer' \in Rooms \cup {None}
    PROVE  FrontOK'
<1>1. 0 \in Versions
  BY FeedAssumption
<1> QED BY <1>1 DEF FrontOK

(* A command only sent changes nothing in the core.                              *)
LEMMA SentNotShown ==
    ASSUME SentOK, OneShown, NEW i \in Ids, at[i] = "unsent", at' = [at EXCEPT ![i] = "sent"],
           UNCHANGED <<latest, slot>>
    PROVE  OneShown'
<1>1. \A j \in Ids : at'[j] = IF j = i THEN "sent" ELSE at[j]
  BY DEF SentOK
<1>2. slot # None => slot # i
  BY DEF OneShown
<1>3. latest = None \/ latest # i \/ at[latest] = "unsent"
  OBVIOUS
<1> QED BY <1>1, <1>2, <1>3 DEF OneShown, SentOK

Basis == FrontOK /\ SentOK /\ CoreOK /\ queue \in Seq(Messages) /\ Counted /\ OneShown

LEMMA UserSteps == ASSUME Basis, User PROVE Basis'
<1> USE DEF rowVars, threadVars, commandVars, streamVars, coreVars
<1>1. ASSUME NEW r \in Rooms, OpenRoom(r) PROVE Basis'
  <2>1. NewView(r) /\ ClosesThread /\ UNCHANGED <<queue, asked, latest, slot, told, held, notified, items>>
    BY <1>1 DEF OpenRoom
  <2>2. /\ SentOK' /\ Counted' /\ room' = r /\ token' \in Tokens
        /\ rowsOf' = None /\ upto' = 0 /\ wrong' = FALSE /\ drift' = FALSE
        /\ sent + 1 \in Ids /\ at[sent + 1] = "unsent"
        /\ at' = [at EXCEPT ![sent + 1] = "sent"]
    BY <2>1, NewViewFacts DEF Basis
  <2>3. thread' = FALSE /\ timer' \in Rooms \cup {None} /\ rebuildAfter' \in Rooms \cup {None}
    BY <2>1 DEF ClosesThread, Basis, FrontOK
  <2>4. FrontOK'
    BY <2>2, <2>3, ClearedFront
  <2>5. CoreOK' /\ queue' \in Seq(Messages)
    BY <2>1 DEF CoreOK, Basis
  <2>6. OneShown'
    BY <2>1, <2>2, SentNotShown DEF Basis
  <2> QED BY <2>2, <2>4, <2>5, <2>6 DEF Basis
<1>2. ASSUME NEW receipts \in BOOLEAN, OpenAgain(receipts) PROVE Basis'
  <2>1. /\ Send(token, receipts)
        /\ UNCHANGED <<room, token, rowVars, threadVars, queue, asked, latest, slot, told, held,
                       notified, items>>
    BY <1>2 DEF OpenAgain
  <2>2. token \in Tokens /\ token' <= sent + 1
    BY <2>1, FeedAssumption DEF Basis, FrontOK, SentOK, Counted
  <2>3. /\ SentOK' /\ Counted'
        /\ sent + 1 \in Ids /\ at[sent + 1] = "unsent"
        /\ at' = [at EXCEPT ![sent + 1] = "sent"]
    BY <2>1, <2>2, SendFacts DEF Basis
  <2>4. FrontOK' /\ CoreOK' /\ queue' \in Seq(Messages)
    BY <2>1 DEF FrontOK, CoreOK, Basis
  <2>5. OneShown'
    BY <2>1, <2>3, SentNotShown DEF Basis
  <2> QED BY <2>3, <2>4, <2>5 DEF Basis
<1>3. CASE CloseRoom
  <2>1. /\ room' = None /\ rowsOf' = None /\ upto' = 0 /\ wrong' = FALSE /\ drift' = FALSE
        /\ thread' = FALSE /\ closes' = closes \cup {token}
        /\ UNCHANGED <<token, rebuildAfter, timer, queue, sent, tok, anew, at, asked, latest, slot,
                       told, held, notified, items>>
    BY <1>3 DEF CloseRoom, Clear
  <2>2. FrontOK'
    BY <2>1, ClearedFront DEF FrontOK, Basis
  <2>a. SentOK'
    BY <2>1 DEF FrontOK, SentOK, Basis
  <2>3. CoreOK' /\ queue' \in Seq(Messages) /\ Counted' /\ OneShown'
    BY <2>1 DEF CoreOK, Basis, Counted, OneShown
  <2> QED BY <2>2, <2>a, <2>3 DEF Basis
<1>4. CASE OpenThread \/ CloseThread
  <2>1. /\ thread' \in BOOLEAN /\ timer' \in Rooms \cup {None} /\ rebuildAfter' \in Rooms \cup {None}
        /\ UNCHANGED <<room, token, rowVars, queue, sent, tok, anew, closes, at, asked, latest, slot,
                       told, held, notified, items>>
    BY <1>4 DEF OpenThread, CloseThread, ClosesThread, Basis, FrontOK
  <2> QED BY <2>1 DEF Basis, FrontOK, SentOK, CoreOK, Counted, OneShown
<1> QED BY <1>1, <1>2, <1>3, <1>4 DEF User

LEMMA HearSteps == ASSUME Basis, Hear \/ TimerFires PROVE Basis'
<1> USE DEF rowVars, threadVars, commandVars, streamVars, coreVars
<1>1. CASE TimerFires
  <2>1. /\ timer # None /\ timer' = None /\ thread' = thread /\ rebuildAfter' = rebuildAfter
        /\ UNCHANGED <<queue, asked, latest, slot, told, held, notified, items>>
    BY <1>1 DEF TimerFires
  <2>2. CoreOK' /\ queue' \in Seq(Messages)
    BY <2>1 DEF CoreOK, Basis
  <2>3. CASE NewView(room) /\ room = timer
    <3>0. room \in Rooms
      BY <2>1, <2>3 DEF Basis, FrontOK
    <3>1. /\ SentOK' /\ Counted' /\ room' = room /\ token' \in Tokens
          /\ rowsOf' = None /\ upto' = 0 /\ wrong' = FALSE /\ drift' = FALSE
          /\ sent + 1 \in Ids /\ at[sent + 1] = "unsent"
          /\ at' = [at EXCEPT ![sent + 1] = "sent"]
      BY <2>3, <3>0, NewViewFacts DEF Basis
    <3>2. FrontOK'
      BY <2>1, <3>0, <3>1, ClearedFront DEF Basis, FrontOK
    <3>3. OneShown'
      BY <2>1, <3>1, SentNotShown DEF Basis
    <3> QED BY <2>2, <3>1, <3>2, <3>3 DEF Basis
  <2>4. CASE UNCHANGED <<room, token, rowVars, commandVars, at>>
    BY <2>1, <2>2, <2>4 DEF Basis, FrontOK, SentOK, Counted, OneShown
  <2> QED BY <1>1, <2>3, <2>4 DEF TimerFires
<1>2. CASE HearDiff
  <2>1. /\ Head(queue) \in Messages /\ queue' \in Seq(Messages) /\ Head(queue).is = "diff"
        /\ UNCHANGED <<room, token, threadVars, commandVars, at, latest, slot, streamVars, items>>
    BY <1>2, HeadTailTyped DEF HearDiff, Basis
  <2> DEFINE m == Head(queue)
  <2>2. m.from \in Ids /\ m.hi \in Versions /\ m.whole \in BOOLEAN
    BY <2>1 DEF Messages, Diffs, Replies
  <2>3. /\ rowsOf' \in Ids \cup {None} /\ upto' \in Versions /\ wrong' \in BOOLEAN
        /\ drift' \in BOOLEAN
    <3>1. CASE UNCHANGED <<rowsOf, upto, wrong, drift>>
      BY <3>1 DEF Basis, FrontOK
    <3>2. CASE Apply(m)
      BY <3>2, <2>2 DEF Apply, Basis, FrontOK
    <3> QED BY <1>2, <3>1, <3>2 DEF HearDiff
  <2>4. asked' \in [Tokens -> Nat]
    <3>1. CASE asked' = asked
      BY <3>1 DEF Basis, CoreOK
    <3>2. CASE asked' = [asked EXCEPT ![token] = @ + 1]
      BY <3>2 DEF Basis, CoreOK, FrontOK
    <3> QED BY <1>2, <3>1, <3>2 DEF HearDiff, Apply
  <2>5. FrontOK' /\ SentOK' /\ CoreOK'
    BY <2>1, <2>3, <2>4 DEF FrontOK, SentOK, CoreOK, Basis
  <2>6. Counted' /\ OneShown'
    BY <2>1 DEF Counted, OneShown, Basis
  <2> QED BY <2>1, <2>5, <2>6 DEF Basis
<1>3. CASE HearReply
  <2>1. /\ queue' \in Seq(Messages)
        /\ UNCHANGED <<thread, timer, asked, latest, slot, streamVars, items>>
    BY <1>3, HeadTailTyped DEF HearReply, Basis
  <2>2. CoreOK'
    BY <2>1 DEF CoreOK, Basis
  <2>3. CASE NewView(room) /\ rebuildAfter' = rebuildAfter /\ room # None
    <3>0. room \in Rooms
      BY <2>3 DEF Basis, FrontOK
    <3>1. /\ SentOK' /\ Counted' /\ room' = room /\ token' \in Tokens
          /\ rowsOf' = None /\ upto' = 0 /\ wrong' = FALSE /\ drift' = FALSE
          /\ sent + 1 \in Ids /\ at[sent + 1] = "unsent"
          /\ at' = [at EXCEPT ![sent + 1] = "sent"]
      BY <2>3, <3>0, NewViewFacts DEF Basis
    <3>2. FrontOK'
      BY <2>1, <2>3, <3>0, <3>1, ClearedFront DEF Basis, FrontOK
    <3>3. OneShown'
      BY <2>1, <3>1, SentNotShown DEF Basis
    <3> QED BY <2>1, <2>2, <3>1, <3>2, <3>3 DEF Basis
  <2>4. CASE /\ UNCHANGED <<room, token, sent, tok, anew, closes, at>>
             /\ UNCHANGED <<rowsOf, upto, wrong, drift>>
                \/ (rowsOf' = None /\ upto' = 0 /\ wrong' = FALSE /\ drift' = FALSE)
             /\ rebuildAfter' \in {rebuildAfter, room}
    <3>a. /\ room' \in Rooms \cup {None} /\ token' \in Tokens /\ thread' \in BOOLEAN
          /\ rebuildAfter' \in Rooms \cup {None} /\ timer' \in Rooms \cup {None}
      BY <2>1, <2>4 DEF Basis, FrontOK
    <3>1. FrontOK'
      <4>1. CASE UNCHANGED <<rowsOf, upto, wrong, drift>>
        BY <3>a, <4>1 DEF Basis, FrontOK
      <4>2. CASE rowsOf' = None /\ upto' = 0 /\ wrong' = FALSE /\ drift' = FALSE
        BY <3>a, <4>2, ClearedFront
      <4> QED BY <2>4, <4>1, <4>2
    <3> QED BY <2>1, <2>2, <2>4, <3>1 DEF Basis, SentOK, Counted, OneShown
  <2> QED BY <1>3, <2>3, <2>4 DEF HearReply, Reopen, Mine, Clear
<1> QED BY <1>1, <1>2, <1>3 DEF Hear

(* The commands, the builds and the streams leave the front end alone.             *)
LEMMA FrontRests ==
    ASSUME FrontOK, UNCHANGED <<room, token, rowVars, threadVars>> PROVE FrontOK'
BY DEF FrontOK, rowVars, threadVars

(* An open moves from place to place; neither it nor the view it closes is one not  *)
(* sent.                                                                      *)
LEMMA MovesOn ==
    ASSUME SentOK, Counted, UNCHANGED <<token, sent, tok, anew>>, closes' \subseteq closes,
           at' \in [Ids -> Places],
           \A i \in Ids : at[i] = "unsent" => at'[i] = "unsent"
    PROVE  SentOK' /\ Counted'
BY DEF SentOK, Counted

LEMMA CommandSteps == ASSUME Basis, Command PROVE Basis'
<1> USE DEF frontVars, commandVars, streamVars
<1>0. None \notin Ids
  BY FeedAssumption
<1>1. ASSUME NEW i \in Ids, OpenTakes(i) PROVE Basis'
  <2>1. /\ at[i] = "sent" /\ latest' = i
        /\ UNCHANGED <<room, token, rowVars, threadVars, sent, tok, anew, closes, queue, asked, told,
                       held, notified, items>>
    BY <1>1 DEF OpenTakes
  <2>2. FrontOK'
    BY <2>1, FrontRests DEF Basis
  <2>3. CASE slot # None /\ at' = [at EXCEPT ![i] = "kept"] /\ slot' = slot
    <3>1. \A j \in Ids : at'[j] = IF j = i THEN "kept" ELSE at[j]
      BY <2>3 DEF Basis, SentOK
    <3>2. at' \in [Ids -> Places]
      BY <2>3 DEF Basis, SentOK, Places
    <3>3. SentOK' /\ Counted'
      BY <2>1, <3>1, <3>2, MovesOn DEF Basis
    <3>4. OneShown'
      BY <1>0, <2>1, <2>3, <3>1 DEF Basis, OneShown, CoreOK
    <3>5. CoreOK'
      BY <2>1, <2>3 DEF Basis, CoreOK
    <3> QED BY <2>1, <2>2, <3>3, <3>4, <3>5 DEF Basis
  <2>4. CASE /\ at' = [v \in Ids |-> IF v = i THEN "building"
                                     ELSE IF v = slot THEN "closed" ELSE at[v]]
             /\ slot' = None
    <3>1. \A j \in Ids : at'[j] = IF j = i THEN "building" ELSE IF j = slot THEN "closed" ELSE at[j]
      BY <2>4
    <3>2. at' \in [Ids -> Places]
      BY <2>4 DEF Basis, SentOK, Places
    <3>a. slot \in Ids => at[slot] = "shown"
      BY <1>0 DEF Basis, OneShown
    <3>3. SentOK' /\ Counted'
      BY <2>1, <3>1, <3>2, <3>a, MovesOn DEF Basis
    <3>4. OneShown'
      BY <1>0, <2>1, <2>4, <3>1 DEF Basis, OneShown, CoreOK
    <3>5. CoreOK'
      BY <2>1, <2>4 DEF Basis, CoreOK
    <3> QED BY <2>1, <2>2, <3>3, <3>4, <3>5 DEF Basis
  <2> QED BY <1>1, <2>3, <2>4 DEF OpenTakes
<1>2. ASSUME NEW i \in Ids, OpenEnds(i) PROVE Basis'
  <2>1. /\ at[i] = "streaming"
        /\ UNCHANGED <<room, token, rowVars, threadVars, sent, tok, anew, closes, queue, asked, latest,
                       told, held, notified, items>>
    BY <1>2 DEF OpenEnds
  <2>2. FrontOK'
    BY <2>1, FrontRests DEF Basis
  <2>3. PICK place \in {"shown", "closed"} :
            /\ at' = [at EXCEPT ![i] = place]
            /\ place = "shown" => latest = i /\ slot' = i
            /\ place = "closed" => slot' = slot
    BY <1>2 DEF OpenEnds
  <2>4. \A j \in Ids : at'[j] = IF j = i THEN place ELSE at[j]
    BY <2>3 DEF Basis, SentOK
  <2>5. at' \in [Ids -> Places]
    BY <2>3 DEF Basis, SentOK, Places
  <2>6. SentOK' /\ Counted'
    BY <2>1, <2>4, <2>5, MovesOn DEF Basis
  <2>7. OneShown'
    BY <1>0, <2>1, <2>3, <2>4 DEF Basis, OneShown, CoreOK
  <2>8. CoreOK'
    BY <2>1, <2>3 DEF Basis, CoreOK
  <2> QED BY <2>1, <2>2, <2>6, <2>7, <2>8 DEF Basis
<1>3. ASSUME NEW t \in Tokens, CloseTakes(t) PROVE Basis'
  <2>1. /\ closes' \subseteq closes
        /\ UNCHANGED <<room, token, rowVars, threadVars, sent, tok, anew, queue, asked, told, held,
                       notified, items>>
    BY <1>3 DEF CloseTakes
  <2>2. FrontOK'
    BY <2>1, FrontRests DEF Basis
  <2>3. CASE UNCHANGED <<at, slot>> /\ latest' \in {latest, None}
    <3>1. SentOK' /\ Counted'
      BY <2>1, <2>3, MovesOn DEF Basis, SentOK
    <3>2. CoreOK' /\ OneShown'
      BY <2>1, <2>3 DEF Basis, CoreOK, OneShown
    <3> QED BY <2>1, <2>2, <3>1, <3>2 DEF Basis
  <2>4. CASE slot # None /\ at' = [at EXCEPT ![slot] = "closed"] /\ slot' = None /\ latest' = latest
    <3>1. slot \in Ids /\ at[slot] = "shown"
      BY <2>4 DEF Basis, CoreOK, OneShown
    <3>2. \A j \in Ids : at'[j] = IF j = slot THEN "closed" ELSE at[j]
      BY <2>4 DEF Basis, SentOK
    <3>3. at' \in [Ids -> Places]
      BY <2>4 DEF Basis, SentOK, Places
    <3>4. SentOK' /\ Counted'
      BY <2>1, <3>1, <3>2, <3>3, MovesOn DEF Basis
    <3>5. OneShown'
      BY <2>4, <3>2 DEF Basis, OneShown
    <3>6. CoreOK'
      BY <2>1, <2>4 DEF Basis, CoreOK
    <3> QED BY <2>1, <2>2, <3>4, <3>5, <3>6 DEF Basis
  <2> QED BY <1>3, <2>3, <2>4 DEF CloseTakes
<1>4. ASSUME NEW t \in Tokens, ResyncTakes(t) PROVE Basis'
  <2>1. UNCHANGED <<room, token, rowVars, threadVars, sent, tok, anew, closes, at, latest, slot, told,
                    held, items>>
    BY <1>4 DEF ResyncTakes
  <2>2. FrontOK' /\ SentOK' /\ Counted' /\ OneShown'
    BY <2>1, FrontRests DEF Basis, SentOK, Counted, OneShown
  <2>3. asked' \in [Tokens -> Nat]
    <3>1. asked[t] \in Nat /\ asked[t] > 0 /\ asked' = [asked EXCEPT ![t] = asked[t] - 1]
      BY <1>4 DEF ResyncTakes, Basis, CoreOK
    <3>2. asked[t] - 1 \in Nat
      BY <3>1
    <3> QED BY <3>1, <3>2 DEF Basis, CoreOK
  <2>4. notified' \subseteq Ids
    BY <1>4 DEF ResyncTakes, Basis, CoreOK
  <2>5. CoreOK'
    BY <2>1, <2>3, <2>4 DEF Basis, CoreOK
  <2>6. queue' \in Seq(Messages)
    BY <1>4, MessagesFit, AppendTyped DEF ResyncTakes, Basis
  <2> QED BY <2>2, <2>5, <2>6 DEF Basis
<1> QED BY <1>1, <1>2, <1>3, <1>4 DEF Command

(* A reset fits the queue, and the view's versions are the room's.                *)
LEMMA ResetTyped ==
    ASSUME Basis, NEW i \in Ids, Reset(i), UNCHANGED <<asked, latest, slot, items>>,
           notified' \subseteq notified
    PROVE  CoreOK' /\ queue' \in Seq(Messages)
<1>1. items \in Versions /\ tok[i] \in Tokens
  BY DEF Basis, CoreOK, SentOK
<1>2. queue' \in Seq(Messages)
  BY <1>1, MessagesFit, AppendTyped DEF Reset, Basis
<1>3. told' \in [Ids -> Versions] /\ held' \in [Ids -> Versions]
  BY <1>1 DEF Reset, Basis, CoreOK
<1> QED BY <1>2, <1>3 DEF Basis, CoreOK

LEMMA StreamSteps == ASSUME Basis, Build \/ Stream \/ CoreChanges PROVE Basis'
<1> USE DEF frontVars, commandVars, streamVars
<1>0. None \notin Ids
  BY FeedAssumption
<1>1. ASSUME NEW i \in Ids, at[i] = "building", NEW place \in {"streaming", "failed"},
             at' = [at EXCEPT ![i] = place],
             UNCHANGED <<room, token, rowVars, threadVars, sent, tok, anew, closes, latest, slot>>
      PROVE  FrontOK' /\ SentOK' /\ Counted' /\ OneShown'
  <2>1. \A j \in Ids : at'[j] = IF j = i THEN place ELSE at[j]
    BY <1>1 DEF Basis, SentOK
  <2>2. at' \in [Ids -> Places]
    BY <1>1 DEF Basis, SentOK, Places
  <2>3. SentOK' /\ Counted'
    BY <1>1, <2>1, <2>2, MovesOn DEF Basis
  <2>4. OneShown'
    BY <1>0, <1>1, <2>1 DEF Basis, OneShown, CoreOK
  <2> QED BY <1>1, <2>3, <2>4, FrontRests DEF Basis
<1>2. ASSUME NEW i \in Ids, BuildStarts(i) PROVE Basis'
  <2>1. FrontOK' /\ SentOK' /\ Counted' /\ OneShown'
    BY <1>1, <1>2 DEF BuildStarts
  <2>2. CoreOK' /\ queue' \in Seq(Messages)
    BY <1>2, ResetTyped DEF BuildStarts
  <2> QED BY <2>1, <2>2 DEF Basis
<1>3. ASSUME NEW i \in Ids, BuildFails(i) PROVE Basis'
  <2>1. FrontOK' /\ SentOK' /\ Counted' /\ OneShown'
    BY <1>1, <1>3 DEF BuildFails
  <2>2. CoreOK' /\ queue' \in Seq(Messages)
    BY <1>3 DEF BuildFails, Basis, CoreOK
  <2> QED BY <2>1, <2>2 DEF Basis
<1>4. ASSUME UNCHANGED <<room, token, rowVars, threadVars, sent, tok, anew, closes, at, latest, slot>>
      PROVE  FrontOK' /\ SentOK' /\ Counted' /\ OneShown'
  BY <1>4, FrontRests DEF Basis, SentOK, Counted, OneShown
<1>5. CASE CoreChanges
  <2>1. items' \in Versions
    BY <1>5, FeedAssumption DEF CoreChanges, Basis, CoreOK
  <2> QED BY <1>4, <1>5, <2>1 DEF CoreChanges, Basis, CoreOK
<1>6. ASSUME NEW i \in Ids, StreamTakes(i) PROVE Basis'
  <2>1. held' \in [Ids -> Versions]
    BY <1>6 DEF StreamTakes, Basis, CoreOK
  <2> QED BY <1>4, <1>6, <2>1 DEF StreamTakes, Basis, CoreOK
<1>7. ASSUME NEW i \in Ids, NEW whole \in BOOLEAN, StreamTells(i, whole) PROVE Basis'
  <2>1. told[i] \in Versions /\ held[i] \in Versions /\ tok[i] \in Tokens
    BY DEF Basis, CoreOK, SentOK
  <2>2. queue' \in Seq(Messages)
    BY <1>7, <2>1, MessagesFit, AppendTyped DEF StreamTells, Basis
  <2>3. told' \in [Ids -> Versions]
    BY <1>7, <2>1 DEF StreamTells, Basis, CoreOK
  <2>4. CoreOK'
    BY <1>7, <2>3 DEF StreamTells, Basis, CoreOK
  <2> QED BY <1>4, <1>7, <2>2, <2>4 DEF StreamTells, Basis
<1>8. ASSUME NEW i \in Ids, StreamResyncs(i) PROVE Basis'
  <2>1. FrontOK' /\ SentOK' /\ Counted' /\ OneShown'
    BY <1>4, <1>8 DEF StreamResyncs
  <2>2. CoreOK' /\ queue' \in Seq(Messages)
    BY <1>8, ResetTyped DEF StreamResyncs
  <2> QED BY <2>1, <2>2 DEF Basis
<1> QED BY <1>2, <1>3, <1>5, <1>6, <1>7, <1>8 DEF Build, Stream

-----------------------------------------------------------------------------
(* The way back *)

LEMMA AppendKeeps ==
    ASSUME queue \in Seq(Messages), NEW m, queue' = Append(queue, m), UNCHANGED <<room, token>>
    PROVE  /\ ResetQueued => ResetQueued'
           /\ RefusalQueued => RefusalQueued'
           /\ Mine(m) /\ m.is = "diff" /\ m.whole => ResetQueued'
           /\ Mine(m) /\ m.is = "reply" /\ ~m.meant => RefusalQueued'
<1>1. /\ Len(queue) \in Nat /\ Len(queue') = Len(queue) + 1
      /\ queue'[Len(queue) + 1] = m
      /\ \A k \in 1..Len(queue) : queue'[k] = queue[k]
  OBVIOUS
<1>2. /\ \A k \in 1..Len(queue) : k \in 1..Len(queue')
      /\ Len(queue) + 1 \in 1..Len(queue')
  BY <1>1
<1>3. \A x : Mine(x)' <=> Mine(x)
  BY DEF Mine
<1>4. ResetQueued => ResetQueued'
  BY <1>1, <1>2 DEF ResetQueued, Mine
<1>5. RefusalQueued => RefusalQueued'
  BY <1>1, <1>2 DEF RefusalQueued, Mine
<1>6. Mine(m) /\ m.is = "diff" /\ m.whole => ResetQueued'
  BY <1>1, <1>2 DEF ResetQueued, Mine
<1>7. Mine(m) /\ m.is = "reply" /\ ~m.meant => RefusalQueued'
  BY <1>1, <1>2 DEF RefusalQueued, Mine
<1> QED BY <1>4, <1>5, <1>6, <1>7

LEMMA TailKeeps ==
    ASSUME queue \in Seq(Messages), queue # << >>, queue' = Tail(queue), UNCHANGED <<room, token>>
    PROVE  /\ ResetQueued =>
                \/ ResetQueued'
                \/ Mine(Head(queue)) /\ Head(queue).is = "diff" /\ Head(queue).whole
           /\ RefusalQueued =>
                \/ RefusalQueued'
                \/ Mine(Head(queue)) /\ Head(queue).is = "reply" /\ ~Head(queue).meant
<1>1. /\ Len(queue) \in Nat /\ Len(queue) > 0 /\ Len(queue') = Len(queue) - 1
      /\ \A k \in 1..(Len(queue) - 1) : queue'[k] = queue[k + 1]
      /\ Head(queue) = queue[1]
  OBVIOUS
<1>2. \A k \in 1..Len(queue) : k = 1 \/ (k - 1 \in 1..Len(queue') /\ queue'[k - 1] = queue[k])
  BY <1>1
<1>3. ASSUME ResetQueued
      PROVE  \/ ResetQueued'
             \/ Mine(Head(queue)) /\ Head(queue).is = "diff" /\ Head(queue).whole
  <2>1. PICK k \in 1..Len(queue) : Mine(queue[k]) /\ queue[k].is = "diff" /\ queue[k].whole
    BY <1>3 DEF ResetQueued
  <2> QED BY <1>1, <1>2, <2>1 DEF ResetQueued, Mine
<1>4. ASSUME RefusalQueued
      PROVE  \/ RefusalQueued'
             \/ Mine(Head(queue)) /\ Head(queue).is = "reply" /\ ~Head(queue).meant
  <2>1. PICK k \in 1..Len(queue) : Mine(queue[k]) /\ queue[k].is = "reply" /\ ~queue[k].meant
    BY <1>4 DEF RefusalQueued
  <2> QED BY <1>1, <1>2, <2>1 DEF RefusalQueued, Mine
<1> QED BY <1>3, <1>4

(* Where only the rest moves, what is owed stays.                                *)
LEMMA RestKeeps ==
    ASSUME Owed, UNCHANGED <<room, token, drift, asked, tok, at, latest, notified>>,
           ResetQueued => ResetQueued', RefusalQueued => RefusalQueued'
    PROVE  Owed'
BY DEF Owed, Way, Told, Built, NoView

LEMMA FrontOwed == ASSUME Basis, Owed, User \/ Hear \/ TimerFires PROVE Owed'
<1> USE DEF rowVars, threadVars, commandVars, streamVars, coreVars
<1>1. ASSUME drift' = FALSE PROVE Owed'
  BY <1>1 DEF Owed
<1>2. ASSUME UNCHANGED queue, UNCHANGED <<room, token>>
      PROVE  (ResetQueued => ResetQueued') /\ (RefusalQueued => RefusalQueued')
  BY <1>2 DEF ResetQueued, RefusalQueued, Mine
<1>3. CASE OpenThread \/ CloseThread
  BY <1>2, <1>3, RestKeeps DEF OpenThread, CloseThread
<1>4. CASE CloseRoom \/ \E r \in Rooms : OpenRoom(r)
  BY <1>1, <1>4 DEF CloseRoom, OpenRoom, NewView, Clear
<1>5. ASSUME NEW receipts \in BOOLEAN, OpenAgain(receipts) PROVE Owed'
  <2>1. /\ Send(token, receipts)
        /\ UNCHANGED <<room, token, drift, queue, asked, latest, notified>>
    BY <1>5 DEF OpenAgain
  <2>2. token \in Tokens /\ token' <= sent + 1
    BY <2>1, FeedAssumption DEF Basis, FrontOK, SentOK, Counted
  <2> DEFINE n == sent + 1
  <2>3. /\ n \in Ids /\ at[n] = "unsent"
        /\ at' = [at EXCEPT ![n] = "sent"]
        /\ \A i \in Ids : i # n => tok'[i] = tok[i]
    BY <2>1, <2>2, SendFacts DEF Basis
  <2> HIDE DEF n
  <2>4. \A i \in Ids : at'[i] = IF i = n THEN "sent" ELSE at[i]
    BY <2>3 DEF Basis, SentOK
  <2>5. Told => Told'
    BY <2>1, <2>3, <2>4 DEF Told, Basis, CoreOK
  <2>6. Built => Built'
    BY <2>1, <2>3, <2>4 DEF Built, Basis, CoreOK
  <2>7. NoView => NoView'
    BY <2>1, <2>3, <2>4 DEF NoView
  <2> QED BY <1>2, <2>1, <2>5, <2>6, <2>7 DEF Owed, Way
<1>6. CASE TimerFires
  <2>1. CASE NewView(room)
    BY <1>1, <2>1 DEF NewView, Clear
  <2>2. CASE UNCHANGED <<room, token, rowVars, commandVars, at>>
    BY <1>2, <1>6, <2>2, RestKeeps DEF TimerFires
  <2> QED BY <1>6, <2>1, <2>2 DEF TimerFires
<1>7. CASE HearReply
  <2>1. CASE drift' = FALSE
    BY <1>1, <2>1
  <2>2. CASE /\ ~(Mine(Head(queue)) /\ ~Head(queue).meant)
             /\ UNCHANGED <<room, token, rowVars, rebuildAfter, commandVars, at>>
    <3>1. /\ queue # << >> /\ queue' = Tail(queue) /\ Head(queue).is = "reply"
          /\ UNCHANGED <<room, token, drift, asked, tok, at, latest, notified>>
      BY <1>7, <2>2 DEF HearReply
    <3>2. (ResetQueued => ResetQueued') /\ (RefusalQueued => RefusalQueued')
      BY <2>2, <3>1, TailKeeps DEF Basis
    <3> QED BY <3>1, <3>2, RestKeeps
  <2> QED BY <1>7, <2>1, <2>2 DEF HearReply, Reopen, NewView, Clear
<1>8. CASE HearDiff
  <2>1. /\ queue # << >> /\ queue' = Tail(queue) /\ Head(queue).is = "diff"
        /\ UNCHANGED <<room, token, tok, at, latest, notified>>
        /\ \/ Mine(Head(queue)) /\ Apply(Head(queue))
           \/ ~Mine(Head(queue)) /\ UNCHANGED <<drift, asked>>
    BY <1>8 DEF HearDiff
  <2>2. RefusalQueued => RefusalQueued'
    BY <2>1, TailKeeps DEF Basis
  <2>3. CASE UNCHANGED <<drift, asked>> /\ ~(Mine(Head(queue)) /\ Head(queue).whole)
    <3>1. ResetQueued => ResetQueued'
      BY <2>1, <2>3, TailKeeps DEF Basis
    <3> QED BY <2>1, <2>2, <2>3, <3>1, RestKeeps
  <2>4. CASE Mine(Head(queue)) /\ Head(queue).whole
    <3>1. drift' = FALSE
      BY <2>1, <2>4 DEF Apply, Fits
    <3> QED BY <1>1, <3>1
  <2>5. CASE Mine(Head(queue)) /\ ~Head(queue).whole /\ ~UNCHANGED <<drift, asked>>
    <3>1. drift \in BOOLEAN /\ token \in Tokens /\ asked \in [Tokens -> Nat]
      BY DEF Basis, FrontOK, CoreOK
    <3>2. ~drift /\ drift' = TRUE /\ asked' = [asked EXCEPT ![token] = @ + 1]
      BY <2>1, <2>5, <3>1 DEF Apply
    <3>3. asked'[token'] > 0 /\ room' # None
      BY <2>1, <2>5, <3>1, <3>2 DEF Mine
    <3> QED BY <3>3 DEF Owed, Way
  <2> QED BY <2>1, <2>3, <2>4, <2>5
<1> QED BY <1>3, <1>4, <1>5, <1>6, <1>7, <1>8 DEF User, Hear

(* A step of the core, with the page as it is: what is owed then is owed still, or  *)
(* is owed in another way.                                                     *)
LEMMA OwedAnew ==
    ASSUME Owed, UNCHANGED <<room, token, drift>>,
           room # None /\ Way => Way'
    PROVE  Owed'
BY DEF Owed

LEMMA QueueSame ==
    ASSUME UNCHANGED <<queue, room, token>>
    PROVE  (ResetQueued => ResetQueued') /\ (RefusalQueued => RefusalQueued')
BY DEF ResetQueued, RefusalQueued, Mine

LEMMA CommandOwed == ASSUME Basis, Owed, Command PROVE Owed'
<1> USE DEF frontVars, rowVars, commandVars, streamVars
<1>0. None \notin Ids
  BY FeedAssumption
<1>1. ASSUME NEW i \in Ids, OpenTakes(i) PROVE Owed'
  <2>1. /\ at[i] = "sent" /\ latest' = i
        /\ UNCHANGED <<room, token, drift, tok, queue, asked, notified>>
    BY <1>1 DEF OpenTakes
  <2>2. (ResetQueued => ResetQueued') /\ (RefusalQueued => RefusalQueued')
    BY <2>1, QueueSame
  <2>3. CASE slot # None /\ at' = [at EXCEPT ![i] = "kept"] /\ slot' = slot
    <3>1. \A j \in Ids : at'[j] = IF j = i THEN "kept" ELSE at[j]
      BY <2>3 DEF Basis, SentOK
    <3>2. Told => Told'
      BY <2>1, <3>1 DEF Told, Basis, CoreOK
    <3>3. ~Built
      BY <2>3 DEF Built, Basis, OneShown
    <3>4. NoView => NoView'
      BY <2>1, <3>1 DEF NoView
    <3>5. Way => Way'
      BY <2>1, <2>2, <3>2, <3>3, <3>4 DEF Way
    <3> QED BY <2>1, <3>5, OwedAnew
  <2>4. CASE /\ at' = [v \in Ids |-> IF v = i THEN "building"
                                     ELSE IF v = slot THEN "closed" ELSE at[v]]
             /\ slot' = None
    <3>1. \A j \in Ids : at'[j] = IF j = i THEN "building" ELSE IF j = slot THEN "closed" ELSE at[j]
      BY <2>4
    <3>2. \A j \in Ids : at'[j] # "shown"
      BY <3>1 DEF Basis, OneShown
    <3>3. Built' \/ NoView'
      BY <1>0, <2>1, <3>1, <3>2 DEF Built, NoView
    <3>4. Way => Way'
      BY <3>3 DEF Way
    <3> QED BY <2>1, <3>4, OwedAnew
  <2> QED BY <1>1, <2>3, <2>4 DEF OpenTakes
<1>2. ASSUME NEW i \in Ids, OpenEnds(i) PROVE Owed'
  <2>1. /\ at[i] = "streaming"
        /\ UNCHANGED <<room, token, drift, tok, queue, asked, latest, notified>>
    BY <1>2 DEF OpenEnds
  <2>2. PICK place \in {"shown", "closed"} :
            /\ at' = [at EXCEPT ![i] = place]
            /\ place = "shown" => latest = i
    BY <1>2 DEF OpenEnds
  <2>3. \A j \in Ids : at'[j] = IF j = i THEN place ELSE at[j]
    BY <2>2 DEF Basis, SentOK
  <2>4. (ResetQueued => ResetQueued') /\ (RefusalQueued => RefusalQueued')
    BY <2>1, QueueSame
  <2>5. (Told => Told') /\ (Built => Built')
    BY <2>1, <2>3 DEF Told, Built, Basis, CoreOK
  <2>6. NoView => NoView'
    BY <2>1, <2>2, <2>3 DEF NoView
  <2>7. Way => Way'
    BY <2>1, <2>4, <2>5, <2>6 DEF Way
  <2> QED BY <2>1, <2>7, OwedAnew
<1>3. ASSUME NEW t \in Tokens, CloseTakes(t) PROVE Owed'
  <2>1. UNCHANGED <<room, token, drift, tok, queue, asked, notified>>
    BY <1>3 DEF CloseTakes
  <2>2. (ResetQueued => ResetQueued') /\ (RefusalQueued => RefusalQueued')
    BY <2>1, QueueSame
  <2>3. CASE slot # None /\ at' = [at EXCEPT ![slot] = "closed"] /\ latest' = latest
    <3>1. slot \in Ids
      BY <2>3 DEF Basis, CoreOK
    <3>2. \A j \in Ids : at'[j] = IF j = slot THEN "closed" ELSE at[j]
      BY <2>3, <3>1 DEF Basis, SentOK
    <3>3. \A j \in Ids : at'[j] # "shown"
      BY <3>2 DEF Basis, OneShown
    <3>4. latest # None => at[latest] \notin {"building", "streaming"}
      BY <2>3 DEF Basis, OneShown
    <3>5. NoView'
      BY <1>0, <2>3, <3>2, <3>3, <3>4 DEF NoView
    <3> QED BY <2>1, <3>5, OwedAnew DEF Way
  <2>4. CASE slot = None /\ UNCHANGED at /\ latest' = None
    <3>1. \A j \in Ids : at'[j] # "shown"
      BY <1>0, <2>4 DEF Basis, OneShown
    <3>2. NoView'
      BY <1>0, <2>4, <3>1 DEF NoView
    <3> QED BY <2>1, <3>2, OwedAnew DEF Way
  <2>5. CASE UNCHANGED <<at, latest>>
    BY <2>1, <2>2, <2>5, RestKeeps
  <2> QED BY <1>3, <2>3, <2>4, <2>5 DEF CloseTakes
<1>4. ASSUME NEW t \in Tokens, ResyncTakes(t) PROVE Owed'
  <2> DEFINE meant == slot # None /\ tok[slot] = t
             answer == [is |-> "reply", tok |-> t, meant |-> meant]
  <2>1. /\ UNCHANGED <<room, token, drift, tok, at, latest, slot>>
        /\ asked' = [asked EXCEPT ![t] = @ - 1]
        /\ queue' = Append(queue, answer)
        /\ notified' = IF meant THEN notified \cup {slot} ELSE notified
    BY <1>4 DEF ResyncTakes
  <2>2. /\ ResetQueued => ResetQueued'
        /\ RefusalQueued => RefusalQueued'
        /\ Mine(answer) /\ answer.is = "reply" /\ ~answer.meant => RefusalQueued'
    BY <2>1, AppendKeeps DEF Basis
  <2>3. Mine(answer) <=> room # None /\ t = token
    BY DEF Mine
  <2>4. answer.is = "reply" /\ (answer.meant <=> meant)
    OBVIOUS
  <2>5. meant => slot \in Ids /\ at[slot] = "shown"
    BY DEF Basis, CoreOK, OneShown
  <2>6. CASE t = token
    <3>1. CASE meant
      <4>1. Told'
        BY <2>1, <2>5, <2>6, <3>1 DEF Told
      <4> QED BY <2>1, <4>1, OwedAnew DEF Way
    <3>2. CASE ~meant
      <4>1. room # None => RefusalQueued'
        BY <2>2, <2>3, <2>4, <2>6, <3>2
      <4> HIDE DEF meant, answer
      <4> QED BY <2>1, <4>1, OwedAnew DEF Way
    <3> QED BY <3>1, <3>2
  <2>7. CASE t # token
    <3>1. asked'[token] = asked[token]
      BY <2>1, <2>7 DEF Basis, CoreOK, FrontOK
    <3> HIDE DEF meant, answer
    <3>2. Told => Told'
      BY <2>1 DEF Told
    <3>3. (Built => Built') /\ (NoView => NoView')
      BY <2>1 DEF Built, NoView
    <3>4. Way => Way'
      BY <2>1, <2>2, <3>1, <3>2, <3>3 DEF Way
    <3> QED BY <2>1, <3>4, OwedAnew
  <2> QED BY <2>6, <2>7
<1> QED BY <1>1, <1>2, <1>3, <1>4 DEF Command

LEMMA StreamOwed == ASSUME Basis, Owed, Build \/ Stream \/ CoreChanges PROVE Owed'
<1> USE DEF frontVars, rowVars, commandVars, streamVars
<1>0. None \notin Ids
  BY FeedAssumption
<1>1. ASSUME NEW i \in Ids, BuildStarts(i) PROVE Owed'
  <2> DEFINE m == [is |-> "diff", tok |-> tok[i], from |-> i, lo |-> items, hi |-> items,
                   whole |-> TRUE]
  <2>1. /\ at[i] = "building" /\ at' = [at EXCEPT ![i] = "streaming"]
        /\ UNCHANGED <<room, token, drift, tok, asked, latest, notified>>
        /\ queue' = Append(queue, m)
    BY <1>1 DEF BuildStarts, Reset
  <2>2. /\ ResetQueued => ResetQueued'
        /\ RefusalQueued => RefusalQueued'
        /\ Mine(m) /\ m.is = "diff" /\ m.whole => ResetQueued'
    BY <2>1, AppendKeeps DEF Basis
  <2>3. room # None /\ tok[i] = token => ResetQueued'
    BY <2>2 DEF Mine
  <2> HIDE DEF m
  <2>4. \A j \in Ids : at'[j] = IF j = i THEN "streaming" ELSE at[j]
    BY <2>1 DEF Basis, SentOK
  <2>5. Told => Told'
    BY <2>1, <2>4 DEF Told, Basis, CoreOK
  <2>6. Built => Built' \/ (latest = i /\ tok[i] = token)
    BY <2>1, <2>4 DEF Built, Basis, CoreOK
  <2>7. NoView => NoView'
    BY <2>1, <2>4 DEF NoView
  <2>8. room # None /\ Way => Way'
    BY <2>1, <2>2, <2>3, <2>5, <2>6, <2>7 DEF Way
  <2> QED BY <2>1, <2>8, OwedAnew
<1>2. ASSUME NEW i \in Ids, BuildFails(i) PROVE Owed'
  <2>1. /\ at[i] = "building" /\ at' = [at EXCEPT ![i] = "failed"]
        /\ UNCHANGED <<room, token, drift, tok, queue, asked, latest, slot, notified>>
    BY <1>2 DEF BuildFails
  <2>2. (ResetQueued => ResetQueued') /\ (RefusalQueued => RefusalQueued')
    BY <2>1, QueueSame
  <2>3. \A j \in Ids : at'[j] = IF j = i THEN "failed" ELSE at[j]
    BY <2>1 DEF Basis, SentOK
  <2>4. Told => Told'
    BY <2>1, <2>3 DEF Told, Basis, CoreOK
  <2>5. Built => Built' \/ NoView'
    <3> SUFFICES ASSUME Built, latest = i PROVE NoView'
      BY <2>1, <2>3 DEF Built, Basis, CoreOK
    <3>1. slot = None
      BY <2>1, <1>0 DEF Basis, OneShown
    <3>2. \A j \in Ids : at[j] # "shown"
      BY <1>0, <3>1 DEF Basis, OneShown
    <3> QED BY <2>1, <2>3, <3>2 DEF NoView
  <2>6. NoView => NoView'
    BY <2>1, <2>3 DEF NoView
  <2>7. Way => Way'
    BY <2>1, <2>2, <2>4, <2>5, <2>6 DEF Way
  <2> QED BY <2>1, <2>7, OwedAnew
<1>3. CASE CoreChanges
  BY <1>3, QueueSame, RestKeeps DEF CoreChanges
<1>4. ASSUME NEW i \in Ids, StreamTakes(i) PROVE Owed'
  BY <1>4, QueueSame, RestKeeps DEF StreamTakes
<1>5. ASSUME NEW i \in Ids, NEW whole \in BOOLEAN, StreamTells(i, whole) PROVE Owed'
  <2>1. PICK m : /\ queue' = Append(queue, m)
                 /\ UNCHANGED <<room, token, drift, asked, tok, at, latest, notified>>
    BY <1>5 DEF StreamTells
  <2>2. (ResetQueued => ResetQueued') /\ (RefusalQueued => RefusalQueued')
    BY <2>1, AppendKeeps DEF Basis
  <2> QED BY <2>1, <2>2, RestKeeps
<1>6. ASSUME NEW i \in Ids, StreamResyncs(i) PROVE Owed'
  <2> DEFINE m == [is |-> "diff", tok |-> tok[i], from |-> i, lo |-> items, hi |-> items,
                   whole |-> TRUE]
  <2>1. /\ notified' = notified \ {i}
        /\ UNCHANGED <<room, token, drift, tok, at, asked, latest>>
        /\ queue' = Append(queue, m)
    BY <1>6 DEF StreamResyncs, Reset
  <2>2. /\ ResetQueued => ResetQueued'
        /\ RefusalQueued => RefusalQueued'
        /\ Mine(m) /\ m.is = "diff" /\ m.whole => ResetQueued'
    BY <2>1, AppendKeeps DEF Basis
  <2>3. room # None /\ tok[i] = token => ResetQueued'
    BY <2>2 DEF Mine
  <2> HIDE DEF m
  <2>4. Told => Told' \/ tok[i] = token
    BY <2>1 DEF Told
  <2>5. (Built => Built') /\ (NoView => NoView')
    BY <2>1 DEF Built, NoView
  <2>6. room # None /\ Way => Way'
    BY <2>1, <2>2, <2>3, <2>4, <2>5 DEF Way
  <2> QED BY <2>1, <2>6, OwedAnew
<1> QED BY <1>1, <1>2, <1>3, <1>4, <1>5, <1>6 DEF Build, Stream

-----------------------------------------------------------------------------
(* The theorems *)

LEMMA InvParts == IInv <=> Basis /\ Owed
BY TypeParts DEF IInv, Basis

LEMMA InvPartsNext == IInv' <=> Basis' /\ Owed'
BY TypePartsNext DEF IInv, Basis

LEMMA InitHolds == Init => IInv
<1> SUFFICES ASSUME Init PROVE IInv
  OBVIOUS
<1>1. 0 \in Tokens /\ 0 \in Versions /\ 0 \in Nat
  BY FeedAssumption
<1>2. FrontOK
  BY <1>1 DEF Init, FrontOK
<1>3. SentOK
  <2>1. sent \in 0..MaxOpens /\ closes \subseteq Tokens
    BY FeedAssumption DEF Init
  <2>2. tok \in [Ids -> Tokens] /\ anew \in [Ids -> BOOLEAN] /\ at \in [Ids -> Places]
    BY <1>1 DEF Init, Places
  <2> QED BY <2>1, <2>2 DEF SentOK
<1>4. CoreOK /\ queue \in Seq(Messages)
  <2>1. asked \in [Tokens -> Nat] /\ told \in [Ids -> Versions] /\ held \in [Ids -> Versions]
    BY <1>1 DEF Init
  <2> QED BY <1>1, <2>1 DEF Init, CoreOK
<1>5. Counted /\ OneShown /\ Owed
  BY DEF Init, Counted, OneShown, Owed
<1> QED BY <1>2, <1>3, <1>4, <1>5, InvParts DEF Basis

LEMMA StepHolds == IInv /\ [Next]_vars => IInv'
<1> SUFFICES ASSUME Basis, Owed, [Next]_vars PROVE Basis' /\ Owed'
  BY InvParts, InvPartsNext
<1>1. CASE UNCHANGED vars
  <2> USE DEF vars, rowVars, threadVars, commandVars, streamVars
  <2>1. Basis'
    BY <1>1 DEF Basis, FrontOK, SentOK, CoreOK, Counted, OneShown
  <2>2. Owed'
    BY <1>1, QueueSame, RestKeeps
  <2> QED BY <2>1, <2>2
<1>2. CASE User
  BY <1>2, UserSteps, FrontOwed
<1>3. CASE Hear \/ TimerFires
  BY <1>3, HearSteps, FrontOwed
<1>4. CASE Command
  BY <1>4, CommandSteps, CommandOwed
<1>5. CASE Build \/ Stream \/ CoreChanges
  BY <1>5, StreamSteps, StreamOwed
<1> QED BY <1>1, <1>2, <1>3, <1>4, <1>5 DEF Next

(* Every variable keeps its type, for any rooms and any number of opens and         *)
(* changes: the page's rows, the queue of events and answers, the core's views.     *)
THEOREM TypeCorrect == Spec => []TypeOK
<1>1. IInv => TypeOK
  BY DEF IInv
<1> QED BY <1>1, InitHolds, StepHolds, PTL DEF Spec

(* The model reports a drift once and is silent until the rows come anew. For any    *)
(* rooms, opens and changes the way back is then under way, or no view of the page's *)
(* token is left (DiffListModel::reportDrift, timeline.resync, reopenOutOfStep).    *)
THEOREM DriftIsOwed == Spec => []DriftOwed
<1>1. IInv => DriftOwed
  <2> SUFFICES ASSUME Basis, Owed, drift PROVE DriftOwed
    BY InvParts DEF DriftOwed
  <2>1. room # None /\ Way
    BY DEF Owed
  <2>2. CASE asked[token] > 0 \/ ResetQueued \/ RefusalQueued
    BY <2>1, <2>2 DEF DriftOwed
  <2>3. CASE Told
    BY <2>1, <2>3 DEF DriftOwed, Told, Live
  <2>4. CASE Built
    BY <2>1, <2>4 DEF DriftOwed, Built, Basis, CoreOK
  <2>5. CASE NoView
    BY <2>1, <2>5 DEF DriftOwed, NoView, Coming
  <2> QED BY <2>1, <2>2, <2>3, <2>4, <2>5 DEF Way
<1> QED BY <1>1, InitHolds, StepHolds, PTL DEF Spec

-----------------------------------------------------------------------------
(* Rows in step                                                               *)

LEMMA Appended ==
    ASSUME queue \in Seq(Messages), NEW m, queue' = Append(queue, m)
    PROVE  /\ Len(queue) \in Nat /\ Len(queue') = Len(queue) + 1
           /\ queue'[Len(queue) + 1] = m
           /\ \A k \in 1..Len(queue) : queue'[k] = queue[k]
           /\ \A k : k \in 1..Len(queue') <=> k \in 1..Len(queue) \/ k = Len(queue) + 1
<1>1. /\ Len(queue) \in Nat /\ Len(queue') = Len(queue) + 1
      /\ queue'[Len(queue) + 1] = m
      /\ \A k \in 1..Len(queue) : queue'[k] = queue[k]
  OBVIOUS
<1> QED BY <1>1

LEMMA AppendedQueued ==
    ASSUME queue \in Seq(Messages), NEW m, queue' = Append(queue, m), NEW i
    PROVE  QueuedOf(i)' = QueuedOf(i) \cup (IF m.is = "diff" /\ m.from = i THEN {Len(queue) + 1} ELSE {})
<1>1. \A k : k \in QueuedOf(i)' <=> k \in 1..Len(queue') /\ queue'[k].is = "diff" /\ queue'[k].from = i
  BY DEF QueuedOf
<1>2. \A k : k \in QueuedOf(i) <=> k \in 1..Len(queue) /\ queue[k].is = "diff" /\ queue[k].from = i
  BY DEF QueuedOf
<1>3. \A k : k \in QueuedOf(i)' <=>
          k \in QueuedOf(i) \/ (k = Len(queue) + 1 /\ m.is = "diff" /\ m.from = i)
  BY <1>1, <1>2, Appended
<1> QED BY <1>3

LEMMA Tailed ==
    ASSUME queue \in Seq(Messages), queue # << >>, queue' = Tail(queue)
    PROVE  /\ Len(queue) \in Nat /\ Len(queue) > 0 /\ Len(queue') = Len(queue) - 1
           /\ \A k \in 1..Len(queue') : k + 1 \in 1..Len(queue) /\ queue'[k] = queue[k + 1]
           /\ Head(queue) = queue[1] /\ 1 \in 1..Len(queue)
<1>1. /\ Len(queue) \in Nat /\ Len(queue) > 0 /\ Len(queue') = Len(queue) - 1
      /\ \A k \in 1..(Len(queue) - 1) : queue'[k] = queue[k + 1]
      /\ Head(queue) = queue[1]
  OBVIOUS
<1> QED BY <1>1

LEMMA TailedQueued ==
    ASSUME queue \in Seq(Messages), queue # << >>, queue' = Tail(queue), NEW i
    PROVE  /\ \A k \in QueuedOf(i)' : k \in Nat /\ k >= 1 /\ k + 1 \in QueuedOf(i) /\ queue'[k] = queue[k + 1]
           /\ \A k \in QueuedOf(i) : k \in Nat /\ (k = 1 \/ (k > 1 /\ k - 1 \in QueuedOf(i)'))
           /\ 1 \in QueuedOf(i) <=> Head(queue).is = "diff" /\ Head(queue).from = i
<1>1. \A k : k \in QueuedOf(i)' <=> k \in 1..Len(queue') /\ queue'[k].is = "diff" /\ queue'[k].from = i
  BY DEF QueuedOf
<1>2. \A k : k \in QueuedOf(i) <=> k \in 1..Len(queue) /\ queue[k].is = "diff" /\ queue[k].from = i
  BY DEF QueuedOf
<1>3. ASSUME NEW k \in QueuedOf(i)'
      PROVE  k \in Nat /\ k >= 1 /\ k + 1 \in QueuedOf(i) /\ queue'[k] = queue[k + 1]
  BY <1>1, <1>2, Tailed
<1>4. ASSUME NEW k \in QueuedOf(i)
      PROVE  k \in Nat /\ (k = 1 \/ (k > 1 /\ k - 1 \in QueuedOf(i)'))
  <2>1. k \in 1..Len(queue) /\ queue[k].is = "diff" /\ queue[k].from = i /\ Len(queue) \in Nat
    BY <1>2, Tailed
  <2>2. CASE k > 1
    <3>1. k - 1 \in 1..Len(queue') /\ (k - 1) + 1 = k
      BY <2>1, <2>2, Tailed
    <3>2. queue'[k - 1] = queue[k]
      BY <3>1, Tailed
    <3> QED BY <1>1, <2>1, <2>2, <3>1, <3>2
  <2> QED BY <2>1, <2>2
<1> QED BY <1>2, <1>3, <1>4, Tailed

(* What a view tells follows on what it told before.                              *)
LEMMA TellsOn ==
    ASSUME queue \in Seq(Messages), told \in [Ids -> Versions], Linked, LastTold,
           NEW i \in Ids, NEW m, m.is = "diff", m.from = i, m.whole \/ m.lo = told[i],
           queue' = Append(queue, m), told' = [told EXCEPT ![i] = m.hi]
    PROVE  /\ Linked' /\ LastTold'
           /\ \A j \in Ids :
                /\ UNCHANGED <<rowsOf, upto>>
                /\ Ready(j) \/ (j = i /\ QueuedOf(i) = {} /\ m.whole)
                => Ready(j)'
<1> DEFINE n == Len(queue) + 1
<1>1. /\ n \in Nat /\ queue'[n] = m
      /\ \A j \in Ids : \A k \in QueuedOf(j) : k \in Nat /\ k < n /\ queue'[k] = queue[k]
  BY Appended DEF QueuedOf
<1>2. /\ QueuedOf(i)' = QueuedOf(i) \cup {n}
      /\ \A j \in Ids : j # i => QueuedOf(j)' = QueuedOf(j)
  <2>1. QueuedOf(i)' = QueuedOf(i) \cup {n}
    BY AppendedQueued
  <2>2. ASSUME NEW j \in Ids, j # i PROVE QueuedOf(j)' = QueuedOf(j)
    <3>1. ~(m.is = "diff" /\ m.from = j)
      BY <2>2
    <3>2. QueuedOf(j)' = QueuedOf(j) \cup {}
      BY <3>1, AppendedQueued
    <3> QED BY <3>2
  <2> QED BY <2>1, <2>2
<1>3. told'[i] = m.hi /\ \A j \in Ids : j # i => told'[j] = told[j]
  OBVIOUS
<1> HIDE DEF n
<1>4. ASSUME NEW j \in Ids, j # i
      PROVE  /\ \A a, b \in QueuedOf(j)' :
                    a < b /\ (\A c \in QueuedOf(j)' : c <= a \/ b <= c)
                        => queue'[b].whole \/ queue'[b].lo = queue'[a].hi
             /\ \A a \in QueuedOf(j)' : (\A c \in QueuedOf(j)' : c <= a) => queue'[a].hi = told'[j]
  <2>1. /\ QueuedOf(j)' = QueuedOf(j) /\ told'[j] = told[j]
        /\ \A k \in QueuedOf(j) : queue'[k] = queue[k]
    BY <1>1, <1>2, <1>3, <1>4
  <2>2. ASSUME NEW a \in QueuedOf(j)', NEW b \in QueuedOf(j)', a < b,
               \A c \in QueuedOf(j)' : c <= a \/ b <= c
        PROVE  queue'[b].whole \/ queue'[b].lo = queue'[a].hi
    <3>1. /\ a \in QueuedOf(j) /\ b \in QueuedOf(j)
          /\ \A c \in QueuedOf(j) : c <= a \/ b <= c
      BY <2>1, <2>2
    <3>2. queue[b].whole \/ queue[b].lo = queue[a].hi
      BY <2>2, <3>1 DEF Linked
    <3> QED BY <2>1, <3>1, <3>2
  <2>3. ASSUME NEW a \in QueuedOf(j)', \A c \in QueuedOf(j)' : c <= a
        PROVE  queue'[a].hi = told'[j]
    <3>1. a \in QueuedOf(j) /\ \A c \in QueuedOf(j) : c <= a
      BY <2>1, <2>3
    <3>2. queue[a].hi = told[j]
      BY <3>1 DEF LastTold
    <3> QED BY <2>1, <3>1, <3>2
  <2> QED BY <2>2, <2>3
<1>5. ASSUME NEW a \in QueuedOf(i)', NEW b \in QueuedOf(i)', a < b,
             \A c \in QueuedOf(i)' : c <= a \/ b <= c
      PROVE  queue'[b].whole \/ queue'[b].lo = queue'[a].hi
  <2>1. a \in QueuedOf(i) /\ a \in Nat /\ a < n
    BY <1>1, <1>2, <1>5
  <2>2. CASE b = n
    <3>1. \A c \in QueuedOf(i) : c <= a
      BY <1>1, <1>2, <1>5, <2>1, <2>2
    <3>2. queue[a].hi = told[i]
      BY <2>1, <3>1 DEF LastTold
    <3> QED BY <1>1, <2>1, <2>2, <3>2
  <2>3. CASE b \in QueuedOf(i)
    <3>1. \A c \in QueuedOf(i) : c <= a \/ b <= c
      BY <1>2, <1>5
    <3> QED BY <1>1, <1>5, <2>1, <2>3, <3>1 DEF Linked
  <2> QED BY <1>2, <2>2, <2>3
<1>6. ASSUME NEW a \in QueuedOf(i)', \A c \in QueuedOf(i)' : c <= a
      PROVE  queue'[a].hi = told'[i]
  <2>1. a = n
    BY <1>1, <1>2, <1>6
  <2> QED BY <1>1, <1>3, <2>1
<1>7. Linked'
  <2> SUFFICES ASSUME NEW j \in Ids, NEW a \in QueuedOf(j)', NEW b \in QueuedOf(j)', a < b,
                      \A c \in QueuedOf(j)' : c <= a \/ b <= c
               PROVE  queue'[b].whole \/ queue'[b].lo = queue'[a].hi
    BY DEF Linked
  <2> QED BY <1>4, <1>5
<1>8. LastTold'
  <2> SUFFICES ASSUME NEW j \in Ids, NEW a \in QueuedOf(j)', \A c \in QueuedOf(j)' : c <= a
               PROVE  queue'[a].hi = told'[j]
    BY DEF LastTold
  <2> QED BY <1>4, <1>6
<1>9. ASSUME NEW j \in Ids, UNCHANGED <<rowsOf, upto>>,
             Ready(j) \/ (j = i /\ QueuedOf(i) = {} /\ m.whole)
      PROVE  Ready(j)'
  <2>1. CASE j # i
    <3>1. /\ QueuedOf(j)' = QueuedOf(j) /\ told'[j] = told[j]
          /\ \A k \in QueuedOf(j) : queue'[k] = queue[k]
      BY <1>1, <1>2, <1>3, <2>1
    <3>2. /\ QueuedOf(j) = {} => rowsOf = j /\ upto = told[j]
          /\ \A a \in QueuedOf(j) : (\A c \in QueuedOf(j) : a <= c)
                 => queue[a].whole \/ (rowsOf = j /\ upto = queue[a].lo)
      BY <1>9, <2>1 DEF Ready
    <3> QED BY <1>9, <3>1, <3>2 DEF Ready
  <2>2. CASE j = i
    <3>1. QueuedOf(i)' # {}
      BY <1>2
    <3>2. ASSUME NEW a \in QueuedOf(i)', \A c \in QueuedOf(i)' : a <= c
          PROVE  queue'[a].whole \/ (rowsOf' = i /\ upto' = queue'[a].lo)
      <4>1. CASE a = n
        <5>1. QueuedOf(i) = {}
          BY <1>1, <1>2, <3>2, <4>1
        <5> QED BY <1>1, <1>9, <2>2, <4>1, <5>1 DEF Ready
      <4>2. CASE a \in QueuedOf(i)
        BY <1>1, <1>2, <1>9, <2>2, <3>2, <4>2 DEF Ready
      <4> QED BY <1>2, <4>1, <4>2
    <3> QED BY <2>2, <3>1, <3>2 DEF Ready
  <2> QED BY <2>1, <2>2
<1> QED BY <1>7, <1>8, <1>9

(* An answer says nothing of the rows.                                            *)
LEMMA AnswersBeside ==
    ASSUME queue \in Seq(Messages), NEW m, m.is = "reply", queue' = Append(queue, m),
           UNCHANGED <<told, rowsOf, upto>>
    PROVE  /\ Linked => Linked'
           /\ LastTold => LastTold'
           /\ \A j \in Ids : Ready(j) => Ready(j)'
<1>1. \A j \in Ids : QueuedOf(j)' = QueuedOf(j)
  BY AppendedQueued
<1>2. \A j \in Ids : \A k \in QueuedOf(j) : queue'[k] = queue[k]
  BY Appended DEF QueuedOf
<1>3. ASSUME Linked PROVE Linked'
  <2> SUFFICES ASSUME NEW j \in Ids, NEW a \in QueuedOf(j), NEW b \in QueuedOf(j), a < b,
                      \A c \in QueuedOf(j) : c <= a \/ b <= c
               PROVE  queue'[b].whole \/ queue'[b].lo = queue'[a].hi
    BY <1>1 DEF Linked
  <2> QED BY <1>2, <1>3 DEF Linked
<1>4. ASSUME LastTold PROVE LastTold'
  <2> SUFFICES ASSUME NEW j \in Ids, NEW a \in QueuedOf(j), \A c \in QueuedOf(j) : c <= a
               PROVE  queue'[a].hi = told'[j]
    BY <1>1 DEF LastTold
  <2> QED BY <1>2, <1>4 DEF LastTold
<1>5. ASSUME NEW j \in Ids, Ready(j) PROVE Ready(j)'
  <2>1. QueuedOf(j)' = QueuedOf(j) /\ \A k \in QueuedOf(j) : queue'[k] = queue[k]
    BY <1>1, <1>2
  <2>2. /\ QueuedOf(j) = {} => rowsOf = j /\ upto = told[j]
        /\ \A a \in QueuedOf(j) : (\A c \in QueuedOf(j) : a <= c)
               => queue[a].whole \/ (rowsOf = j /\ upto = queue[a].lo)
    BY <1>5 DEF Ready
  <2> QED BY <2>1, <2>2 DEF Ready
<1> QED BY <1>3, <1>4, <1>5

(* The queue without its head.                                                   *)
LEMMA TailLinks ==
    ASSUME queue \in Seq(Messages), queue # << >>, queue' = Tail(queue), UNCHANGED told,
           Linked, LastTold
    PROVE  /\ Linked' /\ LastTold'
           /\ \A j \in Ids : /\ UNCHANGED <<rowsOf, upto>> /\ Ready(j)
                             /\ ~(Head(queue).is = "diff" /\ Head(queue).from = j)
                             => Ready(j)'
           /\ \A j \in Ids : /\ Head(queue).is = "diff" /\ Head(queue).from = j
                             /\ rowsOf' = j /\ upto' = Head(queue).hi
                             => Ready(j)'
<1>1. \A j : /\ \A k \in QueuedOf(j)' : k \in Nat /\ k >= 1 /\ k + 1 \in QueuedOf(j) /\ queue'[k] = queue[k + 1]
             /\ \A k \in QueuedOf(j) : k \in Nat /\ (k = 1 \/ (k > 1 /\ k - 1 \in QueuedOf(j)'))
             /\ 1 \in QueuedOf(j) <=> Head(queue).is = "diff" /\ Head(queue).from = j
  BY TailedQueued
<1>2. ASSUME NEW j, NEW a \in QueuedOf(j)', NEW b \in QueuedOf(j)', a < b,
             \A c \in QueuedOf(j)' : c <= a \/ b <= c
      PROVE  \A c \in QueuedOf(j) : c <= a + 1 \/ b + 1 <= c
  <2> SUFFICES ASSUME NEW c \in QueuedOf(j)
               PROVE  c <= a + 1 \/ b + 1 <= c
    OBVIOUS
  <2>1. c \in Nat /\ a \in Nat /\ b \in Nat /\ a >= 1
    BY <1>1
  <2>2. CASE c = 1
    BY <2>1, <2>2
  <2>3. CASE c # 1
    <3>1. c - 1 <= a \/ b <= c - 1
      BY <1>1, <1>2, <2>3
    <3> QED BY <2>1, <3>1
  <2> QED BY <2>2, <2>3
<1>3. Linked'
  <2> SUFFICES ASSUME NEW j \in Ids, NEW a \in QueuedOf(j)', NEW b \in QueuedOf(j)', a < b,
                      \A c \in QueuedOf(j)' : c <= a \/ b <= c
               PROVE  queue'[b].whole \/ queue'[b].lo = queue'[a].hi
    BY DEF Linked
  <2>0. /\ a \in Nat /\ a + 1 \in QueuedOf(j) /\ queue'[a] = queue[a + 1]
        /\ b \in Nat /\ b + 1 \in QueuedOf(j) /\ queue'[b] = queue[b + 1]
    BY <1>1
  <2>1. a + 1 < b + 1
    BY <2>0
  <2>2. \A c \in QueuedOf(j) : c <= a + 1 \/ b + 1 <= c
    BY <1>2
  <2> QED BY <2>0, <2>1, <2>2 DEF Linked
<1>4. LastTold'
  <2> SUFFICES ASSUME NEW j \in Ids, NEW a \in QueuedOf(j)', \A c \in QueuedOf(j)' : c <= a
               PROVE  queue'[a].hi = told'[j]
    BY DEF LastTold
  <2>1. a \in Nat /\ a >= 1 /\ a + 1 \in QueuedOf(j) /\ queue'[a] = queue[a + 1]
    BY <1>1
  <2>2. ASSUME NEW c \in QueuedOf(j) PROVE c <= a + 1
    <3>1. c \in Nat /\ (c = 1 \/ c - 1 <= a)
      BY <1>1
    <3> QED BY <2>1, <3>1
  <2> QED BY <2>1, <2>2 DEF LastTold
<1>5. ASSUME NEW j \in Ids, UNCHANGED <<rowsOf, upto>>, Ready(j), 1 \notin QueuedOf(j)
      PROVE  Ready(j)'
  <2>1. QueuedOf(j)' = {} => QueuedOf(j) = {}
    BY <1>1, <1>5
  <2>2. ASSUME NEW a \in QueuedOf(j)', \A c \in QueuedOf(j)' : a <= c
        PROVE  queue'[a].whole \/ (rowsOf' = j /\ upto' = queue'[a].lo)
    <3>1. a \in Nat /\ a + 1 \in QueuedOf(j) /\ queue'[a] = queue[a + 1]
      BY <1>1
    <3>2. ASSUME NEW c \in QueuedOf(j) PROVE a + 1 <= c
      <4>1. c \in Nat /\ c - 1 \in QueuedOf(j)'
        BY <1>1, <1>5
      <4>2. a <= c - 1
        BY <2>2, <4>1
      <4> QED BY <3>1, <4>1, <4>2
    <3> QED BY <1>5, <3>1, <3>2 DEF Ready
  <2> QED BY <1>5, <2>1, <2>2 DEF Ready
<1>6. ASSUME NEW j \in Ids, 1 \in QueuedOf(j), rowsOf' = j, upto' = Head(queue).hi
      PROVE  Ready(j)'
  <2>0. Head(queue) = queue[1]
    BY Tailed
  <2>1. ASSUME QueuedOf(j)' = {} PROVE upto' = told'[j]
    <3>1. \A c \in QueuedOf(j) : c <= 1
      BY <1>1, <2>1
    <3> QED BY <1>6, <2>0, <3>1 DEF LastTold
  <2>2. ASSUME NEW a \in QueuedOf(j)', \A c \in QueuedOf(j)' : a <= c
        PROVE  queue'[a].whole \/ upto' = queue'[a].lo
    <3>1. a \in Nat /\ a >= 1 /\ a + 1 \in QueuedOf(j) /\ queue'[a] = queue[a + 1]
      BY <1>1
    <3>2. ASSUME NEW c \in QueuedOf(j) PROVE c <= 1 \/ a + 1 <= c
      <4>1. c \in Nat /\ (c = 1 \/ c - 1 \in QueuedOf(j)')
        BY <1>1
      <4>2. c = 1 \/ a <= c - 1
        BY <2>2, <4>1
      <4> QED BY <3>1, <4>1, <4>2
    <3>3. 1 < a + 1
      BY <3>1
    <3>4. queue[a + 1].whole \/ queue[a + 1].lo = queue[1].hi
      BY <1>6, <3>1, <3>2, <3>3 DEF Linked
    <3> QED BY <1>6, <2>0, <3>1, <3>4
  <2> QED BY <1>6, <2>1, <2>2 DEF Ready
<1> QED BY <1>1, <1>3, <1>4, <1>5, <1>6

(* No view begins to stream, and none that does changes its token.                  *)
Steady ==
    \A i \in Ids : (Streamed(i)' <=> Streamed(i)) /\ (Streamed(i) => tok'[i] = tok[i])

LEMMA DiffTyped ==
    ASSUME queue \in Seq(Messages), NEW k \in 1..Len(queue), queue[k].is = "diff"
    PROVE  queue[k] \in Diffs /\ queue[k].from \in Ids
<1>1. queue[k] \in Messages
  OBVIOUS
<1>2. \A m \in Replies : m.is = "reply"
  BY DEF Replies
<1>3. queue[k] \in Diffs
  BY <1>1, <1>2 DEF Messages
<1> QED BY <1>3 DEF Diffs

LEMMA OneViewBefore ==
    ASSUME token' = token, \A i \in Ids : Streamed(i) => Streamed(i)' /\ tok'[i] = tok[i], OneView'
    PROVE  OneView
BY DEF OneView

LEMMA BehindKept ==
    ASSUME Basis, Behind, token' \in Nat, token <= token',
           \A i \in Ids : tok'[i] = tok[i] \/ tok'[i] <= token',
           \A t \in Tokens : asked'[t] = asked[t] \/ t <= token',
           \A k \in 1..Len(queue') : queue'[k].tok <= token' \/ \E l \in 1..Len(queue) : queue'[k] = queue[l]
    PROVE  Behind'
<1>1. token \in Nat /\ \A t \in Tokens : t \in Nat
  BY FeedAssumption DEF Basis, FrontOK
<1>2. \A i \in Ids : tok[i] \in Nat /\ tok[i] <= token
  BY <1>1 DEF Behind, Basis, SentOK
<1>3. \A i \in Ids : tok'[i] <= token'
  BY <1>1, <1>2
<1>4. \A t \in Tokens : t > token' => asked'[t] = 0
  BY <1>1 DEF Behind
<1>5. ASSUME NEW k \in 1..Len(queue')
      PROVE  queue'[k].tok <= token'
  <2>1. CASE \E l \in 1..Len(queue) : queue'[k] = queue[l]
    <3>1. PICK l \in 1..Len(queue) : queue'[k] = queue[l]
      BY <2>1
    <3>2. queue[l] \in Messages
      BY DEF Basis
    <3>3. queue[l].tok \in Nat
      BY <1>1, <3>2 DEF Messages, Diffs, Replies
    <3> QED BY <1>1, <3>1, <3>3 DEF Behind
  <2> QED BY <1>5, <2>1
<1> QED BY <1>3, <1>4, <1>5 DEF Behind

(* The queue is what it was, or has lost its head.                                 *)
LEMMA QueueShrinks ==
    ASSUME Basis, StepInv, Steady, UNCHANGED told,
           queue' = queue \/ (queue # << >> /\ queue' = Tail(queue)),
           \A i \in Ids : held'[i] # told[i] => Streamed(i)
    PROVE  /\ Telling' /\ Theirs' /\ Linked' /\ LastTold'
           /\ \A k \in 1..Len(queue') : \E l \in 1..Len(queue) : queue'[k] = queue[l]
<1>1. \A k \in 1..Len(queue') : \E l \in 1..Len(queue) : queue'[k] = queue[l]
  <2>1. CASE queue' = queue
    BY <2>1
  <2>2. CASE queue # << >> /\ queue' = Tail(queue)
    BY <2>2, Tailed DEF Basis
  <2> QED BY <2>1, <2>2
<1>2. Telling'
  BY DEF Telling, Steady
<1>3. Theirs'
  <2> SUFFICES ASSUME NEW k \in 1..Len(queue'), queue'[k].is = "diff"
               PROVE  /\ at'[queue'[k].from] \in {"streaming", "shown", "closed"}
                      /\ queue'[k].tok = tok'[queue'[k].from]
    BY DEF Theirs, Streamed
  <2>1. PICK l \in 1..Len(queue) : queue'[k] = queue[l]
    BY <1>1
  <2>2. /\ queue[l].from \in Ids /\ Streamed(queue[l].from)
        /\ queue[l].tok = tok[queue[l].from]
    BY <2>1, DiffTyped DEF StepInv, Theirs, Basis
  <2>3. PICK j \in Ids : j = queue[l].from
    BY <2>2
  <2>4. Streamed(j)' /\ tok'[j] = tok[j]
    BY <2>2, <2>3 DEF Steady
  <2> QED BY <2>1, <2>2, <2>3, <2>4 DEF Streamed
<1>4. Linked' /\ LastTold'
  <2>1. CASE queue' = queue
    BY <2>1 DEF StepInv, Linked, LastTold, QueuedOf
  <2>2. CASE queue # << >> /\ queue' = Tail(queue)
    BY <2>2, TailLinks DEF Basis, StepInv
  <2> QED BY <2>1, <2>2
<1> QED BY <1>1, <1>2, <1>3, <1>4

(* Where nothing comes to the page but what is there, it stays in place.             *)
LEMMA InPlaceKept ==
    ASSUME Basis, InPlace, token' = token, room' \in {room, None},
           UNCHANGED <<wrong, drift>>, asked[token] = 0 => asked'[token] = 0,
           \A i \in Ids : Streamed(i) => Streamed(i)' /\ tok'[i] = tok[i],
           \A k \in 1..Len(queue') : queue'[k].is = "reply" /\ queue'[k].tok = token =>
               \E l \in 1..Len(queue) : queue[l] = queue'[k],
           \A j \in Ids : Streamed(j)' /\ tok'[j] = token => Ready(j)' \/ (Streamed(j) /\ (Ready(j) => Ready(j)'))
    PROVE  InPlace'
<1> SUFFICES ASSUME room' # None, OneView'
             PROVE  /\ ~wrong' /\ ~drift' /\ asked'[token'] = 0
                    /\ \A k \in 1..Len(queue') : queue'[k].is = "reply" => queue'[k].tok # token'
                    /\ \A i \in Ids : Streamed(i)' /\ tok'[i] = token' => Ready(i)'
  BY DEF InPlace
<1>1. room # None /\ OneView
  BY OneViewBefore
<1>2. /\ ~wrong /\ ~drift /\ asked[token] = 0
      /\ \A k \in 1..Len(queue) : queue[k].is = "reply" => queue[k].tok # token
      /\ \A i \in Ids : Streamed(i) /\ tok[i] = token => Ready(i)
  BY <1>1 DEF InPlace
<1>3. \A k \in 1..Len(queue') : queue'[k].is = "reply" => queue'[k].tok # token'
  BY <1>2
<1>4. \A i \in Ids : Streamed(i)' /\ tok'[i] = token' => Ready(i)'
  BY <1>2
<1> QED BY <1>2, <1>3, <1>4

(* Steps that neither tell nor hear.                                             *)
LEMMA QuietKeeps ==
    ASSUME Basis, StepInv, Steady, UNCHANGED <<room, token, rowsOf, upto, wrong, drift, queue, told, asked>>,
           \A i \in Ids : tok'[i] = tok[i] \/ tok'[i] <= token,
           \A i \in Ids : held'[i] # told[i] => Streamed(i)
    PROVE  StepInv'
<1>1. Telling' /\ Theirs' /\ Linked' /\ LastTold'
  BY QueueShrinks
<1>2. token \in Nat
  BY FeedAssumption DEF Basis, FrontOK
<1>3. Behind'
  BY <1>2, BehindKept DEF StepInv
<1>4. \A j \in Ids : Ready(j) => Ready(j)'
  BY DEF Ready, QueuedOf
<1>5. InPlace'
  BY <1>4, InPlaceKept DEF StepInv, Steady
<1> QED BY <1>1, <1>3, <1>5 DEF StepInv

(* A view of its own begins with a token nothing carries yet.                       *)
LEMMA NewViewKeeps ==
    ASSUME Basis, StepInv, NEW r \in Rooms, NewView(r), UNCHANGED <<asked, told, held>>,
           queue' = queue \/ (queue # << >> /\ queue' = Tail(queue))
    PROVE  StepInv'
<1>1. /\ Send(token + 1, TRUE) /\ token' = token + 1
      /\ wrong' = FALSE /\ drift' = FALSE
  BY DEF NewView, Clear
<1>2. token \in Nat /\ token' \in Tokens /\ sent + 1 \in Ids /\ at[sent + 1] = "unsent"
  <2>1. FrontOK /\ SentOK /\ Counted
    BY DEF Basis
  <2>2. token' \in Tokens /\ sent + 1 \in Ids /\ at[sent + 1] = "unsent"
    BY <2>1, NewViewFacts
  <2>3. token \in Nat
    BY <2>1, FeedAssumption DEF FrontOK
  <2> QED BY <2>2, <2>3
<1>3. \A i \in Ids : i # sent + 1 => at'[i] = at[i] /\ tok'[i] = tok[i]
  BY <1>1 DEF Send, Basis, SentOK
<1>4. at'[sent + 1] = "sent" /\ tok'[sent + 1] = token + 1
  BY <1>1, <1>2 DEF Send, Basis, SentOK
<1>5. Steady
  BY <1>2, <1>3, <1>4 DEF Steady, Streamed
<1>6. /\ Telling' /\ Theirs' /\ Linked' /\ LastTold'
      /\ \A k \in 1..Len(queue') : \E l \in 1..Len(queue) : queue'[k] = queue[l]
  <2>1. \A i \in Ids : held'[i] # told[i] => Streamed(i)
    BY DEF StepInv, Telling
  <2> QED BY <1>5, <2>1, QueueShrinks
<1>7. token <= token' /\ token < token' /\ token' \in Nat
  BY <1>1, <1>2
<1>8. Behind'
  <2>1. \A i \in Ids : tok'[i] = tok[i] \/ tok'[i] <= token'
    BY <1>1, <1>2, <1>3, <1>4
  <2> QED BY <1>6, <1>7, <2>1, BehindKept DEF StepInv
<1>9. InPlace'
  <2>1. asked'[token'] = 0
    BY <1>2, <1>7 DEF StepInv, Behind
  <2>2. ASSUME NEW k \in 1..Len(queue') PROVE queue'[k].tok # token'
    <3>1. PICK l \in 1..Len(queue) : queue'[k] = queue[l]
      BY <1>6
    <3>2. queue[l].tok <= token
      BY DEF StepInv, Behind
    <3>3. queue[l] \in Messages
      BY DEF Basis
    <3>4. queue[l].tok \in Nat
      BY <3>3, FeedAssumption DEF Messages, Diffs, Replies
    <3> QED BY <1>1, <1>2, <3>1, <3>2, <3>4
  <2>3. ASSUME NEW i \in Ids, Streamed(i)' PROVE tok'[i] # token'
    <3>1. tok'[i] = tok[i] /\ tok[i] <= token /\ tok[i] \in Nat
      BY <1>5, <2>3, FeedAssumption DEF Steady, StepInv, Behind, Basis, SentOK
    <3> QED BY <1>1, <1>2, <3>1
  <2> QED BY <1>1, <2>1, <2>2, <2>3 DEF InPlace
<1> QED BY <1>6, <1>8, <1>9 DEF StepInv

LEMMA UserInStep == ASSUME Basis, StepInv, User PROVE StepInv'
<1> USE DEF rowVars, threadVars, commandVars, streamVars, coreVars
<1>0. /\ \A i \in Ids : held[i] # told[i] => Streamed(i)
      /\ token \in Nat
  BY FeedAssumption DEF StepInv, Telling, Basis, FrontOK
<1>1. ASSUME NEW r \in Rooms, OpenRoom(r) PROVE StepInv'
  BY <1>1, NewViewKeeps DEF OpenRoom
<1>2. ASSUME NEW receipts \in BOOLEAN, OpenAgain(receipts) PROVE StepInv'
  <2>1. /\ Send(token, receipts)
        /\ UNCHANGED <<room, token, rowsOf, upto, wrong, drift, queue, told, held, asked>>
    BY <1>2 DEF OpenAgain
  <2>2. sent + 1 \in Ids /\ at[sent + 1] = "unsent"
    BY <2>1, FeedAssumption DEF Send, Basis, SentOK, Counted
  <2>3. \A i \in Ids : i # sent + 1 => at'[i] = at[i] /\ tok'[i] = tok[i]
    BY <2>1 DEF Send, Basis, SentOK
  <2>4. at'[sent + 1] = "sent" /\ tok'[sent + 1] = token
    BY <2>1, <2>2 DEF Send, Basis, SentOK
  <2>5. Steady
    BY <2>2, <2>3, <2>4 DEF Steady, Streamed
  <2>6. \A i \in Ids : tok'[i] = tok[i] \/ tok'[i] <= token
    BY <1>0, <2>3, <2>4
  <2> QED BY <1>0, <2>1, <2>5, <2>6, QuietKeeps
<1>3. CASE CloseRoom
  <2>1. /\ room' = None /\ UNCHANGED <<token, queue, tok, at, told, held, asked>>
    BY <1>3 DEF CloseRoom
  <2>2. Steady
    BY <2>1 DEF Steady, Streamed
  <2>3. Telling' /\ Theirs' /\ Linked' /\ LastTold'
    BY <1>0, <2>1, <2>2, QueueShrinks
  <2>4. Behind'
    BY <2>1 DEF StepInv, Behind
  <2> QED BY <2>1, <2>3, <2>4 DEF StepInv, InPlace
<1>4. CASE OpenThread \/ CloseThread
  <2>1. UNCHANGED <<room, token, rowsOf, upto, wrong, drift, queue, told, held, asked, tok, at>>
    BY <1>4 DEF OpenThread, CloseThread
  <2>2. Steady
    BY <2>1 DEF Steady, Streamed
  <2> QED BY <1>0, <2>1, <2>2, QuietKeeps
<1> QED BY <1>1, <1>2, <1>3, <1>4 DEF User

LEMMA HearInStep == ASSUME Basis, StepInv, Hear \/ TimerFires PROVE StepInv'
<1> USE DEF rowVars, threadVars, commandVars, streamVars, coreVars
<1>0. /\ \A i \in Ids : held[i] # told[i] => Streamed(i)
      /\ token \in Nat
  BY FeedAssumption DEF StepInv, Telling, Basis, FrontOK
<1>1. CASE TimerFires
  <2>1. UNCHANGED <<queue, asked, told, held>>
    BY <1>1 DEF TimerFires
  <2>2. CASE NewView(room) /\ timer = room
    <3>1. room \in Rooms
      BY <1>1, <2>2 DEF TimerFires, Basis, FrontOK
    <3> QED BY <2>1, <2>2, <3>1, NewViewKeeps
  <2>3. CASE UNCHANGED <<room, token, rowVars, commandVars, at>>
    <3>1. Steady
      BY <2>3 DEF Steady, Streamed
    <3> QED BY <1>0, <2>1, <2>3, <3>1, QuietKeeps
  <2> QED BY <1>1, <2>2, <2>3 DEF TimerFires
<1>2. CASE HearReply
  <2>1. /\ queue # << >> /\ queue' = Tail(queue) /\ Head(queue).is = "reply"
        /\ UNCHANGED <<asked, told, held>>
    BY <1>2 DEF HearReply
  <2>2. CASE Mine(Head(queue)) /\ NewView(room)
    <3>1. room \in Rooms
      BY <2>2 DEF Mine, Basis, FrontOK
    <3> QED BY <2>1, <2>2, <3>1, NewViewKeeps
  <2>3. CASE UNCHANGED <<room, token, commandVars, at>>
    <3>1. Steady
      BY <2>3 DEF Steady, Streamed
    <3>2. /\ Telling' /\ Theirs' /\ Linked' /\ LastTold'
          /\ \A k \in 1..Len(queue') : \E l \in 1..Len(queue) : queue'[k] = queue[l]
      BY <1>0, <2>1, <3>1, QueueShrinks
    <3>3. Behind'
      BY <1>0, <2>1, <2>3, <3>2, BehindKept DEF StepInv
    <3>4. InPlace'
      <4>1. CASE Mine(Head(queue))
        <5>1. 1 \in 1..Len(queue) /\ queue[1].is = "reply" /\ queue[1].tok = token /\ room # None
          BY <2>1, <4>1, Tailed DEF Basis, Mine
        <5>2. ~OneView
          BY <5>1 DEF StepInv, InPlace
        <5>3. ~OneView'
          BY <2>3, <3>1, <5>2, OneViewBefore DEF Steady
        <5> QED BY <5>3 DEF InPlace
      <4>2. CASE ~Mine(Head(queue))
        <5>1. UNCHANGED <<rowsOf, upto, wrong, drift>>
          BY <1>2, <4>2 DEF HearReply
        <5>2. \A j \in Ids : Ready(j) => Ready(j)'
          BY <2>1, <5>1, TailLinks DEF Basis, StepInv
        <5> QED BY <2>1, <2>3, <3>1, <3>2, <5>1, <5>2, InPlaceKept DEF StepInv, Steady
      <4> QED BY <4>1, <4>2
    <3> QED BY <3>2, <3>3, <3>4 DEF StepInv
  <2> QED BY <1>2, <2>2, <2>3 DEF HearReply, Reopen
<1>3. CASE HearDiff
  <2> DEFINE m == Head(queue)
  <2>1. /\ queue # << >> /\ queue' = Tail(queue) /\ m.is = "diff"
        /\ UNCHANGED <<room, token, tok, at, told, held>>
        /\ IF Mine(m) THEN Apply(m) ELSE UNCHANGED <<rowVars, asked>>
    BY <1>3 DEF HearDiff
  <2>2. Steady
    BY <2>1 DEF Steady, Streamed
  <2>3. /\ Telling' /\ Theirs' /\ Linked' /\ LastTold'
        /\ \A k \in 1..Len(queue') : \E l \in 1..Len(queue) : queue'[k] = queue[l]
    BY <1>0, <2>1, <2>2, QueueShrinks
  <2>4. /\ 1 \in 1..Len(queue) /\ m = queue[1] /\ m.from \in Ids /\ Streamed(m.from)
        /\ m.tok = tok[m.from]
    BY <2>1, Tailed, DiffTyped DEF Basis, StepInv, Theirs
  <2>5. /\ \A j \in Ids : UNCHANGED <<rowsOf, upto>> /\ Ready(j) /\ m.from # j => Ready(j)'
        /\ \A j \in Ids : m.from = j /\ rowsOf' = j /\ upto' = m.hi => Ready(j)'
    <3>1. queue \in Seq(Messages) /\ Linked /\ LastTold
      BY DEF Basis, StepInv
    <3>2. /\ queue # << >> /\ queue' = Tail(queue) /\ UNCHANGED told
          /\ Head(queue).is = "diff"
      BY <2>1
    <3>3. /\ \A j \in Ids : /\ UNCHANGED <<rowsOf, upto>> /\ Ready(j)
                            /\ ~(Head(queue).is = "diff" /\ Head(queue).from = j)
                            => Ready(j)'
          /\ \A j \in Ids : /\ Head(queue).is = "diff" /\ Head(queue).from = j
                            /\ rowsOf' = j /\ upto' = Head(queue).hi
                            => Ready(j)'
      BY <3>1, <3>2, TailLinks
    <3> QED BY <3>2, <3>3
  <2>6. \A t \in Tokens : asked'[t] = asked[t] \/ t <= token
    <3>1. asked' = asked \/ asked' = [asked EXCEPT ![token] = @ + 1]
      BY <2>1 DEF Apply
    <3>2. asked \in [Tokens -> Nat] /\ \A t \in Tokens : t \in Nat
      BY FeedAssumption DEF Basis, CoreOK
    <3>3. \A t \in Tokens : t # token => asked'[t] = asked[t]
      BY <3>1, <3>2
    <3> QED BY <1>0, <3>2, <3>3
  <2>7. Behind'
    BY <1>0, <2>1, <2>3, <2>6, BehindKept DEF StepInv
  <2>8. 1 \in QueuedOf(m.from) /\ \A c \in QueuedOf(m.from) : 1 <= c
    BY <2>1, <2>4 DEF QueuedOf
  <2> HIDE DEF m
  <2>9. InPlace'
    <3>1. CASE Mine(m)
      <4> SUFFICES ASSUME OneView PROVE InPlace'
        BY <2>1, <2>2, OneViewBefore DEF InPlace, Steady
      <4>1. room # None /\ tok[m.from] = token
        BY <2>4, <3>1 DEF Mine
      <4>2. /\ ~wrong /\ ~drift /\ asked[token] = 0
            /\ \A k \in 1..Len(queue) : queue[k].is = "reply" => queue[k].tok # token
            /\ Ready(m.from)
        BY <2>4, <4>1 DEF StepInv, InPlace
      <4>3. Fits(m)
        BY <2>4, <2>8, <4>2 DEF Fits, Ready
      <4>4. /\ rowsOf' = m.from /\ upto' = m.hi /\ wrong' = FALSE /\ ~drift' /\ asked' = asked
        BY <2>1, <3>1, <4>2, <4>3 DEF Apply
      <4>5. \A i \in Ids : Streamed(i)' /\ tok'[i] = token' => i = m.from
        BY <2>1, <2>2, <2>4, <4>1 DEF Steady, OneView
      <4>6. \A k \in 1..Len(queue') : queue'[k].is = "reply" => queue'[k].tok # token'
        BY <2>1, <2>3, <4>2
      <4>7. \A i \in Ids : Streamed(i)' /\ tok'[i] = token' => Ready(i)'
        BY <2>5, <4>4, <4>5
      <4>8. ~wrong' /\ ~drift' /\ asked'[token'] = 0
        BY <2>1, <4>2, <4>4
      <4> QED BY <4>6, <4>7, <4>8 DEF InPlace
    <3>2. CASE ~Mine(m) /\ room # None
      <4>1. tok[m.from] # token /\ UNCHANGED <<rowsOf, upto, wrong, drift, asked>>
        BY <2>1, <2>4, <3>2 DEF Mine
      <4>2. \A j \in Ids : Streamed(j)' /\ tok'[j] = token => Streamed(j) /\ (Ready(j) => Ready(j)')
        BY <2>1, <2>2, <2>5, <4>1 DEF Steady
      <4> QED BY <2>1, <2>2, <2>3, <4>1, <4>2, InPlaceKept DEF StepInv, Steady
    <3>3. CASE room = None
      BY <2>1, <3>3 DEF InPlace
    <3> QED BY <3>1, <3>2, <3>3
  <2> QED BY <2>3, <2>7, <2>9 DEF StepInv
<1> QED BY <1>1, <1>2, <1>3 DEF Hear

LEMMA CommandInStep == ASSUME Basis, StepInv, Command PROVE StepInv'
<1> USE DEF frontVars, rowVars, threadVars, commandVars, streamVars
<1>0. /\ \A i \in Ids : held[i] # told[i] => Streamed(i)
      /\ token \in Nat /\ None \notin Ids /\ \A t \in Tokens : t \in Nat
      /\ slot # None => slot \in Ids /\ at[slot] = "shown"
  BY FeedAssumption DEF StepInv, Telling, Basis, FrontOK, CoreOK, OneShown
<1>1. ASSUME NEW i \in Ids, OpenTakes(i) \/ OpenEnds(i) PROVE StepInv'
  <2>1. UNCHANGED <<room, token, rowsOf, upto, wrong, drift, queue, told, held, asked, tok>>
    BY <1>1 DEF OpenTakes, OpenEnds
  <2>2. Steady
    <3>1. CASE OpenTakes(i)
      <4>1. /\ at[i] = "sent"
            /\ \/ \A j \in Ids : at'[j] = IF j = i THEN "kept" ELSE at[j]
               \/ \A j \in Ids : at'[j] = IF j = i THEN "building"
                                          ELSE IF j = slot THEN "closed" ELSE at[j]
        BY <3>1 DEF OpenTakes, Basis, SentOK
      <4> QED BY <1>0, <2>1, <4>1 DEF Steady, Streamed
    <3>2. CASE OpenEnds(i)
      <4>1. /\ at[i] = "streaming"
            /\ \A j \in Ids : j # i => at'[j] = at[j]
            /\ at'[i] \in {"shown", "closed"}
        BY <3>2 DEF OpenEnds, Basis, SentOK
      <4> QED BY <2>1, <4>1 DEF Steady, Streamed
    <3> QED BY <1>1, <3>1, <3>2
  <2> QED BY <1>0, <2>1, <2>2, QuietKeeps
<1>2. ASSUME NEW t \in Tokens, CloseTakes(t) PROVE StepInv'
  <2>1. UNCHANGED <<room, token, rowsOf, upto, wrong, drift, queue, told, held, asked, tok>>
    BY <1>2 DEF CloseTakes
  <2>2. at' = at \/ (slot # None /\ at' = [at EXCEPT ![slot] = "closed"])
    BY <1>2 DEF CloseTakes
  <2>3. Steady
    BY <1>0, <2>1, <2>2 DEF Steady, Streamed, Basis, SentOK
  <2> QED BY <1>0, <2>1, <2>3, QuietKeeps
<1>3. ASSUME NEW t \in Tokens, ResyncTakes(t) PROVE StepInv'
  <2> DEFINE meant == slot # None /\ tok[slot] = t
             answer == [is |-> "reply", tok |-> t, meant |-> meant]
  <2>1. /\ UNCHANGED <<room, token, rowsOf, upto, wrong, drift, told, held, tok, at>>
        /\ asked[t] > 0 /\ asked' = [asked EXCEPT ![t] = @ - 1]
        /\ queue' = Append(queue, answer)
    BY <1>3 DEF ResyncTakes
  <2>2. answer.is = "reply" /\ answer.tok = t
    OBVIOUS
  <2> HIDE DEF answer
  <2>3. Steady
    BY <2>1 DEF Steady, Streamed
  <2>4. asked[t] # 0 /\ t <= token
    BY <1>0, <2>1 DEF StepInv, Behind, Basis, CoreOK
  <2>5. /\ Linked' /\ LastTold'
        /\ \A j \in Ids : Ready(j) => Ready(j)'
    BY <2>1, <2>2, AnswersBeside DEF Basis, StepInv
  <2>6. \A k \in 1..Len(queue') : queue'[k] = answer \/ (k \in 1..Len(queue) /\ queue'[k] = queue[k])
    BY <2>1, Appended DEF Basis
  <2>7. Theirs'
    <3> SUFFICES ASSUME NEW k \in 1..Len(queue'), queue'[k].is = "diff"
                 PROVE  /\ at'[queue'[k].from] \in {"streaming", "shown", "closed"}
                        /\ queue'[k].tok = tok'[queue'[k].from]
      BY DEF Theirs, Streamed
    <3>1. k \in 1..Len(queue) /\ queue'[k] = queue[k]
      BY <2>2, <2>6
    <3> QED BY <2>1, <3>1 DEF StepInv, Theirs, Streamed
  <2>8. Telling'
    BY <1>0, <2>1, <2>3 DEF Telling, Steady
  <2>9. Behind'
    <3>1. \A u \in Tokens : asked'[u] = asked[u] \/ u <= token'
      BY <2>1, <2>4 DEF Basis, CoreOK
    <3>2. \A k \in 1..Len(queue') : queue'[k].tok <= token' \/ \E l \in 1..Len(queue) : queue'[k] = queue[l]
      BY <2>1, <2>2, <2>4, <2>6
    <3> QED BY <1>0, <2>1, <3>1, <3>2, BehindKept DEF StepInv
  <2>10. InPlace'
    <3>1. CASE t = token
      <4>1. room # None => ~OneView
        BY <2>4, <3>1 DEF StepInv, InPlace
      <4>2. room' # None => ~OneView'
        BY <2>1, <2>3, <4>1, OneViewBefore DEF Steady
      <4> QED BY <4>2 DEF InPlace
    <3>2. CASE t # token
      <4>1. asked'[token] = asked[token]
        BY <2>1, <3>2 DEF Basis, CoreOK, FrontOK
      <4>2. \A k \in 1..Len(queue') : queue'[k].is = "reply" /\ queue'[k].tok = token =>
                \E l \in 1..Len(queue) : queue[l] = queue'[k]
        BY <2>2, <2>6, <3>2
      <4>3. \A j \in Ids : Streamed(j)' /\ tok'[j] = token => Streamed(j)
        BY <2>3 DEF Steady
      <4> QED BY <2>1, <2>3, <2>5, <4>1, <4>2, <4>3, InPlaceKept DEF StepInv, Steady
    <3> QED BY <3>1, <3>2
  <2> QED BY <2>5, <2>7, <2>8, <2>9, <2>10 DEF StepInv
<1> QED BY <1>1, <1>2, <1>3 DEF Command

(* What a view tells, the first time or again.                                     *)
LEMMA TellingKeeps ==
    ASSUME Basis, StepInv, NEW i \in Ids, NEW m, m.is = "diff", m.from = i, m.tok = tok[i],
           m.whole \/ m.lo = told[i],
           queue' = Append(queue, m), told' = [told EXCEPT ![i] = m.hi], held'[i] = m.hi,
           \A j \in Ids : j # i => held'[j] = held[j] /\ (Streamed(j)' <=> Streamed(j)),
           Streamed(i)', Streamed(i) \/ m.whole,
           UNCHANGED <<room, token, rowsOf, upto, wrong, drift, asked, tok>>
    PROVE  StepInv'
<1>0. /\ token \in Nat /\ told \in [Ids -> Versions] /\ queue \in Seq(Messages)
  BY FeedAssumption DEF Basis, FrontOK, CoreOK
<1>1. told'[i] = m.hi /\ \A j \in Ids : j # i => told'[j] = told[j]
  BY <1>0
<1>2. \A k \in 1..Len(queue') : queue'[k] = m \/ (k \in 1..Len(queue) /\ queue'[k] = queue[k])
  BY <1>0, Appended
<1>3. \A j \in Ids : Streamed(j) => Streamed(j)'
  OBVIOUS
<1>4. Telling'
  BY <1>1 DEF StepInv, Telling
<1>5. Theirs'
  <2> SUFFICES ASSUME NEW k \in 1..Len(queue'), queue'[k].is = "diff"
               PROVE  /\ at'[queue'[k].from] \in {"streaming", "shown", "closed"}
                      /\ queue'[k].tok = tok'[queue'[k].from]
    BY DEF Theirs, Streamed
  <2>1. CASE queue'[k] = m
    BY <2>1 DEF Streamed
  <2>2. CASE k \in 1..Len(queue) /\ queue'[k] = queue[k]
    <3>1. queue[k].from \in Ids /\ Streamed(queue[k].from) /\ queue[k].tok = tok[queue[k].from]
      BY <1>0, <2>2, DiffTyped DEF StepInv, Theirs
    <3>2. PICK j \in Ids : j = queue[k].from
      BY <3>1
    <3>3. Streamed(j)'
      BY <1>3, <3>1, <3>2
    <3> QED BY <2>2, <3>1, <3>2, <3>3 DEF Streamed
  <2> QED BY <1>2, <2>1, <2>2
<1>6. /\ Linked' /\ LastTold'
      /\ \A j \in Ids : Ready(j) \/ (j = i /\ QueuedOf(i) = {} /\ m.whole) => Ready(j)'
  BY <1>0, TellsOn DEF StepInv
<1>7. Behind'
  <2>1. tok[i] <= token
    BY DEF StepInv, Behind
  <2>2. \A k \in 1..Len(queue') : queue'[k].tok <= token' \/ \E l \in 1..Len(queue) : queue'[k] = queue[l]
    BY <1>2, <2>1
  <2> QED BY <1>0, <2>2, BehindKept DEF StepInv
<1>8. ~Streamed(i) => QueuedOf(i) = {}
  BY <1>0 DEF StepInv, Theirs, QueuedOf
<1>9. InPlace'
  <2>1. \A j \in Ids : Streamed(j)' /\ tok'[j] = token =>
            Ready(j)' \/ (Streamed(j) /\ (Ready(j) => Ready(j)'))
    BY <1>6, <1>8
  <2>2. \A k \in 1..Len(queue') : queue'[k].is = "reply" /\ queue'[k].tok = token =>
            \E l \in 1..Len(queue) : queue[l] = queue'[k]
    BY <1>2
  <2> QED BY <1>3, <2>1, <2>2, InPlaceKept DEF StepInv
<1> QED BY <1>4, <1>5, <1>6, <1>7, <1>9 DEF StepInv

LEMMA StreamInStep == ASSUME Basis, StepInv, Build \/ Stream \/ CoreChanges PROVE StepInv'
<1> USE DEF frontVars, rowVars, threadVars, commandVars, streamVars
<1>0. /\ \A i \in Ids : held[i] # told[i] => Streamed(i)
      /\ token \in Nat /\ told \in [Ids -> Versions] /\ held \in [Ids -> Versions]
      /\ at \in [Ids -> Places]
  BY FeedAssumption DEF StepInv, Telling, Basis, FrontOK, CoreOK, SentOK
<1>1. ASSUME NEW i \in Ids, BuildFails(i) PROVE StepInv'
  <2>1. UNCHANGED <<room, token, rowsOf, upto, wrong, drift, queue, told, held, asked, tok>>
    BY <1>1 DEF BuildFails
  <2>2. Steady
    BY <1>0, <1>1, <2>1 DEF BuildFails, Steady, Streamed
  <2> QED BY <1>0, <2>1, <2>2, QuietKeeps
<1>2. CASE CoreChanges
  <2>1. UNCHANGED <<room, token, rowsOf, upto, wrong, drift, queue, told, held, asked, tok, at>>
    BY <1>2 DEF CoreChanges
  <2>2. Steady
    BY <2>1 DEF Steady, Streamed
  <2> QED BY <1>0, <2>1, <2>2, QuietKeeps
<1>3. ASSUME NEW i \in Ids, StreamTakes(i) PROVE StepInv'
  <2>1. UNCHANGED <<room, token, rowsOf, upto, wrong, drift, queue, told, asked, tok, at>>
    BY <1>3 DEF StreamTakes
  <2>2. Steady
    BY <2>1 DEF Steady, Streamed
  <2>3. \A j \in Ids : held'[j] # told[j] => Streamed(j)
    BY <1>0, <1>3 DEF StreamTakes, Live, Streamed
  <2> QED BY <2>1, <2>2, <2>3, QuietKeeps
<1>4. ASSUME NEW i \in Ids, NEW whole \in BOOLEAN, StreamTells(i, whole) PROVE StepInv'
  <2> DEFINE m == [is |-> "diff", tok |-> tok[i], from |-> i, lo |-> told[i], hi |-> held[i],
                   whole |-> whole]
  <2>1. /\ m.is = "diff" /\ m.from = i /\ m.tok = tok[i] /\ m.lo = told[i] /\ m.hi = held[i]
    OBVIOUS
  <2>2. /\ held[i] # told[i] /\ queue' = Append(queue, m) /\ told' = [told EXCEPT ![i] = held[i]]
        /\ UNCHANGED <<room, token, rowsOf, upto, wrong, drift, asked, tok, at, held>>
    BY <1>4 DEF StreamTells
  <2> HIDE DEF m
  <2>3. Streamed(i) /\ \A j \in Ids : Streamed(j)' <=> Streamed(j)
    BY <1>0, <2>2 DEF Streamed
  <2> QED BY <2>1, <2>2, <2>3, TellingKeeps
<1>5. ASSUME NEW i \in Ids, Reset(i),
             \/ at[i] = "building" /\ at' = [at EXCEPT ![i] = "streaming"]
             \/ at[i] \in Live /\ UNCHANGED at,
             UNCHANGED <<room, token, rowsOf, upto, wrong, drift, asked, tok>>
      PROVE  StepInv'
  <2> DEFINE m == [is |-> "diff", tok |-> tok[i], from |-> i, lo |-> items, hi |-> items,
                   whole |-> TRUE]
  <2>1. /\ m.is = "diff" /\ m.from = i /\ m.tok = tok[i] /\ m.whole /\ m.hi = items
    OBVIOUS
  <2>2. /\ queue' = Append(queue, m) /\ told' = [told EXCEPT ![i] = items]
        /\ held' = [held EXCEPT ![i] = items]
    BY <1>5 DEF Reset
  <2> HIDE DEF m
  <2>3. held'[i] = items /\ \A j \in Ids : j # i => held'[j] = held[j]
    BY <1>0, <2>2
  <2>4. Streamed(i)' /\ \A j \in Ids : j # i => (Streamed(j)' <=> Streamed(j))
    BY <1>0, <1>5 DEF Streamed, Live
  <2> QED BY <1>5, <2>1, <2>2, <2>3, <2>4, TellingKeeps
<1>6. ASSUME NEW i \in Ids, BuildStarts(i) \/ StreamResyncs(i) PROVE StepInv'
  BY <1>5, <1>6 DEF BuildStarts, StreamResyncs
<1> QED BY <1>1, <1>2, <1>3, <1>4, <1>6 DEF Build, Stream

LEMMA StepInvHolds == IInv /\ StepInv /\ [Next]_vars => StepInv'
<1> SUFFICES ASSUME Basis, StepInv, [Next]_vars PROVE StepInv'
  BY InvParts
<1>1. CASE UNCHANGED vars
  <2> USE DEF vars, rowVars, threadVars, commandVars, streamVars
  <2>1. Steady
    BY <1>1 DEF Steady, Streamed
  <2>2. UNCHANGED <<room, token, rowsOf, upto, wrong, drift, queue, told, held, asked, tok>>
    BY <1>1
  <2> QED BY <2>1, <2>2, QuietKeeps DEF StepInv, Telling
<1>2. CASE User \/ Hear \/ TimerFires
  BY <1>2, UserInStep, HearInStep
<1>3. CASE Command \/ Build \/ Stream \/ CoreChanges
  BY <1>3, CommandInStep, StreamInStep
<1> QED BY <1>1, <1>2, <1>3 DEF Next

LEMMA InitInStep == Init => StepInv
<1> SUFFICES ASSUME Init PROVE StepInv
  OBVIOUS
<1>1. Len(queue) = 0 /\ \A i \in Ids : QueuedOf(i) = {}
  BY DEF Init, QueuedOf
<1>2. \A i \in Ids : tok[i] = 0 /\ told[i] = held[i]
  BY DEF Init
<1>3. \A t \in Tokens : asked[t] = 0
  BY DEF Init
<1> QED BY <1>1, <1>2, <1>3 DEF Init, StepInv, Behind, Telling, Theirs, Linked, LastTold, InPlace

(* While one view alone has streamed under the page's token no diff misses its       *)
(* place, and when the queue is through with it the rows are the list as the view     *)
(* last told it, for any number of opens, changes and rooms (timeline.rs start,       *)
(* eventTimeline and closeRoom in matrixbridge.cpp, applyOperation).               *)
THEOREM RowsAreInStep == Spec => []InStep
<1>1. StepInv => InStep
  BY DEF StepInv, InPlace, InStep, Ready
<1> QED BY <1>1, InitHolds, StepHolds, InitInStep, StepInvHolds, PTL DEF Spec
=============================================================================
