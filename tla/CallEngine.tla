----------------------------- MODULE CallEngine -----------------------------
(* One call at a time: the engine of src/callengine.cpp between the user, the *)
(* other side's words, its own timers, and the media pipeline whose threads   *)
(* post what they have to say to the Qt event queue.                         *)
(*                                                                          *)
(* A pipeline is named by the call it was built for. Every post and every     *)
(* single shot carries the generation it was made under and does nothing under *)
(* a later one; tearDown raises it, so here tearDown takes them away. Rooms are *)
(* of two people, and the other one is named by the room; what arrives about a *)
(* call comes from its room. Shots of one pipeline that wait at the same time    *)
(* count as one. The session descriptions, the other side's candidates, the    *)
(* choice of camera and the sound's way are left out, and so is the order of the *)
(* queue; a pipeline put away asks for no negotiation any more.                *)
EXTENDS Naturals, FiniteSets

CONSTANTS Rooms,
          Parties,        \* party ids of the other side's devices
          NoParty,        \* a version 0 client sends none: "-"
          Theirs,         \* ids of the calls others place
          MaxOurs,        \* bound: calls placed here, second starts included
          MaxWaits,       \* how often a deferred offer looks at the pads (30)
          MaxPosted,      \* bound: events posted and not handled
          None

ASSUME CallAssumption ==
    /\ MaxOurs \in Nat /\ MaxWaits \in Nat /\ MaxPosted \in Nat
    /\ Theirs \cap Nat = {}
    /\ None \notin Rooms \cup Parties \cup {NoParty} \cup Theirs \cup Nat

Ours == 1..MaxOurs
Calls == Ours \cup Theirs
Devices == Parties \cup {NoParty}

VARIABLES call,           \* m_state, m_callId, m_roomId, m_peer, m_isCaller, m_selectedParty, m_withVideo
          media,          \* what tearDown takes: the pipeline, the camera, the timers
          offer,          \* m_offerDeferred, m_offerWaits
          lingers,        \* a pipeline put away stays paused until its relays are given back
          old,            \* the one that does
          posted,         \* posted under this generation, not handled yet
          placed,         \* calls placed so far
          roomOf,         \* where a call is
          rung,           \* calls of others heard of
          said,           \* descriptions sent: for which call, out of which pipeline
          ended,          \* calls that were told to be over, here or there, and not offered since
          replies,        \* call.invite commands not answered yet
          wish,           \* history: the first id the call placed last could go out under
          woken           \* history: calls offered after they were over

wordVars == <<rung, said, replies>>
idVars == <<placed, roomOf, wish, woken>>
callVars == <<idVars, ended>>
vars == <<call, media, offer, lingers, old, posted, callVars, wordVars>>

Kinds == {"negotiate", "description", "nothing", "candidate", "connected", "failed",
          "closed", "error"}
Events == [kind : Kinds, of : Calls]
Words == [call : Calls \cup {None}, of : Calls]
Owed == {"no", "owed", "made"}        \* a pipeline's own description
States == {"idle", "calling", "ringing", "connecting", "active"}

NoMedia == [pipe |-> None, own |-> "no", camera |-> FALSE, picture |-> "none", watchdog |-> FALSE,
            signalled |-> FALSE, shot |-> FALSE, pending |-> {}, watch |-> FALSE,
            grace |-> FALSE, afterRelay |-> 0]

CallRecords == [state : States, id : Calls \cup {None}, room : Rooms \cup {None},
                peer : Rooms \cup {None}, caller : BOOLEAN, party : Devices \cup {None},
                video : BOOLEAN]
MediaRecords == [pipe : Calls \cup {None}, own : Owed, camera : BOOLEAN,
                 picture : {"none", "shaped", "flowing"}, watchdog : BOOLEAN,
                 signalled : BOOLEAN, shot : BOOLEAN, pending : SUBSET Calls,
                 watch : BOOLEAN, grace : BOOLEAN, afterRelay : 0..2]
OfferRecords == [deferred : BOOLEAN, waits : 0..MaxWaits]

\* Every variable keeps its type: an offer looks at the pads MaxWaits times at most (requestOffer).
TypeOK ==
    /\ call \in CallRecords /\ media \in MediaRecords /\ offer \in OfferRecords
    /\ lingers \in BOOLEAN /\ old \subseteq [pipe : Calls, own : Owed]
    /\ posted \subseteq Events
    /\ placed \in 0..MaxOurs
    /\ roomOf \in [Calls -> Rooms \cup {None}]
    /\ rung \subseteq Theirs /\ said \subseteq Words /\ ended \subseteq Calls
    /\ replies \subseteq Calls
    /\ wish \in 0..MaxOurs /\ woken \subseteq Calls

Init ==
    /\ call = [state |-> "idle", id |-> None, room |-> None, peer |-> None, caller |-> FALSE,
               party |-> None, video |-> FALSE]
    /\ media = NoMedia
    /\ offer = [deferred |-> FALSE, waits |-> 0]
    /\ lingers \in BOOLEAN /\ old = {}
    /\ posted = {}
    /\ placed = 0 /\ roomOf = [c \in Calls |-> None]
    /\ rung = {} /\ said = {} /\ ended = {} /\ replies = {}
    /\ wish = 0 /\ woken = {}

-----------------------------------------------------------------------------
(* Putting a pipeline away, building one, and the ways a call ends.          *)

\* Mutant: the generation is not raised, so what was posted under the last pipeline still counts.
TearDownKeepsPosts(m) ==
    /\ media' = m
    /\ posted' = posted
    /\ old' = IF lingers /\ media.pipe # None THEN {[pipe |-> media.pipe, own |-> media.own]} ELSE old

\* Where the agent can be reached the pipeline is kept until it has said goodbye. Only the last
\* one put away is followed: the three seconds of those before are taken to be over.
TearDown(m) ==
    /\ media' = m
    /\ posted' = {}
    /\ old' = IF lingers /\ media.pipe # None THEN {[pipe |-> media.pipe, own |-> media.own]} ELSE old

\* The pipeline of call c runs.
Playing(c, video) == [NoMedia EXCEPT !.pipe = c, !.camera = video]

\* hangupReady or rejectReady: nothing without a room and an id.
Goodbye(k) == IF k.room = None THEN {} ELSE {k.id} \ {None}

Over(k) == [k EXCEPT !.state = "idle", !.id = None, !.room = None, !.peer = None, !.video = FALSE]

\* reportFailure keeps the call's id, room and peer.
Failed(k) == [k EXCEPT !.state = "idle", !.video = FALSE]

\* Mutant: a failure does not tell the other side.
ReportFailureQuiet(k) ==
    /\ call' = Failed(k)
    /\ TearDown(NoMedia)
    /\ UNCHANGED ended

ReportFailure(k) ==
    /\ ended' = ended \cup Goodbye(k)
    /\ call' = Failed(k)
    /\ TearDown(NoMedia)

HangUpNow ==
    /\ ended' = ended \cup Goodbye(call)
    /\ call' = Over(call)
    /\ TearDown(NoMedia)

\* The next call id, in the call's room; its pipeline may fail to come up. bye: the call it follows.
\* The kernel is taken to have the random bytes an id is made of (freshId).
StartOutgoing(k, video, bye) ==
    LET c == placed + 1
        started == [k EXCEPT !.id = c, !.caller = TRUE, !.party = None, !.video = video]
    IN  /\ placed' = c
        /\ roomOf' = [roomOf EXCEPT ![c] = k.room]
        /\ offer' = [deferred |-> FALSE, waits |-> 0]
        /\ \/ /\ call' = started
              /\ ended' = ended \cup bye
              /\ TearDown([Playing(c, video) EXCEPT !.watchdog = video])
           \/ /\ call' = Failed(started)
              /\ ended' = ended \cup bye \cup {c}
              /\ TearDown(NoMedia)

\* Their offer is taken and an answer asked for; it may turn out unreadable.
AnswerOffer(k) ==
    \/ /\ call' = k
       /\ TearDown([Playing(k.id, k.video) EXCEPT !.own = "owed"])
       /\ UNCHANGED ended
    \/ /\ call' = Failed(k)
       /\ TearDown(NoMedia)
       /\ ended' = ended \cup Goodbye(k)

-----------------------------------------------------------------------------
(* The user.                                                                *)

\* stale: the relay credentials have run out, so the call waits for new ones.
PlaceCall(r, video, stale) ==
    LET k == [call EXCEPT !.state = "calling", !.room = r, !.peer = None, !.video = video]
    IN  /\ call.state = "idle"
        /\ placed + (IF video THEN 2 ELSE 1) =< MaxOurs
        /\ \/ /\ stale
              /\ call' = k
              /\ media' = [media EXCEPT !.afterRelay = 1]
              /\ UNCHANGED <<offer, old, posted, placed, roomOf, ended>>
           \/ ~stale /\ StartOutgoing(k, video, {})
        /\ wish' = placed + 1
        /\ UNCHANGED <<lingers, woken, wordVars>>

\* The page shows its buttons while it rings and at no other time (CallPage.qml); the camera only
\* where the offer had video, the setting allows it and the user picked it. An invite that came
\* without a description stays where it is.
AcceptCall(video, stale) ==
    LET k == [call EXCEPT !.state = "connecting", !.video = video]
    IN  /\ call.state = "ringing"
        /\ \/ /\ call' = [call EXCEPT !.video = video]
              /\ UNCHANGED <<media, old, posted, ended>>
           \/ /\ stale
              /\ call' = k
              /\ media' = [media EXCEPT !.afterRelay = 2]
              /\ UNCHANGED <<old, posted, ended>>
           \/ ~stale /\ AnswerOffer(k)
        /\ UNCHANGED <<offer, lingers, idVars, wordVars>>

\* Also the ring that nobody answers, and the end of the session.
HangUp ==
    /\ call.state # "idle"
    /\ HangUpNow
    /\ UNCHANGED <<offer, lingers, idVars, wordVars>>

-----------------------------------------------------------------------------
(* The other side, and the core's answers.                                  *)

\* A call that comes while another is on is hung up at once. The core lets no invite through that
\* repeats its sender's last one (ring_is_due); one that comes again behind another is left out.
OnRemoteInvite(t, r) ==
    /\ t \notin rung
    /\ rung' = rung \cup {t}
    /\ roomOf' = [roomOf EXCEPT ![t] = r]
    /\ \/ /\ call.state # "idle"
          /\ ended' = ended \cup {t}
          /\ UNCHANGED call
       \/ /\ call.state = "idle"
          /\ call' = [state |-> "ringing", id |-> t, room |-> r, peer |-> r, caller |-> FALSE,
                      party |-> None, video |-> FALSE]
          /\ UNCHANGED ended
    /\ UNCHANGED <<media, offer, lingers, old, posted, placed, wish, woken, said, replies>>

\* The description cannot be read; without a pipeline nobody tries.
Unreadable(k) == media.pipe # None /\ ReportFailure(k)

\* Call c was offered to the other side.
Invited(c) == \E w \in said : w.call = c /\ w.of \in Ours

\* An answer is heard where the other side was asked; a second one is not taken. The engine's state
\* is not looked at: after reportFailure an answer sets it to "connecting" with no pipeline behind it.
OnRemoteAnswer(c, d) ==
    LET k == [call EXCEPT !.state = "connecting", !.peer = roomOf[c], !.party = d]
    IN  /\ Invited(c)
        /\ c = call.id /\ call.caller /\ call.room = roomOf[c]
        /\ call.peer \in {None, roomOf[c]}
        /\ call.party = None
        /\ \/ /\ call' = k
              /\ UNCHANGED <<media, old, posted, ended>>
           \/ Unreadable(k)
        /\ UNCHANGED <<offer, lingers, idVars, wordVars>>

\* Once an answer is taken a reject is void, and only the device it came from may hang up.
OnRemoteHangup(c, d, reject) ==
    /\ call.state # "idle" /\ c = call.id /\ call.room = roomOf[c]
    /\ call.peer \in {None, roomOf[c]}
    /\ (call.caller /\ call.party # None) => ~reject /\ call.party \in {NoParty, d}
    /\ ended' = ended \cup {c}
    /\ call' = Over(call)
    /\ TearDown(NoMedia)
    /\ UNCHANGED <<offer, lingers, idVars, wordVars>>

\* Another device of this account took the call, or the caller chose another device's answer.
TakenElsewhere(c) ==
    /\ c = call.id /\ call.room = roomOf[c]
    /\ \/ call.state = "ringing"
       \/ call.state # "idle" /\ ~call.caller /\ call.peer = roomOf[c]
    /\ ended' = ended \cup {c}
    /\ call' = Over(call)
    /\ TearDown(NoMedia)
    /\ UNCHANGED <<offer, lingers, idVars, wordVars>>

\* The answer to call.invite may name the room's other member; it names no call.
ExpectPeer(c) ==
    /\ c \in replies
    /\ replies' = replies \ {c}
    /\ \/ /\ call.caller /\ call.state # "idle"
          /\ call' = [call EXCEPT !.peer = roomOf[c]]
       \/ UNCHANGED call
    /\ UNCHANGED <<media, offer, lingers, old, posted, callVars, rung, said>>

\* Fresh credentials, their refusal, or four seconds without either.
ResumeAfterRelay ==
    /\ media.afterRelay # 0
    /\ \/ /\ media.afterRelay = 1 /\ call.state = "calling"
          /\ StartOutgoing(call, call.video, {})
       \/ /\ media.afterRelay = 2 /\ call.state = "connecting"
          /\ AnswerOffer(call)
          /\ UNCHANGED <<offer, placed, roomOf>>
       \/ /\ \/ media.afterRelay = 1 /\ call.state # "calling"
             \/ media.afterRelay = 2 /\ call.state # "connecting"
          /\ media' = [media EXCEPT !.afterRelay = 0]
          /\ UNCHANGED <<call, offer, old, posted, placed, roomOf, ended>>
    /\ UNCHANGED <<lingers, wish, woken, wordVars>>

-----------------------------------------------------------------------------
(* The camera and the timers.                                               *)

Still == <<lingers, old, callVars, wordVars>>

\* Mutant: looks at the pads once more than it may.
RequestOfferLonger(m, ready) ==
    \/ /\ media.pipe = None \/ ~call.caller \/ call.state = "idle"
       /\ offer' = [offer EXCEPT !.deferred = FALSE]
       /\ media' = m
    \/ /\ media.pipe # None /\ call.caller /\ call.state # "idle"
       /\ \/ /\ call.video /\ offer.waits =< MaxWaits /\ ~ready
             /\ offer' = [deferred |-> TRUE, waits |-> offer.waits + 1]
             /\ media' = [m EXCEPT !.shot = TRUE]
          \/ /\ ~call.video \/ offer.waits > MaxWaits \/ ready
             /\ offer' = [offer EXCEPT !.deferred = FALSE]
             /\ media' = [m EXCEPT !.own = "owed"]

\* What requestOffer does to the single shot, the offer and the promises. With the pads not
\* described yet it looks again in 100 ms, MaxWaits times.
RequestOffer(m, ready) ==
    \/ /\ media.pipe = None \/ ~call.caller \/ call.state = "idle"
       /\ offer' = [offer EXCEPT !.deferred = FALSE]
       /\ media' = m
    \/ /\ media.pipe # None /\ call.caller /\ call.state # "idle"
       /\ \/ /\ call.video /\ offer.waits < MaxWaits /\ ~ready
             /\ offer' = [deferred |-> TRUE, waits |-> offer.waits + 1]
             /\ media' = [m EXCEPT !.shot = TRUE]
          \/ /\ ~call.video \/ offer.waits = MaxWaits \/ ready
             /\ offer' = [offer EXCEPT !.deferred = FALSE]
             /\ media' = [m EXCEPT !.own = "owed"]

\* The first frame gives the video line its caps; the offer may have waited for it.
FirstFrame(ready) ==
    LET m == [media EXCEPT !.picture = "shaped"]
    IN  /\ media.pipe # None /\ call.video /\ media.picture = "none"
        /\ \/ offer.deferred /\ RequestOffer(m, ready)
           \/ ~offer.deferred /\ media' = m /\ UNCHANGED offer
        /\ UNCHANGED <<call, posted, Still>>

FramesFlow ==
    /\ media.picture = "shaped"
    /\ media' = [media EXCEPT !.picture = "flowing"]
    /\ UNCHANGED <<call, offer, posted, Still>>

\* Seven seconds without a picture: a voice call under a new id, never through idle.
CameraWatchdog ==
    /\ media.watchdog
    /\ \/ /\ ~call.video \/ media.picture = "flowing"
          /\ media' = [media EXCEPT !.watchdog = FALSE]
          /\ UNCHANGED <<call, offer, old, posted, placed, roomOf, ended>>
       \/ /\ call.video /\ media.picture # "flowing"
          /\ StartOutgoing(call, FALSE, Goodbye(call))
    /\ UNCHANGED <<lingers, wish, woken, wordVars>>

DeferredShot(ready) ==
    LET m == [media EXCEPT !.shot = FALSE]
    IN  /\ media.shot
        /\ \/ offer.deferred /\ RequestOffer(m, ready)
           \/ ~offer.deferred /\ media' = m /\ UNCHANGED offer
        /\ UNCHANGED <<call, posted, Still>>

\* The batch is said for the call of the moment.
FlushCandidates ==
    /\ media.pending # {}
    /\ media' = [media EXCEPT !.pending = {}]
    /\ UNCHANGED <<call, offer, posted, Still>>

\* Twelve seconds after the checks failed, still not connected.
IceGrace ==
    /\ media.grace /\ call.state = "connecting"
    /\ HangUpNow
    /\ UNCHANGED <<offer, lingers, idVars, wordVars>>

\* Fifteen seconds of an active call without a packet.
MediaSilent ==
    /\ media.watch /\ call.state = "active"
    /\ HangUpNow
    /\ UNCHANGED <<offer, lingers, idVars, wordVars>>

-----------------------------------------------------------------------------
(* The pipelines' threads, and what the engine makes of what they post.      *)

\* One put away speaks on while it lingers, under the generation of the moment; its bus is no
\* longer watched. The checks run once it has described itself.
Speaks(p, own, kind) ==
    /\ Cardinality(posted) < MaxPosted
    /\ kind \in {"description", "nothing"} => own = "owed"
    /\ kind \in {"candidate", "connected", "failed", "closed"} => own = "made"
    /\ posted' = posted \cup {[kind |-> kind, of |-> p]}

Spoken(own, kind) ==
    IF kind = "description" THEN "made" ELSE IF kind = "nothing" THEN "no" ELSE own

Emit(kind) ==
    /\ media.pipe # None
    /\ kind = "negotiate" => ~media.signalled
    /\ Speaks(media.pipe, media.own, kind)
    /\ media' = [media EXCEPT !.own = Spoken(@, kind), !.signalled = @ \/ kind = "negotiate"]
    /\ UNCHANGED <<call, offer, Still>>

EmitOld(q, kind) ==
    /\ q \in old /\ kind \notin {"negotiate", "error"}
    /\ Speaks(q.pipe, q.own, kind)
    /\ old' = {[q EXCEPT !.own = Spoken(@, kind)]}
    /\ UNCHANGED <<call, media, offer, lingers, callVars, wordVars>>

\* Closed at last, the relays given back or three seconds over.
Released ==
    /\ old # {}
    /\ old' = {}
    /\ UNCHANGED <<call, media, offer, lingers, posted, callVars, wordVars>>

\* Mutant: an offer that waits for the camera gets no single shot.
HandleNegotiationNeededWaits(e, ready) ==
    /\ e.kind = "negotiate"
    /\ \/ ~call.caller /\ UNCHANGED <<media, offer>>
       \/ /\ call.caller /\ call.video /\ media.picture = "none"
          /\ offer' = [offer EXCEPT !.deferred = TRUE]
          /\ UNCHANGED media
       \/ /\ call.caller /\ ~(call.video /\ media.picture = "none")
          /\ RequestOffer(media, ready)
    /\ UNCHANGED <<call, Still>>

HandleNegotiationNeeded(e, ready) ==
    /\ e.kind = "negotiate"
    /\ \/ ~call.caller /\ UNCHANGED <<media, offer>>
       \/ /\ call.caller /\ call.video /\ media.picture = "none"
          /\ offer' = [offer EXCEPT !.deferred = TRUE]
          /\ media' = [media EXCEPT !.shot = TRUE]
       \/ /\ call.caller /\ ~(call.video /\ media.picture = "none")
          /\ RequestOffer(media, ready)
    /\ UNCHANGED <<call, Still>>

\* An offer out of a pipeline that placed a call, an answer out of one that was called; said for
\* the call of the moment, which may be the id that a failed one left: then it rings there again.
DeliverLocalDescription(e) ==
    LET offered == {c \in Calls : e.of \in Ours /\ c = call.id}
    IN  /\ e.kind = "description"
        /\ said' = said \cup {[call |-> call.id, of |-> e.of]}
        /\ replies' = replies \cup offered
        /\ ended' = ended \ offered
        /\ woken' = woken \cup (offered \cap ended)
        /\ UNCHANGED <<call, media, offer, lingers, old, placed, roomOf, wish, rung>>

DeliverCandidate(e) ==
    /\ e.kind = "candidate"
    /\ media' = [media EXCEPT !.pending = @ \cup {p \in {e.of} : Goodbye(call) # {}}]
    /\ UNCHANGED <<call, offer, Still>>

MarkConnected(e) ==
    /\ e.kind = "connected" /\ call.state # "idle"
    /\ call' = [call EXCEPT !.state = "active"]
    /\ media' = [media EXCEPT !.grace = FALSE, !.watch = TRUE]
    /\ UNCHANGED <<offer, Still>>

\* While it connects, candidates may still be on their way.
MarkFailed(e) ==
    /\ e.kind = "failed" /\ call.state = "connecting"
    /\ media' = [media EXCEPT !.grace = TRUE]
    /\ UNCHANGED <<call, offer, Still>>

MarkDisconnected(e) ==
    /\ \/ e.kind = "closed" /\ call.state # "idle"
       \/ e.kind = "failed" /\ call.state \notin {"idle", "connecting"}
    /\ HangUpNow
    /\ UNCHANGED <<offer, lingers, idVars, wordVars>>

ReportFailureFor(e) ==
    /\ e.kind \in {"nothing", "error"}
    /\ ReportFailure(call)
    /\ UNCHANGED <<offer, lingers, idVars, wordVars>>

AfterTheCall(e) ==
    /\ e.kind \in {"connected", "failed", "closed"} /\ call.state = "idle"
    /\ UNCHANGED <<call, media, offer, Still>>

Taken(e) == posted' = posted \ {e}

Handle(e) ==
    /\ e \in posted
    /\ \/ Taken(e) /\ \E ready \in BOOLEAN : HandleNegotiationNeeded(e, ready)
       \/ Taken(e) /\ DeliverLocalDescription(e)
       \/ Taken(e) /\ DeliverCandidate(e)
       \/ Taken(e) /\ MarkConnected(e)
       \/ Taken(e) /\ MarkFailed(e)
       \/ MarkDisconnected(e)
       \/ ReportFailureFor(e)
       \/ Taken(e) /\ AfterTheCall(e)

-----------------------------------------------------------------------------
User ==
    \/ \E r \in Rooms, video, stale \in BOOLEAN : PlaceCall(r, video, stale)
    \/ \E video, stale \in BOOLEAN : AcceptCall(video, stale)
    \/ HangUp

OtherSide ==
    \/ \E t \in Theirs, r \in Rooms : OnRemoteInvite(t, r)
    \/ \E c \in Ours, d \in Devices : OnRemoteAnswer(c, d)
    \/ \E c \in Calls, d \in Devices, reject \in BOOLEAN : OnRemoteHangup(c, d, reject)
    \/ \E c \in Theirs : TakenElsewhere(c)
    \/ \E c \in Calls : ExpectPeer(c)

Timers ==
    \/ ResumeAfterRelay
    \/ CameraWatchdog
    \/ \E ready \in BOOLEAN : DeferredShot(ready)
    \/ FlushCandidates
    \/ IceGrace
    \/ MediaSilent

Pipelines ==
    \/ \E ready \in BOOLEAN : FirstFrame(ready)
    \/ FramesFlow
    \/ \E kind \in Kinds : Emit(kind)
    \/ \E q \in old, kind \in Kinds : EmitOld(q, kind)
    \/ Released

Next ==
    \/ User
    \/ OtherSide
    \/ Timers
    \/ Pipelines
    \/ \E e \in posted : Handle(e)

\* Timers fire and posted events are handled; a pipeline that plays signals in the end, and
\* a description it was asked for comes or is refused.
Fairness ==
    /\ WF_vars(ResumeAfterRelay)
    /\ WF_vars(\E ready \in BOOLEAN : DeferredShot(ready))
    /\ \A kind \in Kinds :
          WF_vars(\E e \in posted : e.kind = kind /\ Handle(e))
    /\ SF_vars(Emit("negotiate"))
    /\ SF_vars(Emit("description") \/ Emit("nothing"))

Spec == Init /\ [][Next]_vars /\ Fairness

-----------------------------------------------------------------------------
\* The calls somebody else knows of: theirs, and ours that were offered.
Announced == rung \cup {c \in Calls : Invited(c)}

\* An idle engine has no pipeline and no open camera, and every call somebody knows of is either
\* the one that is on or was ended, and not offered since: no way out of a call, a second start or
\* a failure included (tearDown, reportFailure, startOutgoing, stopQuietly), leaves the other side
\* waiting. Only a pipeline that lingers can offer a call that is over once more.
OverIsOver ==
    /\ call.state = "idle" => media.pipe = None /\ ~media.camera
    /\ \A c \in Announced : \/ c \in ended
                            \/ c = call.id /\ call.state # "idle"
                            \/ lingers /\ c \in woken

\* Where a pipeline put away is gone at once, no call is offered or answered with the description
\* of another call's pipeline, and no batch of candidates holds one of another's, whenever the
\* pipelines' threads posted them (m_generation, m_pendingCandidates).
OwnDescription ==
    ~lingers => /\ \A w \in said : w.call = w.of
                /\ \A p \in media.pending : p = call.id

\* What the user placed last was offered: under the id it was given, or the one it fell back to.
WishOut == \E c \in Ours : c >= wish /\ Invited(c)

\* It waited for its relay, under the id a failed call left or under none, and what belongs to the
\* call before has moved the engine on: an answer that comes late, a lingering pipeline's
\* "connected".
Mistaken == call.state \in {"connecting", "active"} /\ call.id \notin wish..placed

\* A call the user places reaches the other side, or is over, or was mistaken for the one
\* before it while it had no id of its own yet: a camera that never gives a picture, pads that never describe
\* themselves and credentials that never come hold no offer back for good (m_relayWait,
\* handleNegotiationNeeded, requestOffer).
CallGoesOut ==
    call.state = "calling" ~> (call.state = "idle" \/ WishOut \/ Mistaken)

=============================================================================
