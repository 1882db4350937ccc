-------------------------- MODULE CallEngineProofs --------------------------
(* Proofs about CallEngine, for any rooms, devices and number of calls: every *)
(* call somebody knows of is on or was ended, and where no pipeline lingers a  *)
(* call is described by its own.                                             *)
EXTENDS CallEngine, TLAPS

-----------------------------------------------------------------------------
(* The inductive invariant *)

(* Without a call on there is nothing to be torn down.                         *)
Bare ==
    call.state \in {"idle", "ringing"} =>
        media.pipe = None /\ ~media.camera /\ ~media.watchdog /\ media.afterRelay = 0

(* A call is in a room, so its goodbye is said.                               *)
Roomed == call.state # "idle" \/ call.id # None => call.room # None

(* The other side was told once, whatever was offered to it since.              *)
ToldOnce == ended \cup woken

(* The id that a failed call leaves behind was ended, also while the next call  *)
(* waits for its relay and has no id of its own yet.                          *)
Spent ==
    call.id # None /\ (call.state = "idle" \/ media.afterRelay = 1) => call.id \in ToldOnce

Told == \A c \in Announced : c \in ToldOnce \/ (c = call.id /\ call.state # "idle")

(* A call that rings, is being taken or has its pipeline was not ended.          *)
Live ==
    call.state = "ringing" \/ media.afterRelay = 2 \/ media.pipe # None => call.id \notin ended

(* No id is one that is yet to be given, or to be heard of.                     *)
Past ==
    \A c \in ended \cup {call.id} :
        /\ c \in Ours => c <= placed
        /\ c \in Theirs => c \in rung

(* The bound on calls counts the voice call a video call may become.           *)
Budget ==
    /\ call.state = "calling" /\ media.afterRelay = 1 =>
           placed + (IF call.video THEN 2 ELSE 1) <= MaxOurs
    /\ media.watchdog /\ call.video => placed + 1 <= MaxOurs

(* A pipeline is the call's own, and so is all that was posted or gathered.     *)
Own ==
    ~lingers =>
        /\ old = {}
        /\ media.pipe # None => call.id = media.pipe
        /\ \A e \in posted : e.of = media.pipe
        /\ \A p \in media.pending : p = media.pipe
        /\ \A w \in said : w.call = w.of
        /\ woken = {}

Sound == Bare /\ Roomed /\ Spent /\ Told /\ Live /\ Past /\ Budget /\ Own

IInv == TypeOK /\ Sound

-----------------------------------------------------------------------------
(* What the steps are made of *)

LEMMA Names ==
    /\ None \notin Calls /\ None \notin Rooms /\ None \notin Devices
    /\ Ours \subseteq Nat /\ Ours \cap Theirs = {} /\ MaxOurs \in Nat /\ MaxWaits \in Nat
BY CallAssumption DEF Calls, Ours, Devices

LEMMA Starts == Init => IInv
<1> SUFFICES ASSUME Init PROVE IInv
  OBVIOUS
<1>1. TypeOK
  BY Names DEF Init, TypeOK, CallRecords, MediaRecords, OfferRecords, NoMedia, States, Owed
<1>2. Sound
  BY Names DEF Init, Sound, Bare, Roomed, Spent, Told, Live, Past, Budget, Own, Announced, Invited,
               NoMedia, Calls
<1> QED
  BY <1>1, <1>2 DEF IInv

LEMMA MediaFresh == NoMedia \in MediaRecords
BY DEF NoMedia, MediaRecords, Owed

(* A pipeline put away lingers under its own name.                             *)
LEMMA PutAway ==
    ASSUME TypeOK, NEW m \in MediaRecords, TearDown(m)
    PROVE  /\ media' = m /\ posted' = {}
           /\ old' \subseteq [pipe : Calls, own : Owed]
           /\ ~lingers => old' = old
BY DEF TearDown, TypeOK, MediaRecords

LEMMA GoodbyeIsCall ==
    ASSUME NEW k \in CallRecords
    PROVE  Goodbye(k) \subseteq Calls \cap {k.id} /\ (k.room # None /\ k.id # None => Goodbye(k) = {k.id})
BY Names DEF Goodbye, CallRecords

(* The announced calls stay the same while nothing is said.                    *)
LEMMA SameWords == UNCHANGED <<rung, said>> => Announced' = Announced
BY DEF Announced, Invited

LEMMA AnnouncedCalls == TypeOK => Announced \subseteq Calls
BY DEF Announced, TypeOK, Calls

(* A call that ends with a word to the other side leaves nothing behind.        *)
LEMMA EndKeeps ==
    ASSUME IInv, NEW k \in CallRecords, k.state = "idle",
           k.id = None \/ (k.id = call.id /\ k.room = call.room),
           call' = k, TearDown(NoMedia),
           ended' \subseteq Calls \cap (ended \cup {call.id}), ended \subseteq ended',
           call.id # None => call.id \in ended',
           UNCHANGED <<offer, lingers, idVars, rung, said, replies>>
    PROVE  IInv'
<1>1. media' = NoMedia /\ posted' = {} /\ old' \subseteq [pipe : Calls, own : Owed]
      /\ (~lingers => old' = old)
  BY PutAway, MediaFresh DEF IInv
<1>2. TypeOK'
  BY <1>1, MediaFresh DEF IInv, TypeOK, idVars
<1>3. Bare' /\ Budget' /\ Live'
  BY <1>1 DEF Bare, Budget, Live, NoMedia
<1>4. Roomed' /\ Spent'
  BY DEF IInv, Sound, Roomed, Spent, ToldOnce, idVars
<1>5. Told'
  BY SameWords, AnnouncedCalls, Names DEF IInv, Sound, Told, ToldOnce, idVars
<1>6. Past'
  BY Names DEF IInv, Sound, Past, idVars, Calls
<1>7. Own'
  BY <1>1 DEF IInv, Sound, Own, NoMedia, idVars
<1> QED
  BY <1>2, <1>3, <1>4, <1>5, <1>6, <1>7 DEF IInv, Sound

LEMMA HangUpNowKeeps ==
    ASSUME IInv, call.state # "idle", HangUpNow,
           UNCHANGED <<offer, lingers, idVars, wordVars>>
    PROVE  IInv'
<1>1. call \in CallRecords /\ Over(call) \in CallRecords /\ Over(call).state = "idle"
      /\ Over(call).id = None
  BY DEF IInv, TypeOK, CallRecords, Over, States
<1>2. Goodbye(call) \subseteq Calls \cap {call.id} /\ (call.id # None => Goodbye(call) = {call.id})
  BY <1>1, GoodbyeIsCall DEF IInv, Sound, Roomed
<1>3. ended' \subseteq Calls \cap (ended \cup {call.id}) /\ ended \subseteq ended'
      /\ (call.id # None => call.id \in ended')
  BY <1>2 DEF HangUpNow, IInv, TypeOK
<1> QED
  BY <1>1, <1>3, EndKeeps DEF HangUpNow, wordVars

(* The other side ended it, or another device has it: nothing is said, all is torn down. *)
LEMMA QuietEndKeeps ==
    ASSUME IInv, NEW c \in Calls, c = call.id, ended' = ended \cup {c}, call' = Over(call),
           TearDown(NoMedia), UNCHANGED <<offer, lingers, idVars, wordVars>>
    PROVE  IInv'
<1>1. Over(call) \in CallRecords /\ Over(call).state = "idle" /\ Over(call).id = None
  BY DEF IInv, TypeOK, CallRecords, Over, States
<1>2. ended' \subseteq Calls \cap (ended \cup {call.id}) /\ ended \subseteq ended'
      /\ call.id \in ended'
  BY DEF IInv, TypeOK
<1> QED
  BY <1>1, <1>2, EndKeeps DEF wordVars

(* A failure keeps the call's id, which was ended.                              *)
LEMMA ReportFailureKeeps ==
    ASSUME IInv, NEW k \in CallRecords, k.id = call.id, k.room = call.room, ReportFailure(k),
           UNCHANGED <<offer, lingers, idVars, wordVars>>
    PROVE  IInv'
<1>1. Failed(k) \in CallRecords /\ Failed(k).state = "idle" /\ Failed(k).id = call.id
      /\ Failed(k).room = call.room
  BY DEF CallRecords, Failed, States
<1>2. Goodbye(k) \subseteq Calls \cap {call.id} /\ (call.id # None => Goodbye(k) = {call.id})
  BY GoodbyeIsCall DEF IInv, Sound, Roomed
<1>3. ended' \subseteq Calls \cap (ended \cup {call.id}) /\ ended \subseteq ended'
      /\ (call.id # None => call.id \in ended')
  BY <1>2 DEF ReportFailure, IInv, TypeOK
<1> QED
  BY <1>1, <1>3, EndKeeps DEF ReportFailure, wordVars

(* A new call under the next id: the one before was ended, or is by bye.         *)
LEMMA StartKeeps ==
    ASSUME IInv, NEW k \in CallRecords, NEW video \in BOOLEAN,
           NEW bye \in SUBSET (Calls \cap {call.id}),
           k.state \notin {"idle", "ringing"}, k.room # None,
           placed + (IF video THEN 2 ELSE 1) <= MaxOurs,
           call.id # None => call.id \in ToldOnce \cup bye,
           StartOutgoing(k, video, bye), wish' \in 0..MaxOurs, UNCHANGED <<lingers, woken, wordVars>>
    PROVE  IInv'
<1> DEFINE c == placed + 1
           started == [k EXCEPT !.id = c, !.caller = TRUE, !.party = None, !.video = video]
           up == [Playing(c, video) EXCEPT !.watchdog = video]
<1>1. c \in Calls /\ c \in 0..MaxOurs /\ c \in Ours
  BY Names DEF IInv, TypeOK, Calls, Ours
<1>2. started \in CallRecords /\ Failed(started) \in CallRecords /\ up \in MediaRecords
  BY <1>1, MediaFresh DEF CallRecords, Failed, States, MediaRecords, Playing
<1>3. started.id = c /\ started.room = k.room /\ started.state = k.state /\ started.video = video
      /\ Failed(started).id = c /\ Failed(started).room = k.room
      /\ Failed(started).state = "idle"
  BY DEF CallRecords, Failed
<1>4. up.pipe = c /\ up.watchdog = video /\ up.afterRelay = 0 /\ up.pending = {}
  BY <1>2 DEF Playing, NoMedia
<1>5. placed' = c /\ roomOf' = [roomOf EXCEPT ![c] = k.room]
      /\ offer' = [deferred |-> FALSE, waits |-> 0]
  BY DEF StartOutgoing
<1>6. \/ call' = started /\ ended' = ended \cup bye /\ TearDown(up)
      \/ call' = Failed(started) /\ ended' = ended \cup bye \cup {c} /\ TearDown(NoMedia)
  BY DEF StartOutgoing
<1> HIDE DEF started, up
<1>7. TearDown(up) \/ TearDown(NoMedia)
  BY <1>6
<1>8. /\ posted' = {} /\ old' \subseteq [pipe : Calls, own : Owed]
      /\ ~lingers => old' = old
      /\ media' \in MediaRecords
  BY <1>2, <1>7, MediaFresh, PutAway DEF IInv
<1>9. call' \in CallRecords /\ call'.id = c /\ call'.room # None
  BY <1>2, <1>3, <1>6
<1>10. \/ /\ call'.state \notin {"idle", "ringing"} /\ call'.video = video
          /\ media'.pipe = c /\ media'.watchdog = video
          /\ media'.afterRelay = 0 /\ media'.pending = {}
       \/ call'.state = "idle" /\ media' = NoMedia /\ c \in ended'
  <2>1. CASE call' = started /\ TearDown(up)
    BY <1>3, <1>4, <2>1 DEF TearDown
  <2>2. CASE call' = Failed(started) /\ TearDown(NoMedia) /\ c \in ended'
    BY <1>3, <2>2 DEF TearDown
  <2> QED
    BY <1>6, <2>1, <2>2
<1>11. ended' \subseteq Calls /\ ended \cup bye \subseteq ended'
       /\ ended' \subseteq ended \cup bye \cup {c}
  BY <1>1, <1>6 DEF IInv, TypeOK
<1>12. TypeOK'
  <2>1. roomOf' \in [Calls -> Rooms \cup {None}]
    BY <1>5 DEF IInv, TypeOK, CallRecords
  <2>2. offer' \in OfferRecords
    BY <1>5, Names DEF OfferRecords
  <2> QED
    BY <1>1, <1>5, <1>8, <1>9, <1>11, <2>1, <2>2 DEF IInv, TypeOK, wordVars
<1>13. Bare' /\ Roomed' /\ Spent'
  BY <1>9, <1>10 DEF Bare, Roomed, Spent, ToldOnce, NoMedia
<1>14. Told'
  <2>1. \A x \in Announced : x \in ended' \cup woken
    BY <1>11, AnnouncedCalls, Names DEF IInv, Sound, Told, ToldOnce
  <2> QED
    BY <2>1, SameWords DEF Told, ToldOnce, wordVars
<1>17. c \notin ended \cup bye
  BY <1>1, Names DEF IInv, Sound, Past, TypeOK
<1>18. Live'
  <2>1. CASE call' = started /\ ended' = ended \cup bye
    BY <1>9, <1>17, <2>1 DEF Live
  <2>2. CASE call'.state = "idle" /\ media' = NoMedia
    BY <2>2 DEF Live, NoMedia
  <2> QED
    BY <1>2, <1>3, <1>6, <2>1, <2>2 DEF TearDown
<1>19. Past'
  <2> SUFFICES ASSUME NEW x \in ended' \cup {c}
               PROVE  (x \in Ours => x <= placed') /\ (x \in Theirs => x \in rung')
    BY <1>9 DEF Past
  <2>1. CASE x = c
    BY <1>1, <1>5, <2>1, Names
  <2>2. CASE x \in ended \cup {call.id}
    BY <1>5, <2>2, Names DEF IInv, Sound, Past, TypeOK, wordVars, Ours
  <2> QED
    BY <1>11, <2>1, <2>2
<1>15. Budget'
  <2>1. video => placed' + 1 <= MaxOurs
    BY <1>5, Names DEF IInv, TypeOK
  <2> QED
    BY <1>10, <2>1 DEF Budget, NoMedia
<1>16. Own'
  BY <1>8, <1>9, <1>10 DEF IInv, Sound, Own, NoMedia, wordVars
<1> QED
  BY <1>12, <1>13, <1>14, <1>15, <1>16, <1>18, <1>19 DEF IInv, Sound

(* Taking their offer: the pipeline is the call's, or the call has failed.       *)
LEMMA AnswerKeeps ==
    ASSUME IInv, NEW k \in CallRecords, k.id = call.id, k.room = call.room,
           k.state = "connecting", call.state # "idle", call.id \notin ended, AnswerOffer(k),
           UNCHANGED <<offer, lingers, idVars, wordVars>>
    PROVE  IInv'
<1>1. CASE call' = Failed(k) /\ TearDown(NoMedia) /\ ended' = ended \cup Goodbye(k)
  BY <1>1, ReportFailureKeeps DEF ReportFailure
<1>2. CASE /\ call' = k /\ UNCHANGED ended
           /\ TearDown([Playing(k.id, k.video) EXCEPT !.own = "owed"])
  <2> DEFINE m == [Playing(k.id, k.video) EXCEPT !.own = "owed"]
  <2>1. m \in MediaRecords
    BY MediaFresh DEF CallRecords, MediaRecords, Playing, Owed
  <2>2. m.pipe = call.id /\ ~m.watchdog /\ m.afterRelay = 0 /\ m.pending = {}
    BY DEF Playing, NoMedia
  <2>3. media' = m /\ posted' = {} /\ old' \subseteq [pipe : Calls, own : Owed]
        /\ (~lingers => old' = old)
    BY <1>2, <2>1, PutAway DEF IInv
  <2>4. TypeOK'
    BY <1>2, <2>1, <2>3 DEF IInv, TypeOK, idVars, wordVars
  <2>5. Bare' /\ Roomed' /\ Spent' /\ Live' /\ Past' /\ Budget'
    BY <1>2, <2>2, <2>3
    DEF IInv, Sound, Bare, Roomed, Spent, ToldOnce, Live, Past, Budget, idVars, wordVars
  <2>6. Told'
    BY <1>2, SameWords DEF IInv, Sound, Told, ToldOnce, idVars, wordVars
  <2>7. Own'
    BY <1>2, <2>2, <2>3 DEF IInv, Sound, Own, idVars, wordVars
  <2> QED
    BY <2>4, <2>5, <2>6, <2>7 DEF IInv, Sound
<1> QED
  BY <1>1, <1>2 DEF AnswerOffer

(* A step of the timers, the camera or the queue that leaves the call as it is.   *)
LEMMA AsideKeeps ==
    ASSUME IInv, UNCHANGED <<call, Still>>, media' \in MediaRecords, offer' \in OfferRecords,
           media'.pipe = media.pipe, media'.camera = media.camera,
           media'.watchdog => media.watchdog, media'.afterRelay \in {media.afterRelay, 0},
           posted' \subseteq Events,
           ~lingers => \A e \in posted' : e.of = media.pipe,
           ~lingers => \A p \in media'.pending : p = media.pipe
    PROVE  IInv'
<1>1. TypeOK'
  BY DEF IInv, TypeOK, Still, callVars, idVars, wordVars
<1>2. Bare' /\ Roomed' /\ Spent' /\ Live' /\ Past'
  BY DEF IInv, Sound, Bare, Roomed, Spent, ToldOnce, Live, Past, Still, callVars, idVars, wordVars
<1>3. Told'
  BY SameWords DEF IInv, Sound, Told, ToldOnce, Still, callVars, idVars, wordVars
<1>4. Budget'
  BY DEF IInv, Sound, Budget, Still, callVars, idVars
<1>5. Own'
  BY DEF IInv, Sound, Own, Still, callVars, idVars, wordVars
<1> QED
  BY <1>1, <1>2, <1>3, <1>4, <1>5 DEF IInv, Sound

(* Asking for the offer, or waiting for the pads once more.                     *)
LEMMA OfferTypes ==
    ASSUME IInv, NEW m \in MediaRecords, NEW ready \in BOOLEAN, RequestOffer(m, ready)
    PROVE  /\ media' \in MediaRecords /\ offer' \in OfferRecords
           /\ media'.pipe = m.pipe /\ media'.camera = m.camera
           /\ media'.watchdog = m.watchdog /\ media'.afterRelay = m.afterRelay
           /\ media'.pending = m.pending
<1>1. offer \in OfferRecords /\ MaxWaits \in Nat
  BY Names DEF IInv, TypeOK
<1>2. CASE offer' = [offer EXCEPT !.deferred = FALSE] /\ media' = m
  BY <1>1, <1>2 DEF OfferRecords
<1>3. CASE /\ offer.waits < MaxWaits
           /\ offer' = [deferred |-> TRUE, waits |-> offer.waits + 1]
           /\ media' = [m EXCEPT !.shot = TRUE]
  <2>1. offer.waits + 1 \in 0..MaxWaits
    BY <1>1, <1>3 DEF OfferRecords
  <2>2. offer' \in OfferRecords
    BY <1>3, <2>1 DEF OfferRecords
  <2> QED
    BY <1>3, <2>2 DEF MediaRecords
<1>4. CASE offer' = [offer EXCEPT !.deferred = FALSE] /\ media' = [m EXCEPT !.own = "owed"]
  BY <1>1, <1>4 DEF OfferRecords, MediaRecords, Owed
<1> QED
  BY <1>2, <1>3, <1>4 DEF RequestOffer

(* What Own says of the posts and the batch, for a step that adds none.          *)
LEMMA OwnNow ==
    ASSUME IInv
    PROVE  ~lingers => /\ \A e \in posted : e.of = media.pipe
                       /\ \A p \in media.pending : p = media.pipe
BY DEF IInv, Sound, Own

-----------------------------------------------------------------------------
(* The user *)

LEMMA PlaceCallKeeps ==
    ASSUME IInv, NEW r \in Rooms, NEW video \in BOOLEAN, NEW stale \in BOOLEAN,
           PlaceCall(r, video, stale)
    PROVE  IInv'
<1> DEFINE k == [call EXCEPT !.state = "calling", !.room = r, !.peer = None, !.video = video]
<1>1. k \in CallRecords /\ k.state = "calling" /\ k.room = r /\ k.id = call.id
      /\ k.video = video
  BY DEF IInv, TypeOK, CallRecords, States
<1>2. r # None /\ (call.id # None => call.id \in ToldOnce) /\ call.state = "idle"
      /\ placed + (IF video THEN 2 ELSE 1) <= MaxOurs
  BY Names DEF PlaceCall, IInv, Sound, Spent
<1> HIDE DEF k
<1>3. CASE ~stale
  <2>1. StartOutgoing(k, video, {}) /\ UNCHANGED <<lingers, woken, wordVars>>
        /\ wish' = placed + 1
    BY <1>3 DEF PlaceCall, k
  <2>2. wish' \in 0..MaxOurs
    BY <1>2, <2>1, Names DEF IInv, TypeOK
  <2> QED
    BY <1>1, <1>2, <2>1, <2>2, StartKeeps
<1>4. CASE stale /\ call' = k /\ media' = [media EXCEPT !.afterRelay = 1] /\ wish' = placed + 1
           /\ UNCHANGED <<offer, old, posted, placed, roomOf, ended, lingers, woken, wordVars>>
  <2>1. media' \in MediaRecords /\ media'.afterRelay = 1 /\ media'.pipe = media.pipe
        /\ media'.watchdog = media.watchdog /\ media'.pending = media.pending
    BY <1>4 DEF IInv, TypeOK, MediaRecords
  <2>2. TypeOK'
    <3>1. wish' \in 0..MaxOurs
      BY <1>2, <1>4, Names DEF IInv, TypeOK
    <3> QED
      BY <1>1, <1>4, <2>1, <3>1 DEF IInv, TypeOK, wordVars
  <2>3. Bare' /\ Roomed' /\ Spent' /\ Live' /\ Past'
    BY <1>1, <1>2, <1>4, <2>1
    DEF IInv, Sound, Bare, Roomed, Spent, ToldOnce, Live, Past, wordVars
  <2>4. Told'
    BY <1>1, <1>2, <1>4, SameWords DEF IInv, Sound, Told, ToldOnce, wordVars
  <2>5. Budget'
    BY <1>1, <1>2, <1>4, <2>1 DEF IInv, Sound, Bare, Budget
  <2>6. Own'
    BY <1>1, <1>4, <2>1 DEF IInv, Sound, Own, wordVars
  <2> QED
    BY <2>2, <2>3, <2>4, <2>5, <2>6 DEF IInv, Sound
<1> QED
  BY <1>3, <1>4 DEF PlaceCall, k

LEMMA AcceptCallKeeps ==
    ASSUME IInv, NEW video \in BOOLEAN, NEW stale \in BOOLEAN, AcceptCall(video, stale)
    PROVE  IInv'
<1> DEFINE k == [call EXCEPT !.state = "connecting", !.video = video]
<1>1. k \in CallRecords /\ k.state = "connecting" /\ k.room = call.room /\ k.id = call.id
      /\ call.state = "ringing" /\ call.id \notin ended
  BY DEF IInv, TypeOK, Sound, Live, CallRecords, States, AcceptCall
<1> HIDE DEF k
<1>2. CASE AnswerOffer(k)
  <2>1. UNCHANGED <<offer, lingers, idVars, wordVars>>
    BY DEF AcceptCall
  <2> QED
    BY <1>1, <1>2, <2>1, AnswerKeeps
<1>3. CASE call' = k /\ media' = [media EXCEPT !.afterRelay = 2] /\ UNCHANGED <<old, posted, ended>>
  <2>1. media' \in MediaRecords /\ media'.afterRelay = 2 /\ media'.pipe = media.pipe
        /\ media'.watchdog = media.watchdog /\ media'.pending = media.pending
    BY <1>3 DEF IInv, TypeOK, MediaRecords
  <2>2. UNCHANGED <<offer, lingers, placed, roomOf, wish, woken, rung, said, replies>>
    BY DEF AcceptCall, idVars, wordVars
  <2>3. TypeOK'
    BY <1>1, <1>3, <2>1, <2>2 DEF IInv, TypeOK
  <2>4. Bare' /\ Roomed' /\ Spent' /\ Live' /\ Past' /\ Budget'
    BY <1>1, <1>3, <2>1, <2>2
    DEF IInv, Sound, Bare, Roomed, Spent, ToldOnce, Live, Past, Budget
  <2>5. Told'
    BY <1>1, <1>3, <2>2, SameWords DEF IInv, Sound, Told, ToldOnce
  <2>6. Own'
    BY <1>1, <1>3, <2>1, <2>2 DEF IInv, Sound, Own
  <2> QED
    BY <2>3, <2>4, <2>5, <2>6 DEF IInv, Sound
<1>4. CASE call' = [call EXCEPT !.video = video] /\ UNCHANGED <<media, old, posted, ended>>
  <2>1. call' \in CallRecords /\ call'.state = call.state /\ call'.id = call.id
        /\ call'.room = call.room
    BY <1>4 DEF IInv, TypeOK, CallRecords
  <2>2. UNCHANGED <<offer, lingers, placed, roomOf, wish, woken, rung, said, replies>>
    BY DEF AcceptCall, idVars, wordVars
  <2>3. TypeOK'
    BY <1>4, <2>1, <2>2 DEF IInv, TypeOK
  <2>4. Bare' /\ Roomed' /\ Spent' /\ Live' /\ Past' /\ Budget'
    BY <1>1, <1>4, <2>1, <2>2
    DEF IInv, Sound, Bare, Roomed, Spent, ToldOnce, Live, Past, Budget
  <2>5. Told'
    BY <1>4, <2>1, <2>2, SameWords DEF IInv, Sound, Told, ToldOnce
  <2>6. Own'
    BY <1>4, <2>1, <2>2 DEF IInv, Sound, Own
  <2> QED
    BY <2>3, <2>4, <2>5, <2>6 DEF IInv, Sound
<1> QED
  BY <1>2, <1>3, <1>4 DEF AcceptCall, k

LEMMA UserKeeps == IInv /\ User => IInv'
BY PlaceCallKeeps, AcceptCallKeeps, HangUpNowKeeps DEF User, HangUp

-----------------------------------------------------------------------------
(* The other side *)

LEMMA OnRemoteInviteKeeps ==
    ASSUME IInv, NEW t \in Theirs, NEW r \in Rooms, OnRemoteInvite(t, r)
    PROVE  IInv'
<1>1. t \in Calls /\ r # None /\ rung' = rung \cup {t} /\ roomOf' = [roomOf EXCEPT ![t] = r]
      /\ UNCHANGED <<media, offer, lingers, old, posted, placed, wish, woken, said, replies>>
      /\ t \notin rung
  BY Names DEF Calls, OnRemoteInvite
<1>2. roomOf' \in [Calls -> Rooms \cup {None}] /\ rung' \subseteq Theirs
  BY <1>1 DEF IInv, TypeOK
<1>3. \A c \in Announced' : c \in Announced \/ c = t
  BY <1>1 DEF Announced, Invited
<1>4. CASE call.state # "idle" /\ ended' = ended \cup {t} /\ UNCHANGED call
  <2>1. TypeOK'
    BY <1>1, <1>2, <1>4 DEF IInv, TypeOK
  <2>2. Bare' /\ Roomed' /\ Spent' /\ Budget' /\ Own'
    BY <1>1, <1>4 DEF IInv, Sound, Bare, Roomed, Spent, ToldOnce, Budget, Own
  <2>4. Live' /\ Past'
    BY <1>1, <1>4, Names DEF IInv, Sound, Live, Past
  <2>3. Told'
    BY <1>1, <1>3, <1>4 DEF IInv, Sound, Told, ToldOnce
  <2> QED
    BY <2>1, <2>2, <2>3, <2>4 DEF IInv, Sound
<1>5. CASE /\ call.state = "idle" /\ UNCHANGED ended
           /\ call' = [state |-> "ringing", id |-> t, room |-> r, peer |-> r, caller |-> FALSE,
                       party |-> None, video |-> FALSE]
  <2>1. call' \in CallRecords
    BY <1>1, <1>5 DEF CallRecords, States
  <2>2. TypeOK'
    BY <1>1, <1>2, <1>5, <2>1 DEF IInv, TypeOK
  <2>3. Bare' /\ Roomed' /\ Spent' /\ Budget'
    BY <1>1, <1>5 DEF IInv, Sound, Bare, Roomed, Spent, Budget
  <2>6. Live' /\ Past'
    BY <1>1, <1>5, Names DEF IInv, Sound, Live, Past
  <2>4. Told'
    BY <1>1, <1>3, <1>5 DEF IInv, Sound, Told, ToldOnce
  <2>5. Own'
    BY <1>1, <1>5 DEF IInv, Sound, Bare, Own
  <2> QED
    BY <2>2, <2>3, <2>4, <2>5, <2>6 DEF IInv, Sound
<1> QED
  BY <1>4, <1>5 DEF OnRemoteInvite

(* A step that changes what is known of the call and neither its id nor its room. *)
LEMMA LearnKeeps ==
    ASSUME IInv, call' \in CallRecords, call'.id = call.id, call'.room = call.room,
           call'.video = call.video,
           call'.state = call.state \/ call'.state \in {"connecting", "active"},
           call'.room # None,
           media' \in MediaRecords, media'.pipe = media.pipe, media'.camera = media.camera,
           media'.watchdog = media.watchdog, media'.afterRelay = media.afterRelay,
           media'.pending = media.pending, posted' \subseteq posted, replies' \subseteq replies,
           UNCHANGED <<offer, lingers, old, callVars, rung, said>>
    PROVE  IInv'
<1>1. TypeOK'
  BY DEF IInv, TypeOK, callVars, idVars
<1>2. Bare' /\ Roomed' /\ Spent' /\ Live' /\ Past' /\ Budget'
  BY DEF IInv, Sound, Bare, Roomed, Spent, ToldOnce, Live, Past, Budget, callVars, idVars
<1>3. Told'
  BY SameWords DEF IInv, Sound, Told, ToldOnce, callVars, idVars
<1>4. Own'
  BY DEF IInv, Sound, Own, callVars, idVars
<1> QED
  BY <1>1, <1>2, <1>3, <1>4 DEF IInv, Sound

LEMMA OnRemoteAnswerKeeps ==
    ASSUME IInv, NEW c \in Ours, NEW d \in Devices, OnRemoteAnswer(c, d)
    PROVE  IInv'
<1> DEFINE k == [call EXCEPT !.state = "connecting", !.peer = roomOf[c], !.party = d]
<1>1. c \in Calls /\ c = call.id /\ call.room # None
  BY Names DEF OnRemoteAnswer, Calls, IInv, Sound, Roomed
<1>2. k \in CallRecords /\ k.id = call.id /\ k.room = call.room /\ k.video = call.video
      /\ k.state = "connecting"
  BY <1>1 DEF IInv, TypeOK, CallRecords, States
<1> HIDE DEF k
<1>3. UNCHANGED <<offer, lingers, idVars, wordVars>>
  BY DEF OnRemoteAnswer
<1>4. CASE ReportFailure(k)
  BY <1>2, <1>3, <1>4, ReportFailureKeeps
<1>5. CASE call' = k /\ UNCHANGED <<media, old, posted, ended>>
  BY <1>1, <1>2, <1>3, <1>5, LearnKeeps DEF IInv, TypeOK, callVars, wordVars
<1> QED
  BY <1>4, <1>5 DEF OnRemoteAnswer, Unreadable, k

LEMMA ExpectPeerKeeps ==
    ASSUME IInv, NEW c \in Calls, ExpectPeer(c)
    PROVE  IInv'
<1>1. replies' \subseteq replies
      /\ UNCHANGED <<media, offer, lingers, old, posted, callVars, rung, said>>
  BY DEF ExpectPeer
<1>2. CASE call.state # "idle" /\ call' = [call EXCEPT !.peer = roomOf[c]]
  <2>1. call' \in CallRecords /\ call'.id = call.id /\ call'.room = call.room
        /\ call'.video = call.video /\ call'.state = call.state /\ call.room # None
    BY <1>2 DEF IInv, Sound, Roomed, TypeOK, CallRecords
  <2> QED
    BY <1>1, <2>1, LearnKeeps DEF IInv, TypeOK
<1>3. CASE UNCHANGED call
  <2>1. TypeOK'
    BY <1>1, <1>3 DEF IInv, TypeOK, callVars, idVars
  <2>2. Sound'
    BY <1>1, <1>3, SameWords
    DEF IInv, Sound, Bare, Roomed, Spent, Told, ToldOnce, Live, Past, Budget, Own, callVars, idVars
  <2> QED
    BY <2>1, <2>2 DEF IInv
<1> QED
  BY <1>2, <1>3 DEF ExpectPeer

LEMMA OtherSideKeeps == IInv /\ OtherSide => IInv'
<1> SUFFICES ASSUME IInv, OtherSide PROVE IInv'
  OBVIOUS
<1>1. ASSUME NEW c \in Calls, NEW d \in Devices, NEW reject \in BOOLEAN,
             OnRemoteHangup(c, d, reject)
      PROVE  IInv'
  BY <1>1, QuietEndKeeps DEF OnRemoteHangup
<1>2. ASSUME NEW c \in Theirs, TakenElsewhere(c) PROVE IInv'
  BY <1>2, QuietEndKeeps DEF TakenElsewhere, Calls
<1> QED
  BY <1>1, <1>2, OnRemoteInviteKeeps, OnRemoteAnswerKeeps, ExpectPeerKeeps DEF OtherSide

-----------------------------------------------------------------------------
(* The timers *)

LEMMA ResumeAfterRelayKeeps == IInv /\ ResumeAfterRelay => IInv'
<1> SUFFICES ASSUME IInv, ResumeAfterRelay PROVE IInv'
  OBVIOUS
<1>1. call \in CallRecords /\ (call.state # "idle" => call.room # None)
      /\ UNCHANGED <<lingers, wish, woken, wordVars>>
  BY DEF IInv, TypeOK, Sound, Roomed, ResumeAfterRelay
<1>2. CASE media.afterRelay = 1 /\ call.state = "calling" /\ StartOutgoing(call, call.video, {})
  <2>1. call.video \in BOOLEAN /\ (call.id # None => call.id \in ToldOnce \cup {})
        /\ placed + (IF call.video THEN 2 ELSE 1) <= MaxOurs
    BY <1>1, <1>2 DEF CallRecords, IInv, Sound, Spent, Budget
  <2> QED
    BY <1>1, <1>2, <2>1, StartKeeps DEF IInv, TypeOK
<1>3. CASE /\ media.afterRelay = 2 /\ call.state = "connecting" /\ AnswerOffer(call)
           /\ UNCHANGED <<offer, placed, roomOf>>
  BY <1>1, <1>3, AnswerKeeps DEF IInv, Sound, Live, idVars
<1>4. CASE /\ media' = [media EXCEPT !.afterRelay = 0]
           /\ UNCHANGED <<call, offer, old, posted, placed, roomOf, ended>>
  <2>1. media' \in MediaRecords /\ media'.pipe = media.pipe /\ media'.camera = media.camera
        /\ media'.watchdog = media.watchdog /\ media'.afterRelay = 0
        /\ media'.pending = media.pending
    BY <1>4 DEF IInv, TypeOK, MediaRecords
  <2>2. UNCHANGED <<call, Still>> /\ offer' \in OfferRecords /\ posted' = posted
        /\ posted \subseteq Events
    BY <1>1, <1>4 DEF IInv, TypeOK, Still, callVars, idVars
  <2> QED
    BY <2>1, <2>2, AsideKeeps, OwnNow
<1> QED
  BY <1>2, <1>3, <1>4 DEF ResumeAfterRelay

LEMMA CameraWatchdogKeeps == IInv /\ CameraWatchdog => IInv'
<1> SUFFICES ASSUME IInv, CameraWatchdog PROVE IInv'
  OBVIOUS
<1>1. call \in CallRecords /\ call.state \notin {"idle", "ringing"} /\ call.room # None
      /\ media.watchdog /\ UNCHANGED <<lingers, wish, woken, wordVars>>
  BY DEF IInv, TypeOK, Sound, Bare, Roomed, CameraWatchdog
<1>2. CASE call.video /\ StartOutgoing(call, FALSE, Goodbye(call))
  <2>1. Goodbye(call) \in SUBSET (Calls \cap {call.id})
        /\ (call.id # None => call.id \in ToldOnce \cup Goodbye(call))
    BY <1>1, GoodbyeIsCall
  <2>2. placed + (IF FALSE THEN 2 ELSE 1) <= MaxOurs
    BY <1>1, <1>2 DEF IInv, Sound, Budget
  <2>3. FALSE \in BOOLEAN
    OBVIOUS
  <2> QED
    BY <1>1, <1>2, <2>1, <2>2, <2>3, StartKeeps DEF IInv, TypeOK
<1>3. CASE /\ media' = [media EXCEPT !.watchdog = FALSE]
           /\ UNCHANGED <<call, offer, old, posted, placed, roomOf, ended>>
  <2>1. media' \in MediaRecords /\ media'.pipe = media.pipe /\ media'.camera = media.camera
        /\ ~media'.watchdog /\ media'.afterRelay = media.afterRelay
        /\ media'.pending = media.pending
    BY <1>3 DEF IInv, TypeOK, MediaRecords
  <2>2. UNCHANGED <<call, Still>> /\ offer' \in OfferRecords /\ posted' = posted
        /\ posted \subseteq Events
    BY <1>1, <1>3 DEF IInv, TypeOK, Still, callVars, idVars
  <2> QED
    BY <2>1, <2>2, AsideKeeps, OwnNow
<1> QED
  BY <1>2, <1>3 DEF CameraWatchdog

(* The offer is asked for, from a record that differs from media in what the engine
   notes of the camera and the shots.                                            *)
LEMMA RequestKeeps ==
    ASSUME IInv, NEW m \in MediaRecords, NEW ready \in BOOLEAN,
           m.pipe = media.pipe, m.camera = media.camera, m.watchdog = media.watchdog,
           m.afterRelay = media.afterRelay, m.pending = media.pending,
           \/ RequestOffer(m, ready)
           \/ media' = m /\ UNCHANGED offer,
           UNCHANGED <<call, Still>>, posted' \subseteq posted
    PROVE  IInv'
<1>1. /\ media' \in MediaRecords /\ offer' \in OfferRecords
      /\ media'.pipe = media.pipe /\ media'.camera = media.camera
      /\ media'.watchdog = media.watchdog /\ media'.afterRelay = media.afterRelay
      /\ media'.pending = media.pending
  BY OfferTypes DEF IInv, TypeOK
<1>2. posted' \subseteq Events
  BY DEF IInv, TypeOK
<1> QED
  BY <1>1, <1>2, AsideKeeps, OwnNow

LEMMA DeferredShotKeeps ==
    ASSUME IInv, NEW ready \in BOOLEAN, DeferredShot(ready)
    PROVE  IInv'
<1> DEFINE m == [media EXCEPT !.shot = FALSE]
<1>1. m \in MediaRecords /\ m.pipe = media.pipe /\ m.camera = media.camera
      /\ m.watchdog = media.watchdog /\ m.afterRelay = media.afterRelay
      /\ m.pending = media.pending
  BY DEF IInv, TypeOK, MediaRecords
<1>2. (RequestOffer(m, ready) \/ (media' = m /\ UNCHANGED offer))
      /\ UNCHANGED <<call, Still>> /\ posted' \subseteq posted
  BY DEF DeferredShot
<1> HIDE DEF m
<1> QED
  BY <1>1, <1>2, RequestKeeps

LEMMA FirstFrameKeeps ==
    ASSUME IInv, NEW ready \in BOOLEAN, FirstFrame(ready)
    PROVE  IInv'
<1> DEFINE m == [media EXCEPT !.picture = "shaped"]
<1>1. m \in MediaRecords /\ m.pipe = media.pipe /\ m.camera = media.camera
      /\ m.watchdog = media.watchdog /\ m.afterRelay = media.afterRelay
      /\ m.pending = media.pending
  BY DEF IInv, TypeOK, MediaRecords
<1>2. (RequestOffer(m, ready) \/ (media' = m /\ UNCHANGED offer))
      /\ UNCHANGED <<call, Still>> /\ posted' \subseteq posted
  BY DEF FirstFrame
<1> HIDE DEF m
<1> QED
  BY <1>1, <1>2, RequestKeeps

LEMMA FlushCandidatesKeeps == IInv /\ FlushCandidates => IInv'
<1> SUFFICES ASSUME IInv, FlushCandidates PROVE IInv'
  OBVIOUS
<1>1. media' \in MediaRecords /\ media'.pipe = media.pipe /\ media'.camera = media.camera
      /\ media'.watchdog = media.watchdog /\ media'.afterRelay = media.afterRelay
      /\ media'.pending = {}
  BY DEF FlushCandidates, IInv, TypeOK, MediaRecords
<1>2. UNCHANGED <<call, Still>> /\ offer' \in OfferRecords /\ posted' = posted
      /\ posted \subseteq Events
  BY DEF FlushCandidates, IInv, TypeOK
<1> QED
  BY <1>1, <1>2, AsideKeeps, OwnNow

LEMMA TimersKeep == IInv /\ Timers => IInv'
<1> SUFFICES ASSUME IInv, Timers PROVE IInv'
  OBVIOUS
<1>1. CASE IceGrace
  BY <1>1, HangUpNowKeeps DEF IceGrace
<1>2. CASE MediaSilent
  BY <1>2, HangUpNowKeeps DEF MediaSilent
<1> QED
  BY <1>1, <1>2, ResumeAfterRelayKeeps, CameraWatchdogKeeps, DeferredShotKeeps,
     FlushCandidatesKeeps DEF Timers

-----------------------------------------------------------------------------
(* The pipelines and what they post *)

LEMMA FramesFlowKeeps == IInv /\ FramesFlow => IInv'
<1> SUFFICES ASSUME IInv, FramesFlow PROVE IInv'
  OBVIOUS
<1>1. media' \in MediaRecords /\ media'.pipe = media.pipe /\ media'.camera = media.camera
      /\ media'.watchdog = media.watchdog /\ media'.afterRelay = media.afterRelay
      /\ media'.pending = media.pending
  BY DEF FramesFlow, IInv, TypeOK, MediaRecords
<1>2. UNCHANGED <<call, Still>> /\ offer' \in OfferRecords /\ posted' = posted
      /\ posted \subseteq Events
  BY DEF FramesFlow, IInv, TypeOK
<1> QED
  BY <1>1, <1>2, AsideKeeps, OwnNow

LEMMA SpokenIsOwed ==
    ASSUME NEW own \in Owed, NEW kind \in Kinds PROVE Spoken(own, kind) \in Owed
BY DEF Spoken, Owed

LEMMA EmitKeeps ==
    ASSUME IInv, NEW kind \in Kinds, Emit(kind)
    PROVE  IInv'
<1>1. Spoken(media.own, kind) \in Owed
  BY SpokenIsOwed DEF IInv, TypeOK, MediaRecords
<1>2. (media.signalled \/ kind = "negotiate") \in BOOLEAN
  OBVIOUS
<1>3. media' = [media EXCEPT !.own = Spoken(media.own, kind),
                             !.signalled = media.signalled \/ kind = "negotiate"]
  BY DEF Emit
<1>4. media' \in MediaRecords /\ media'.pipe = media.pipe /\ media'.camera = media.camera
      /\ media'.watchdog = media.watchdog /\ media'.afterRelay = media.afterRelay
      /\ media'.pending = media.pending
  BY <1>1, <1>2, <1>3 DEF IInv, TypeOK, MediaRecords
<1>5. posted' = posted \cup {[kind |-> kind, of |-> media.pipe]}
  BY DEF Emit, Speaks
<1>6. posted' \subseteq Events /\ (~lingers => \A e \in posted' : e.of = media.pipe)
  BY <1>5, OwnNow DEF Emit, IInv, TypeOK, MediaRecords, Events
<1>7. UNCHANGED <<call, Still>> /\ offer' \in OfferRecords
  BY DEF Emit, IInv, TypeOK
<1> QED
  BY <1>4, <1>6, <1>7, AsideKeeps, OwnNow

(* What lingers speaks and goes; where nothing lingers there is nothing.          *)
LEMMA OldKeeps ==
    ASSUME IInv, old # {}, old' \subseteq [pipe : Calls, own : Owed], posted' \subseteq Events,
           UNCHANGED <<call, media, offer, lingers, callVars, wordVars>>
    PROVE  IInv'
<1>1. TypeOK'
  BY DEF IInv, TypeOK, callVars, idVars, wordVars
<1>2. Bare' /\ Roomed' /\ Spent' /\ Live' /\ Past' /\ Budget'
  BY DEF IInv, Sound, Bare, Roomed, Spent, ToldOnce, Live, Past, Budget, callVars, idVars, wordVars
<1>3. Told'
  BY SameWords DEF IInv, Sound, Told, ToldOnce, callVars, idVars, wordVars
<1>4. Own'
  BY DEF IInv, Sound, Own
<1> QED
  BY <1>1, <1>2, <1>3, <1>4 DEF IInv, Sound

LEMMA EmitOldKeeps ==
    ASSUME IInv, NEW q \in old, NEW kind \in Kinds, EmitOld(q, kind)
    PROVE  IInv'
<1>1. q \in [pipe : Calls, own : Owed]
  BY DEF IInv, TypeOK
<1>2. old' = {[q EXCEPT !.own = Spoken(q.own, kind)]} /\ Spoken(q.own, kind) \in Owed
  BY <1>1, SpokenIsOwed DEF EmitOld
<1>3. old' \subseteq [pipe : Calls, own : Owed]
  BY <1>1, <1>2
<1>4. posted' \subseteq Events
  BY <1>1 DEF EmitOld, Speaks, Events, IInv, TypeOK
<1> QED
  BY <1>3, <1>4, OldKeeps DEF EmitOld

LEMMA PipelinesKeep == IInv /\ Pipelines => IInv'
<1> SUFFICES ASSUME IInv, Pipelines PROVE IInv'
  OBVIOUS
<1>1. CASE Released
  BY <1>1, OldKeeps DEF Released, IInv, TypeOK
<1> QED
  BY <1>1, FirstFrameKeeps, FramesFlowKeeps, EmitKeeps, EmitOldKeeps DEF Pipelines

LEMMA NegotiationKeeps ==
    ASSUME IInv, NEW e \in posted, NEW ready \in BOOLEAN, Taken(e),
           HandleNegotiationNeeded(e, ready)
    PROVE  IInv'
<1>1. posted' \subseteq posted /\ media \in MediaRecords /\ UNCHANGED <<call, Still>>
  BY DEF Taken, HandleNegotiationNeeded, IInv, TypeOK
<1>2. CASE RequestOffer(media, ready) \/ UNCHANGED <<media, offer>>
  BY <1>1, <1>2, RequestKeeps
<1>3. CASE /\ offer' = [offer EXCEPT !.deferred = TRUE]
           /\ media' = [media EXCEPT !.shot = TRUE]
  <2>1. offer' \in OfferRecords
    BY <1>3 DEF IInv, TypeOK, OfferRecords
  <2>2. media' \in MediaRecords /\ media'.pipe = media.pipe /\ media'.camera = media.camera
        /\ media'.watchdog = media.watchdog /\ media'.afterRelay = media.afterRelay
        /\ media'.pending = media.pending
    BY <1>3 DEF IInv, TypeOK, MediaRecords
  <2>3. posted' \subseteq Events
    BY <1>1 DEF IInv, TypeOK
  <2> QED
    BY <1>1, <2>1, <2>2, <2>3, AsideKeeps, OwnNow
<1> QED
  BY <1>2, <1>3 DEF HandleNegotiationNeeded

(* A description goes out under the call of the moment. Its pipeline's name is that *)
(* call's where nothing lingers; and a call that is over was ended.                *)
LEMMA DescriptionKeeps ==
    ASSUME IInv, NEW e \in posted, Taken(e), DeliverLocalDescription(e)
    PROVE  IInv'
<1>1. e \in Events /\ e.of \in Calls /\ posted' = posted \ {e}
  BY DEF IInv, TypeOK, Events, Taken
<1> DEFINE offered == {c \in Calls : e.of \in Ours /\ c = call.id}
<1>2. said' = said \cup {[call |-> call.id, of |-> e.of]} /\ call.id \in Calls \cup {None}
      /\ replies' \subseteq Calls
      /\ ended' = ended \ offered /\ woken' = woken \cup (offered \cap ended)
      /\ UNCHANGED <<call, media, offer, lingers, old, placed, roomOf, wish, rung>>
  BY DEF DeliverLocalDescription, IInv, TypeOK, CallRecords
<1>7. ended' \subseteq ended /\ woken' \subseteq woken \cup ended /\ ToldOnce \subseteq ToldOnce'
      /\ (e.of = call.id /\ call.id \notin ended => woken' = woken)
  BY <1>2 DEF ToldOnce
<1> HIDE DEF offered
<1>3. TypeOK'
  <2>1. said' \subseteq Words
    BY <1>1, <1>2 DEF IInv, TypeOK, Words
  <2> QED
    BY <1>1, <1>2, <1>7, <2>1 DEF IInv, TypeOK
<1>4. Bare' /\ Roomed' /\ Spent' /\ Live' /\ Past' /\ Budget'
  BY <1>2, <1>7 DEF IInv, Sound, Bare, Roomed, Spent, Live, Past, Budget
<1>5. Told'
  <2>1. \A c \in Announced' : c \in Announced \/ (c = call.id /\ c \in Calls)
    <3>1. TAKE c \in Announced'
    <3>2. CASE c \in rung
      BY <3>2 DEF Announced
    <3>3. CASE c \in Calls /\ Invited(c)'
      <4>1. PICK w \in said' : w.call = c /\ w.of \in Ours
        BY <3>3 DEF Invited
      <4>2. CASE w \in said
        BY <3>3, <4>1, <4>2 DEF Announced, Invited
      <4>3. CASE w = [call |-> call.id, of |-> e.of]
        BY <3>3, <4>1, <4>3
      <4> QED
        BY <1>2, <4>1, <4>2, <4>3
    <3> QED
      BY <1>2, <3>2, <3>3 DEF Announced
  <2>2. call.id \in Calls => call.id \in ToldOnce \/ call.state # "idle"
    BY Names DEF IInv, Sound, Spent
  <2> QED
    BY <1>2, <1>7, <2>1, <2>2 DEF IInv, Sound, Told
<1>6. Own'
  <2>1. ~lingers => e.of = media.pipe /\ call.id = media.pipe /\ call.id \notin ended
    BY <1>1, Names DEF IInv, Sound, Own, Live
  <2> QED
    BY <1>1, <1>2, <1>7, <2>1 DEF IInv, Sound, Own
<1> QED
  BY <1>3, <1>4, <1>5, <1>6 DEF IInv, Sound

LEMMA CandidateKeeps ==
    ASSUME IInv, NEW e \in posted, Taken(e), DeliverCandidate(e)
    PROVE  IInv'
<1> DEFINE batch == media.pending \cup {p \in {e.of} : Goodbye(call) # {}}
<1>1. e \in Events /\ e.of \in Calls /\ posted' \subseteq posted
  BY DEF IInv, TypeOK, Events, Taken
<1>2. batch \subseteq Calls /\ (~lingers => \A p \in batch : p = media.pipe)
  BY <1>1, OwnNow DEF IInv, TypeOK, MediaRecords
<1>3. media' = [media EXCEPT !.pending = batch]
  BY DEF DeliverCandidate
<1> HIDE DEF batch
<1>4. media' \in MediaRecords /\ media'.pipe = media.pipe /\ media'.camera = media.camera
      /\ media'.watchdog = media.watchdog /\ media'.afterRelay = media.afterRelay
      /\ media'.pending = batch
  BY <1>2, <1>3 DEF IInv, TypeOK, MediaRecords
<1>5. UNCHANGED <<call, Still>> /\ offer' \in OfferRecords /\ posted' \subseteq Events
  BY <1>1 DEF DeliverCandidate, IInv, TypeOK
<1> QED
  BY <1>1, <1>2, <1>4, <1>5, AsideKeeps, OwnNow

LEMMA ConnectedKeeps ==
    ASSUME IInv, NEW e \in posted, Taken(e), MarkConnected(e)
    PROVE  IInv'
<1>1. call' \in CallRecords /\ call'.id = call.id /\ call'.room = call.room
      /\ call'.video = call.video /\ call'.state = "active" /\ call.room # None
  BY DEF MarkConnected, IInv, Sound, Roomed, TypeOK, CallRecords, States
<1>2. media' \in MediaRecords /\ media'.pipe = media.pipe /\ media'.camera = media.camera
      /\ media'.watchdog = media.watchdog /\ media'.afterRelay = media.afterRelay
      /\ media'.pending = media.pending
  BY DEF MarkConnected, IInv, TypeOK, MediaRecords
<1>3. posted' \subseteq posted /\ replies' \subseteq replies
      /\ UNCHANGED <<offer, lingers, old, callVars, rung, said>>
  BY DEF MarkConnected, Taken, Still, wordVars
<1> QED
  BY <1>1, <1>2, <1>3, LearnKeeps

LEMMA FailedKeeps ==
    ASSUME IInv, NEW e \in posted, Taken(e), MarkFailed(e)
    PROVE  IInv'
<1>1. media' \in MediaRecords /\ media'.pipe = media.pipe /\ media'.camera = media.camera
      /\ media'.watchdog = media.watchdog /\ media'.afterRelay = media.afterRelay
      /\ media'.pending = media.pending
  BY DEF MarkFailed, IInv, TypeOK, MediaRecords
<1>2. UNCHANGED <<call, Still>> /\ offer' \in OfferRecords /\ posted' \subseteq posted
      /\ posted \subseteq Events
  BY DEF MarkFailed, Taken, IInv, TypeOK
<1> QED
  BY <1>1, <1>2, AsideKeeps, OwnNow

LEMMA HandleKeeps ==
    ASSUME IInv, NEW e \in posted, Handle(e)
    PROVE  IInv'
<1>1. CASE MarkDisconnected(e)
  BY <1>1, HangUpNowKeeps DEF MarkDisconnected
<1>2. CASE ReportFailureFor(e)
  BY <1>2, ReportFailureKeeps DEF ReportFailureFor, IInv, TypeOK
<1>3. CASE Taken(e) /\ AfterTheCall(e)
  <2>1. UNCHANGED <<call, Still>> /\ media \in MediaRecords /\ posted' \subseteq posted
        /\ media' = media /\ UNCHANGED offer
    BY <1>3 DEF AfterTheCall, Taken, IInv, TypeOK
  <2> QED
    BY <2>1, RequestKeeps
<1> QED
  BY <1>1, <1>2, <1>3, NegotiationKeeps, DescriptionKeeps, CandidateKeeps, ConnectedKeeps,
     FailedKeeps DEF Handle

-----------------------------------------------------------------------------
(* The invariant and what follows from it *)

LEMMA StutterKeeps == IInv /\ UNCHANGED vars => IInv'
<1> SUFFICES ASSUME IInv, UNCHANGED vars PROVE IInv'
  OBVIOUS
<1>1. TypeOK'
  BY DEF vars, callVars, idVars, wordVars, IInv, TypeOK
<1>2. Sound'
  BY SameWords DEF vars, callVars, idVars, wordVars, IInv, Sound, Bare, Roomed, Spent, Told, ToldOnce,
                  Live, Past, Budget, Own
<1> QED
  BY <1>1, <1>2 DEF IInv

LEMMA Inductive == Spec => []IInv
<1>1. IInv /\ [Next]_vars => IInv'
  BY UserKeeps, OtherSideKeeps, TimersKeep, PipelinesKeep, HandleKeeps, StutterKeeps DEF Next
<1> QED
  BY Starts, <1>1, PTL DEF Spec

(* Every variable keeps its type (call, media and the rest of CallEngine's members):  *)
(* calls stay within their bound, and an offer looks at the pads MaxWaits times.      *)
THEOREM TypeCorrect == Spec => []TypeOK
<1>1. IInv => TypeOK
  BY DEF IInv
<1> QED
  BY <1>1, Inductive, PTL

(* No way out of a call leaves the other side waiting: every call somebody knows of  *)
(* is on or was ended and not offered since, but for what a lingering pipeline       *)
(* offers again, and an idle engine has neither pipeline nor camera (tearDown,        *)
(* reportFailure, hangUp, startOutgoing, deliverLocalDescription).                 *)
THEOREM OthersAreTold == Spec => []OverIsOver
<1>1. IInv => OverIsOver
  BY DEF IInv, Sound, Bare, Told, ToldOnce, Own, OverIsOver
<1> QED
  BY <1>1, Inductive, PTL

(* Where a pipeline put away is gone at once, whatever its threads posted and when,  *)
(* a call is described by its own pipeline, and its batch holds its own candidates    *)
(* (m_generation).                                                                *)
THEOREM DescriptionsAreOwn == Spec => []OwnDescription
<1>1. IInv => OwnDescription
  <2> SUFFICES ASSUME IInv, ~lingers
               PROVE  /\ \A w \in said : w.call = w.of
                      /\ \A p \in media.pending : p = call.id
    BY DEF OwnDescription
  <2>1. \A p \in media.pending : p \in Calls /\ p = media.pipe
    BY OwnNow DEF IInv, TypeOK, MediaRecords
  <2> QED
    BY <2>1, Names DEF IInv, Sound, Own
<1> QED
  BY <1>1, Inductive, PTL

=============================================================================
