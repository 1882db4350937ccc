------------------------- MODULE SyncPositionProofs -------------------------
(* What holds of SyncPosition for every number of names and events.        *)
EXTENDS SyncPosition, TLAPS

\* The room list starts on an open store, and whoever is at work has no sync.
AtWork ==
    /\ open => stateFile
    /\ step \in {"migrate", "migrateEpoch", "start"} => open
    /\ step \in {"dropState", "dropCache", "advance"} => ~open
    /\ sync # 0 => step = "idle"

\* What was written under this version's names, or is about to be synced.
Settled ==
    \/ conn # Absent /\ epoch = Epoch
    \/ step \in {"migrateEpoch", "start"}
    \/ sync # 0

\* As long as nothing was cut off: no position waits under a later name, and the
\* current one is covered unless the migration is still to come.
Whole ==
    ~cut =>
        /\ conn # Torn
        /\ \A g \in Generations : g > Number(conn) => pos[g] = 0
        /\ Settled /\ step \notin {"dropCache", "advance"} => Covered(Number(conn))

IInv == TypeOK /\ AtWork /\ SyncsUnderNameOnDisk /\ Whole

USE GenAssumption, EventsAssumption DEF Absent, Torn, Epoch

\* A name nothing was synced under stands for nothing.
LEMMA UnusedIsCovered == \A g \in Generations : pos[g] = 0 => Covered(g)
BY DEF Covered

LEMMA InitHolds == Init => IInv
<1> SUFFICES ASSUME Init PROVE IInv
  OBVIOUS
<1>1. open = FALSE /\ sync = 0 /\ step = "idle" /\ cut = FALSE /\ sent \in 0..MaxEvents
  BY DEF Init
<1>2. CASE FreshStore
  <2>1. TypeOK
    <3>1. /\ conn \in {Absent, Torn} \cup Generations /\ epoch \in {Absent, Torn, Epoch}
          /\ pos \in [Generations -> 0..MaxEvents] /\ data \in [Databases -> SUBSET Events]
      BY <1>2 DEF FreshStore
    <3>2. stateFile \in BOOLEAN /\ step \in Steps
      BY <1>1, <1>2 DEF FreshStore, Steps
    <3>3. QED
      BY <1>1, <3>1, <3>2 DEF TypeOK
  <2>2. QED
    BY <1>1, <1>2, <2>1
    DEF FreshStore, IInv, AtWork, SyncsUnderNameOnDisk, Whole, Settled, Covered, Number
<1>3. CASE KeptStore
  <2>1. conn \in {0, 2} /\ epoch \in {0, 2} /\ stateFile = TRUE
    BY <1>3 DEF KeptStore
  <2>2. pos = [g \in Generations |-> IF g = Number(conn) THEN sent ELSE 0]
    BY <1>3 DEF KeptStore
  <2>3. pos \in [Generations -> 0..MaxEvents]
    BY <1>1, <2>2
  <2>4. data \in [Databases -> SUBSET Events]
    <3>1. {} \in SUBSET Events /\ 1..sent \in SUBSET Events
      BY <1>1 DEF Events
    <3>2. QED
      BY <1>3, <3>1 DEF KeptStore
  <2>5. TypeOK
    <3>1. conn \in {Absent, Torn} \cup Generations /\ epoch \in {Absent, Torn, Epoch}
      BY <2>1 DEF Generations
    <3>2. step \in Steps
      BY <1>1 DEF Steps
    <3>3. QED
      BY <1>1, <2>1, <2>3, <2>4, <3>1, <3>2 DEF TypeOK
  <2>6. epoch = Epoch => conn = 2 /\ Covered(2)
    BY <1>3 DEF KeptStore
  <2>7. \A g \in Generations : g > Number(conn) => pos[g] = 0
    BY <2>1, <2>2 DEF Number, Generations
  <2>8. QED
    BY <1>1, <2>1, <2>5, <2>6, <2>7
    DEF IInv, AtWork, SyncsUnderNameOnDisk, Whole, Settled, Number
<1>4. QED
  BY <1>2, <1>3 DEF Init

\* A later name has no position yet, so it is covered whatever was deleted.
LEMMA MovesOn ==
    ASSUME IInv, NEW n \in Nat, NEW next \in {"migrateEpoch", "idle"},
           n > Number(conn), Writes(conn, n, next), sync = 0,
           next = "migrateEpoch" => open /\ stateFile,
           UNCHANGED <<epoch, pos, data, stateFile, sent, open, sync>>
    PROVE IInv'
<1>1. n \in Generations /\ n > 1 - 1 /\ conn' = n /\ cut' = cut /\ step' = next
  <2>1. Number(conn) \in Nat /\ Number(conn) >= 1
    BY DEF IInv, TypeOK, Number, Generations
  <2>2. QED
    BY <2>1 DEF Writes, Generations
<1>2. Number(n) = n
  BY <1>1 DEF Number, Generations
<1>3. TypeOK'
  BY <1>1 DEF IInv, TypeOK, Steps
<1>4. AtWork' /\ SyncsUnderNameOnDisk'
  BY <1>1 DEF IInv, AtWork, SyncsUnderNameOnDisk
<1>5. Whole'
  <2>1. ~cut => \A g \in Generations : g >= n => pos[g] = 0
    BY <1>1 DEF IInv, Whole, TypeOK, Number, Generations
  <2>2. \A g \in Generations : pos[g] = 0 => Covered(g)'
    BY DEF Covered
  <2>3. n # Torn
    BY <1>1 DEF Generations
  <2>4. QED
    BY <1>1, <1>2, <2>1, <2>2, <2>3 DEF Whole, Generations
<1>6. QED
  BY <1>3, <1>4, <1>5 DEF IInv

\* A failed write is what makes the store a damaged one.
LEMMA FailsOnly ==
    ASSUME IInv, NEW next \in {"start", "idle"}, WriteFails(conn, next), sync = 0,
           next = "start" => open,
           UNCHANGED <<epoch, pos, data, stateFile, sent, open, sync>>
    PROVE IInv'
BY DEF WriteFails, IInv, TypeOK, Steps, AtWork, SyncsUnderNameOnDisk, Whole

LEMMA StepHolds == IInv /\ [Next]_vars => IInv'
<1> SUFFICES ASSUME IInv, [Next]_vars PROVE IInv'
  OBVIOUS
<1> USE DEF IInv, AtWork, SyncsUnderNameOnDisk, Whole, Settled
<1>1. CASE Post
  BY <1>1 DEF Post, TypeOK, Covered, Number
<1>2. CASE Open
  BY <1>2 DEF Open, TypeOK, Covered, Number
<1>3. CASE StartRooms
  BY <1>3 DEF StartRooms, TypeOK, Steps, Covered, Number
<1>4. CASE Migrates
  <2>1. /\ open = TRUE /\ stateFile = TRUE /\ sync = 0 /\ step = "migrate"
        /\ UNCHANGED <<epoch, pos, data, stateFile, sent, open, sync>>
    BY <1>4 DEF Migrates, TypeOK
  <2>2. \/ UNCHANGED <<conn, cut>> /\ conn # Absent /\ epoch = Epoch /\ step' = "migrateEpoch"
        \/ \E n \in Nat : n > Number(conn) /\ Writes(conn, n, "migrateEpoch")
        \/ WriteFails(conn, "start")
    <3>1. CASE conn # Absent /\ ~(Number(epoch) < Epoch)
      BY <1>4, <3>1 DEF Migrates, TypeOK, Number
    <3>2. CASE conn # Absent /\ Number(epoch) < Epoch
      <4>1. Writes(conn, Number(conn) + 1, "migrateEpoch") \/ WriteFails(conn, "start")
        BY <1>4, <3>2 DEF Migrates
      <4>2. Number(conn) + 1 > Number(conn) /\ Number(conn) + 1 \in Nat
        BY DEF TypeOK, Number, Generations
      <4>3. QED
        BY <4>1, <4>2
    <3>3. CASE conn = Absent
      <4>1. Writes(conn, 2, "migrateEpoch") \/ WriteFails(conn, "start")
        BY <1>4, <2>1, <3>3 DEF Migrates
      <4>2. 2 > Number(conn)
        BY <3>3 DEF Number
      <4>3. QED
        BY <4>1, <4>2
    <3>4. QED
      BY <3>1, <3>2, <3>3
  <2>3. CASE UNCHANGED <<conn, cut>> /\ conn # Absent /\ epoch = Epoch /\ step' = "migrateEpoch"
    BY <2>1, <2>3 DEF TypeOK, Steps, Covered, Number
  <2>4. ASSUME NEW n \in Nat, n > Number(conn), Writes(conn, n, "migrateEpoch") PROVE IInv'
    BY <2>1, <2>4, MovesOn
  <2>5. CASE WriteFails(conn, "start")
    BY <2>1, <2>5, FailsOnly
  <2>6. QED
    BY <2>2, <2>3, <2>4, <2>5
<1>5. CASE MigratesEpoch
  BY <1>5 DEF MigratesEpoch, TypeOK, Steps, Covered, Number
<1>6. CASE StartSync
  BY <1>6 DEF StartSync, TypeOK, Steps, Covered, Number, Generations
<1>7. CASE Sync
  <2>1. sync = Number(conn) /\ sync \in Generations /\ step = "idle"
    BY <1>7 DEF Sync, TypeOK
  <2>2. pos' = [pos EXCEPT ![sync] = sent]
    BY <1>7 DEF Sync
  <2>3. data' = [db \in Databases |-> data[db] \cup (pos[sync] + 1)..sent]
    BY <1>7 DEF Sync
  <2>4. UNCHANGED <<conn, epoch, stateFile, sent, open, sync, step, cut>>
    BY <1>7 DEF Sync
  <2>5. pos' \in [Generations -> 0..MaxEvents] /\ pos'[sync] = sent
    BY <2>1, <2>2 DEF TypeOK
  <2>6. data' \in [Databases -> SUBSET Events]
    <3>1. pos[sync] \in 0..MaxEvents /\ sent \in 0..MaxEvents
      BY <2>1 DEF TypeOK
    <3>2. (pos[sync] + 1)..sent \subseteq Events
      BY <3>1 DEF Events
    <3>3. QED
      BY <2>3, <3>2 DEF TypeOK
  <2>7. ~cut => Covered(sync)'
    <3>1. pos[sync] \in 0..MaxEvents /\ sent \in 0..MaxEvents
      BY <2>1 DEF TypeOK
    <3>2. ASSUME ~cut, NEW db \in Databases PROVE 1..sent \subseteq data'[db]
      <4>1. 1..pos[sync] \subseteq data[db]
        BY <1>7, <2>1, <3>2 DEF Sync, Covered
      <4>2. 1..sent \subseteq 1..pos[sync] \cup (pos[sync] + 1)..sent
        BY <3>1
      <4>3. QED
        BY <2>3, <4>1, <4>2
    <3>3. QED
      BY <2>4, <2>5, <3>2 DEF Covered
  <2>8. ~cut => \A g \in Generations : g > Number(conn) => pos'[g] = 0
    BY <2>1, <2>2 DEF TypeOK, Number, Generations
  <2>9. QED
    BY <2>1, <2>4, <2>5, <2>6, <2>7, <2>8 DEF TypeOK, Number
<1>8. CASE Rebuild
  BY <1>8 DEF Rebuild, TypeOK, Steps, Covered, Number
<1>9. CASE DropsState
  <2>1. data' \in [Databases -> SUBSET Events]
    BY <1>9 DEF DropsState, Drops, TypeOK, Databases
  <2>2. UNCHANGED <<conn, epoch, pos, sent, open, sync>> /\ stateFile' \in BOOLEAN
    BY <1>9 DEF DropsState, Drops, TypeOK
  <2>3. /\ step = "dropState"
        /\ \/ cut' = cut /\ step' = "dropCache"
           \/ cut' = TRUE /\ step' = "idle"
    BY <1>9 DEF DropsState, Drops, TypeOK
  <2>4. ~open
    BY <2>3
  <2>5. QED
    BY <2>1, <2>2, <2>3, <2>4 DEF TypeOK, Steps, Number
<1>10. CASE DropsCache
  <2>1. data' \in [Databases -> SUBSET Events]
    BY <1>10 DEF DropsCache, Drops, TypeOK, Databases
  <2>2. UNCHANGED <<conn, epoch, pos, sent, open, sync, stateFile>>
    BY <1>10 DEF DropsCache, Drops
  <2>3. /\ step = "dropCache"
        /\ \/ cut' = cut /\ step' = "advance"
           \/ cut' = TRUE /\ step' = "idle"
    BY <1>10 DEF DropsCache, Drops, TypeOK
  <2>4. QED
    BY <2>1, <2>2, <2>3 DEF TypeOK, Steps, Number
<1>11. CASE Advances
  <2>1. /\ sync = 0 /\ step = "advance" /\ open = FALSE
        /\ UNCHANGED <<epoch, pos, data, stateFile, sent, open, sync>>
    BY <1>11 DEF Advances, TypeOK
  <2>2. CASE Writes(conn, Number(conn) + 1, "idle")
    <3>1. Number(conn) + 1 > Number(conn) /\ Number(conn) + 1 \in Nat
      BY DEF TypeOK, Number, Generations
    <3>2. QED
      BY <2>1, <2>2, <3>1, MovesOn
  <2>3. CASE WriteFails(conn, "idle")
    BY <2>1, <2>3, FailsOnly
  <2>4. QED
    BY <1>11, <2>2, <2>3 DEF Advances
<1>12. CASE SignOut
  <2>1. /\ conn' = 0 /\ epoch' = 0 /\ sync' = 0 /\ step' = "idle" /\ sent' = sent
        /\ stateFile' = FALSE /\ open' = FALSE /\ cut' = FALSE
    BY <1>12 DEF SignOut
  <2>2. /\ pos' \in [Generations -> 0..MaxEvents] /\ \A g \in Generations : pos'[g] = 0
        /\ data' \in [Databases -> SUBSET Events]
    BY <1>12 DEF SignOut
  <2>3. TypeOK'
    BY <2>1, <2>2 DEF TypeOK, Steps
  <2>4. AtWork' /\ SyncsUnderNameOnDisk' /\ ~Settled'
    BY <2>1
  <2>5. QED
    BY <2>1, <2>2, <2>3, <2>4
<1>13. CASE Crash
  BY <1>13 DEF Crash, TypeOK, Steps, Covered, Number
<1>14. CASE UNCHANGED vars
  BY <1>14 DEF vars, TypeOK, Covered, Number
<1>15. QED
  BY <1>1, <1>2, <1>3, <1>4, <1>5, <1>6, <1>7, <1>8, <1>9, <1>10, <1>11, <1>12, <1>13, <1>14
  DEF Next

\* The position of a running sync never skips deleted data, for any number of
\* rebuilds, restarts and names, unless a rebuild or a migration was cut off.
THEOREM PositionSafe == Spec => []NothingSkipped
<1>1. IInv => NothingSkipped
  BY DEF IInv, AtWork, SyncsUnderNameOnDisk, Whole, Settled, NothingSkipped
<1>2. QED
  BY <1>1, InitHolds, StepHolds, PTL DEF Spec

\* Every variable keeps its type, for any number of generations and events.
THEOREM TypeCorrect == Spec => []TypeOK
<1>1. IInv => TypeOK
  BY DEF IInv
<1>2. QED
  BY <1>1, InitHolds, StepHolds, PTL DEF Spec

\* A running sync has the name the sync.json file holds, for any number of rebuilds
\* and restarts: one running under another would, after a restart, go on from a
\* position that is not its own.
THEOREM SyncsUnderItsName == Spec => []SyncsUnderNameOnDisk
<1>1. IInv => SyncsUnderNameOnDisk
  BY DEF IInv
<1>2. QED
  BY <1>1, InitHolds, StepHolds, PTL DEF Spec
=============================================================================
