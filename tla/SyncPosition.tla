---------------------------- MODULE SyncPosition ----------------------------
(***************************************************************************)
(* The sync position and what it stands for: core/src/session.rs           *)
(* (sync_generation ... rebuild_store) with core/src/runtime/lists.rs      *)
(* (ensure_room_list).                                                     *)
(*                                                                         *)
(* The server sends what is newer than the position the client shows. The  *)
(* position is kept in the crypto store, one for each connection name, and *)
(* what it brought lies in two other databases, "state" and "cache".  A    *)
(* rebuild deletes those two and moves on to the next name.                *)
(***************************************************************************)
EXTENDS Integers

CONSTANTS
    MaxGen,      \* connection names considered
    MaxEvents    \* events considered on the server

ASSUME GenAssumption == MaxGen \in Nat /\ MaxGen >= 2
ASSUME EventsAssumption == MaxEvents \in Nat

VARIABLES
    conn,        \* .sync-connection: Absent, Torn, or the generation in it
    epoch,       \* .sync-epoch: Absent, Torn, or the number in it
    pos,         \* the position kept for each generation's name, 0 for none
    data,        \* the events each database holds
    stateFile,   \* matrix-sdk-state.sqlite3 is there
    sent,        \* events on the server
    open,        \* a client is open
    sync,        \* the generation the sync service runs under, 0 for none
    step,        \* the rebuild's or the room list start's next step
    cut          \* a rebuild or a migration of this store was cut off or failed

vars == <<conn, epoch, pos, data, stateFile, sent, open, sync, step, cut>>

Absent == 0
Torn == -1
Epoch == 2       \* SYNC_EPOCH
Generations == 1..MaxGen
Events == 1..MaxEvents
Databases == {"state", "cache"}
Steps == {"idle", "migrate", "migrateEpoch", "start",
          "dropState", "dropCache", "advance"}

\* sync_generation, sync_epoch: what cannot be read is 1.
Number(f) == IF f > 0 THEN f ELSE 1

\* Everything the position says was received is there.
Covered(g) == \A db \in Databases : 1..pos[g] \subseteq data[db]

FreshStore ==
    /\ conn = Absent /\ epoch = Absent
    /\ pos = [g \in Generations |-> 0]
    /\ data = [db \in Databases |-> {}]
    /\ stateFile = FALSE

\* A store from before the name was chosen here, damaged or not; one whose
\* event cache an SDK update emptied; or one of this version.
KeptStore ==
    /\ sent > 0 /\ stateFile = TRUE
    /\ \/ conn = Absent /\ epoch = Absent
       \/ conn = 2 /\ epoch \in {Absent, Epoch}
    /\ pos = [g \in Generations |-> IF g = Number(conn) THEN sent ELSE 0]
    /\ data \in [Databases -> {{}, 1..sent}]
    /\ epoch = Epoch => Covered(2)

Init ==
    /\ sent \in 0..MaxEvents
    /\ FreshStore \/ KeptStore
    /\ open = FALSE /\ sync = 0 /\ step = "idle" /\ cut = FALSE

-----------------------------------------------------------------------------
\* std::fs::write: the file is emptied first, so a failure leaves it as it was
\* or without a number in it.
Writes(f, n, next) == n <= MaxGen /\ f' = n /\ step' = next /\ UNCHANGED cut
WriteFails(f, next) == f' \in {f, Torn} /\ step' = next /\ cut' = TRUE

Post ==
    /\ sent < MaxEvents /\ sent' = sent + 1
    /\ UNCHANGED <<conn, epoch, pos, data, stateFile, open, sync, step, cut>>

\* A restore or a sign-in; the SDK makes the databases that are missing.
Open ==
    /\ ~open /\ step = "idle"
    /\ open' = TRUE /\ stateFile' = TRUE
    /\ UNCHANGED <<conn, epoch, pos, data, sent, sync, step, cut>>

\* ensure_room_list, under the lock on the room list.
StartRooms ==
    /\ open /\ sync = 0 /\ step = "idle"
    /\ step' = "migrate"
    /\ UNCHANGED <<conn, epoch, pos, data, stateFile, sent, open, sync, cut>>

\* migrate_sync_connection, its first write. An error is logged and the start
\* goes on under the name it finds.
Migrates ==
    /\ step = "migrate"
    /\ IF conn # Absent
       THEN IF Number(epoch) < Epoch
            THEN Writes(conn, Number(conn) + 1, "migrateEpoch") \/ WriteFails(conn, "start")
            ELSE UNCHANGED <<conn, cut>> /\ step' = "migrateEpoch"
       ELSE \/ Writes(conn, IF stateFile THEN 2 ELSE 1, "migrateEpoch")
            \/ WriteFails(conn, "start")
    /\ UNCHANGED <<epoch, pos, data, stateFile, sent, open, sync>>

\* The second write: a failure costs one more full sync at the next start.
MigratesEpoch ==
    /\ step = "migrateEpoch" /\ step' = "start"
    /\ epoch' \in {Epoch, epoch, Torn}
    /\ UNCHANGED <<conn, pos, data, stateFile, sent, open, sync, cut>>

\* Mutant: what cannot be read is taken as it is.
StartSyncRaw ==
    /\ step = "start" /\ step' = "idle"
    /\ sync' \in {conn, 0}
    /\ UNCHANGED <<conn, epoch, pos, data, stateFile, sent, open, cut>>

\* The sync service is built under the name on disk, or cannot be built.
StartSync ==
    /\ step = "start" /\ step' = "idle"
    /\ sync' \in {Number(conn), 0}
    /\ UNCHANGED <<conn, epoch, pos, data, stateFile, sent, open, cut>>

\* The server answers with what is newer than the position.
Sync ==
    /\ sync # 0
    /\ data' = [db \in Databases |-> data[db] \cup (pos[sync] + 1)..sent]
    /\ pos' = [pos EXCEPT ![sync] = sent]
    /\ UNCHANGED <<conn, epoch, stateFile, sent, open, sync, step, cut>>

-----------------------------------------------------------------------------
\* rebuild_store: the teardown has stopped the sync and every command, a start
\* of the room list too, which can be cut off where it waits for the service.
Rebuild ==
    /\ step \in {"idle", "start"}
    /\ step' = "dropState" /\ open' = FALSE /\ sync' = 0
    /\ UNCHANGED <<conn, epoch, pos, data, stateFile, sent, cut>>

\* A database is four files: an error may come before the first and after it.
Drops(from, db, next) ==
    /\ step = from
    /\ \/ data' = [data EXCEPT ![db] = {}] /\ step' = next /\ UNCHANGED cut
       \/ data' \in {data, [data EXCEPT ![db] = {}]} /\ step' = "idle" /\ cut' = TRUE
    /\ UNCHANGED <<conn, epoch, pos, sent, open, sync>>

DropsState ==
    /\ Drops("dropState", "state", "dropCache")
    /\ stateFile' \in IF step' = "idle" /\ data' = data THEN {stateFile, FALSE} ELSE {FALSE}

DropsCache == Drops("dropCache", "cache", "advance") /\ UNCHANGED stateFile

\* Mutant: the rebuild keeps the name.
AdvancesNot ==
    /\ step = "advance"
    /\ Writes(conn, Number(conn), "idle") \/ WriteFails(conn, "idle")
    /\ UNCHANGED <<epoch, pos, data, stateFile, sent, open, sync>>

\* advance_sync_connection; the restore follows.
Advances ==
    /\ step = "advance"
    /\ Writes(conn, Number(conn) + 1, "idle") \/ WriteFails(conn, "idle")
    /\ UNCHANGED <<epoch, pos, data, stateFile, sent, open, sync>>

\* reset_store, after a sign-out or before a new device's sign-in.
SignOut ==
    /\ step \in {"idle", "start"}
    /\ conn' = Absent /\ epoch' = Absent
    /\ pos' = [g \in Generations |-> 0]
    /\ data' = [db \in Databases |-> {}]
    /\ stateFile' = FALSE /\ open' = FALSE /\ sync' = 0 /\ step' = "idle"
    /\ cut' = FALSE
    /\ UNCHANGED sent

Crash ==
    /\ open' = FALSE /\ sync' = 0 /\ step' = "idle"
    /\ cut' = (cut \/ step \in {"dropCache", "advance"})
    /\ UNCHANGED <<conn, epoch, pos, data, stateFile, sent>>

Next ==
    \/ Post \/ Open \/ StartRooms \/ Migrates \/ MigratesEpoch \/ StartSync \/ Sync
    \/ Rebuild \/ DropsState \/ DropsCache \/ Advances
    \/ SignOut \/ Crash

Spec == Init /\ [][Next]_vars

-----------------------------------------------------------------------------
(* Properties. *)

TypeOK ==
    /\ conn \in {Absent, Torn} \cup Generations
    /\ epoch \in {Absent, Torn, Epoch}
    /\ pos \in [Generations -> 0..MaxEvents]
    /\ data \in [Databases -> SUBSET Events]
    /\ sent \in 0..MaxEvents
    /\ sync \in {0} \cup Generations
    /\ step \in Steps
    /\ stateFile \in BOOLEAN /\ open \in BOOLEAN /\ cut \in BOOLEAN

\* The position a running sync shows never skips what was deleted, neither
\* after a rebuild nor over a store from an older version, as long as no
\* rebuild or migration of the store was cut off.
NothingSkipped == sync # 0 /\ ~cut => Covered(sync)

\* The sync runs under the name on disk, so what is stored under a name was
\* brought by it: no rebuild moves the name under a running sync.
SyncsUnderNameOnDisk == sync # 0 => sync = Number(conn)

-----------------------------------------------------------------------------
(* What comments in the code say and the code does not keep. *)

\* session.rs on rebuild_store: "because the position lives in the store that
\* stays, the next sync is told to forget it" - whenever the rooms went.
SyncForgetsWithRooms == sync # 0 /\ conn > 0 /\ epoch = Epoch => Covered(sync)
=============================================================================
