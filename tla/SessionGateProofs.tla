-------------------------- MODULE SessionGateProofs --------------------------
(* What holds of SessionGate for every set of keys and every bound.        *)
EXTENDS SessionGate, TLAPS

\* The slot's phase says whether there is a client in it; only a teardown, which
\* holds the gate, leaves that open.
SlotHasClient ==
    /\ client # NoClient => slot.phase # "empty"
    /\ slot.phase \in {"prelogin", "loggingIn", "session"} => client # NoClient
    /\ slot.phase = "closing" => gate \in {"logoutDrain", "rebuildDrain", "expireDrain"}

\* What the holder of the gate may count on at the step it is at.
HolderCounts ==
    /\ gate \in {"restore", "restoreAgain", "look", "wipe", "build", "logoutForget",
                 "logoutReset", "rebuildSave", "expireForget"} => client = NoClient
    /\ gate \in {"observe", "persist", "rebuildDrain"} => client # NoClient
    /\ gate \in {"look", "wipe", "build"} => who \in Logins /\ MayRaise(1)
    /\ gate \in {"logoutDrain", "rebuildDrain", "expireDrain", "closeDrop"} => MayRaise(1)
    /\ gate = "rebuildSave" => held # NoClient
    /\ held # NoClient => gate \in {"logoutForget", "rebuildSave", "expireForget"}

TInv == TypeOK /\ SlotHasClient /\ HolderCounts

\* The store is as whoever opened it, or stored a session beside it, left it.
InUse == file.present \/ client # NoClient \/ held # NoClient

StoreSound ==
    /\ InUse => "db" \in store.files /\ ("marker" \in store.files <=> store.key # NoKey)
    /\ file.present => file.dev = store.dev /\ file.dev # NoDev
    /\ gate \in {"wipe", "logoutReset"} => ~file.present
    /\ gate = "build" => file.present \/ store = EmptyStore

SInv == StoreSound /\ OpenMatchesStore

-----------------------------------------------------------------------------
(* Types: what the helpers return. *)

\* The values the type sets are built from.
LEMMA ConstTypes ==
    /\ NoDev \in Devices /\ Logins \subseteq Devices /\ 0 \in Tokens /\ 0 \notin Logins
    /\ NoFile \in Files /\ EmptyStore \in Stores /\ NoWatch \in Watches
    /\ NoKey \in Keys \cup {NoKey}
BY BoundsAssumption, RunsAssumption DEF NoDev, Devices, Logins, Tokens, NoFile, EmptyStore, Files,
   Stores, FileKinds, NoWatch, Watches

\* A session file written from a client of this device is a session file.
LEMMA FileTypes ==
    ASSUME NEW dev \in Devices, NEW k \in Keys \cup {NoKey}, NEW tok \in Tokens
    PROVE WrittenFile(dev, k, tok) \in Files
BY DEF WrittenFile, Files

\* Planning, opening and removing a store leave a store.
LEMMA StoreTypes ==
    ASSUME NEW s \in Stores, NEW k \in Keys \cup {NoKey}
    PROVE /\ Planned(s, k) \in Stores /\ Opened(s, k) \in Stores
          /\ PlanKey(s, k) \in Keys \cup {NoKey}
          /\ Remains(s) \subseteq Stores
<1>1. Planned(s, k) \in Stores
  BY DEF Planned, Fresh, Stores, FileKinds
<1>2. PlanKey(s, k) \in Keys \cup {NoKey}
  BY DEF PlanKey
<1>3. Opened(s, k) \in Stores
  BY <1>1, <1>2, ConstTypes DEF Opened, Stores, FileKinds
<1>4. Remains(s) \subseteq Stores
  BY DEF Remains, Stores
<1>5. QED
  BY <1>1, <1>2, <1>3, <1>4

\* Moving a task and answering a command keep the tables' types.
LEMMA TaskTypes ==
    ASSUME tasks \in [Logins -> Tasks], verdict \in [Logins -> Verdicts],
           loginTask \in Logins \cup {0}
    PROVE /\ \A id \in Logins, stage \in Stages : Moved(id, stage) \in [Logins -> Tasks]
          /\ \A id \in Logins \cup {0}, what \in Verdicts : Said(id, what) \in [Logins -> Verdicts]
          /\ Stopped \in [Logins -> Tasks]
<1>1. ASSUME NEW id \in Logins, NEW stage \in Stages
      PROVE Moved(id, stage) \in [Logins -> Tasks]
  BY <1>1 DEF Moved, Tasks
<1>2. ASSUME NEW id \in Logins \cup {0}, NEW what \in Verdicts
      PROVE Said(id, what) \in [Logins -> Verdicts]
  BY <1>2 DEF Said
<1>3. Stopped \in [Logins -> Tasks]
  BY <1>1 DEF Stopped, Stages
<1>4. QED
  BY <1>1, <1>2, <1>3

\* persist writes a session file, or warns.
LEMMA PersistTypes ==
    ASSUME NEW c \in ClientRecords, TypeOK, Persist(c)
    PROVE file' \in Files /\ alarms' \in SUBSET Alarms
<1>1. file' \in Files
  BY FileTypes DEF TypeOK, Persist, ClientRecords
<1>2. alarms' \in SUBSET Alarms
  BY DEF TypeOK, Persist, Alarms
<1>3. QED
  BY <1>1, <1>2

-----------------------------------------------------------------------------
(* Every step keeps the types, and what the holder of the gate counts on. *)

LEMMA TypeStep == TInv /\ [Next]_vars => TInv'
<1> SUFFICES ASSUME TInv, [Next]_vars PROVE TInv'
  OBVIOUS
<1> USE DEF disk, slotVars, taskVars, watchVars, frontVars, procVars, gateVars
<1>ty. TypeOK /\ SlotHasClient /\ HolderCounts
  BY DEF TInv
<1>1. CASE Restore
  BY <1>ty, <1>1
  DEF TInv, TypeOK, SlotHasClient, HolderCounts, MayRaise, Alarms, KeyReplaceable,
      Restore, RestoreTakes, SessionData, States, Steps, Tell
<1>2. CASE RebuildRestores
  BY <1>ty, <1>2
  DEF TInv, TypeOK, SlotHasClient, HolderCounts, MayRaise, Alarms, KeyReplaceable,
      RebuildRestores, RestoreTakes, SessionData, States, Steps, Tell
<1>3. CASE Abort
  BY <1>ty, <1>3, NoClientAssumption
  DEF TInv, TypeOK, SlotHasClient, HolderCounts, MayRaise, Abort, Assigned, CancelLogin,
      Cleared, Moved, Phases, Said, Slots, Stages, Steps, Stopped, Tasks, Verdicts
<1>5. CASE Logout
  <2>1. slot' \in Slots /\ gate' \in Steps /\ slot'.phase = "closing" /\ MayRaise(1)'
    BY <1>ty, <1>5, RunsAssumption DEF TypeOK, Logout, Teardown, Closing, Assigned, MayRaise, Slots, Phases, Steps
  <2>2. tasks' \in [Logins -> Tasks] /\ verdict' \in [Logins -> Verdicts] /\ loginTask' = 0
    BY <1>ty, <1>5 DEF TypeOK, Logout, Teardown, CancelLogin, Moved, Said, Stopped, Tasks, Stages, Verdicts
  <2>3. watch' \in Watches
    BY <1>ty, <1>5, RunsAssumption DEF Logout, Teardown, NoWatch, Watches
  <2>4. TypeOK'
    BY <1>ty, <1>5, <2>1, <2>2, <2>3 DEF TypeOK, Logout, Teardown
  <2>5. SlotHasClient' /\ HolderCounts'
    BY <1>ty, <1>5, <2>1, <2>2, <2>3, <2>4 DEF SlotHasClient, HolderCounts, MayRaise, Logout, Teardown
  <2>6. QED
    BY <2>4, <2>5 DEF TInv
<1>6. CASE Rebuild
  BY <1>ty, <1>6, NoClientAssumption, RunsAssumption
  DEF TInv, TypeOK, SlotHasClient, HolderCounts, MayRaise, Assigned, CancelLogin,
      Closing, Moved, NoWatch, Phases, Rebuild, Said, Slots, Stages, Steps, Stopped,
      Tasks, Teardown, Verdicts, Watches
<1>7. CASE TellExpired
  <2>1. TypeOK'
    BY <1>ty, <1>7 DEF TypeOK, TellExpired, Tell, Alarms, States
  <2>2. SlotHasClient' /\ HolderCounts'
    BY <1>ty, <1>7 DEF SlotHasClient, HolderCounts, MayRaise, TellExpired
  <2>3. QED
    BY <2>1, <2>2 DEF TInv
<1>8. CASE CloseSaves
  <2>1. slot.phase = "session" => client \in ClientRecords
    BY <1>ty, <1>8 DEF TypeOK, SlotHasClient, CloseSaves
  <2>2. file' \in Files /\ alarms' \in SUBSET Alarms
    BY <1>ty, <1>8, <2>1, PersistTypes DEF TypeOK, CloseSaves
  <2>3. TypeOK'
    BY <1>ty, <1>8, <2>1, <2>2 DEF TypeOK, CloseSaves, Steps
  <2>4. SlotHasClient' /\ HolderCounts'
    BY <1>ty, <1>8, <2>1, <2>2, <2>3 DEF SlotHasClient, HolderCounts, MayRaise, CloseSaves
  <2>5. QED
    BY <2>3, <2>4 DEF TInv
<1>9. CASE Refresh
  <2>1. client' \in ClientRecords
    BY <1>ty, <1>9, BoundsAssumption, NoClientAssumption DEF TypeOK, Refresh, ClientRecords, Tokens
  <2>2. watch' \in Watches
    BY <1>ty, <1>9 DEF TypeOK, Refresh, Watches
  <2>3. TypeOK'
    BY <1>ty, <1>9, <2>1, <2>2 DEF TypeOK, Refresh
  <2>4. SlotHasClient' /\ HolderCounts'
    BY <1>ty, <1>9, <2>1, <2>2, <2>3, NoClientAssumption DEF SlotHasClient, HolderCounts, MayRaise, Refresh
  <2>5. QED
    BY <2>3, <2>4 DEF TInv
<1>10. CASE WatchWrites
  <2>1. Holds(slot, watch.gen) => client \in ClientRecords
    BY <1>ty, <1>10 DEF TypeOK, SlotHasClient, HolderCounts, Holds, WatchWrites, Slots, Phases
  <2>2. file' \in Files /\ alarms' \in SUBSET Alarms
    BY <1>ty, <1>10, <2>1, PersistTypes DEF TypeOK, WatchWrites
  <2>3. watch' \in Watches
    BY <1>ty, <1>10 DEF TypeOK, WatchWrites, Watches
  <2>4. TypeOK'
    BY <1>ty, <1>10, <2>1, <2>2, <2>3 DEF TypeOK, WatchWrites
  <2>5. SlotHasClient' /\ HolderCounts'
    BY <1>ty, <1>10, <2>1, <2>2, <2>3, <2>4 DEF SlotHasClient, HolderCounts, MayRaise, WatchWrites
  <2>6. QED
    BY <2>4, <2>5 DEF TInv
<1>11. CASE WatchEnds
  <2>1. watch' \in Watches
    BY <1>ty, <1>11, RunsAssumption DEF WatchEnds, Watches, NoWatch
  <2>2. watch.gen \in 0..MaxGen
    BY <1>ty, <1>11 DEF TypeOK, Watches
  <2>3. expiring' \in SUBSET (0..MaxGen)
    BY <1>ty, <1>11, <2>1, <2>2 DEF TypeOK, WatchEnds
  <2>4. TypeOK'
    BY <1>ty, <1>11, <2>1, <2>2, <2>3 DEF TypeOK, WatchEnds
  <2>5. SlotHasClient' /\ HolderCounts'
    BY <1>ty, <1>11 DEF SlotHasClient, HolderCounts, MayRaise, WatchEnds
  <2>6. QED
    BY <2>4, <2>5 DEF TInv
<1>12. CASE Crash
  <2>1. slot' = [generation |-> 0, phase |-> "empty"] /\ watch' = NoWatch
    BY <1>12 DEF Crash
  <2>2. boots < MaxBoots /\ boots' = boots + 1
    BY <1>12 DEF Crash
  <2>3. slot' \in Slots /\ watch' \in Watches
    BY <2>1, RunsAssumption DEF Slots, Phases, Watches, NoWatch
  <2>4. boots' \in 1..MaxBoots
    BY <1>ty, <2>2, RunsAssumption DEF TypeOK
  <2>5. tasks' \in [Logins -> Tasks]
    <3>1. ASSUME NEW t \in Tasks
          PROVE [t EXCEPT !.gen = 0, !.good = FALSE,
                   !.stage = IF @ \in {"idle", "done"} THEN @ ELSE "lost"] \in Tasks
      <4>1. t.stage \in Stages /\ "lost" \in Stages /\ t.kind \in Kinds /\ 0 \in 0..MaxGen
        BY RunsAssumption DEF Tasks, Stages
      <4> QED
        BY <4>1 DEF Tasks
    <3>2. \A id \in Logins : tasks[id] \in Tasks
      BY <1>ty DEF TypeOK
    <3>3. QED
      BY <1>12, <3>1, <3>2 DEF Crash
  <2>6. store' \in Stores
    <3>1. store \in Stores /\ store' \in {store} \cup Remains(store)
      BY <1>ty, <1>12 DEF TypeOK, Crash
    <3>2. \A left \in SUBSET store.files : [store EXCEPT !.files = left] \in Stores
      BY <3>1 DEF Stores
    <3>3. QED
      BY <3>1, <3>2 DEF Remains
  <2>7. TypeOK'
    BY <1>ty, <1>12, <2>3, <2>4, <2>5, <2>6 DEF TypeOK, Crash, Steps, States, Alarms
  <2>8. SlotHasClient' /\ HolderCounts'
    BY <1>ty, <1>12 DEF SlotHasClient, HolderCounts, MayRaise, Crash
  <2>9. QED
    BY <2>7, <2>8 DEF TInv
<1>13. CASE RestoreGivesUp
  BY <1>ty, <1>13, StoreTypes
  DEF TInv, TypeOK, SlotHasClient, HolderCounts, MayRaise, Alarms, RestoreGivesUp,
      Restoring, States, Steps, Tell
<1>14. CASE RestoreRefused
  BY <1>ty, <1>14, StoreTypes
  DEF TInv, TypeOK, SlotHasClient, HolderCounts, MayRaise, Alarms, RestoreRefused,
      Restoring, Steps
<1>15. CASE RestoreOpens
  <2>1. store' \in Stores /\ PlanKey(store, storeKey) \in Keys \cup {NoKey}
    BY <1>ty, <1>15, StoreTypes DEF TypeOK, RestoreOpens
  <2>2. client' \in ClientRecords
    BY <1>ty, <1>15, <2>1 DEF TypeOK, RestoreOpens, ClientRecords, Files
  <2>3. slot' \in Slots /\ slot'.phase = "loggingIn"
    BY <1>ty, <1>15, RunsAssumption DEF TypeOK, RestoreOpens, Assigned, MayRaise, Slots, Phases
  <2>4. TypeOK'
    BY <1>ty, <1>15, <2>1, <2>2, <2>3 DEF TypeOK, RestoreOpens, Steps
  <2>5. SlotHasClient' /\ HolderCounts'
    BY <1>ty, <1>15, <2>1, <2>2, <2>3, <2>4, NoClientAssumption DEF SlotHasClient, HolderCounts, MayRaise, RestoreOpens, Restoring
  <2>6. QED
    BY <2>4, <2>5 DEF TInv
<1>16. CASE RestoreRepairs
  BY <1>ty, <1>16, StoreTypes
  DEF TInv, TypeOK, SlotHasClient, HolderCounts, MayRaise, RestoreRepairs, Steps
<1>17. CASE BeginObserve
  BY <1>ty, <1>17
  DEF TInv, TypeOK, SlotHasClient, HolderCounts, MayRaise, BeginObserve, Slots, Steps,
      Watches
<1>18. CASE BeginPersist
  <2>1. client \in ClientRecords
    BY <1>ty, <1>18 DEF TypeOK, HolderCounts, BeginPersist
  <2>2. file' \in Files /\ alarms' \in SUBSET Alarms
    BY <1>ty, <1>18, <2>1, PersistTypes DEF TypeOK, BeginPersist
  <2>3. slot' \in Slots /\ slot'.phase = "session"
    BY <1>ty, <1>18 DEF TypeOK, BeginPersist, Slots, Phases
  <2>4. tasks' \in [Logins -> Tasks] /\ told' \in States
    BY <1>ty, <1>18 DEF TypeOK, BeginPersist, Moved, Tasks, Stages, States
  <2>5. TypeOK'
    BY <1>ty, <1>18, <2>1, <2>2, <2>3, <2>4 DEF TypeOK, BeginPersist, Steps
  <2>6. SlotHasClient' /\ HolderCounts'
    BY <1>ty, <1>18, <2>1, <2>2, <2>3, <2>4, <2>5 DEF SlotHasClient, HolderCounts, MayRaise, BeginPersist
  <2>7. QED
    BY <2>5, <2>6 DEF TInv
<1>19. CASE LoginLooks
  BY <1>ty, <1>19
  DEF TInv, TypeOK, SlotHasClient, HolderCounts, MayRaise, LoginGivesUp, LoginLooks,
      Moved, Said, Stages, Steps, Stopped, Tasks, Verdicts
<1>20. CASE LoginWipes
  <2>1. store' \in Stores
    BY <1>ty, <1>20, ConstTypes, StoreTypes DEF TypeOK, LoginWipes
  <2>2. gate' \in {"build", "free"} /\ who' \in Logins \cup {0}
        /\ (gate' = "build" => who' = who)
    BY <1>ty, <1>20 DEF TypeOK, LoginWipes, LoginGivesUp
  <2>3. tasks' \in [Logins -> Tasks] /\ verdict' \in [Logins -> Verdicts]
    BY <1>ty, <1>20
    DEF TypeOK, LoginWipes, LoginGivesUp, Moved, Said, Tasks, Stages, Verdicts
  <2>4. UNCHANGED <<file, slotVars, loginTask, watchVars, frontVars, procVars, held>>
    BY <1>20 DEF LoginWipes
  <2>5. TypeOK'
    BY <1>ty, <2>1, <2>2, <2>3, <2>4 DEF TypeOK, Steps
  <2>6. SlotHasClient' /\ HolderCounts'
    BY <1>ty, <1>20, <2>2, <2>4 DEF SlotHasClient, HolderCounts, MayRaise, LoginWipes
  <2>7. QED
    BY <2>5, <2>6 DEF TInv
<1>21. CASE LoginBuilds
  <2>1. store' \in Stores /\ PlanKey(store, storeKey) \in Keys \cup {NoKey}
    BY <1>ty, <1>21, StoreTypes DEF TypeOK, LoginBuilds
  <2>2. client' \in ClientRecords
    BY <1>ty, <1>21, <2>1, BoundsAssumption DEF TypeOK, LoginBuilds, ClientRecords, Devices, NoDev, Tokens
  <2>3. slot' \in Slots /\ slot'.phase = "loggingIn" /\ slot.generation + 1 \in 0..MaxGen
    BY <1>ty, <1>21, RunsAssumption DEF TypeOK, HolderCounts, LoginBuilds, Assigned, MayRaise, Slots, Phases
  <2>4. tasks' \in [Logins -> Tasks] /\ loginTask' \in Logins
    BY <1>ty, <1>21, <2>1, <2>2, <2>3 DEF TypeOK, HolderCounts, LoginBuilds, SpawnLogin, Tasks, Stages
  <2>5. TypeOK'
    BY <1>ty, <1>21, <2>1, <2>2, <2>3, <2>4 DEF TypeOK, LoginBuilds, Steps
  <2>6. SlotHasClient' /\ HolderCounts'
    BY <1>ty, <1>21, <2>1, <2>2, <2>3, <2>4, <2>5, NoClientAssumption DEF SlotHasClient, HolderCounts, MayRaise, LoginBuilds
  <2>7. QED
    BY <2>5, <2>6 DEF TInv
<1>22. CASE LoginCannotBuild
  BY <1>ty, <1>22, StoreTypes
  DEF TInv, TypeOK, SlotHasClient, HolderCounts, MayRaise, LoginCannotBuild,
      LoginGivesUp, Moved, Said, Stages, Steps, Stopped, Tasks, Verdicts
<1>23. CASE LogoutDrains
  <2>1. slot' \in Slots /\ slot'.phase = "empty" /\ gate' \in Steps
    BY <1>ty, <1>23, RunsAssumption DEF TypeOK, HolderCounts, MayRaise, LogoutDrains, TakesClient, Cleared, Assigned, Slots, Phases, Steps
  <2>2. held' \in ClientRecords \cup {NoClient} /\ client' = NoClient
    BY <1>ty, <1>23 DEF TypeOK, LogoutDrains, TakesClient
  <2>3. TypeOK'
    BY <1>ty, <1>23, <2>1, <2>2 DEF TypeOK, LogoutDrains, TakesClient
  <2>4. SlotHasClient' /\ HolderCounts'
    BY <1>ty, <1>23, <2>1, <2>2, <2>3 DEF SlotHasClient, HolderCounts, MayRaise, LogoutDrains, TakesClient
  <2>5. QED
    BY <2>3, <2>4 DEF TInv
<1>24. CASE LogoutForgets
  BY <1>ty, <1>24, ConstTypes
  DEF TInv, TypeOK, SlotHasClient, HolderCounts, MayRaise, LogoutForgets, Steps
<1>25. CASE LogoutResets
  BY <1>ty, <1>25, ConstTypes, StoreTypes
  DEF TInv, TypeOK, SlotHasClient, HolderCounts, MayRaise, Alarms, LogoutResets, States,
      Steps, Tell
<1>26. CASE RebuildDrains
  <2>1. slot' \in Slots /\ slot'.phase = "empty" /\ gate' \in Steps
    BY <1>ty, <1>26, RunsAssumption DEF TypeOK, HolderCounts, MayRaise, RebuildDrains, TakesClient, Cleared, Assigned, Slots, Phases, Steps
  <2>2. held' \in ClientRecords \cup {NoClient} /\ client' = NoClient
    BY <1>ty, <1>26 DEF TypeOK, RebuildDrains, TakesClient
  <2>3. TypeOK'
    BY <1>ty, <1>26, <2>1, <2>2 DEF TypeOK, RebuildDrains, TakesClient
  <2>4. SlotHasClient' /\ HolderCounts'
    BY <1>ty, <1>26, <2>1, <2>2, <2>3 DEF SlotHasClient, HolderCounts, MayRaise, RebuildDrains, TakesClient
  <2>5. QED
    BY <2>3, <2>4 DEF TInv
<1>27. CASE RebuildSaves
  <2>1. held \in ClientRecords
    BY <1>ty, <1>27 DEF TypeOK, HolderCounts, RebuildSaves
  <2>2. file' \in Files /\ alarms' \in SUBSET Alarms
    BY <1>ty, <1>27, <2>1, PersistTypes DEF TypeOK, RebuildSaves
  <2>3. TypeOK'
    BY <1>ty, <1>27, <2>1, <2>2 DEF TypeOK, RebuildSaves, Steps
  <2>4. SlotHasClient' /\ HolderCounts'
    BY <1>ty, <1>27, <2>1, <2>2, <2>3 DEF SlotHasClient, HolderCounts, MayRaise, RebuildSaves
  <2>5. QED
    BY <2>3, <2>4 DEF TInv
<1>28. CASE RebuildWipes
  BY <1>ty, <1>28
  DEF TInv, TypeOK, SlotHasClient, HolderCounts, MayRaise, Alarms, RebuildWipes, Steps
<1>29. CASE ExpireDrains
  <2>1. slot' \in Slots /\ slot'.phase = "empty" /\ gate' \in Steps
    BY <1>ty, <1>29, RunsAssumption DEF TypeOK, HolderCounts, MayRaise, ExpireDrains, TakesClient, Cleared, Assigned, Slots, Phases, Steps
  <2>2. held' \in ClientRecords \cup {NoClient} /\ client' = NoClient
    BY <1>ty, <1>29 DEF TypeOK, ExpireDrains, TakesClient
  <2>3. TypeOK'
    BY <1>ty, <1>29, <2>1, <2>2 DEF TypeOK, ExpireDrains, TakesClient
  <2>4. SlotHasClient' /\ HolderCounts'
    BY <1>ty, <1>29, <2>1, <2>2, <2>3 DEF SlotHasClient, HolderCounts, MayRaise, ExpireDrains, TakesClient
  <2>5. QED
    BY <2>3, <2>4 DEF TInv
<1>30. CASE ExpireForgets
  BY <1>ty, <1>30, ConstTypes
  DEF TInv, TypeOK, SlotHasClient, HolderCounts, MayRaise, ExpireForgets, Steps
<1>31. CASE CloseDrops
  BY <1>ty, <1>31, NoClientAssumption, RunsAssumption
  DEF TInv, TypeOK, SlotHasClient, HolderCounts, MayRaise, Assigned, Cleared, CloseDrops,
      NoWatch, Phases, Slots, Steps, Watches
<1>32. ASSUME NEW id \in Logins, Login(id) PROVE TInv'
  <2>1. CASE \E kind \in Kinds : LoginRefused(id, kind)
    BY <1>ty, <2>1
    DEF TInv, TypeOK, SlotHasClient, HolderCounts, MayRaise, LoginRefused, MayLogin,
        Moved, Said, Stages, Tasks, Verdicts
  <2>2. CASE \E kind \in Kinds : LoginStarts(id, kind)
    BY <1>ty, <2>2, RunsAssumption
    DEF TInv, TypeOK, SlotHasClient, HolderCounts, MayRaise, Assigned, Cleared, Kinds,
        LoginStarts, MayLogin, Moved, Phases, Said, Slots, Stages, Steps, Stopped, Tasks,
        Verdicts
  <2>3. CASE LoginReuses(id)
    BY <1>ty, <2>3
    DEF TInv, TypeOK, SlotHasClient, HolderCounts, MayRaise, Advanced, Holds, Kinds,
        LoginEntry, LoginReuses, MayLogin, Moved, Phases, Said, Slots, SpawnLogin,
        Stages, Steps, Stopped, Tasks, Verdicts
  <2>4. CASE BrowserAsks(id)
    BY <1>ty, <2>4
    DEF TInv, TypeOK, SlotHasClient, HolderCounts, MayRaise, BrowserAsks, Moved,
        NetworkKeeps, Said, Stages, Steps, Stopped, Tasks, Verdicts
  <2>5. CASE DeviceAsks(id)
    BY <1>ty, <2>5
    DEF TInv, TypeOK, SlotHasClient, HolderCounts, MayRaise, DeviceAsks, Moved,
        NetworkKeeps, Said, Stages, Steps, Stopped, Tasks, Verdicts
  <2>6. CASE AttemptSucceeds(id)
    <3>1. tasks' \in [Logins -> Tasks]
      <4>1. tasks \in [Logins -> Tasks] /\ tasks' = [tasks EXCEPT ![id].stage = "finish", ![id].good = TRUE]
        BY <1>ty, <2>6 DEF TypeOK, AttemptSucceeds
      <4>2. tasks[id] \in Tasks /\ [tasks[id] EXCEPT !.stage = "finish", !.good = TRUE] \in Tasks
        BY <4>1 DEF Tasks, Stages
      <4>3. QED
        BY <4>1, <4>2
    <3>2. id \in Devices /\ 0 \in Tokens
      BY <1>ty, <2>6, BoundsAssumption DEF Logins, Devices, Tokens
    <3>3. client' \in ClientRecords
      BY <1>ty, <2>6, <3>1, <3>2 DEF TypeOK, AttemptSucceeds, ClientRecords
    <3>4. store' \in Stores
      BY <1>ty, <2>6, <3>1, <3>2, <3>3 DEF TypeOK, AttemptSucceeds, Stores
    <3>5. TypeOK'
      BY <1>ty, <2>6, <3>1, <3>2, <3>3, <3>4 DEF TypeOK, AttemptSucceeds
    <3>6. SlotHasClient' /\ HolderCounts'
      BY <1>ty, <2>6, <3>1, <3>2, <3>3, <3>4, <3>5, NoClientAssumption DEF SlotHasClient, HolderCounts, MayRaise, AttemptSucceeds
    <3>7. QED
      BY <3>5, <3>6 DEF TInv
  <2>7. CASE AttemptFails(id)
    <3>1. tasks' \in [Logins -> Tasks]
      BY <1>ty, <2>7 DEF TypeOK, AttemptFails, Tasks, Stages
    <3>2. TypeOK'
      BY <1>ty, <2>7, <3>1 DEF TypeOK, AttemptFails, NetworkKeeps
    <3>3. SlotHasClient' /\ HolderCounts'
      BY <1>ty, <2>7 DEF SlotHasClient, HolderCounts, MayRaise, AttemptFails, NetworkKeeps
    <3>4. QED
      BY <3>2, <3>3 DEF TInv
  <2>8. CASE Releases(id)
    BY <1>ty, <2>8, NoClientAssumption
    DEF TInv, TypeOK, SlotHasClient, HolderCounts, MayRaise, Assigned, Cleared, Moved,
        Phases, Releases, Said, Slots, Stages, Steps, Stopped, Tasks, UnassignIf,
        Verdicts
  <2>9. CASE Offers(id)
    BY <1>ty, <2>9
    DEF TInv, TypeOK, SlotHasClient, HolderCounts, MayRaise, Advanced, Holds, Moved,
        Offers, Phases, Said, Slots, Stages, Steps, Stopped, Tasks, Verdicts
  <2>10. CASE Publishes(id)
    BY <1>ty, <2>10
    DEF TInv, TypeOK, SlotHasClient, HolderCounts, MayRaise, Moved, NetworkKeeps,
        Publishes, Said, Stages, Steps, Stopped, Tasks, Verdicts
  <2>11. CASE Replies(id)
    BY <1>ty, <2>11
    DEF TInv, TypeOK, SlotHasClient, HolderCounts, MayRaise, Moved, NetworkKeeps,
        Replies, Said, Stages, Steps, Stopped, Tasks, Verdicts
  <2>12. CASE FinishGood(id)
    BY <1>ty, <2>12
    DEF TInv, TypeOK, SlotHasClient, HolderCounts, MayRaise, FinishGood, FinishTakes,
        Holds, Moved, Outdated, Phases, Said, Slots, Stages, Steps, Stopped, Tasks,
        Verdicts
  <2>13. CASE FinishBad(id)
    BY <1>ty, <2>13, NoClientAssumption
    DEF TInv, TypeOK, SlotHasClient, HolderCounts, MayRaise, Advanced, Assigned, Cleared,
        FinishBad, FinishTakes, Holds, Moved, Outdated, Phases, Said, Slots, Stages,
        Steps, Stopped, Tasks, UnassignIf, Verdicts
  <2>14. CASE Announces(id)
    BY <1>ty, <2>14
    DEF TInv, TypeOK, SlotHasClient, HolderCounts, MayRaise, Alarms, Announces, Moved,
        Said, SessionData, Stages, States, Steps, Stopped, Tasks, Tell, Verdicts
  <2>15. QED
    BY <1>32, <2>1, <2>2, <2>3, <2>4, <2>5, <2>6, <2>7, <2>8, <2>9, <2>10, <2>11, <2>12, <2>13, <2>14 DEF Login
<1>33. ASSUME NEW g \in expiring, Expire(g) PROVE TInv'
  BY <1>ty, <1>33, RunsAssumption, SMTT(30)
  DEF TInv, TypeOK, SlotHasClient, HolderCounts, MayRaise, Assigned, CancelLogin,
      Closing, Expire, Holds, Moved, NoWatch, Phases, Said, Slots, Stages, Steps,
      Stopped, Tasks, Teardown, Verdicts, Watches
<1>34. CASE UNCHANGED vars
  BY <1>34 DEF TInv, TypeOK, SlotHasClient, HolderCounts, MayRaise, vars
<1>35. QED
  BY <1>1, <1>2, <1>3, <1>5, <1>6, <1>7, <1>8, <1>9, <1>10, <1>11, <1>12, <1>13,
    <1>14, <1>15, <1>16, <1>17, <1>18, <1>19, <1>20, <1>21, <1>22, <1>23, <1>24,
    <1>25, <1>26, <1>27, <1>28, <1>29, <1>30, <1>31, <1>32, <1>33, <1>34 DEF Next, HolderStep

-----------------------------------------------------------------------------
(* The store. *)

\* A directory with a database in it is neither marked nor made again.
LEMMA StaysAsItIs ==
    ASSUME "db" \in store.files
    PROVE Planned(store, storeKey) = store /\ Opened(store, storeKey) = store
BY DEF Planned, Opened, Fresh

\* What opens under the plan is opened under the key it was written under.
LEMMA OpensUnderItsKey ==
    ASSUME "db" \in store.files, "marker" \in store.files <=> store.key # NoKey,
           ~PlanRefuses(store, storeKey), Opens(store, storeKey)
    PROVE PlanKey(store, storeKey) = store.key
BY DEF PlanRefuses, PlanKey, Opens, Fresh

\* Every step leaves a store that fits whoever has it open.
LEMMA StoreStep == TInv /\ SInv /\ [Next]_vars => SInv'
<1> SUFFICES ASSUME TInv, SInv, [Next]_vars PROVE SInv'
  OBVIOUS
<1> USE DEF disk, slotVars, taskVars, watchVars, frontVars, procVars, gateVars
<1>in. SInv /\ HolderCounts
  BY DEF TInv
<1>ty. TypeOK /\ SlotHasClient
  BY DEF TInv
<1>1. CASE Restore
  BY <1>in, <1>1
  DEF SInv, StoreSound, InUse, OpenMatchesStore, HolderCounts, Restore, 
      RestoreTakes
<1>2. CASE RebuildRestores
  BY <1>in, <1>2
  DEF SInv, StoreSound, InUse, OpenMatchesStore, HolderCounts, RebuildRestores, 
      RestoreTakes
<1>3. CASE Abort
  BY <1>in, <1>3
  DEF SInv, StoreSound, InUse, OpenMatchesStore, HolderCounts, Abort, CancelLogin
<1>5. CASE Logout
  BY <1>in, <1>5
  DEF SInv, StoreSound, InUse, OpenMatchesStore, HolderCounts, Logout, Teardown
<1>6. CASE Rebuild
  BY <1>in, <1>6
  DEF SInv, StoreSound, InUse, OpenMatchesStore, HolderCounts, Rebuild, Teardown
<1>7. CASE TellExpired
  BY <1>in, <1>7
  DEF SInv, StoreSound, InUse, OpenMatchesStore, HolderCounts, TellExpired
<1>8. CASE CloseSaves
  BY <1>in, <1>8, <1>ty
  DEF SInv, StoreSound, InUse, OpenMatchesStore, HolderCounts, TypeOK, 
      ClientRecords, SlotHasClient, CloseSaves, Persist, WrittenFile
<1>9. CASE Refresh
  BY <1>in, <1>9, <1>ty
  DEF SInv, StoreSound, InUse, OpenMatchesStore, HolderCounts, TypeOK, 
      ClientRecords, SlotHasClient, Refresh
<1>10. CASE WatchWrites
  <2>1. Holds(slot, watch.gen) => client \in ClientRecords \ {NoClient}
    BY <1>ty, <1>10, NoClientAssumption
    DEF TypeOK, SlotHasClient, Holds, WatchWrites, Slots, Phases
  <2>2. Holds(slot, watch.gen) => client.dev \in {NoDev, store.dev}
    BY <1>in, <2>1 DEF SInv, OpenMatchesStore
  <2>3. file' = file \/ (file'.present /\ file'.dev = store.dev /\ file'.dev # NoDev)
    BY <1>10, <2>1, <2>2 DEF WatchWrites, Persist, WrittenFile
  <2>4. Holds(slot, watch.gen) \/ file' = file
    BY <1>10 DEF WatchWrites
  <2>5. QED
    BY <1>in, <1>10, <2>1, <2>3, <2>4
    DEF SInv, StoreSound, InUse, OpenMatchesStore, WatchWrites
<1>11. CASE WatchEnds
  BY <1>in, <1>11
  DEF SInv, StoreSound, InUse, OpenMatchesStore, HolderCounts, WatchEnds
<1>12. CASE Crash
  BY <1>in, <1>12
  DEF SInv, StoreSound, InUse, OpenMatchesStore, HolderCounts, Crash, Remains, 
      EmptyStore, NoDev
<1>13. CASE RestoreGivesUp
  <2>1. store' = store
    BY <1>in, <1>13, StaysAsItIs DEF SInv, StoreSound, InUse, RestoreGivesUp
  <2>2. QED
    BY <1>in, <1>13, <2>1 DEF SInv, StoreSound, InUse, OpenMatchesStore, RestoreGivesUp
<1>14. CASE RestoreRefused
  <2>1. store' = store
    BY <1>in, <1>14, StaysAsItIs DEF SInv, StoreSound, InUse, RestoreRefused, Restorable, LoadOutcomes
  <2>2. QED
    BY <1>in, <1>14, <2>1 DEF SInv, StoreSound, InUse, OpenMatchesStore, RestoreRefused
<1>15. CASE RestoreOpens
  <2>1. file.present /\ "db" \in store.files
    BY <1>in, <1>15 DEF SInv, StoreSound, InUse, RestoreOpens, Restorable, LoadOutcomes
  <2>2. store' = store
    BY <1>15, <2>1, StaysAsItIs DEF RestoreOpens
  <2>3. PlanKey(store, storeKey) = store.key
    BY <1>in, <1>15, <2>1, OpensUnderItsKey
    DEF SInv, StoreSound, InUse, RestoreOpens, Restorable
  <2>4. client'.key = store.key /\ client'.dev = store.dev
    BY <1>in, <1>15, <2>1, <2>3 DEF SInv, StoreSound, RestoreOpens
  <2>5. held' = held /\ file' = file /\ gate' = "observe"
    BY <1>15 DEF RestoreOpens
  <2>6. QED
    BY <1>in, <2>1, <2>2, <2>4, <2>5 DEF SInv, StoreSound, InUse, OpenMatchesStore
<1>16. CASE RestoreRepairs
  <2>1. store' = store
    BY <1>in, <1>16, StaysAsItIs DEF SInv, StoreSound, InUse, RestoreRepairs, Restorable, LoadOutcomes
  <2>2. QED
    BY <1>in, <1>16, <2>1 DEF SInv, StoreSound, InUse, OpenMatchesStore, RestoreRepairs
<1>17. CASE BeginObserve
  BY <1>in, <1>17
  DEF SInv, StoreSound, InUse, OpenMatchesStore, HolderCounts, BeginObserve
<1>18. CASE BeginPersist
  BY <1>in, <1>18, <1>ty
  DEF SInv, StoreSound, InUse, OpenMatchesStore, HolderCounts, TypeOK, 
      ClientRecords, SlotHasClient, BeginPersist, Persist, WrittenFile
<1>19. CASE LoginLooks
  BY <1>in, <1>19
  DEF SInv, StoreSound, InUse, OpenMatchesStore, HolderCounts, LoginLooks, 
      LoginGivesUp, LoadOutcomes
<1>20. CASE LoginWipes
  BY <1>in, <1>20
  DEF SInv, StoreSound, InUse, OpenMatchesStore, HolderCounts, LoginWipes, 
      LoginGivesUp, Remains, EmptyStore
<1>21. CASE LoginBuilds
  <2>1. /\ file' = file /\ held' = held /\ gate' = "free"
        /\ client'.key = PlanKey(store, storeKey) /\ client'.dev = NoDev
        /\ store' = Opened(store, storeKey)
        /\ ~PlanRefuses(store, storeKey) /\ Opens(store, storeKey)
    BY <1>21 DEF LoginBuilds
  <2>2. held = NoClient
    BY <1>in, <1>21 DEF HolderCounts, LoginBuilds
  <2>3. CASE file.present
    <3>1. "db" \in store.files /\ ("marker" \in store.files <=> store.key # NoKey)
      BY <1>in, <2>3 DEF SInv, StoreSound, InUse
    <3>2. store' = store /\ PlanKey(store, storeKey) = store.key
      BY <2>1, <3>1, StaysAsItIs, OpensUnderItsKey
    <3>3. QED
      BY <1>in, <2>1, <2>2, <3>1, <3>2 DEF SInv, StoreSound, InUse, OpenMatchesStore
  <2>4. CASE ~file.present
    <3>1. store = EmptyStore
      BY <1>in, <1>21, <2>4 DEF SInv, StoreSound, LoginBuilds
    <3>2. storeKey # NoKey /\ PlanKey(store, storeKey) = storeKey
      BY <2>1, <3>1 DEF PlanRefuses, PlanKey, Fresh, EmptyStore
    <3>3. /\ "db" \in store'.files /\ "marker" \in store'.files
          /\ store'.key = storeKey
      BY <2>1, <3>1, <3>2 DEF Opened, Planned, Fresh, EmptyStore
    <3>4. QED
      BY <1>in, <2>1, <2>2, <2>4, <3>2, <3>3 DEF SInv, StoreSound, InUse, OpenMatchesStore
  <2>5. QED
    BY <2>3, <2>4
<1>22. CASE LoginCannotBuild
  BY <1>in, <1>22
  DEF SInv, StoreSound, InUse, OpenMatchesStore, HolderCounts, LoginCannotBuild, 
      LoginGivesUp, Planned, Fresh
<1>23. CASE LogoutDrains
  BY <1>in, <1>23
  DEF SInv, StoreSound, InUse, OpenMatchesStore, HolderCounts, LogoutDrains, 
      TakesClient
<1>24. CASE LogoutForgets
  BY <1>in, <1>24
  DEF SInv, StoreSound, InUse, OpenMatchesStore, HolderCounts, LogoutForgets, 
      NoFile
<1>25. CASE LogoutResets
  BY <1>in, <1>25
  DEF SInv, StoreSound, InUse, OpenMatchesStore, HolderCounts, LogoutResets, 
      Remains, EmptyStore
<1>26. CASE RebuildDrains
  BY <1>in, <1>26
  DEF SInv, StoreSound, InUse, OpenMatchesStore, HolderCounts, RebuildDrains, 
      TakesClient
<1>27. CASE RebuildSaves
  BY <1>in, <1>27, <1>ty
  DEF SInv, StoreSound, InUse, OpenMatchesStore, HolderCounts, TypeOK, 
      ClientRecords, SlotHasClient, RebuildSaves, Persist, WrittenFile
<1>28. CASE RebuildWipes
  BY <1>in, <1>28
  DEF SInv, StoreSound, InUse, OpenMatchesStore, HolderCounts, RebuildWipes
<1>29. CASE ExpireDrains
  BY <1>in, <1>29
  DEF SInv, StoreSound, InUse, OpenMatchesStore, HolderCounts, ExpireDrains, 
      TakesClient
<1>30. CASE ExpireForgets
  BY <1>in, <1>30
  DEF SInv, StoreSound, InUse, OpenMatchesStore, HolderCounts, ExpireForgets, 
      NoFile
<1>31. CASE CloseDrops
  BY <1>in, <1>31
  DEF SInv, StoreSound, InUse, OpenMatchesStore, HolderCounts, CloseDrops
<1>32. ASSUME NEW id \in Logins, Login(id) PROVE SInv'
  <2>1. CASE \E kind \in Kinds : LoginRefused(id, kind)
    BY <1>in, <2>1
    DEF SInv, StoreSound, InUse, OpenMatchesStore, HolderCounts, LoginRefused
  <2>2. CASE \E kind \in Kinds : LoginStarts(id, kind)
    BY <1>in, <2>2
    DEF SInv, StoreSound, InUse, OpenMatchesStore, HolderCounts, LoginStarts
  <2>3. CASE LoginReuses(id)
    BY <1>in, <2>3
    DEF SInv, StoreSound, InUse, OpenMatchesStore, HolderCounts, LoginReuses
  <2>4. CASE BrowserAsks(id)
    BY <1>in, <2>4
    DEF SInv, StoreSound, InUse, OpenMatchesStore, HolderCounts, BrowserAsks, 
        NetworkKeeps
  <2>5. CASE DeviceAsks(id)
    BY <1>in, <2>5
    DEF SInv, StoreSound, InUse, OpenMatchesStore, HolderCounts, DeviceAsks, 
        NetworkKeeps
  <2>6. CASE AttemptSucceeds(id)
    <3>1. client \in ClientRecords \ {NoClient} /\ client' = [client EXCEPT !.dev = id, !.tok = 0]
      BY <1>ty, <2>6 DEF TypeOK, AttemptSucceeds
    <3>2. client'.key = client.key /\ client'.dev = id
      BY <3>1 DEF ClientRecords
    <3>3. store \in Stores /\ store' = [store EXCEPT !.dev = id]
      BY <1>ty, <2>6 DEF TypeOK, AttemptSucceeds
    <3>4. store'.files = store.files /\ store'.key = store.key /\ store'.dev = id
      BY <3>3 DEF Stores
    <3>5. store.dev = NoDev /\ file' = file /\ held' = held /\ gate' = gate
      BY <2>6 DEF AttemptSucceeds
    <3>6. "db" \in store.files /\ ("marker" \in store.files <=> store.key # NoKey)
      BY <1>in, <3>1 DEF SInv, StoreSound, InUse
    <3>7. ~file.present
      BY <1>in, <3>5 DEF SInv, StoreSound
    <3>8. gate # "build"
      BY <1>in, <3>1 DEF HolderCounts
    <3>9. client.key = store.key
      BY <1>in, <3>1 DEF SInv, OpenMatchesStore
    <3>10. held # NoClient => held.key = store.key /\ held.dev = NoDev
      BY <1>in, <3>5 DEF SInv, OpenMatchesStore
    <3>11. QED
      BY <1>in, <3>2, <3>4, <3>5, <3>6, <3>7, <3>8, <3>9, <3>10
      DEF SInv, StoreSound, InUse, OpenMatchesStore, NoDev
  <2>7. CASE AttemptFails(id)
    BY <1>in, <2>7
    DEF SInv, StoreSound, InUse, OpenMatchesStore, HolderCounts, AttemptFails, 
        NetworkKeeps
  <2>8. CASE Releases(id)
    BY <1>in, <2>8
    DEF SInv, StoreSound, InUse, OpenMatchesStore, HolderCounts, Releases, 
        UnassignIf
  <2>9. CASE Offers(id)
    BY <1>in, <2>9
    DEF SInv, StoreSound, InUse, OpenMatchesStore, HolderCounts, Offers
  <2>10. CASE Publishes(id)
    BY <1>in, <2>10
    DEF SInv, StoreSound, InUse, OpenMatchesStore, HolderCounts, Publishes, 
        NetworkKeeps
  <2>11. CASE Replies(id)
    BY <1>in, <2>11
    DEF SInv, StoreSound, InUse, OpenMatchesStore, HolderCounts, Replies, 
        NetworkKeeps
  <2>12. CASE FinishGood(id)
    BY <1>in, <2>12
    DEF SInv, StoreSound, InUse, OpenMatchesStore, HolderCounts, FinishGood, 
        FinishTakes
  <2>13. CASE FinishBad(id)
    BY <1>in, <2>13
    DEF SInv, StoreSound, InUse, OpenMatchesStore, HolderCounts, FinishBad, 
        FinishTakes, UnassignIf
  <2>14. CASE Announces(id)
    BY <1>in, <2>14
    DEF SInv, StoreSound, InUse, OpenMatchesStore, HolderCounts, Announces
  <2>15. QED
    BY <1>32, <2>1, <2>2, <2>3, <2>4, <2>5, <2>6, <2>7, <2>8, <2>9, <2>10, <2>11, <2>12, <2>13, <2>14 DEF Login
<1>33. ASSUME NEW g \in expiring, Expire(g) PROVE SInv'
  BY <1>in, <1>33
  DEF SInv, StoreSound, InUse, OpenMatchesStore, HolderCounts, Expire, Teardown
<1>34. CASE UNCHANGED vars
  BY <1>in, <1>34 DEF SInv, StoreSound, InUse, OpenMatchesStore, vars
<1>35. QED
  BY <1>1, <1>2, <1>3, <1>5, <1>6, <1>7, <1>8, <1>9, <1>10, <1>11, <1>12, <1>13,
    <1>14, <1>15, <1>16, <1>17, <1>18, <1>19, <1>20, <1>21, <1>22, <1>23, <1>24,
    <1>25, <1>26, <1>27, <1>28, <1>29, <1>30, <1>31, <1>32, <1>33, <1>34 DEF Next, HolderStep

-----------------------------------------------------------------------------
(* The sign-ins: who has the client, and what the holder of the gate serves. *)

\* The stages of a sign-in that still has the client it was given.
Active == Running \cup {"published"}
Drains == {"logoutDrain", "rebuildDrain", "expireDrain"}

\* A sign-in that has its client is the one that can be cancelled, and the slot
\* is at its generation; the holder of the gate knows which sign-in it serves.
SignIns ==
    /\ \A id \in Logins : tasks[id].stage \in Active =>
          /\ slot.generation = tasks[id].gen /\ slot.phase = "loggingIn"
          /\ client # NoClient /\ loginTask = id
    /\ \A id \in Logins : tasks[id].stage = "announce" =>
          slot.phase = "session" /\ loginTask = id
    /\ gate \in {"look", "wipe", "build"} => tasks[who].stage = "queued" /\ loginTask = 0
    /\ who # 0 => gate \in {"look", "wipe", "build", "observe", "persist"}
    /\ gate \in {"observe", "persist"} => slot.phase = "loggingIn"
    /\ gate \in {"observe", "persist"} /\ who = 0 =>
          \A id \in Logins : tasks[id].stage \notin Active
    /\ gate \in {"observe", "persist"} /\ who # 0 => tasks[who].stage = "finish" /\ tasks[who].good
    /\ gate \in Drains => slot.phase = "closing"
    /\ gate = "closeDrop" => woken
    /\ woken => \A id \in Logins : tasks[id].stage \in {"idle", "done", "lost"}


\* What moving one task, and stopping the cancellable one, does to the table.
LEMMA TasksMove ==
    ASSUME tasks \in [Logins -> Tasks], loginTask \in Logins \cup {0}
    PROVE /\ \A id, i \in Logins, stage \in Stages :
                /\ Moved(id, stage)[i].stage = IF i = id THEN stage ELSE tasks[i].stage
                /\ Moved(id, stage)[i].gen = tasks[i].gen
                /\ Moved(id, stage)[i].good = tasks[i].good
                /\ Moved(id, stage)[i].kind = tasks[i].kind
          /\ \A i \in Logins :
                /\ Stopped[i].stage = IF i = loginTask THEN "done" ELSE tasks[i].stage
                /\ Stopped[i].gen = tasks[i].gen
                /\ Stopped[i].good = tasks[i].good
                /\ Stopped[i].kind = tasks[i].kind
<1>1. \A i \in Logins : tasks[i] \in Tasks
  OBVIOUS
<1>2. ASSUME NEW id \in Logins, NEW i \in Logins, NEW stage
      PROVE /\ Moved(id, stage)[i].stage = IF i = id THEN stage ELSE tasks[i].stage
            /\ Moved(id, stage)[i].gen = tasks[i].gen
            /\ Moved(id, stage)[i].good = tasks[i].good
            /\ Moved(id, stage)[i].kind = tasks[i].kind
  BY <1>1, <1>2 DEF Moved, Tasks
<1>3. 0 \notin Logins
  BY ConstTypes
<1>4. QED
  BY <1>2, <1>3 DEF Stopped

\* A teardown stops the one sign-in that has the client.
LEMMA TeardownKeeps ==
    ASSUME TInv, SignIns, NEW step \in Drains, Teardown(step), client' = client, who' = who, woken' = woken
    PROVE SignIns'
<1>1. \A id \in Logins : tasks'[id].stage \in Active \cup {"announce"} =>
         id # loginTask /\ tasks'[id].stage = tasks[id].stage
  BY TasksMove DEF TInv, TypeOK, Teardown, CancelLogin, Active, Running
<1>2. \A id \in Logins : tasks'[id].stage \notin Active \cup {"announce"}
  BY <1>1 DEF SignIns
<1>3. slot'.phase = "closing" /\ gate' \in Drains /\ who = 0
  BY DEF Teardown, Closing, Assigned, SignIns, Drains
<1>4. woken' => \A id \in Logins : tasks'[id].stage \in {"idle", "done", "lost"}
  BY TasksMove DEF TInv, TypeOK, Teardown, CancelLogin, SignIns
<1>5. QED
  BY <1>2, <1>3, <1>4 DEF SignIns, Drains

\* A sign-in that moves on by itself, or ends, leaves what holds of the others.
LEMMA MovesOn ==
    ASSUME TInv, SignIns, NEW id \in Logins, NEW stage \in Stages,
           UNCHANGED <<slot, client, loginTask, gate, who, woken>>,
           \A i \in Logins : /\ tasks'[i].stage = IF i = id THEN stage ELSE tasks[i].stage
                             /\ tasks'[i].gen = tasks[i].gen
                             /\ i # id => tasks'[i].good = tasks[i].good,
           stage # "announce",
           stage \in Active => tasks[id].stage \in Active,
           stage = "done" \/ tasks[id].stage \notin {"idle", "done", "lost"},
           tasks[id].stage \notin {"queued", "finish"} \/ gate = "free"
    PROVE SignIns'
<1>1. \A i \in Logins : tasks'[i].stage \in Active => tasks[i].stage \in Active
  OBVIOUS
<1>2. \A i \in Logins : tasks'[i].stage = "announce" => tasks[i].stage = "announce"
  OBVIOUS
<1>3. gate \in {"look", "wipe", "build", "observe", "persist"} /\ who # 0 => who \in Logins /\ who # id
  BY DEF SignIns, TInv, TypeOK
<1>4. gate \in {"look", "wipe", "build"} => who # 0
  BY ConstTypes DEF TInv, HolderCounts
<1>5. /\ gate' \in {"look", "wipe", "build"} => tasks'[who'].stage = "queued" /\ loginTask' = 0
      /\ gate' \in {"observe", "persist"} /\ who' # 0 => tasks'[who'].stage = "finish" /\ tasks'[who'].good
  BY <1>3, <1>4 DEF SignIns
<1>6. woken' => \A i \in Logins : tasks'[i].stage \in {"idle", "done", "lost"}
  BY DEF SignIns
<1>7. QED
  BY <1>1, <1>2, <1>5, <1>6 DEF SignIns, Drains

\* A sign-in that gives its client back was the only one to have it.
LEMMA GivesUp ==
    ASSUME TInv, SignIns, NEW id \in Logins, NEW stage \in Stages,
           UNCHANGED <<loginTask, gate, who, woken>>, gate = "free",
           \A i \in Logins : tasks'[i].stage = IF i = id THEN stage ELSE tasks[i].stage,
           tasks[id].stage \in Active, stage \notin Active \cup {"announce"}
    PROVE SignIns'
<1>1. slot.phase = "loggingIn" /\ loginTask = id
  BY DEF SignIns
<1>2. \A i \in Logins : tasks'[i].stage \notin Active \cup {"announce"}
  BY <1>1 DEF SignIns
<1>3. ~woken
  BY DEF SignIns, Active, Running
<1>4. QED
  BY <1>2, <1>3 DEF SignIns, Drains

\* Every step keeps the sign-ins and the client in step.
LEMMA SignInStep == TInv /\ SignIns /\ [Next]_vars => SignIns'
<1> SUFFICES ASSUME TInv, SignIns, [Next]_vars PROVE SignIns'
  OBVIOUS
<1> USE DEF disk, slotVars, taskVars, watchVars, frontVars, procVars, gateVars
<1>ty. TypeOK /\ SlotHasClient /\ HolderCounts
  BY DEF TInv
<1>mv. tasks \in [Logins -> Tasks] /\ loginTask \in Logins \cup {0} /\ 0 \notin Logins
  BY <1>ty, ConstTypes DEF TypeOK
<1>1. CASE Restore \/ RebuildRestores
  BY <1>ty, <1>mv, <1>1 DEF SignIns, SlotHasClient, HolderCounts, Active, Running, Drains, Restore, RebuildRestores, RestoreTakes
<1>2. CASE Abort
  BY <1>ty, <1>mv, <1>2, TasksMove DEF SignIns, SlotHasClient, HolderCounts, Active, Running, Drains, Abort, CancelLogin, Cleared, Assigned
<1>3. CASE Logout
  BY <1>3, TeardownKeeps DEF Logout, Drains
<1>4. CASE Rebuild
  <2>1. CASE client # NoClient
    BY <1>4, <2>1, TeardownKeeps DEF Rebuild, Drains
  <2>2. CASE client = NoClient
    BY <1>4, <2>2 DEF Rebuild, SignIns, SlotHasClient, HolderCounts, Active, Running, Drains
  <2>3. QED
    BY <2>1, <2>2
<1>5. CASE TellExpired \/ CloseSaves \/ WatchWrites \/ WatchEnds
  BY <1>ty, <1>mv, <1>5 DEF SignIns, SlotHasClient, HolderCounts, Active, Running, Drains, TellExpired, CloseSaves, WatchWrites, WatchEnds
<1>6. CASE Refresh
  <2>1. client # NoClient /\ client' # NoClient
    BY <1>ty, <1>6, NoClientAssumption, BoundsAssumption DEF Refresh, TypeOK, ClientRecords, Tokens
  <2>2. QED
    BY <1>6, <2>1 DEF Refresh, SignIns, Drains
<1>7. CASE Crash
  <2>1. \A id \in Logins : tasks'[id].stage \in {"idle", "done", "lost"}
    BY <1>ty, <1>mv, <1>7 DEF Crash, Tasks
  <2>2. gate' = "free" /\ who' = 0
    BY <1>7 DEF Crash
  <2>3. QED
    BY <2>1, <2>2 DEF SignIns, Active, Running, Drains
<1>8. CASE RestoreGivesUp \/ RestoreRefused \/ RestoreRepairs
  BY <1>ty, <1>mv, <1>8 DEF SignIns, SlotHasClient, HolderCounts, Active, Running, Drains, RestoreGivesUp, RestoreRefused, RestoreRepairs, Restoring
<1>9. CASE RestoreOpens
  BY <1>ty, <1>mv, <1>9 DEF SignIns, SlotHasClient, HolderCounts, Active, Running, Drains, RestoreOpens, Restoring, Assigned
<1>10. CASE BeginObserve
  BY <1>ty, <1>mv, <1>10 DEF SignIns, SlotHasClient, HolderCounts, Active, Running, Drains, BeginObserve
<1>11. CASE BeginPersist
  <2>1. slot'.phase = "session" /\ gate' = "free" /\ who' = 0 /\ loginTask' = loginTask /\ woken' = woken
    BY <1>ty, <1>11 DEF BeginPersist, TypeOK, Slots
  <2>2. slot.phase = "loggingIn" /\ (\A id \in Logins : tasks[id].stage # "announce")
    BY <1>11 DEF BeginPersist, SignIns
  <2>3. CASE who = 0
    BY <1>11, <2>1, <2>2, <2>3 DEF BeginPersist, SignIns, Active, Drains
  <2>4. CASE who # 0
    <3>1. who \in Logins /\ tasks[who].stage = "finish" /\ loginTask = who
      BY <1>ty, <1>11, <2>4 DEF BeginPersist, SignIns, TypeOK, Active, Running
    <3>2. \A i \in Logins : tasks'[i].stage = IF i = who THEN "announce" ELSE tasks[i].stage
      BY <1>mv, <1>11, <2>4, <3>1, TasksMove DEF BeginPersist, Stages
    <3>3. \A i \in Logins : tasks'[i].stage \notin Active
      BY <3>1, <3>2 DEF SignIns, Active, Running
    <3>4. ~woken
      BY <3>1 DEF SignIns
    <3>5. QED
      BY <2>1, <2>2, <3>1, <3>2, <3>3, <3>4 DEF SignIns, Drains
  <2>5. QED
    BY <2>3, <2>4
<1>12. CASE LoginLooks \/ LoginWipes \/ LoginCannotBuild
  <2>1. /\ gate \in {"look", "wipe", "build"} /\ who \in Logins
        /\ UNCHANGED <<slot, client, loginTask, woken>>
    BY <1>ty, <1>12, ConstTypes DEF HolderCounts, LoginLooks, LoginWipes, LoginCannotBuild
  <2>2. tasks[who].stage = "queued" /\ loginTask = 0 /\ ~woken
    BY <2>1 DEF SignIns
  <2>3. CASE UNCHANGED <<tasks, who>> /\ gate' \in {"wipe", "build"}
    BY <2>1, <2>2, <2>3 DEF SignIns, Drains
  <2>4. CASE LoginGivesUp
    <3>1. \A i \in Logins : tasks'[i].stage = IF i = who THEN "done" ELSE tasks[i].stage
      BY <1>mv, <2>1, <2>4, TasksMove DEF LoginGivesUp, Stages
    <3>2. \A i \in Logins : tasks'[i].stage \notin Active \cup {"announce"}
      BY <1>mv, <2>2, <3>1 DEF SignIns, Active, Running
    <3>3. gate' = "free" /\ who' = 0 /\ ~woken'
      BY <2>1, <2>2, <2>4 DEF LoginGivesUp
    <3>4. QED
      BY <3>2, <3>3 DEF SignIns, Drains
  <2>5. QED
    BY <1>12, <2>3, <2>4 DEF LoginLooks, LoginWipes, LoginCannotBuild
<1>13. CASE LoginBuilds
  <2>1. who \in Logins /\ client = NoClient /\ ~woken /\ gate' = "free" /\ who' = 0
    BY <1>ty, <1>13 DEF LoginBuilds, HolderCounts, SignIns
  <2>2. \A i \in Logins : tasks[i].stage \notin Active \cup {"announce"}
    BY <1>ty, <2>1 DEF SignIns, SlotHasClient
  <2>3. \A i \in Logins : IF i = who
                         THEN tasks'[i].stage = "ask" /\ tasks'[i].gen = slot.generation + 1
                         ELSE tasks'[i] = tasks[i]
    BY <1>mv, <1>13, <2>1 DEF LoginBuilds, SpawnLogin
  <2>4. /\ slot'.generation = slot.generation + 1 /\ slot'.phase = "loggingIn"
        /\ loginTask' = who /\ woken' = woken
    BY <1>13 DEF LoginBuilds, SpawnLogin, Assigned
  <2>5. client' # NoClient
    <3>1. PlanKey(store, storeKey) \in Keys \cup {NoKey}
      BY <1>ty, StoreTypes DEF TypeOK
    <3>2. QED
      BY <1>13, <3>1, ConstTypes, NoClientAssumption DEF LoginBuilds, ClientRecords
  <2>6. QED
    BY <2>1, <2>2, <2>3, <2>4, <2>5 DEF SignIns, Drains, Active, Running
<1>14. CASE LogoutDrains \/ RebuildDrains \/ ExpireDrains
  BY <1>ty, <1>mv, <1>14 DEF SignIns, SlotHasClient, HolderCounts, Active, Running, Drains, LogoutDrains, RebuildDrains, ExpireDrains, TakesClient, Cleared, Assigned
<1>15. CASE LogoutForgets \/ LogoutResets \/ RebuildSaves \/ RebuildWipes \/ ExpireForgets
  BY <1>ty, <1>mv, <1>15 DEF SignIns, SlotHasClient, HolderCounts, Active, Running, Drains, LogoutForgets, LogoutResets, RebuildSaves, RebuildWipes, ExpireForgets
<1>16. CASE CloseDrops
  <2>1. \A i \in Logins : tasks[i].stage \notin Active \cup {"announce"}
    BY <1>16 DEF SignIns, CloseDrops, Active, Running
  <2>2. QED
    BY <1>16, <2>1 DEF CloseDrops, SignIns, Drains
<1>17. ASSUME NEW id \in Logins, Login(id) PROVE SignIns'
  <2>1. CASE \E kind \in Kinds : LoginRefused(id, kind)
    <3>1. /\ tasks' = Moved(id, "done") /\ tasks[id].stage = "idle"
          /\ UNCHANGED <<slot, client, loginTask, gate, who, woken>>
      BY <2>1 DEF LoginRefused, MayLogin
    <3>2. QED
      BY <1>mv, <3>1, TasksMove, MovesOn DEF Stages, Active, Running
  <2>2. CASE \E kind \in Kinds : LoginStarts(id, kind)
    <3>1. PICK kind \in Kinds : LoginStarts(id, kind)
      BY <2>2
    <3>2. gate' = "look" /\ who' = id /\ loginTask' = 0 /\ woken' = woken /\ ~woken /\ who = 0
      BY <3>1 DEF LoginStarts, MayLogin, SignIns
    <3>3. \A i \in Logins : tasks'[i].stage = IF i = id THEN "queued" ELSE Stopped[i].stage
      <4>1. Stopped \in [Logins -> Tasks]
        BY <1>ty, TaskTypes DEF TypeOK
      <4>2. \A i \in Logins : Stopped[i] \in Tasks
        BY <4>1
      <4>3. QED
        BY <3>1, <4>1, <4>2 DEF LoginStarts, Tasks
    <3>4. \A i \in Logins : tasks'[i].stage \notin Active \cup {"announce"}
      BY <1>mv, <3>3, TasksMove DEF SignIns, Active, Running
    <3>5. QED
      BY <3>2, <3>3, <3>4 DEF SignIns, Drains
  <2>3. CASE LoginReuses(id)
    BY <1>ty, <1>mv, <2>3
    DEF SignIns, SlotHasClient, Active, Running, Drains, LoginReuses, MayLogin, LoginEntry, Advanced, Holds,
        SpawnLogin, TypeOK, Slots, Tasks
  <2>4. CASE BrowserAsks(id) \/ DeviceAsks(id) \/ Publishes(id) \/ Replies(id)
    <3>1. PICK stage \in Stages \ {"announce"} :
              /\ tasks' = Moved(id, stage)
              /\ stage \in Active => tasks[id].stage \in Active
      BY <2>4 DEF BrowserAsks, DeviceAsks, Publishes, Replies, Stages, Active, Running
    <3>2. /\ UNCHANGED <<slot, client, loginTask, gate, who, woken>>
          /\ tasks[id].stage \notin {"idle", "done", "lost", "queued", "finish"}
      BY <2>4 DEF BrowserAsks, DeviceAsks, Publishes, Replies, NetworkKeeps
    <3>3. QED
      BY <1>mv, <3>1, <3>2, TasksMove, MovesOn
  <2>5. CASE AttemptSucceeds(id)
    <3>1. tasks[id].stage \in {"ask", "wait"} /\ ~woken
      BY <2>5 DEF AttemptSucceeds, Attempting, SignIns
    <3>2. \A i \in Logins : /\ tasks'[i].stage = IF i = id THEN "finish" ELSE tasks[i].stage
                            /\ tasks'[i].gen = tasks[i].gen
                            /\ i # id => tasks'[i].good = tasks[i].good
      BY <1>mv, <2>5 DEF AttemptSucceeds, Tasks
    <3>3. client # NoClient /\ client' # NoClient
      BY <1>ty, <2>5, NoClientAssumption, ConstTypes DEF AttemptSucceeds, TypeOK, ClientRecords
    <3>4. UNCHANGED <<slot, loginTask, gate, who, woken>>
      BY <2>5 DEF AttemptSucceeds
    <3>5. \A i \in Logins : /\ tasks'[i].stage \in Active => tasks[i].stage \in Active
                            /\ tasks'[i].stage = "announce" => tasks[i].stage = "announce"
      BY <3>1, <3>2 DEF Active, Running
    <3>6. /\ gate \in {"look", "wipe", "build"} => who \in Logins /\ who # id
          /\ gate \in {"observe", "persist"} /\ who # 0 => who \in Logins /\ who # id
      BY <1>ty, <3>1 DEF HolderCounts, SignIns, TypeOK
    <3>7. QED
      BY <3>1, <3>2, <3>3, <3>4, <3>5, <3>6 DEF SignIns, Drains
  <2>6. CASE AttemptFails(id)
    <3>1. tasks[id].stage \in {"ask", "wait"}
      BY <2>6 DEF AttemptFails, Attempting
    <3>2. \A i \in Logins : /\ tasks'[i].stage = IF i = id THEN "finish" ELSE tasks[i].stage
                            /\ tasks'[i].gen = tasks[i].gen
                            /\ i # id => tasks'[i].good = tasks[i].good
      BY <1>mv, <2>6 DEF AttemptFails, Tasks
    <3>3. UNCHANGED <<slot, client, loginTask, gate, who, woken>>
      BY <2>6 DEF AttemptFails, NetworkKeeps
    <3>4. QED
      BY <3>1, <3>2, <3>3, MovesOn DEF Stages, Active, Running
  <2>7. CASE Releases(id)
    <3>1. \A i \in Logins : tasks'[i].stage = IF i = id THEN "failed" ELSE tasks[i].stage
      BY <1>mv, <2>7, TasksMove DEF Releases, Stages
    <3>2. QED
      BY <2>7, <3>1, GivesUp DEF Releases, Stages, Active, Running
  <2>8. CASE Offers(id)
    <3>1. PICK stage \in {"offered", "dropped"} : tasks' = Moved(id, stage)
      BY <2>8 DEF Offers
    <3>2. \A i \in Logins : tasks'[i].stage = IF i = id THEN stage ELSE tasks[i].stage
      BY <1>mv, <3>1, TasksMove DEF Stages
    <3>3. QED
      BY <2>8, <3>2, GivesUp DEF Offers, Stages, Active, Running
  <2>9. CASE FinishGood(id)
    <3>1. Holds(slot, tasks[id].gen)
      BY <2>9 DEF FinishGood, FinishTakes, SignIns, Active, Running, Holds
    <3>2. QED
      BY <2>9, <3>1, <1>mv DEF FinishGood, FinishTakes, SignIns, Active, Running, Drains
  <2>10. CASE FinishBad(id)
    <3>1. PICK stage \in {"failed", "dropped", "done"} : tasks' = Moved(id, stage)
      BY <2>10 DEF FinishBad, Outdated
    <3>2. \A i \in Logins : tasks'[i].stage = IF i = id THEN stage ELSE tasks[i].stage
      BY <1>mv, <3>1, TasksMove DEF Stages
    <3>3. QED
      BY <2>10, <3>2, GivesUp DEF FinishBad, FinishTakes, Stages, Active, Running
  <2>11. CASE Announces(id)
    <3>1. \A i \in Logins : /\ tasks'[i].stage = IF i = id THEN "done" ELSE tasks[i].stage
                            /\ tasks'[i].gen = tasks[i].gen /\ tasks'[i].good = tasks[i].good
      BY <1>mv, <2>11, TasksMove DEF Announces, Stages
    <3>2. /\ tasks[id].stage = "announce"
          /\ UNCHANGED <<slot, client, loginTask, gate, who, woken>>
      BY <2>11 DEF Announces
    <3>3. QED
      BY <3>1, <3>2, MovesOn DEF Stages, Active, Running
  <2>12. QED
    BY <1>17, <2>1, <2>2, <2>3, <2>4, <2>5, <2>6, <2>7, <2>8, <2>9, <2>10, <2>11 DEF Login
<1>18. ASSUME NEW g \in expiring, Expire(g) PROVE SignIns'
  <2>1. CASE Holds(slot, g)
    BY <1>18, <2>1, TeardownKeeps DEF Expire, Drains
  <2>2. CASE ~Holds(slot, g)
    BY <1>18, <2>2 DEF Expire, SignIns, SlotHasClient, HolderCounts, Active, Running, Drains
  <2>3. QED
    BY <2>1, <2>2
<1>19. CASE UNCHANGED vars
  BY <1>19 DEF SignIns, SlotHasClient, HolderCounts, Active, Running, Drains, vars
<1>20. QED
  BY <1>1, <1>2, <1>3, <1>4, <1>5, <1>6, <1>7, <1>8, <1>9, <1>10, <1>11, <1>12, <1>13, <1>14, <1>15, <1>16, <1>17, <1>18, <1>19 DEF Next, HolderStep

-----------------------------------------------------------------------------
(* The keys. *)

\* The key handed in last is the one whatever is open was opened under, and the
\* one a stored session needs while somebody may still write it.
KeyFits ==
    /\ client # NoClient \/ held # NoClient => store.key \in {NoKey, storeKey}
    /\ client # NoClient \/ held # NoClient \/ gate = "build" =>
          (file.present => file.key \in {NoKey, storeKey})
    /\ OneKey

\* What is written is written under the key in hand.
LEMMA PersistKeeps ==
    ASSUME NEW c, Persist(c)
    PROVE \/ file' = file
          \/ file'.present /\ file'.key = storeKey /\ MayWrite(file, storeKey)
BY DEF Persist, WrittenFile

\* No step brings a second key under an open store or beside a stored session.
LEMMA KeyStep == TInv /\ SInv /\ KeyFits /\ [Next]_vars => KeyFits'
<1> SUFFICES ASSUME TInv, SInv, KeyFits, [Next]_vars PROVE KeyFits'
  OBVIOUS
<1> USE DEF disk, slotVars, taskVars, watchVars, frontVars, procVars, gateVars, KeyFits, OneKey
<1>ty. TypeOK /\ SlotHasClient /\ HolderCounts
  BY DEF TInv
<1>in. file.present \/ client # NoClient \/ held # NoClient =>
         /\ "db" \in store.files /\ ("marker" \in store.files <=> store.key # NoKey)
         /\ Planned(store, storeKey) = store /\ Opened(store, storeKey) = store
  BY StaysAsItIs DEF SInv, StoreSound, InUse
<1>1. CASE Restore \/ RebuildRestores
  BY <1>ty, <1>1 DEF Restore, RebuildRestores, RestoreTakes, KeyReplaceable, SlotHasClient, HolderCounts
<1>2. CASE Abort \/ Logout \/ Rebuild \/ TellExpired \/ WatchEnds
  BY <1>2 DEF Abort, Logout, Rebuild, Teardown, TellExpired, WatchEnds
<1>3. CASE CloseSaves
  BY <1>ty, <1>3, PersistKeeps DEF CloseSaves, SlotHasClient
<1>4. CASE WatchWrites
  <2>1. Holds(slot, watch.gen) => client # NoClient
    BY <1>ty, <1>4 DEF WatchWrites, SlotHasClient, Holds, TypeOK, Slots, Phases
  <2>2. QED
    BY <1>4, <2>1, PersistKeeps DEF WatchWrites
<1>5. CASE Refresh
  BY <1>5 DEF Refresh
<1>6. CASE Crash
  <2>1. /\ gate' = "free" /\ client' = NoClient /\ held' = NoClient /\ file' = file
        /\ store'.key = store.key
    BY <1>ty, <1>6 DEF Crash, Remains, TypeOK, Stores
  <2>2. QED
    BY <2>1
<1>7. CASE RestoreGivesUp \/ RestoreRefused \/ RestoreRepairs
  <2>1. /\ file' = file /\ client' = client /\ held' = held /\ storeKey' = storeKey
        /\ gate' # "build"
    BY <1>7 DEF RestoreGivesUp, RestoreRefused, RestoreRepairs
  <2>2. store' = store
    BY <1>in, <1>7 DEF RestoreGivesUp, RestoreRefused, RestoreRepairs, Restorable, LoadOutcomes
  <2>3. QED
    BY <2>1, <2>2
<1>8. CASE RestoreOpens
  <2>1. file.present /\ file.key \in {NoKey, storeKey} /\ store' = store
    BY <1>in, <1>8 DEF RestoreOpens, Restorable, LoadOutcomes
  <2>2. PlanKey(store, storeKey) = store.key
    BY <1>in, <1>8, <2>1, OpensUnderItsKey DEF RestoreOpens, Restorable
  <2>3. QED
    BY <1>8, <2>1, <2>2 DEF RestoreOpens, PlanKey
<1>9. CASE BeginObserve
  BY <1>9 DEF BeginObserve
<1>10. CASE BeginPersist
  BY <1>ty, <1>10, PersistKeeps DEF BeginPersist, HolderCounts
<1>11. CASE LoginLooks
  BY <1>ty, <1>11 DEF LoginLooks, LoginGivesUp, LoadOutcomes, HolderCounts
<1>12. CASE LoginWipes \/ LogoutResets
  BY <1>ty, <1>12 DEF LoginWipes, LogoutResets, LoginGivesUp, HolderCounts, SInv, StoreSound
<1>13. CASE LoginBuilds
  <2>1. /\ file' = file /\ held = NoClient /\ held' = held /\ gate' # "build" /\ storeKey' = storeKey
        /\ store' = Opened(store, storeKey)
        /\ file.present => file.key \in {NoKey, storeKey}
    BY <1>ty, <1>13 DEF LoginBuilds, HolderCounts
  <2>2. CASE file.present
    <3>1. store' = store /\ PlanKey(store, storeKey) = store.key
      BY <1>in, <1>13, <2>1, <2>2, OpensUnderItsKey DEF LoginBuilds
    <3>2. QED
      BY <2>1, <3>1 DEF PlanKey
  <2>3. CASE ~file.present
    <3>1. store = EmptyStore
      BY <1>13, <2>3 DEF LoginBuilds, SInv, StoreSound
    <3>2. store'.key = PlanKey(store, storeKey)
      BY <2>1, <3>1 DEF Opened, EmptyStore
    <3>3. QED
      BY <2>1, <2>3, <3>2 DEF PlanKey
  <2>4. QED
    BY <2>2, <2>3
<1>14. CASE LoginCannotBuild
  <2>1. /\ file' = file /\ client' = client /\ held' = held /\ storeKey' = storeKey
        /\ gate' = "free" /\ client = NoClient /\ held = NoClient
    BY <1>ty, <1>14 DEF LoginCannotBuild, LoginGivesUp, HolderCounts
  <2>2. file.present => store' = store
    BY <1>in, <1>14 DEF LoginCannotBuild
  <2>3. QED
    BY <2>1, <2>2
<1>15. CASE LogoutDrains \/ RebuildDrains \/ ExpireDrains
  BY <1>ty, <1>15 DEF LogoutDrains, RebuildDrains, ExpireDrains, TakesClient, HolderCounts
<1>16. CASE LogoutForgets \/ ExpireForgets
  BY <1>ty, <1>16 DEF LogoutForgets, ExpireForgets, HolderCounts, NoFile
<1>17. CASE RebuildSaves
  BY <1>ty, <1>17, PersistKeeps DEF RebuildSaves, HolderCounts
<1>18. CASE RebuildWipes
  BY <1>18 DEF RebuildWipes
<1>19. CASE CloseDrops
  BY <1>ty, <1>19 DEF CloseDrops, HolderCounts
<1>20. ASSUME NEW id \in Logins, Login(id) PROVE KeyFits'
  <2>1. CASE \E kind \in Kinds : LoginRefused(id, kind) \/ LoginStarts(id, kind)
    BY <2>1 DEF LoginRefused, LoginStarts
  <2>2. CASE LoginReuses(id) \/ Releases(id) \/ Offers(id) \/ Announces(id)
    BY <2>2 DEF LoginReuses, Releases, UnassignIf, Offers, Announces
  <2>3. CASE FinishGood(id) \/ FinishBad(id)
    BY <2>3 DEF FinishGood, FinishBad, UnassignIf
  <2>4. CASE BrowserAsks(id) \/ DeviceAsks(id) \/ AttemptFails(id) \/ Publishes(id) \/ Replies(id)
    BY <2>4 DEF BrowserAsks, DeviceAsks, AttemptFails, Publishes, Replies, NetworkKeeps
  <2>5. CASE AttemptSucceeds(id)
    <3>1. store'.key = store.key
      BY <1>ty, <2>5 DEF AttemptSucceeds, TypeOK, Stores
    <3>2. QED
      BY <2>5, <3>1 DEF AttemptSucceeds
  <2>6. QED
    BY <1>20, <2>1, <2>2, <2>3, <2>4, <2>5 DEF Login
<1>21. ASSUME NEW g \in expiring, Expire(g) PROVE KeyFits'
  BY <1>21 DEF Expire, Teardown
<1>22. CASE UNCHANGED vars
  BY <1>22 DEF vars
<1>23. QED
  BY <1>1, <1>2, <1>3, <1>4, <1>5, <1>6, <1>7, <1>8, <1>9, <1>10, <1>11, <1>12, <1>13, <1>14,
     <1>15, <1>16, <1>17, <1>18, <1>19, <1>20, <1>21, <1>22 DEF Next, HolderStep

\* A step writes the session file under the key in hand, empties it, or leaves it.
LEMMA FileStays ==
    ASSUME TInv, [Next]_vars
    PROVE \/ file' = file \/ file' = NoFile
          \/ /\ file'.key = storeKey /\ MayWrite(file, storeKey)
             /\ client # NoClient \/ held # NoClient
<1> USE DEF disk, slotVars, taskVars, watchVars, frontVars, procVars, gateVars
<1>ty. TypeOK /\ SlotHasClient /\ HolderCounts
  BY DEF TInv
<1>1. CASE CloseSaves
  BY <1>ty, <1>1, PersistKeeps DEF CloseSaves, SlotHasClient
<1>2. CASE WatchWrites
  <2>1. Holds(slot, watch.gen) => client # NoClient
    BY <1>ty, <1>2 DEF WatchWrites, SlotHasClient, Holds, TypeOK, Slots, Phases
  <2>2. QED
    BY <1>2, <2>1, PersistKeeps DEF WatchWrites
<1>3. CASE BeginPersist
  BY <1>ty, <1>3, PersistKeeps DEF BeginPersist, HolderCounts
<1>4. CASE RebuildSaves
  BY <1>ty, <1>4, PersistKeeps DEF RebuildSaves, HolderCounts
<1>5. CASE LogoutForgets \/ ExpireForgets
  BY <1>5 DEF LogoutForgets, ExpireForgets
<1>6. CASE Restore \/ RebuildRestores
  BY <1>6 DEF Restore, RebuildRestores, RestoreTakes
<1>7. ASSUME NEW id \in Logins, Login(id) PROVE file' = file
  <2>1. CASE \E kind \in Kinds : LoginRefused(id, kind) \/ LoginStarts(id, kind)
    BY <2>1 DEF LoginRefused, LoginStarts
  <2>2. CASE LoginReuses(id) \/ Releases(id) \/ Offers(id) \/ Announces(id) \/ AttemptSucceeds(id)
    BY <2>2 DEF LoginReuses, Releases, Offers, Announces, AttemptSucceeds
  <2>3. CASE FinishGood(id) \/ FinishBad(id)
    BY <2>3 DEF FinishGood, FinishBad
  <2>4. CASE BrowserAsks(id) \/ DeviceAsks(id) \/ AttemptFails(id) \/ Publishes(id) \/ Replies(id)
    BY <2>4 DEF BrowserAsks, DeviceAsks, AttemptFails, Publishes, Replies, NetworkKeeps
  <2>5. QED
    BY <1>7, <2>1, <2>2, <2>3, <2>4 DEF Login
<1>8. CASE Abort \/ Logout \/ Rebuild \/ TellExpired \/ Refresh \/ WatchEnds \/ Crash
  BY <1>8 DEF Abort, Logout, Rebuild, TellExpired, Refresh, WatchEnds, Crash
<1>9. ASSUME NEW g \in expiring, Expire(g) PROVE file' = file
  BY <1>9 DEF Expire
<1>10. CASE RestoreGivesUp \/ RestoreRefused \/ RestoreOpens \/ RestoreRepairs \/ BeginObserve
  BY <1>10 DEF RestoreGivesUp, RestoreRefused, RestoreOpens, RestoreRepairs, BeginObserve
<1>11. CASE LoginLooks \/ LoginWipes \/ LoginBuilds \/ LoginCannotBuild
  BY <1>11 DEF LoginLooks, LoginWipes, LoginBuilds, LoginCannotBuild
<1>12. CASE LogoutDrains \/ LogoutResets \/ RebuildDrains \/ RebuildWipes \/ ExpireDrains \/ CloseDrops
  BY <1>12 DEF LogoutDrains, LogoutResets, RebuildDrains, RebuildWipes, ExpireDrains, CloseDrops, TakesClient
<1>13. CASE UNCHANGED vars
  BY <1>13 DEF vars
<1>14. QED
  BY <1>1, <1>2, <1>3, <1>4, <1>5, <1>6, <1>7, <1>8, <1>9, <1>10, <1>11, <1>12, <1>13 DEF Next, HolderStep

\* Whoever writes has the key the stored session is under.
LEMMA KeyKeptStep ==
    TInv /\ KeyFits /\ [Next]_vars =>
        [file.present /\ file.key # NoKey /\ file'.present => file'.key = file.key]_vars
<1> SUFFICES ASSUME TInv, KeyFits, [Next]_vars, file.present, file.key # NoKey, file'.present
             PROVE file'.key = file.key
  OBVIOUS
<1>1. CASE file' = file
  BY <1>1
<1>2. file' # NoFile
  BY DEF NoFile
<1>3. CASE file'.key = storeKey /\ MayWrite(file, storeKey) /\ (client # NoClient \/ held # NoClient)
  BY <1>3 DEF KeyFits, MayWrite
<1>4. QED
  BY <1>1, <1>2, <1>3, FileStays

-----------------------------------------------------------------------------
(* What the front end is told. *)

\* A client that is signed in is a session's, or on its way into or out of one.
SignedInBy ==
    \/ slot.phase = "session" \/ gate \in {"observe", "persist"} \cup Drains
    \/ \E id \in Logins : tasks[id].stage = "finish" /\ tasks[id].good

\* A session that is shown and gone is about to be told of: by who holds the gate,
\* by the restore that is owed, or by the news; a sign-in never runs beside it.
Announced ==
    /\ client # NoClient /\ client.dev # NoDev => SignedInBy
    /\ owed \/ gate = "rebuildWipe" => \A id \in Logins : tasks[id].stage \notin Active
    /\ owed => gate \notin {"look", "wipe", "build"}
    /\ gate = "rebuildWipe" => client = NoClient
    /\ told = "signedIn" =>
          \/ slot.phase = "session" \/ owed \/ news \/ "rebuild" \in alarms \/ woken
          \/ gate \in {"restore", "restoreAgain", "observe", "persist", "rebuildSave", "rebuildWipe",
                       "logoutForget", "logoutReset", "expireForget"} \cup Drains

\* A sign-in whose network part moves on without a new device.
LEMMA DeviceStays ==
    ASSUME SignIns, Announced, NEW id \in Logins, tasks[id].stage \in Active,
           tasks[id].stage # "finish" \/ ~tasks[id].good, gate = "free"
    PROVE client.dev = NoDev
<1>1. slot.phase = "loggingIn" /\ client # NoClient /\ loginTask = id
  BY DEF SignIns
<1>2. \A i \in Logins : ~(tasks[i].stage = "finish" /\ tasks[i].good)
  BY <1>1 DEF SignIns, Active, Running
<1>3. QED
  BY <1>1, <1>2 DEF Announced, SignedInBy, Drains

\* A sign-in that moves on without its device leaves what is announced.
LEMMA MovesOnQuietly ==
    ASSUME TInv, SignIns, Announced, NEW id \in Logins, NEW stage \in Stages,
           UNCHANGED <<slot, client, gate, owed, news, woken, told, alarms>>,
           \A i \in Logins : /\ tasks'[i].stage = IF i = id THEN stage ELSE tasks[i].stage
                             /\ i # id => tasks'[i].good = tasks[i].good,
           stage \in Active => tasks[id].stage \in Active,
           tasks[id].stage # "finish"
    PROVE Announced'
<1>1. client # NoClient /\ client.dev # NoDev => SignedInBy'
  <2> SUFFICES ASSUME client # NoClient, client.dev # NoDev PROVE SignedInBy'
    OBVIOUS
  <2>1. SignedInBy
    BY DEF Announced
  <2>2. QED
    BY <2>1 DEF SignedInBy
<1>2. \A i \in Logins : tasks'[i].stage \in Active => tasks[i].stage \in Active
  OBVIOUS
<1>3. QED
  BY <1>1, <1>2 DEF Announced

\* A sign-in that is back at the gate without a device says nothing new.
LEMMA GivesUpQuietly ==
    ASSUME TInv, SignIns, Announced, NEW id \in Logins, NEW stage \in Stages,
           UNCHANGED <<gate, owed, news, woken, told, alarms>>, gate = "free",
           \A i \in Logins : tasks'[i].stage = IF i = id THEN stage ELSE tasks[i].stage,
           tasks[id].stage \in Active, stage \notin Active,
           client' = NoClient \/ client'.dev = NoDev
    PROVE Announced'
<1>1. slot.phase # "session"
  BY DEF SignIns
<1>2. \A i \in Logins : tasks'[i].stage \in Active => tasks[i].stage \in Active
  OBVIOUS
<1>3. QED
  BY <1>1, <1>2 DEF Announced

\* No step lets a session go that is shown, and tells nobody.
LEMMA AnnouncedStep == TInv /\ SignIns /\ Announced /\ [Next]_vars => Announced'
<1> SUFFICES ASSUME TInv, SignIns, Announced, [Next]_vars PROVE Announced'
  OBVIOUS
<1> USE DEF disk, slotVars, taskVars, watchVars, frontVars, procVars, gateVars
<1>ty. TypeOK /\ SlotHasClient /\ HolderCounts
  BY DEF TInv
<1>mv. tasks \in [Logins -> Tasks] /\ loginTask \in Logins \cup {0} /\ 0 \notin Logins
  BY <1>ty, ConstTypes DEF TypeOK
<1>fin. \A id \in Logins : tasks[id].stage = "finish" => slot.phase = "loggingIn" /\ loginTask = id
  BY DEF SignIns, Active, Running
<1>cut. \A i \in Logins : Stopped[i].stage \notin Active /\ Stopped[i].stage # "announce"
  BY <1>mv, TasksMove DEF SignIns, Active, Running
<1>1. CASE Restore
  <2>1. \A id \in Logins : tasks[id].stage \notin Active
    BY <1>1 DEF Restore, Active, Running
  <2>2. gate = "free" /\ client # NoClient /\ client.dev # NoDev => slot.phase = "session"
    BY <2>1 DEF Announced, SignedInBy, Active, Running, Drains
  <2>3. QED
    BY <1>1, <2>1, <2>2, <1>ty DEF Restore, RestoreTakes, Announced, SignedInBy, SessionData, Tell, Drains, KeyReplaceable
<1>2. CASE RebuildRestores
  <2>1. \A id \in Logins : tasks[id].stage \notin Active
    BY <1>2 DEF RebuildRestores, Announced
  <2>2. gate = "free" /\ client # NoClient /\ client.dev # NoDev => slot.phase = "session"
    BY <2>1 DEF Announced, SignedInBy, Active, Running, Drains
  <2>3. QED
    BY <1>2, <2>1, <2>2, <1>ty DEF RebuildRestores, RestoreTakes, Announced, SignedInBy, SessionData, Tell, Drains, KeyReplaceable
<1>3. CASE Abort
  <2>1. \A id \in Logins : tasks'[id].stage \notin Active
    BY <1>3, <1>cut DEF Abort, CancelLogin
  <2>2. client' # NoClient /\ client'.dev # NoDev => slot'.phase = "session"
    BY <1>3 DEF Abort
  <2>3. QED
    BY <1>3, <2>1, <2>2 DEF Abort, Announced, SignedInBy
<1>4. CASE Logout
  <2>1. \A id \in Logins : tasks'[id].stage \notin Active
    BY <1>4, <1>cut DEF Logout, Teardown, CancelLogin
  <2>2. QED
    BY <1>4, <2>1 DEF Logout, Teardown, Announced, SignedInBy, Drains
<1>5. CASE Rebuild
  <2>1. client # NoClient => \A id \in Logins : tasks'[id].stage \notin Active
    BY <1>5, <1>cut DEF Rebuild, Teardown, CancelLogin
  <2>2. client = NoClient => \A id \in Logins : tasks'[id].stage \notin Active
    BY <1>5 DEF Rebuild, SignIns
  <2>3. QED
    BY <1>5, <2>1, <2>2 DEF Rebuild, Teardown, Announced, SignedInBy, Drains
<1>6. CASE TellExpired \/ WatchEnds
  BY <1>6 DEF TellExpired, WatchEnds, Tell, Announced, SignedInBy
<1>7. CASE CloseSaves
  BY <1>7 DEF CloseSaves, Persist, Announced, SignedInBy, Drains
<1>8. CASE WatchWrites
  BY <1>8 DEF WatchWrites, Persist, Announced, SignedInBy
<1>9. CASE Refresh
  <2>1. client'.dev = client.dev
    BY <1>ty, <1>9 DEF Refresh, TypeOK, ClientRecords
  <2>2. QED
    BY <1>9, <2>1 DEF Refresh, Announced, SignedInBy
<1>10. CASE Crash
  <2>1. \A id \in Logins : tasks'[id].stage \notin Active
    BY <1>ty, <1>mv, <1>10 DEF Crash, Tasks, Active, Running
  <2>2. QED
    BY <1>10, <2>1 DEF Crash, Announced
<1>11. CASE RestoreGivesUp \/ RestoreRefused \/ RestoreRepairs
  BY <1>ty, <1>11 DEF RestoreGivesUp, RestoreRefused, RestoreRepairs, Restoring, Tell, Announced, SignedInBy, HolderCounts
<1>12. CASE RestoreOpens
  BY <1>ty, <1>12 DEF RestoreOpens, Restoring, Announced, SignedInBy, HolderCounts, SlotHasClient, Drains
<1>13. CASE BeginObserve
  BY <1>13 DEF BeginObserve, Announced, SignedInBy, Drains
<1>14. CASE BeginPersist
  <2>1. slot'.phase = "session" /\ gate' = "free"
    BY <1>ty, <1>14 DEF BeginPersist, TypeOK, Slots
  <2>2. \A i \in Logins : tasks'[i].stage \in Active => tasks[i].stage \in Active
    <3>1. CASE who = 0
      BY <1>14, <3>1 DEF BeginPersist
    <3>2. CASE who \in Logins
      <4>1. \A i \in Logins : tasks'[i].stage = IF i = who THEN "announce" ELSE tasks[i].stage
        BY <1>mv, <1>14, <3>2, TasksMove DEF BeginPersist, Stages
      <4>2. QED
        BY <4>1 DEF Active, Running
    <3>3. QED
      BY <1>ty, <3>1, <3>2 DEF TypeOK
  <2>3. owed' = owed
    BY <1>14 DEF BeginPersist
  <2>4. QED
    BY <2>1, <2>2, <2>3 DEF Announced, SignedInBy
<1>15. CASE LoginLooks \/ LoginWipes \/ LoginCannotBuild
  BY <1>ty, <1>15 DEF LoginLooks, LoginWipes, LoginCannotBuild, LoginGivesUp, Announced, SlotHasClient, HolderCounts, Drains
<1>16. CASE LoginBuilds
  BY <1>ty, <1>16 DEF LoginBuilds, Announced, SlotHasClient, HolderCounts, Drains
<1>17. CASE LogoutDrains \/ RebuildDrains \/ ExpireDrains
  BY <1>17 DEF LogoutDrains, RebuildDrains, ExpireDrains, TakesClient, Announced, Drains
<1>18. CASE LogoutForgets \/ LogoutResets \/ ExpireForgets
  BY <1>ty, <1>18 DEF LogoutForgets, LogoutResets, ExpireForgets, Tell, Announced, HolderCounts, Drains
<1>19. CASE RebuildSaves
  <2>1. client = NoClient /\ client' = NoClient
    BY <1>ty, <1>19 DEF RebuildSaves, HolderCounts
  <2>2. \A id \in Logins : tasks'[id].stage \notin Active
    BY <1>19, <2>1 DEF RebuildSaves, SignIns
  <2>3. QED
    BY <1>19, <2>1, <2>2 DEF RebuildSaves, Persist, Announced, Drains
<1>20. CASE RebuildWipes
  BY <1>20 DEF RebuildWipes, Announced, Drains
<1>21. CASE CloseDrops
  BY <1>21 DEF CloseDrops, Announced, SignIns, Drains
<1>22. ASSUME NEW id \in Logins, Login(id) PROVE Announced'
  <2>1. CASE \E kind \in Kinds : LoginRefused(id, kind)
    <3>1. \A i \in Logins : /\ tasks'[i].stage = IF i = id THEN "done" ELSE tasks[i].stage
                            /\ tasks'[i].good = tasks[i].good
      BY <1>mv, <2>1, TasksMove DEF LoginRefused, Stages
    <3>2. QED
      BY <2>1, <3>1, MovesOnQuietly DEF LoginRefused, MayLogin, Stages, Active, Running
  <2>2. CASE \E kind \in Kinds : LoginStarts(id, kind)
    BY <2>2 DEF LoginStarts, MayLogin, Announced
  <2>3. CASE LoginReuses(id)
    <3>1. slot.phase = "prelogin" /\ gate = "free" /\ ~owed /\ told = "none"
      BY <2>3 DEF LoginReuses, MayLogin, LoginEntry
    <3>2. client # NoClient => client.dev = NoDev
      BY <3>1, <1>fin DEF Announced, SignedInBy, Drains
    <3>3. QED
      BY <2>3, <3>1, <3>2 DEF LoginReuses, Announced
  <2>4. CASE BrowserAsks(id) \/ DeviceAsks(id) \/ Publishes(id) \/ Replies(id)
    <3>1. PICK stage \in Stages :
              /\ tasks' = Moved(id, stage)
              /\ stage \in Active => tasks[id].stage \in Active
      BY <2>4 DEF BrowserAsks, DeviceAsks, Publishes, Replies, Stages, Active, Running
    <3>2. /\ UNCHANGED <<slot, client, gate, owed, news, woken, told, alarms>>
          /\ tasks[id].stage # "finish"
      BY <2>4 DEF BrowserAsks, DeviceAsks, Publishes, Replies, NetworkKeeps
    <3>3. QED
      BY <1>mv, <3>1, <3>2, TasksMove, MovesOnQuietly
  <2>5. CASE AttemptSucceeds(id)
    <3>1. /\ tasks[id].stage \in {"ask", "wait"}
          /\ UNCHANGED <<slot, gate, owed, news, woken, told, alarms>>
      BY <2>5 DEF AttemptSucceeds, Attempting
    <3>2. \A i \in Logins : /\ tasks'[i].stage = IF i = id THEN "finish" ELSE tasks[i].stage
                            /\ tasks'[i].good = IF i = id THEN TRUE ELSE tasks[i].good
      BY <1>mv, <2>5 DEF AttemptSucceeds, Tasks
    <3>3. SignedInBy'
      BY <3>2 DEF SignedInBy
    <3>4. tasks[id].stage \in Active
      BY <3>1 DEF Active, Running
    <3>5. client # NoClient
      BY <2>5 DEF AttemptSucceeds
    <3>6. QED
      BY <3>1, <3>2, <3>3, <3>4, <3>5 DEF Announced
  <2>6. CASE AttemptFails(id)
    <3>1. tasks[id].stage \in {"ask", "wait"}
      BY <2>6 DEF AttemptFails, Attempting
    <3>2. \A i \in Logins : /\ tasks'[i].stage = IF i = id THEN "finish" ELSE tasks[i].stage
                            /\ i # id => tasks'[i].good = tasks[i].good
      BY <1>mv, <2>6 DEF AttemptFails, Tasks
    <3>3. UNCHANGED <<slot, client, gate, owed, news, woken, told, alarms>>
      BY <2>6 DEF AttemptFails, NetworkKeeps
    <3>4. QED
      BY <3>1, <3>2, <3>3, MovesOnQuietly DEF Stages, Active, Running
  <2>7. CASE Releases(id)
    <3>1. \A i \in Logins : tasks'[i].stage = IF i = id THEN "failed" ELSE tasks[i].stage
      BY <1>mv, <2>7, TasksMove DEF Releases, Stages
    <3>2. client' = NoClient \/ client'.dev = NoDev
      BY <2>7, DeviceStays DEF Releases, UnassignIf, Active, Running
    <3>3. QED
      BY <2>7, <3>1, <3>2, GivesUpQuietly DEF Releases, Stages, Active, Running
  <2>8. CASE Offers(id)
    <3>1. PICK stage \in {"offered", "dropped"} : tasks' = Moved(id, stage)
      BY <2>8 DEF Offers
    <3>2. \A i \in Logins : tasks'[i].stage = IF i = id THEN stage ELSE tasks[i].stage
      BY <1>mv, <3>1, TasksMove DEF Stages
    <3>3. client'.dev = NoDev
      BY <2>8, DeviceStays DEF Offers, Active, Running
    <3>4. QED
      BY <2>8, <3>2, <3>3, GivesUpQuietly DEF Offers, Stages, Active, Running
  <2>9. CASE FinishGood(id)
    <3>1. Holds(slot, tasks[id].gen)
      BY <2>9 DEF FinishGood, FinishTakes, SignIns, Active, Running, Holds
    <3>2. QED
      BY <2>9, <3>1 DEF FinishGood, FinishTakes, Announced, SignedInBy, Drains
  <2>10. CASE FinishBad(id)
    <3>1. PICK stage \in {"failed", "dropped", "done"} : tasks' = Moved(id, stage)
      BY <2>10 DEF FinishBad, Outdated
    <3>2. \A i \in Logins : tasks'[i].stage = IF i = id THEN stage ELSE tasks[i].stage
      BY <1>mv, <3>1, TasksMove DEF Stages
    <3>3. client' = NoClient \/ client'.dev = NoDev
      BY <2>10, DeviceStays DEF FinishBad, FinishTakes, UnassignIf, Active, Running
    <3>4. QED
      BY <2>10, <3>2, <3>3, GivesUpQuietly DEF FinishBad, FinishTakes, Stages, Active, Running
  <2>11. CASE Announces(id)
    <3>1. slot.phase = "session" /\ UNCHANGED <<slot, client, gate, owed, woken>>
      BY <2>11 DEF Announces, SignIns
    <3>2. \A i \in Logins : tasks'[i].stage = IF i = id THEN "done" ELSE tasks[i].stage
      BY <1>mv, <2>11, TasksMove DEF Announces, Stages
    <3>3. QED
      BY <3>1, <3>2 DEF Announced, SignedInBy, Active, Running
  <2>12. QED
    BY <1>22, <2>1, <2>2, <2>3, <2>4, <2>5, <2>6, <2>7, <2>8, <2>9, <2>10, <2>11 DEF Login
<1>23. ASSUME NEW g \in expiring, Expire(g) PROVE Announced'
  <2>1. Holds(slot, g) => \A id \in Logins : tasks'[id].stage \notin Active
    BY <1>23, <1>cut DEF Expire, Teardown, CancelLogin
  <2>2. QED
    BY <1>23, <2>1 DEF Expire, Teardown, Announced, SignedInBy, Drains
<1>24. CASE UNCHANGED vars
  BY <1>24 DEF vars, Announced, SignedInBy
<1>25. QED
  BY <1>1, <1>2, <1>3, <1>4, <1>5, <1>6, <1>7, <1>8, <1>9, <1>10, <1>11, <1>12, <1>13, <1>14, <1>15, <1>16,
     <1>17, <1>18, <1>19, <1>20, <1>21, <1>22, <1>23, <1>24 DEF Next, HolderStep

-----------------------------------------------------------------------------
(* The tokens. *)

\* The watcher stamps the slot's generation, and a session whose watcher rests is
\* on disk as it is, or warned of.
Watched ==
    /\ watch.at # "off" =>
          /\ watch.gen = slot.generation
          /\ slot.phase = "session" \/ gate = "persist"
    /\ slot.phase = "session" /\ watch.at = "idle" =>
          \/ file.present /\ file.dev = client.dev /\ file.tok = client.tok
          \/ "unsaved" \in alarms

\* No step leaves a token behind that nobody will write or warn of.
LEMMA WatchedStep == TInv /\ SignIns /\ Watched /\ [Next]_vars => Watched'
<1> SUFFICES ASSUME TInv, SignIns, Watched, [Next]_vars PROVE Watched'
  OBVIOUS
<1> USE DEF disk, slotVars, taskVars, watchVars, frontVars, procVars, gateVars, Watched
<1>ty. TypeOK /\ SlotHasClient /\ HolderCounts
  BY DEF TInv
<1>ses. slot.phase = "session" => client # NoClient
  BY <1>ty DEF SlotHasClient
<1>per. gate \in {"observe", "persist"} => slot.phase = "loggingIn"
  BY DEF SignIns
<1>1. CASE Restore \/ RebuildRestores
  BY <1>1 DEF Restore, RebuildRestores, RestoreTakes, Tell
<1>2. CASE Abort
  BY <1>2 DEF Abort, Cleared, Assigned
<1>3. CASE Logout \/ Rebuild
  BY <1>3 DEF Logout, Rebuild, Teardown, NoWatch, Closing, Assigned
<1>4. CASE TellExpired \/ WatchEnds
  BY <1>4 DEF TellExpired, WatchEnds, NoWatch, Tell
<1>5. CASE CloseSaves
  BY <1>5 DEF CloseSaves, Persist, WrittenFile
<1>6. CASE WatchWrites
  <2>1. watch.gen = slot.generation /\ slot.phase = "session"
    BY <1>6 DEF WatchWrites
  <2>2. Persist(client)
    BY <1>6, <2>1 DEF WatchWrites, Holds
  <2>3. watch'.gen = watch.gen /\ watch'.at = "idle" /\ UNCHANGED <<slot, client, gate>>
    BY <1>ty, <1>6 DEF WatchWrites, TypeOK, Watches
  <2>4. QED
    BY <2>1, <2>2, <2>3 DEF Persist, WrittenFile
<1>7. CASE Refresh
  <2>1. watch'.gen = watch.gen /\ watch'.at # "idle" /\ (watch'.at = "off" <=> watch.at = "off")
    BY <1>ty, <1>7 DEF Refresh, TypeOK, Watches
  <2>2. QED
    BY <1>7, <2>1 DEF Refresh
<1>8. CASE Crash
  BY <1>8 DEF Crash, NoWatch
<1>9. CASE RestoreGivesUp \/ RestoreRefused \/ RestoreRepairs
  BY <1>9 DEF RestoreGivesUp, RestoreRefused, RestoreRepairs, Restoring, Tell
<1>10. CASE RestoreOpens
  BY <1>ty, <1>10 DEF RestoreOpens, Restoring, Assigned, HolderCounts, SlotHasClient
<1>11. CASE BeginObserve
  BY <1>per, <1>11 DEF BeginObserve
<1>12. CASE BeginPersist
  <2>1. slot'.phase = "session" /\ slot'.generation = slot.generation /\ UNCHANGED <<client, watch>>
    BY <1>ty, <1>12 DEF BeginPersist, TypeOK, Slots
  <2>2. Persist(client)
    BY <1>12 DEF BeginPersist
  <2>3. QED
    BY <2>1, <2>2 DEF Persist, WrittenFile
<1>13. CASE LoginLooks \/ LoginWipes \/ LoginCannotBuild
  BY <1>13 DEF LoginLooks, LoginWipes, LoginCannotBuild, LoginGivesUp
<1>14. CASE LoginBuilds
  BY <1>ty, <1>ses, <1>14 DEF LoginBuilds, HolderCounts, Assigned
<1>15. CASE LogoutDrains \/ RebuildDrains \/ ExpireDrains
  BY <1>15 DEF LogoutDrains, RebuildDrains, ExpireDrains, TakesClient, Cleared, Assigned, SignIns, Drains
<1>16. CASE LogoutForgets \/ ExpireForgets \/ LogoutResets
  BY <1>ty, <1>ses, <1>16 DEF LogoutForgets, ExpireForgets, LogoutResets, HolderCounts, Tell
<1>17. CASE RebuildSaves
  BY <1>ty, <1>ses, <1>17 DEF RebuildSaves, HolderCounts
<1>18. CASE RebuildWipes
  BY <1>18 DEF RebuildWipes
<1>19. CASE CloseDrops
  BY <1>19 DEF CloseDrops, NoWatch, Cleared, Assigned
<1>20. ASSUME NEW id \in Logins, Login(id) PROVE Watched'
  <2>1. CASE \E kind \in Kinds : LoginRefused(id, kind)
    BY <2>1 DEF LoginRefused
  <2>2. CASE \E kind \in Kinds : LoginStarts(id, kind)
    BY <2>2 DEF LoginStarts, MayLogin, LoginEntry, Cleared, Assigned
  <2>3. CASE LoginReuses(id)
    BY <1>ty, <2>3 DEF LoginReuses, MayLogin, LoginEntry, Advanced, TypeOK, Slots
  <2>4. CASE BrowserAsks(id) \/ DeviceAsks(id) \/ AttemptFails(id) \/ Publishes(id) \/ Replies(id)
    BY <2>4 DEF BrowserAsks, DeviceAsks, AttemptFails, Publishes, Replies, NetworkKeeps
  <2>5. CASE AttemptSucceeds(id)
    BY <2>5 DEF AttemptSucceeds, Attempting, SignIns, Active, Running
  <2>6. CASE Releases(id) \/ Offers(id) \/ FinishBad(id)
    <3>1. slot.phase = "loggingIn" /\ gate = "free" /\ gate' = "free" /\ watch' = watch
      BY <2>6 DEF Releases, Offers, FinishBad, FinishTakes, SignIns, Active, Running
    <3>2. slot'.phase # "session"
      BY <1>ty, <2>6, <3>1 DEF Releases, Offers, FinishBad, UnassignIf, Advanced, Cleared, Assigned, TypeOK, Slots
    <3>3. QED
      BY <3>1, <3>2
  <2>7. CASE FinishGood(id) \/ Announces(id)
    BY <2>7 DEF FinishGood, FinishTakes, Announces, Tell
  <2>8. QED
    BY <1>20, <2>1, <2>2, <2>3, <2>4, <2>5, <2>6, <2>7 DEF Login
<1>21. ASSUME NEW g \in expiring, Expire(g) PROVE Watched'
  BY <1>21 DEF Expire, Teardown, NoWatch, Closing, Assigned
<1>22. CASE UNCHANGED vars
  BY <1>22 DEF vars
<1>23. QED
  BY <1>1, <1>2, <1>3, <1>4, <1>5, <1>6, <1>7, <1>8, <1>9, <1>10, <1>11, <1>12, <1>13, <1>14,
     <1>15, <1>16, <1>17, <1>18, <1>19, <1>20, <1>21, <1>22 DEF Next, HolderStep

-----------------------------------------------------------------------------
(* The theorems. *)

\* Outside the two resets a step takes no file out of the directory.
LEMMA StoreGrows ==
    [Next]_vars /\ gate \notin {"wipe", "logoutReset"} => store.files \subseteq store'.files
<1> SUFFICES ASSUME [Next]_vars, gate \notin {"wipe", "logoutReset"}
             PROVE store.files \subseteq store'.files
  OBVIOUS
<1> USE DEF disk
<1>1. /\ store.files \subseteq Planned(store, storeKey).files
      /\ store.files \subseteq Opened(store, storeKey).files
  <2>1. store.files \subseteq Planned(store, storeKey).files
    BY DEF Planned, Fresh
  <2>2. QED
    BY <2>1 DEF Opened
<1>2. CASE Restore \/ RebuildRestores
  BY <1>2 DEF Restore, RebuildRestores, RestoreTakes
<1>3. ASSUME NEW id \in Logins, Login(id) PROVE store.files \subseteq store'.files
  <2>1. CASE AttemptSucceeds(id)
    BY <2>1 DEF AttemptSucceeds
  <2>2. CASE \E kind \in Kinds : LoginRefused(id, kind) \/ LoginStarts(id, kind)
    BY <2>2 DEF LoginRefused, LoginStarts
  <2>3. CASE LoginReuses(id) \/ Releases(id) \/ Offers(id) \/ Announces(id)
    BY <2>3 DEF LoginReuses, Releases, Offers, Announces
  <2>4. CASE FinishGood(id) \/ FinishBad(id)
    BY <2>4 DEF FinishGood, FinishBad
  <2>5. CASE BrowserAsks(id) \/ DeviceAsks(id) \/ AttemptFails(id) \/ Publishes(id) \/ Replies(id)
    BY <2>5 DEF BrowserAsks, DeviceAsks, AttemptFails, Publishes, Replies, NetworkKeeps
  <2>6. QED
    BY <1>3, <2>1, <2>2, <2>3, <2>4, <2>5 DEF Login
<1>4. CASE Abort \/ Logout \/ Rebuild
  BY <1>4 DEF Abort, Logout, Rebuild
<1>5. ASSUME NEW g \in expiring, Expire(g) PROVE store.files \subseteq store'.files
  BY <1>5 DEF Expire
<1>6. CASE HolderStep
  <2>1. CASE RestoreGivesUp \/ RestoreRefused \/ RestoreOpens \/ RestoreRepairs
    BY <1>1, <2>1 DEF RestoreGivesUp, RestoreRefused, RestoreOpens, RestoreRepairs
  <2>2. CASE LoginBuilds \/ LoginCannotBuild
    BY <1>1, <2>2 DEF LoginBuilds, LoginCannotBuild
  <2>3. CASE LoginWipes \/ LogoutResets
    BY <2>3 DEF LoginWipes, LogoutResets
  <2>4. CASE BeginObserve \/ BeginPersist \/ LoginLooks \/ CloseDrops
    BY <2>4 DEF BeginObserve, BeginPersist, LoginLooks, CloseDrops
  <2>5. CASE LogoutDrains \/ RebuildDrains \/ ExpireDrains
    BY <2>5 DEF LogoutDrains, RebuildDrains, ExpireDrains, TakesClient
  <2>6. CASE LogoutForgets \/ ExpireForgets \/ RebuildSaves \/ RebuildWipes
    BY <2>6 DEF LogoutForgets, ExpireForgets, RebuildSaves, RebuildWipes
  <2>7. QED
    BY <1>6, <2>1, <2>2, <2>3, <2>4, <2>5, <2>6 DEF HolderStep
<1>7. CASE TellExpired \/ CloseSaves \/ Refresh \/ WatchWrites \/ WatchEnds
  BY <1>7 DEF TellExpired, CloseSaves, Refresh, WatchWrites, WatchEnds
<1>8. CASE Crash
  BY <1>8 DEF Crash
<1>9. CASE UNCHANGED vars
  BY <1>9 DEF vars
<1>10. QED
  BY <1>2, <1>3, <1>4, <1>5, <1>6, <1>7, <1>8, <1>9 DEF Next

LEMMA InitHolds == Init => TInv /\ SInv
<1> SUFFICES ASSUME Init PROVE TInv /\ SInv
  OBVIOUS
<1>1. /\ gate = "free" /\ client = NoClient /\ held = NoClient
      /\ slot = [generation |-> 0, phase |-> "empty"]
  BY DEF Init
<1>2. SlotHasClient /\ HolderCounts
  BY <1>1 DEF SlotHasClient, HolderCounts
<1>3. file \in Files
  <2>1. 0 \in Devices /\ 1 \in Devices /\ 0 \in Tokens
    BY BoundsAssumption DEF Devices, Tokens
  <2>2. \A k \in Keys \cup {NoKey} : WrittenFile(1, k, 0) \in Files
    BY <2>1, FileTypes
  <2>3. QED
    BY <2>1, <2>2, ConstTypes DEF Init
<1>4. store \in Stores
  <2>1. 1 \in Devices
    BY BoundsAssumption DEF Devices
  <2>2. \A k \in Keys : [files |-> FileKinds, key |-> k, dev |-> 1] \in Stores
    BY <2>1 DEF Stores
  <2>3. [files |-> {"db", "other"}, key |-> NoKey, dev |-> 1] \in Stores
    BY <2>1 DEF Stores, FileKinds
  <2>4. EmptyStore \in Stores
    BY ConstTypes
  <2>5. QED
    BY <2>2, <2>3, <2>4 DEF Init
<1>5. slot \in Slots /\ watch \in Watches
  BY RunsAssumption DEF Init, Slots, Phases, Watches, NoWatch
<1>6. tasks \in [Logins -> Tasks] /\ verdict \in [Logins -> Verdicts]
  <2>1. NoTask \in Tasks
    BY RunsAssumption DEF NoTask, Tasks, Kinds, Stages
  <2>2. [NoTask EXCEPT !.stage = "done"] \in Tasks
    BY <2>1 DEF Tasks, Stages
  <2>3. QED
    BY <2>1, <2>2 DEF Init, Verdicts
<1>7. TypeOK
  <2>1. /\ storeKey \in Keys \cup {NoKey} /\ who = 0 /\ loginTask = 0 /\ expiring = {}
        /\ news = FALSE /\ told = "none" /\ alarms = {} /\ owed = FALSE
        /\ woken \in BOOLEAN /\ boots = 1
    BY DEF Init
  <2>2. boots \in 1..MaxBoots
    BY <2>1, RunsAssumption
  <2>3. QED
    BY <1>1, <1>3, <1>4, <1>5, <1>6, <2>1, <2>2 DEF TypeOK, Steps, States, Alarms
<1>8. SInv
  <2>1. file.present => /\ store.dev = 1 /\ file.dev = 1
                        /\ file.key \in {NoKey, store.key}
    BY DEF Init, NoFile, WrittenFile
  <2>2. store.dev = 1 => "db" \in store.files /\ ("marker" \in store.files <=> store.key # NoKey)
    BY KeysAssumption DEF Init, EmptyStore, FileKinds, NoDev
  <2>3. QED
    BY <1>1, <2>1, <2>2 DEF SInv, StoreSound, InUse, OpenMatchesStore, NoDev
<1>9. QED
  BY <1>2, <1>7, <1>8 DEF TInv

\* The rest of the invariant: sign-ins, keys, announcements and tokens.
RInv == SignIns /\ KeyFits /\ Announced /\ Watched

LEMMA InitAgrees == Init => RInv
<1> SUFFICES ASSUME Init PROVE RInv
  OBVIOUS
<1>1. \A id \in Logins : tasks[id].stage \in {"idle", "done"}
  BY DEF Init, NoTask
<1>2. /\ gate = "free" /\ client = NoClient /\ held = NoClient /\ slot.phase = "empty"
      /\ who = 0 /\ watch.at = "off" /\ told = "none" /\ ~owed
  BY DEF Init, NoWatch
<1>3. SignIns
  BY <1>1, <1>2 DEF SignIns, Active, Running, Drains
<1>4. KeyFits
  BY <1>2 DEF KeyFits, OneKey, Init
<1>5. Announced /\ Watched
  BY <1>2 DEF Announced, Watched
<1>6. QED
  BY <1>3, <1>4, <1>5 DEF RInv

\* What is inductive: types, what the gate's holder counts on, the store, and
\* on top of these the rest.
LEMMA Inductive == Spec => [](TInv /\ SInv /\ RInv)
<1>1. TInv /\ SInv /\ RInv /\ [Next]_vars => (TInv /\ SInv /\ RInv)'
  BY TypeStep, StoreStep, SignInStep, KeyStep, AnnouncedStep, WatchedStep DEF RInv
<1>2. Init => TInv /\ SInv /\ RInv
  BY InitHolds, InitAgrees
<1>3. QED
  BY <1>1, <1>2, PTL DEF Spec

\* The state of the session gate is well formed whatever runs under it.
THEOREM TypeCorrect == Spec => []TypeOK
<1>1. TInv /\ SInv => TypeOK
  BY DEF TInv
<1>2. QED
  BY <1>1, Inductive, PTL

\* Whoever holds a client, in the slot or from a teardown, finds the store under
\* it as it was opened: present, under its cipher, of its own device.
THEOREM StoreSafe == Spec => []OpenMatchesStore
<1>1. TInv /\ SInv => OpenMatchesStore
  BY DEF SInv
<1>2. QED
  BY <1>1, Inductive, PTL

\* A stored session has its own device's store beside it, crash or no crash.
THEOREM SessionHasStore == Spec => []StoredSessionHasStore
<1>1. TInv /\ SInv => StoredSessionHasStore
  BY DEF SInv, StoreSound, InUse, StoredSessionHasStore
<1>2. QED
  BY <1>1, Inductive, PTL

\* No step takes a file out of the store while a session is stored or open.
THEOREM ResetSafe == Spec => NoResetOverSession
<1>1. TInv /\ SInv /\ [Next]_vars =>
        [~(store.files \subseteq store'.files) =>
           ~file.present /\ client = NoClient /\ held = NoClient]_vars
  <2> SUFFICES ASSUME TInv, SInv, [Next]_vars, ~(store.files \subseteq store'.files)
               PROVE ~file.present /\ client = NoClient /\ held = NoClient
    OBVIOUS
  <2>1. gate \in {"wipe", "logoutReset"}
    BY StoreGrows
  <2>2. QED
    BY <2>1 DEF TInv, SInv, StoreSound, HolderCounts
<1>2. QED
  BY <1>1, Inductive, PTL DEF Spec, NoResetOverSession

\* A sign-in on its way has the client it was given and can be cancelled: none
\* outlives its slot.
THEOREM SignInsOwnTheirClient == Spec => []SignInOwnsClient
<1>1. SignIns => SignInOwnsClient
  BY DEF SignIns, SignInOwnsClient, Active, Holds
<1>2. QED
  BY <1>1, Inductive, PTL DEF RInv

\* The session file and the store beside it never need two different keys.
THEOREM KeysAgree == Spec => []OneKey
<1>1. KeyFits => OneKey
  BY DEF KeyFits
<1>2. QED
  BY <1>1, Inductive, PTL DEF RInv

\* An encrypted session stays under its key for as long as it is stored.
THEOREM KeyIsKept == Spec => KeyKept
<1>1. TInv /\ KeyFits /\ [Next]_vars =>
        [file.present /\ file.key # NoKey /\ file'.present => file'.key = file.key]_vars
  BY KeyKeptStep
<1>2. QED
  BY <1>1, Inductive, PTL DEF Spec, RInv, KeyKept

\* A session that is shown exists, unless somebody is about to say otherwise.
THEOREM ShownSessionExists == Spec => []ToldSessionExists
<1>1. Announced => ToldSessionExists
  BY DEF Announced, ToldSessionExists, Settled, Drains
<1>2. QED
  BY <1>1, Inductive, PTL DEF RInv

\* A session whose watcher rests is on disk with its tokens, or warned of.
THEOREM TokensAreSaved == Spec => []SavedOrSaid
<1>1. Watched => SavedOrSaid
  BY DEF Watched, SavedOrSaid
<1>2. QED
  BY <1>1, Inductive, PTL DEF RInv
=============================================================================
