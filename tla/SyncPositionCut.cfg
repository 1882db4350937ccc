SPECIFICATION Spec
CONSTANTS
  MaxGen = 4
  MaxEvents = 3
INVARIANT SyncForgetsWithRooms
