SPECIFICATION Spec
CONSTANTS
  MaxGen = 4
  MaxEvents = 3
INVARIANTS
  TypeOK
  NothingSkipped
