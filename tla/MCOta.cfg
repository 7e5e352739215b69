SPECIFICATION Spec
CONSTANTS
  Versions = {1, 2, 3}
  Length <- MCLength
  Room = 7
  Piece = 3
  BeginUnits = 2
  EndUnits = 1
  NoVersion = NoVersion
  Erased = Erased
  Mixed = Mixed
  None = None
  MaxBegins = 2
  MaxRestarts = 1
INVARIANTS
  TypeOK
  StartsWhole
  McuImageIsWhole
CHECK_DEADLOCK FALSE
