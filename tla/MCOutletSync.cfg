SPECIFICATION FairSpec
CONSTANTS
  Outlets = {1}
  SynchPeriod = 1
  MaxFrames = 2
  MaxEvents = 4
INVARIANTS
  TypeOK
  ToldWhatAppSays
PROPERTIES
  ChipFollowsRelay
  HomeKitFollowsRelay
CHECK_DEADLOCK FALSE
