SPECIFICATION Spec
CONSTANTS
  Channels = {1, 2}
  MaxMonth = 3
  Days = {8}
  Quarters = {0}
  LowBits = {0, 1}
  Flag = 7
  Quantities <- MCQuantities
  MaxReports = 4
  MaxPublished = 1
  MaxBreaks = 1
INVARIANTS
  TypeOK
  OneActive
  RecordsBelong
  NewestKept
  PreviousKept
  ToldWasSent
PROPERTY
  WriteOnce
CHECK_DEADLOCK FALSE
