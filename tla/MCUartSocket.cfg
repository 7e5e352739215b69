SPECIFICATION FairSpec
CONSTANTS
  Writers = {rx, notify}
  RxTask = rx
  Restarted = {notify}
  Closable = TRUE
  ReadSize = 2
  MaxWrites = 1
  MaxBytes = 2
INVARIANTS
  TypeOK
  OneSender
  PermitMeansIdle
  PermitConserved
  NoLostWakeup
PROPERTIES
  ImplementsTxChannel
  AcceptedIsSent
  WriteReturns
  BytesAreSignalled
CHECK_DEADLOCK FALSE
