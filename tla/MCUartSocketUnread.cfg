SPECIFICATION Spec
CONSTANTS
  Writers = {rx, notify}
  RxTask = rx
  Restarted = {notify}
  Closable = TRUE
  ReadSize = 2
  MaxWrites = 1
  MaxBytes = 2
INVARIANT UnreadIsIndicated
CHECK_DEADLOCK FALSE
