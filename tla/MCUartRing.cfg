SPECIFICATION Spec
CONSTANTS
  BufLen = 6
  ReadSize = 4
  Preempt = "nowrap"
  MaxBacklog = 6
  MaxBytes = 24
INVARIANTS
  TypeOK
  CountsBacklog
PROPERTIES
  ImplementsByteQueue
