SPECIFICATION SupSpec
CONSTANTS
  Delay = 10
  UartWait = 2
  HapWait = 4
INVARIANTS
  OnlySlowDeleted
  SilenceBounded
