SPECIFICATION FairSpec
CONSTANTS
  Sockets = {0, 1}
  Bodies <- MCBodies
  NoBody = NoBody
  AlarmValues <- MCAlarmValues
  MaxMine = 1
  MaxDeleted = 1
INVARIANTS
  TypeOK
  RememberedWasTold
  SocketsAccounted
PROPERTIES
  ImplementsDelivery
  AlarmAIsTold
