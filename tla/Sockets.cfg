CONSTANTS
  phone = phone
  laptop = laptop
  c1 = c1
  c2 = c2
  c3 = c3
  main = main
  Queries = {q1, q2}
  None = None
  MaxMade = 3
  TcpListeners = {main}
  Clients = {phone, laptop}
  Connections = {c1, c2, c3}
  Owner <- MCOwner
  Target <- MCTarget
  Packets = {p}
  MaxConnections = 2
  MaxPerClient = 1
  MaxInflight = 1
  Silent = {phone}
SPECIFICATION MCSpec
INVARIANTS
  FailedIsNotReused
  PlacesAreCounted
  DrainedBeforeReturn
PROPERTIES
  ShutdownEnds
  QueuedIsAccepted
  EveryQueryEnds
CHECK_DEADLOCK FALSE
