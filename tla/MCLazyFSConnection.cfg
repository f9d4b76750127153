SPECIFICATION FairSpec
CONSTANTS
  r1 = r1
  r2 = r2
  r3 = r3
  kSize = kSize
  kBatch = kBatch
  Requests = {r1, r2, r3}
  Keys = {kSize, kBatch}
  KeyOf <- MCKeyOf
  ProbeKey = kSize
  NoRequest = NoRequest
  MaxDelays = 1
  MaxConnections = 2
CHECK_DEADLOCK FALSE
INVARIANTS
  TypeOK
  NoForgottenPromise
  SentOncePerConnection
  ReplayComplete
  PendingIsServed
  TerminalIsClean
PROPERTIES
  CallersAreServed
  AttemptEnds
  RequestsSettle
