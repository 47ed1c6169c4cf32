CONSTANTS
  Daemon = {d1, d2}
  NoDaemon = NoDaemon
  c1 = c1
  c2 = c2
  q1 = q1
  q2 = q2
  q3 = q3
  Client = {c1, c2}
  Req = {q1, q2, q3}
  NoReq = NoReq
  Sender <- MCSender
  Retries = 2
CHECK_DEADLOCK FALSE
SPECIFICATION FairSpec
INVARIANTS
  TypeOK
  OneModel
  EndpointKept
  PendingCounts
  IdleExitAbandonsNone
  RotationExact
  NoClientTwice
  WatchdogSeesWork
PROPERTIES
  CallReturns
