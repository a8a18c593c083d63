INIT SceneInit
NEXT SceneNext
CONSTANTS
  Requests = {r1, r2, r3}
  Clients = {c1}
  Passwords = {p1, p2}
  Secrets = {p1, Missing}
  MaxFailed = 2
  LockTime = 1
  SessionTime = 1
  MaxTime = 2
  Missing = Missing
  Ips <- IpsDef
  NormalizeIp <- NormalizeIpDef
  Whitelist = {"office", "b"}
  Blacklist = {"b"}
  WindowMs = 3
  MaxRequests = 2
  MaxClock = 9
  MaxCalls = 2
  Passphrases = {v1, v2}
  Data = {x}
  Empty = Empty
  Files <- FilesDef
  MaxRevision = 2
  MaxCrossed = 1
  Absent = Absent
SYMMETRY Symmetry
INVARIANTS
  FailuresBounded
  PasswordWasRight
  ChangeSticks
  WindowBounded
  RetryAfterHolds
  RevisionsNotReused
  EnvelopeOpens
  SyncedMeansStored
PROPERTIES
  LockIsKept
CHECK_DEADLOCK FALSE
