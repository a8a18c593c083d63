SPECIFICATION SyncSpec
CONSTANTS
  MaxCalls = 2
  Passphrases = {p1, p2}
  Data = {x}
  Empty = Empty
  Files = {}
  MaxRevision = 2
  MaxCrossed = 1
  Absent = Absent
INVARIANT
  LockedIsShown
CHECK_DEADLOCK FALSE
