SPECIFICATION FairSpec
CONSTANTS
  t1 = t1
  t2 = t2
  t3 = t3
  a = a
  b = b
  Threads = {t1, t2, t3}
  Ops = {"record", "clear", "read"}
  Ids = {a}
  Hash <- MCHash
  Genesis <- MCGenesis
  HashOf <- MCHashOf
  MAX_JOURNAL_ENTRIES = 1
  MaxSequence = 2
  Torn = Torn
  None = None
  Faults = {"crash", "io"}
CHECK_DEADLOCK FALSE
INVARIANTS
  HeadMatchesEntries
  AckedSurvive
PROPERTIES
  CallsReturnWithoutClear
