SPECIFICATION FairSpec
CONSTANTS
  t1 = t1
  t2 = t2
  a = a
  b = b
  Threads = {t1, t2}
  Ops = {"record", "clear"}
  Ids = {a}
  Hash <- MCHash
  Genesis <- MCGenesis
  HashOf <- MCHashOf
  MAX_JOURNAL_ENTRIES = 2
  MaxSequence = 3
  Torn = Torn
  None = None
  Faults = {}
CHECK_DEADLOCK FALSE
PROPERTIES
  CallsReturn
