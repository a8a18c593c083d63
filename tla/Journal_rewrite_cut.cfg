SPECIFICATION Spec
CONSTANTS
  t1 = t1
  t2 = t2
  a = a
  b = b
  Threads = {t1, t2}
  Ops = {"record", "read"}
  Ids = {a}
  Hash <- MCHash
  Genesis <- MCGenesis
  HashOf <- MCHashOf
  MAX_JOURNAL_ENTRIES = 2
  MaxSequence = 4
  Torn = Torn
  None = None
  Faults = {"crash"}
INVARIANTS
  AckedAlwaysSurvive
