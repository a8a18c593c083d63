SPECIFICATION Spec
CONSTANTS
  t1 = t1
  t2 = t2
  t3 = t3
  a = a
  b = b
  Threads = {t1, t2, t3}
  Ops = {"record", "clear", "read"}
  Ids = {a, b}
  Hash <- MCHash
  Genesis <- MCGenesis
  HashOf <- MCHashOf
  MAX_JOURNAL_ENTRIES = 2
  MaxSequence = 3
  Torn = Torn
  None = None
  Faults = {"crash"}
SYMMETRY Symmetry
INVARIANTS
  VisibleChainVerifies
  RestartRecoversMemory
  AckedSurvive
PROPERTIES
  ImplementsAuditLog
