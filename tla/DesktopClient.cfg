SPECIFICATION SceneSpec
CONSTANTS
  Nothing = Nothing
  NoteIds = {n1, n2}
  Contents = {blank, text}
  EmptyText = blank
  InsertImage <- InsertImageDef
  NotePasswords = {w1, w2}
  MaxSnapshots = 1
  MaxUnderWay = 2
  NoBlob = NoBlob
  PrebuiltTemplates <- PrebuiltTemplatesDef
  NewIds = {"new 1", "new 2"}
  AddedTypes = {"HTTP_REQUEST", "ASSERT"}
  Null = Null
  MaxSteps = 3
  MaxChains = 3
  MaxRuns = 2
  MaxEdits = 3
  Expressions <- ExpressionsDef
  StartTimes <- StartTimesDef
  Count = 3
  MaxIterations = 525600
  Months = 48
  Entries = {e1, e2}
  MaxSaving = 2
  MaxVaultFailures = 1
  MaxVersion = 2
  MaxQueued = 4
  MaxStoreFailures = 1
  Emptied = Emptied
  Absent = Absent
  k1 = k1
  k2 = k2
  LicenseKeys = {k1, k2}
  Expiry <- ExpiryDef
  TrialSpan = 1
  MaxTime = 2
  MaxCalls = 2
  MaxFailures = 1
  Beats = {b1, b2}
  TornFile = TornFile
INVARIANTS
  VaultKeepsEntries
  EditsSurvive
  ReportsFollowTheChain
  PageAgreesWithStore
PROPERTIES
  VaultKeepsText
  NoOccurrenceMissed
  SecretsLostOnlyByFailure
  LapseIsNoticed
CHECK_DEADLOCK FALSE
