INIT SceneInit
NEXT SceneNext
CONSTANTS
  Commands = {t1, t2}
  Dirs = {d1}
  Files = {v1, v2}
  MaxPrefix = 2
  MaxCopy = 1
  MaxCalls = 2
  MaxFaults = 1
  NoFile = NoFile
  Torn = Torn
  Tasks = {t1, t2}
  Documents = {doc}
  VaultKeys = {v1, v2}
  Noise = Noise
  Half = Half
  Blank = Blank
  NoContent = NoContent
  NoName = NoName
  MaxNameCopy = 1
  MaxLayers = 1
  MaxTasks = 2
  MaxIoErrors = 1
SYMMETRY Symmetry
INVARIANTS
  UndoRestores
  UndoIsOffered
  ResultsAreWhole
  TickIsForShownFile
PROPERTIES
  FilesVanishOnlyByInterference
  NothingReplaced
CHECK_DEADLOCK FALSE
