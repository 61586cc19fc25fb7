SPECIFICATION FairSpec
CONSTANTS
  Loader = {watcher, button}
  Watcher = watcher
  Editor = editor
  None = none
  Faults = {"read", "save", "prune"}
  MaxVersion = 3
CHECK_DEADLOCK FALSE
INVARIANTS MemoryServes NoHalfEdit
PROPERTIES LostToLoadsOnly ChangesArrive
