SPECIFICATION Spec
CONSTANTS
  Loader = {watcher, button}
  Watcher = watcher
  Editor = editor
  None = none
  Faults = {}
  MaxVersion = 3
CHECK_DEADLOCK FALSE
PROPERTY EditsKept
