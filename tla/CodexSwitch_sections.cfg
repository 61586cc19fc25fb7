SPECIFICATION CodexSpec
CONSTANTS
  NotedHeaders = TRUE
  UserConfigs <- StartLines
  BackupLimit = 2
  MaxEdits = 2
  MaxSwitches = 4
  MaxCodexStarts = 1
CHECK_DEADLOCK FALSE
INVARIANTS SectionsSurvive
