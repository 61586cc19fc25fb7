SPECIFICATION PartsSpec
CONSTANTS
  Pieces <- SmallPieces
  MaxChunks = 3
  MaxToolCalls = 2
  Request = {r1, r2, r3}
  Key = {k1, k2}
  PoolEntries = 1
  MaxConnections = 2
  NoHttp = NoHttp
  MaxTurns = 3
  Keys = {"", "k"}
  MaxEntries = 2
  MaxBytes = 2
  Ttl = 0
  MaxTime = 1
  Lists = {"l1", "l2"}
  Askers = {"q1", "q2"}
  MaxCatalogStarts = 1
  Ips = {"i"}
  LastDay = 3
  Retention = 2
  Backups = 2
  LogLines = 1
  RecentLines = 2
  MaxRecords = 4
  NotedHeaders = FALSE
  UserConfigs <- StartLines
  BackupLimit = 2
  MaxEdits = 1
  MaxSwitches = 3
  MaxCodexStarts = 1
  Items <- SmallItems
  MaxItems = 4
  Streams <- SmallStreams
  MaxLine = 5
  MaxEvent = 5
  MaxLines = 2
  Foreign = {"absent", "serving", "hung"}
  Child = {c1, c2}
  None = none
  MaxRestart = 1
  MissLimit = 2
SYMMETRY Symmetry
CHECK_DEADLOCK FALSE
INVARIANTS BackendOwned TimersCurrent EventsSeen HistoryKept ResponseWellFormed CutIndependent ClientsSound CacheSound CatalogConfirmed UsageHonest SwitchSound
PROPERTIES KillsWithCause
