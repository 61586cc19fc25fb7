SPECIFICATION RecoverySpec
CONSTANTS
  Foreign = {"absent", "hung"}
  Child = {c1}
  None = none
  MaxRestart = 1
  MissLimit = 1
  MaxLaunch = 3
CHECK_DEADLOCK FALSE
PROPERTIES StopWins StopSettles WantedIsServed CrashRecovered
