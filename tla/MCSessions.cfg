SPECIFICATION SessionsSpec
CONSTANTS
  MaxRounds = 2
  MaxFrames = 2
  MaxNotes = 1
  MaxSpawns = 2
CHECK_DEADLOCK FALSE
INVARIANTS TurnRecorded WorkBounded EndsAgree Accounted VerdictHonest
PROPERTIES TurnEnds SessionEnds
