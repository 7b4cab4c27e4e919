CONSTANTS
  TeamSizes <- Three
  Programs <- WorkSharing
  OffsetLimit = 5
  CountLimit = 3
SPECIFICATION Spec
INVARIANTS TypeOK NoMissedRace NoFalseAlarm NeverFatal AbortsOnlyAtTheLimit
