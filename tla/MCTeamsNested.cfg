CONSTANTS
  TeamSizes <- TwoByTwo
  Programs <- Nested
  OffsetLimit = 6
  CountLimit = 2
SPECIFICATION Spec
INVARIANTS NoMissedRace NoFalseAlarm NeverFatal
