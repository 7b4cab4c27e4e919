\* Sections without a barrier at their end.
CONSTANTS
  TeamSizes <- Two
  Programs <- SectionsNoWait
  OffsetLimit = 65536
  CountLimit = 16
SPECIFICATION Spec
INVARIANT NoMissedRace
