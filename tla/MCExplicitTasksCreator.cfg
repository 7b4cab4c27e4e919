\* A member that creates one task.
CONSTANTS
  TeamSize = 2
  Creators <- First
  MaxTasks = 3
  Programs <- OneTask
  Variables = {"x", "y"}
  OffsetLimit = 65536
  CountLimit = 16
SPECIFICATION Spec
INVARIANT NoMissedRace
