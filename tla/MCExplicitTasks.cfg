CONSTANTS
  TeamSize = 2
  Creators <- First
  MaxTasks = 3
  Programs <- AllPrograms
  Variables = {"x", "y"}
  OffsetLimit = 65536
  CountLimit = 16
SPECIFICATION Spec
INVARIANTS TypeOK OrderClaimsHold TracedOrderIsSeen RegionDividesIteration OnlyOrphansAreFatal PathsAreOrdered FirstTaskIsFound
PROPERTY MarksKeepOrder
