CONSTANTS
  TeamSizes <- Three
  Programs <- Ordered
  OffsetLimit = 65536
  CountLimit = 5
SPECIFICATION Spec
INVARIANTS OrderedRegionsSeen OrderedClaimsHold NeverFatal AbortsOnlyAtTheLimit
