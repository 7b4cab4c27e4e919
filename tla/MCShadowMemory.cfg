CONSTANTS
  Threads = {t1, t2, t3}
  Recyclers = {}
  Shared = Shared
  NIL = NIL
  L1Pages = {p1, p2, p3, p4, p5}
  ShadowPages = {q1, q2, q3, q4, q5}
  L1Entries = 2
  L2Entries = 2
  PageBytes = 2
  SlotBytes = 1
  Addresses = {0, 13}
SPECIFICATION Spec
SYMMETRY ThreadSymmetry
INVARIANTS
  TypeOK
  OneSlotPerGranule
  EachPageHasOneHome
  CacheIsEmptyWhenSaving
