CONSTANTS
  Threads = {t1, t2}
  Recyclers = {t1}
  Shared = Shared
  NIL = NIL
  L1Pages = {p1, p2, p3, p4, p5, p6}
  ShadowPages = {q1, q2, q3, q4, q5, q6, q7, q8, q9, q10}
  L1Entries = 2
  L2Entries = 2
  PageBytes = 2
  SlotBytes = 1
  Addresses = {1, 2, 3}
SPECIFICATION Spec
INVARIANTS
  OneSlotPerGranule
  EachPageHasOneHome
  SparePagesAreBlank
