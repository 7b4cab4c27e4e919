CONSTANTS
  NIL = NIL
  Threads = {t1, t2, t3}
SPECIFICATION FairSpec
INVARIANTS
  TypeOK
  MutualExclusion
  QueueInvariant
PROPERTIES
  NodeUntouchedAfterReturn
  EveryLockCallReturns
  EveryUnlockCallReturns
  ImplementsFifoLock
  ImplementsFairFifoLock
