\* Four accesses, with the locals of one record used for the next.
CONSTANTS
  Tasks = {t1, t2}
  Locks = {l1}
  NoLockSet = NoLockSet
  NoAccess = NoAccess
  Garbage = {FALSE}
  MaxSyncs = 0
  MaxAccesses = 4
SPECIFICATION Spec
SYMMETRY TaskSymmetry
INVARIANT RacesAreFound
