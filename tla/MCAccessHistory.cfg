CONSTANTS
  Tasks = {t1, t2}
  Locks = {l1}
  NoLockSet = NoLockSet
  NoAccess = NoAccess
  Garbage = {FALSE, TRUE}
  MaxSyncs = 1
  MaxAccesses = 3
SPECIFICATION Spec
SYMMETRY TaskSymmetry
INVARIANTS TypeOK RacesAreFoundUnlessBlind FoundRacesAreReal RecordsStandForAccesses
