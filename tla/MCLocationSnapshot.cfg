\* Three tasks write three times and take three snapshots.
SPECIFICATION StoreSpec
CONSTANTS
  Callers = {t1, t2, t3}
  MaxWrites = 3
  MaxReads = 3
SYMMETRY TaskSymmetry
INVARIANTS NoLostUpdate SnapshotCurrent
CHECK_DEADLOCK FALSE
