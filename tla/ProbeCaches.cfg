SPECIFICATION CachesSpec
CONSTANTS
  t1 = t1
  t2 = t2
  k1 = k1
  k2 = k2
  k3 = k3
  Threads = {t1, t2}
  MediaKeys = {k1, k2, k3}
  Sizes = {1, 2}
  MaxBytes = 3
  EvictBatch = 2
  IoMayFail = TRUE
  MaxPuts = 4
  MaxRestarts = 1
  Paths = {"clip"}
  MaxVersion = 3
  Stamp <- WithinASecond
  SlabSize = 2
  MaxCalls = 3
SYMMETRY Symmetry
CONSTRAINT CallsOrVersions
INVARIANTS
  CachesTypeOK
  TotalIsSum
  TrackedIsListed
  IndexMirrorsTable
  TrackedWithinLimit
  SlabKeysUnique
  StaleOnlyIfRaced
