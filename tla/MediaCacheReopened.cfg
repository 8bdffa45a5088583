SPECIFICATION Spec
CONSTANTS
  t1 = t1
  t2 = t2
  k1 = k1
  k2 = k2
  k3 = k3
  Threads = {t1}
  MediaKeys = {k1, k2, k3}
  Sizes = {1, 2}
  MaxBytes = 4
  EvictBatch = 2
  IoMayFail = FALSE
  MaxPuts = 4
  MaxRestarts = 1
SYMMETRY KeySymmetry
INVARIANT StoredWithinLimit
