SPECIFICATION Spec
CONSTANTS
  t1 = t1
  t2 = t2
  p1 = p1
  p2 = p2
  p3 = p3
  Threads = {t1}
  Paths = {p1, p2, p3}
  MaxVersion = 1
  Stamp <- StampOfEachVersion
  MaxEntries = 2
  MaxLookups = 5
INVARIANT WithinMaxEntries
PROPERTY ImplementsLru
