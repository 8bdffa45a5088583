SPECIFICATION AudioSpec
CONSTANTS
  t1 = t1
  t2 = t2
  h1 = h1
  h2 = h2
  FrameSize = 3
  Threshold = 6
  MaxChunk = 4
  MaxSamples = 26
  Lanes <- LanesOf
  One = 2
  Lens = {0, 1, 2, 3, 4, 5, 6}
  Inputs <- StreamLists
  Volumes <- VolumeLists
  Gains <- GainValues
  Garbage <- Leftovers
  ParallelFrom = 6
  ChunkSize = 2
  Reach = 10
  Threads = {t1, t2}
  Handles = {h1, h2}
  Classes = {"frame"}
  Pools = {"none", "small", "big"}
  Size <- SizeOf
  MaxPooled = 1
  MaxCalls = 4
  Jobs <- AllJobs
  Paths = {"b", "p", "q"}
  Empty = ""
  Absent = "none"
  MaxOffset = 2
  MaxChanges = 1
  Times <- Moments
SYMMETRY Symmetry
INVARIANTS
  StreamIsContiguous
  BufferIsBounded
  SentIsPrefix
  PartsTypeOK
  ResultIsReference
  NeighboursKept
  FreshIsSilent
  AllocatesAtPeakOnly
  OutputAsMeant
  GraphIsWired
