SPECIFICATION FairSpec
CONSTANTS
  c1 = c1
  c2 = c2
  c3 = c3
  Clips = {c1, c2, c3}
  Codecs = {"h264", "hevc"}
  FirstCodec <- CodecOf
  Batches <- AllKinds
  Workers = 2
  IoMayFail = TRUE
  MaxChanges <- ChangesIn
INVARIANTS
  TypeOK
  OwnInputsUnlessShared
  NoListLeft
PROPERTY EveryJobReturns
