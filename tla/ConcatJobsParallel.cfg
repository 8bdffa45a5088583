SPECIFICATION Spec
CONSTANTS
  c1 = c1
  c2 = c2
  c3 = c3
  Clips = {c1, c2, c3}
  Codecs = {"h264", "hevc"}
  FirstCodec <- CodecOf
  Batches <- TwoCopies
  Workers = 2
  IoMayFail = FALSE
  MaxChanges <- NoChanges
INVARIANT OwnInputs
