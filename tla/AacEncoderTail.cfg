SPECIFICATION Spec
CONSTANTS
  FrameSize = 3
  Threshold = 6
  MaxChunk = 4
  MaxSamples = 26
INVARIANT EverySampleSent
