SPECIFICATION Spec
CONSTANTS
  Lanes <- ScalarOnly
  One = 2
  Lens = {0, 1, 2, 3, 4, 5, 6}
  Inputs <- Two
  Volumes <- Unity
  Gains = {}
  Garbage = {0}
  Threshold = 4
  ChunkSize = 2
  Reach = 7
INVARIANT EverySampleMixed
