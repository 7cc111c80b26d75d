\* The same tools, files and patches as PatchTools.cfg.
SPECIFICATION MCSpec
CONSTANTS
  Bits = {b1}
  DigitBits = 1
  ByteValues = {0, 1}
  Window = 2
  ChunkMax = 2
  PpfMax = 3
  WipsMax = 2
  UpsSizes = {0, 1, 2, 3, 4, 5}
  FileSizes = {0, 1, 2, 3, 4}
  MaxRuns = 2
CHECK_DEADLOCK FALSE
INVARIANTS
  SuccessMeansPatched
