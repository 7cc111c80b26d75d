\* Files of up to 4 bytes of one bit for xenoups, of one byte for the others.
SPECIFICATION MCSpec
CONSTANTS
  Bits = {b1}
  DigitBits = 1
  ByteValues = {0, 1}
  Window = 2
  ChunkMax = 2
  PpfMax = 1
  WipsMax = 1
  UpsSizes = {0, 1, 2, 3, 4}
  FileSizes = {0, 1}
  MaxRuns = 1
CHECK_DEADLOCK FALSE
INVARIANTS
  FailureMeansDamage
