\* xenoups between files of up to 5 bytes of one bit, its patch applied to
\* either or to zeros; xenoppf and xenowips between files of up to 4 bytes,
\* and patches of other makers for them.
SPECIFICATION MCSpec
CONSTANTS
  Bits = {b1}
  DigitBits = 1
  ByteValues = {0, 1}
  Window = 2
  ChunkMax = 2
  PpfMax = 3
  WipsMax = 2
  UpsSizes = {0, 1, 2, 3, 4, 5}
  FileSizes = {0, 1, 2, 3, 4}
  MaxRuns = 2
CHECK_DEADLOCK FALSE
INVARIANTS
  TypeOK
  FailureLeavesFile
  UpsToggles
  PpfPatches
  WipsPatches
  WithinMemory
