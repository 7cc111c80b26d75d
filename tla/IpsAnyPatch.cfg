\* Any patch of up to 3 records, for files of 0, 1 and 3 bytes.
SPECIFICATION MCFairPatchSpec
CONSTANTS
  b0 = b0
  b1 = b1
  b2 = b2
  Byte = {b0, b1, b2}
  Indeterminate = indeterminate
  EofAddress = 2
  ChunkMax = 2
  FileLimit = 4
  MaxRecords = 3
  Addresses = {0, 2}
CHECK_DEADLOCK FALSE
INVARIANTS
  SecondRunSucceeds
PROPERTIES
  Atomic
  Returns
