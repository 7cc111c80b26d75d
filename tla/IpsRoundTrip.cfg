\* Every pair of files of up to 5 bytes over two byte values, one file size
\* beyond the limit, every cut of the patch made.
SPECIFICATION FairSystemSpec
CONSTANTS
  Byte = {b0, b1}
  Indeterminate = indeterminate
  EofAddress = 3
  ChunkMax = 3
  FileLimit = 5
  FileSizes = {0, 1, 2, 3, 4, 5, 6}
  Gap = 2
  FillRun = 4
CHECK_DEADLOCK FALSE
INVARIANTS
  MakeTypeOK
  RecordsRight
  RoundTrip
  TruncationDetected
  OldOrNew
PROPERTIES
  Terminates
