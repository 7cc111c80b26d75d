\* Images of up to 7 bytes: up to three blocks of cso and two of dax and jso,
\* the last one in part; each stored in any length; two calls.  Path tables of
\* up to four directories, some with names that begin others; files of up to
\* three sectors of two bytes; two calls, cut off at any step.
SPECIFICATION Spec
CONSTANTS
  Formats = {"cso", "dax", "zlib", "lzo"}
  BlockSize <- MCBlockSize
  MaxLength = 7
  Lengths <- MCLengths
  Limit = 2
  Aligns = {0, 1}
  HeadLen = 2
  MaxCalls = 2
  BootSizes = {3, 5}
  FileSizes = {0, 1, 4}
  Letters = {"a", "b", "c", "x", "y", "nul"}
  Images <- MCImages
  Paths <- MCPaths
  BootPath <- MCBootPath
  Sizes = {0, 2, 3, 7}
  SectorSize = 2
  MaxRecords = 3
  MaxOps = 2
CHECK_DEADLOCK FALSE
INVARIANTS
  TypeOK
  ReadsTrue
  BlocksTrue
  Unpacks
  FindsExact
  OthersKept
  Arrives
