\* A ring of 8 and matches of up to 4 bytes: every text of up to 11 bits, which
\* goes round the ring.
SPECIFICATION Spec
CONSTANTS
  N = 8
  F = 4
  THRESHOLD = 1
  Bytes = 2
  SizeModulus = 11
  TextSize = 11
CHECK_DEADLOCK FALSE
INVARIANTS
  Decodes
  FindsLongest
  TreesSound
