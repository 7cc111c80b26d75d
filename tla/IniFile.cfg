\* Every file of up to 3 lines of two sections, a key in either case and a
\* comment, or of one that fills the buffer, with what it goes on with or a line
\* behind it, alone or in a section; a call of each kind, to files that share
\* their temporary name, and to that one itself.
SPECIFICATION MCSpec
CONSTANTS
  foo = foo
  inx = inx
  tilde = tilde
  s1 = s1
  s2 = s2
  k1 = k1
  K1 = K1
  none = none
  v1 = v1
  v2 = v2
  padded = padded
  Wide = {}
  Absent = Absent
  Null = Null
  Files <- MCFiles
  TempName <- MCTempName
  Names <- MCNames
  NoName = none
  Fold <- MCFold
  Bare <- MCBare
  Values <- MCValues
  Read <- MCRead
  Contents <- MCContents
  Requests <- MCRequests
  MaxLines = 3
  MaxPuts = 1
CHECK_DEADLOCK FALSE
INVARIANTS
  TypeOK
  Stores
  NeverInPart
