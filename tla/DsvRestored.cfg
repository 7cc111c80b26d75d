\* Saves of up to nine bytes in pages of four, made DeSmuME saves and read in
\* chunks of eight.
SPECIFICATION Spec
CONSTANTS
  Line <- MCLine
  Byte = {0, 1, 89, 160, 255}
  TextSize = 5
  WordBits = 16
  Values = 5
  Group = 2
  Radix = 3
  Space = 1
  TextSize85 = 5
  DigitBits = 3
  IntBits = 8
  LongBits = 16
  Texts <- MCTexts
  Texts85 <- MCTexts85
  Alphabet = 3
  Numbers <- MCNumbers
  UnitSize = 4
  MbLen = 12
  UcsLen = 4
  Units <- MCUnits
  Short = 24
  HeaderLen = 4
  PointerLen = 1
  Strings <- MCStrings
  SaveSize = 9
  Page = 4
  Chunk = 8
  HeadLen <- MCHeadLen
  FootLen = 2
  CopyMax = 2
  RleMax = 6
  Saves <- MCSaves
CHECK_DEADLOCK FALSE
INVARIANTS
  DsvRestored
