\* Every text of up to 3 characters, and of up to 6 of the four that count and
\* loop, with and without a line end, the brackets in any order.
SPECIFICATION Spec
CONSTANTS
  CellBits = 2
  Cells <- MCCells
  Greeting <- MCGreeting
  ShortSize = 3
  LongSize = 6
  Texts <- MCTexts
CHECK_DEADLOCK FALSE
INVARIANTS
  SearchStays
PROPERTIES
  Interprets
