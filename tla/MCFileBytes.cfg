CONSTANTS
  SectorSize = 3
  MaxLength = 8
  Chars = {1, 2}
  Texts <- MCTexts
  Sizes = {0, 1, 4, 7}
  Places <- MCPlaces
  MinPos <- MCMinPos
SPECIFICATION Spec
INVARIANTS TypeOK PastEndIsZero LastByteIsZero TextKept
PROPERTIES ImplementsTextFile
CHECK_DEADLOCK FALSE
