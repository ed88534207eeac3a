CONSTANTS
  SectorSize = 3
  MaxLength = 8
  Chars = {1, 2}
  Texts <- MCTexts
  Sizes = {0, 1, 4, 7}
  Places <- MCOffsets
  MinPos <- MCMinPos
SPECIFICATION Spec
INVARIANTS NoPanic
CHECK_DEADLOCK FALSE
