CONSTANTS
  UserNames = {a, b}
  NumSectors = 5
  NumDirect = 1
  NumIndirect = 4
  MaxEntries = 2
  MaxSize = 2
SYMMETRY Symmetry
SPECIFICATION Spec
INVARIANTS NoDanglingFile
CHECK_DEADLOCK FALSE
