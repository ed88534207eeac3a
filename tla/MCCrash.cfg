CONSTANTS
  UserNames = {a, b}
  NumSectors = 4
  NumDirect = 1
  NumIndirect = 3
  MaxEntries = 2
  MaxSize = 1
SYMMETRY Symmetry
SPECIFICATION CSpec
INVARIANTS HandlesAgree OldFilesSurvive OldFilesReadable CTypeOK
CHECK_DEADLOCK FALSE
