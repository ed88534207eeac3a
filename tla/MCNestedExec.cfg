CONSTANTS
  Files <- MCFiles
  Missing <- MCMissing
  Uncopied <- MCUncopied
  NumLines <- MCNumLines
  Calls <- NestedCalls
  Quits <- ShortQuits
  Commands <- NestingCommands
  NumFrames = 27
  LinesPerFrame = 3
  MaxPages = 3
  RRQuantum = 2
  MaxInt = 20
  MaxPid = 9
SPECIFICATION Spec
INVARIANTS TypeOK IInv
PROPERTIES RunsOwnLine ReturnsToPrompt
CHECK_DEADLOCK FALSE
