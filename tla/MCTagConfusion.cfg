CONSTANTS
  Files <- MCFiles
  Missing <- MCMissing
  Uncopied <- MCUncopied
  NumLines <- MCNumLines
  Calls <- LongFromMid
  Quits <- NoQuits
  Commands <- RunMid
  NumFrames = 3
  LinesPerFrame = 3
  MaxPages = 3
  RRQuantum = 2
  MaxInt = 20
  MaxPid = 2
SPECIFICATION Spec
PROPERTIES RunsOwnLine
CHECK_DEADLOCK FALSE
