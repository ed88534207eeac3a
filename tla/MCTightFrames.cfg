CONSTANTS
  Files <- MCFiles
  Missing <- MCMissing
  Uncopied <- MCUncopied
  NumLines <- MCNumLines
  Calls <- NoCalls
  Quits <- NoQuits
  Commands <- TightCommands
  NumFrames = 3
  LinesPerFrame = 3
  MaxPages = 3
  RRQuantum = 2
  MaxInt = 20
  MaxPid = 4
SPECIFICATION Spec
INVARIANTS QueueIntegrity RecencyIsTotal CurrentPageIntact
PROPERTIES RunKeepsToScript ReturnsToPrompt
CHECK_DEADLOCK FALSE
