CONSTANTS
  Scripts <- MCScripts
  Missing <- MCMissing
  Lines <- MCLines
  Terminated <- MCTerminated
  Typed <- MCTyped
  Vars <- MCVars
  FrameSize = 12
  VarSize = 3
  MaxPid = 4
SPECIFICATION Spec
INVARIANTS TypeOK VictimHasPCB ProperIsSafe FramesAccounted OneSlotPerVariable
PROPERTIES RunsScriptInOrder ReturnsToPrompt
CHECK_DEADLOCK FALSE
