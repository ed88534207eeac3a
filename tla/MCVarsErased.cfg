CONSTANTS
  Scripts <- MCScripts
  Missing <- MCMissing
  Lines <- MCLines
  Terminated <- MCTerminated
  Typed <- TypedVars
  Vars <- MCVars
  FrameSize = 12
  VarSize = 3
  MaxPid = 4
SPECIFICATION Spec
PROPERTIES VariablesKept
CHECK_DEADLOCK FALSE
