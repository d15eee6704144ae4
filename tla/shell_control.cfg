SPECIFICATION Spec
CONSTANTS
  Forms = {"if", "while", "until", "for", "case", "group", "subshell", "call", "source", "eval", "break", "continue", "return", "exit", "cmd", "nounset"}
  MaxCommandCount = 6
  MaxCallDepth = 1
  MaxLoopIterations = 2
  MaxSubstitutionDepth = 1
  MaxPipelines = 1
  MaxSegments = 1
  MaxLevel = 2
  LastPipe = FALSE
  Defined = TRUE
  Strict = FALSE
  Values = {0}
  InitialValue = 0
  Dirs = {0}
  InitialDir = 0
INVARIANT TypeOK
INVARIANT DepthsMatchStack
INVARIANT ThrownHasHandler
PROPERTY ImplementsPromise
