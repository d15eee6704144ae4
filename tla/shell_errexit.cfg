SPECIFICATION Spec
CONSTANTS
  Forms = {"if", "while", "def", "call", "subst", "prefix", "cmd", "andor", "not", "deferred", "arith", "fredir"}
  MaxCommandCount = 5
  MaxCallDepth = 1
  MaxLoopIterations = 1
  MaxSubstitutionDepth = 1
  MaxPipelines = 2
  MaxSegments = 1
  MaxLevel = 1
  LastPipe = FALSE
  Defined = FALSE
  Strict = TRUE
  Values = {0}
  InitialValue = 0
  Dirs = {0}
  InitialDir = 0
INVARIANT ErrexitOutsideConditions
PROPERTY ErrexitHonoured
