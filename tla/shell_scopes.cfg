SPECIFICATION Spec
CONSTANTS
  Forms = {"subshell", "subst", "pipe", "ush", "assign", "cd", "def", "set", "pipefail", "exit", "badsub", "group"}
  MaxCommandCount = 4
  MaxCallDepth = 1
  MaxLoopIterations = 2
  MaxSubstitutionDepth = 1
  MaxPipelines = 1
  MaxSegments = 2
  MaxLevel = 1
  LastPipe = FALSE
  Defined = FALSE
  Strict = FALSE
  Values = {0, 1}
  InitialValue = 0
  Dirs = {0, 1}
  InitialDir = 0
PROPERTY SubshellIsolates
PROPERTY EnvironmentKept
