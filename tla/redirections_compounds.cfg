SPECIFICATION Spec
CONSTANTS
  Files = {"f", "g"}
  MaxFd = 5
  FirstFree = 4
  Lists <- PlainLists
  BareLists = {}
  CompoundLists <- MCCompoundLists
  ExecLists = {}
  MaxSteps = 3
  MaxCommands = 2
  MaxDepth = 2
INVARIANT CompoundsRedirected
CHECK_DEADLOCK FALSE
