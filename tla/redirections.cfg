SPECIFICATION Spec
CONSTANTS
  Files = {"f", "g"}
  MaxFd = 5
  FirstFree = 4
  Lists <- MCLists
  BareLists <- MCBareLists
  CompoundLists <- MCCompoundLists
  ExecLists <- MCExecLists
  MaxSteps = 3
  MaxCommands = 2
  MaxDepth = 2
INVARIANT TypeOK
INVARIANT FollowsDescriptors
PROPERTY DropsExplained
CHECK_DEADLOCK FALSE
