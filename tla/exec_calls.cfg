SPECIFICATION Spec
CONSTANTS
  Shells = {"s1", "s2"}
  Config <- MCConfig
  MaxExecs = 3
  MaxCount = 3
  MaxProcs = 2
INVARIANT TypeOK
INVARIANT PatchesMatchExecutions
PROPERTY EnvironmentIsolated
PROPERTY EveryCallEnds
