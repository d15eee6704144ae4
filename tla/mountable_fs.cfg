SPECIFICATION Spec
CONSTANTS
  Callers = {c1, c2}
  Targets <- MCTargets
  LinkTargets <- MCLinkTargets
  NameOrder <- MCNameOrder
  Stores = {"base", "one", "two"}
  Base = "base"
  MountPoints <- MCMountPoints
  Initial <- MCInitial
  Mounted <- MCMounted
  MaxRemounts = 1
  MaxBeside = 1
  Ops = {"mkdir", "write", "append", "rm", "cp", "mv", "chmod", "utimes", "symlink", "link"}
  MaxCalls = 2
  MaxMixed = 2
SYMMETRY Symmetry
INVARIANT TypeOK
INVARIANT MoveKeepsContent
INVARIANT QueriesAgree
PROPERTY KeepsContract
PROPERTY StaysInFootprint
PROPERTY MountsShield
