SPECIFICATION Spec
CONSTANTS
  Callers = {c1, c2}
  Targets <- MCTargets
  LinkTargets <- MCLinkTargets
  NameOrder <- MCNameOrder
  Lower <- MCLower
  Huge <- MCHuge
  Ops = {"mkdir", "write", "append", "rm", "cp", "mv", "chmod", "utimes", "symlink", "link"}
  MaxCalls = 3
  MaxMixed = 2
SYMMETRY Symmetry
INVARIANT TypeOK
INVARIANT MoveKeepsContent
INVARIANT NothingHidden
INVARIANT QueriesAgree
PROPERTY KeepsContract
PROPERTY StaysInFootprint
