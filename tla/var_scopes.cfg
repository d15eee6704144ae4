SPECIFICATION Spec
CONSTANTS
  Names = {x}
  Values = {v1}
  Unset = Unset
  NoCell = NoCell
  MaxCalls = 2
  MaxOthers = 1
  MaxCells = 2
  MaxBindings = 1
CHECK_DEADLOCK FALSE
INVARIANT TypeOK
INVARIANT BooksMatchCalls
PROPERTY ImplementsScopes
