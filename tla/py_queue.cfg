SPECIFICATION Spec
CONSTANTS
  Calls = {c1, c2, c3}
  Workers = {w1, w2, w3}
  MaxNotices = 1
  None = None
  Notice = Notice
INVARIANT TypeOK
INVARIANT Serialized
INVARIANT OwnAnswer
INVARIANT NoneForgotten
PROPERTY EveryCallSettles
CHECK_DEADLOCK FALSE
