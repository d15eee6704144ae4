SPECIFICATION Spec
CONSTANT MaxRequests = 3
INVARIANT TypeOK
INVARIANT Synchronous
INVARIANT EffectsInOrder
PROPERTY EveryRequestReturns
PROPERTY LoopEnds
CHECK_DEADLOCK FALSE
