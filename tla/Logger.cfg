SPECIFICATION Spec
CONSTANTS
  Writer = {w1, w2, w3}
  QueueCapacity = 2
  MaxCalls = 2
INVARIANTS PrintsInOrder EveryCallAccounted
PROPERTIES CallReturns DestructorReturns
