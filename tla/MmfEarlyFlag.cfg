CONSTANTS
  MaxFrames = 3
  MaxSessions = 2
SPECIFICATION Spec
CHECK_DEADLOCK FALSE
INVARIANTS DeliversFreshFrame
