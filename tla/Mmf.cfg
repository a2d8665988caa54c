CONSTANTS
  MaxFrames = 3
  MaxSessions = 2
SPECIFICATION FairSpec
\* The program may sit at the keyboard for ever.
CHECK_DEADLOCK FALSE
INVARIANTS FinishedFrameIsDelivered ConsumedOnce
PROPERTIES StopIsPrompt ReadyFrameIsTaken
