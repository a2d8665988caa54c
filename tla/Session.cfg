CONSTANTS
  MaxTime = 1
  NumBatches = 4
  PostThreads = 2
  windowDimension = 2
SPECIFICATION SessionSpec
INVARIANTS RunningIsAlive OneLinePerWindow MeansCoverWindow ReportIsFinal
PROPERTIES DeadThreadIsReaped
