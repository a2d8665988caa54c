CONSTANTS
  BatchSize = 2
  NumSlots = 2
  WarmupRuns = 1
  MaxBatch = 3
SPECIFICATION FairSpec
\* Once all batches are through, or the process is gone, nothing is left to do.
CHECK_DEADLOCK FALSE
INVARIANTS HostBuffersQuiescent
PROPERTIES CallSpec
