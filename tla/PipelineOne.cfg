CONSTANTS
  p1 = p1  p2 = p2  i1 = i1  o1 = o1  o2 = o2
  Prep <- OnePrep
  Infer <- OneInfer
  Post <- OnePost
  NumFrames = 2
  NumSlots = 5
  QRawCap = 2
  QPrepCap = 1
  QInfCap = 1
  MaxSeq = 6
SPECIFICATION Spec
INVARIANTS
  FramesOwnedOnce PrepNeverWaitsForSlot ReaderPushFits DropImpliesBacklog
  PoolsHaveRoom SinkExact DrainDeliversAll NoThreadOutlivesStores SunkInOrder
