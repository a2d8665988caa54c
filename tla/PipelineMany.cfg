CONSTANTS
  p1 = p1  p2 = p2  i1 = i1  o1 = o1  o2 = o2
  Prep <- TwoPreps
  Infer <- OneInfer
  Post <- TwoPosts
  NumFrames = 3
  NumSlots = 7
  QRawCap = 3
  QPrepCap = 1
  QInfCap = 1
  MaxSeq = 2
SPECIFICATION FairSpec
INVARIANTS IndInv SlotsOwnedOnce
PROPERTIES LedgerSpec QuitReturns AbortEnds EveryFrameSettles
