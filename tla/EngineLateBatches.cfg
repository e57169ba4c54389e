SPECIFICATION EQSpec
CONSTANTS
  A = A
  B = B
  Z = Z
  Contents = {A, B, Z}
  Invalid = {Z}
  Sequenced = {}
  L1Contents = {"a", "b"}
  Batches <- MCBatches
  Payloads <- NoGossip
  Number <- MCNumber
  Mem <- MCMem
  MaxSize = 2
  finalityLookback = 3
  finalityDelay = 0
  LateBatches = TRUE
  MaxL1 = 3
  MaxL2 = 3
INVARIANT
  FinalizedIsDerived
CHECK_DEADLOCK FALSE
