SPECIFICATION EQSpec
CONSTANTS
  A = A
  B = B
  Z = Z
  Contents = {A, B, Z}
  Invalid = {Z}
  Sequenced = {A, B}
  L1Contents = {"a", "bz"}
  Batches <- MCBatches
  Payloads <- GossipAhead
  Number <- MCNumber
  Mem <- MCMem
  MaxSize = 2
  finalityLookback = 3
  finalityDelay = 0
  LateBatches = FALSE
  MaxL1 = 2
  MaxL2 = 2
INVARIANTS
  EQTypeOK
  MemoryAccounted
  QueuedIsKnown
  HeadsOrdered
  AttributesFresh
  SafeIsDerived
  FinalizedIsDerived
  EngineFinalIsDerived
PROPERTY
  EvictsOnlyLower
CHECK_DEADLOCK FALSE
