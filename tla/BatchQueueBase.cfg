SPECIFICATION BQSpec
CONSTANTS
  BlockTime = 2
  SeqWindowSize = 2
  MaxSequencerDrift = 2
  L1Time <- MCL1Time
  BatchSet <- MCBatches
  MaxBatches = 2
  ChannelTimeout = 2
  SequencerConfDepth = 1
  MaxResets = 1
INVARIANTS
  BaseThrownOut
