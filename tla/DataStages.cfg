SPECIFICATION FairStagesSpec
CONSTANTS
  a = a
  b = b
  ChannelIDs = {a, b}
  Frames <- MCFrames
  Blocks <- MCBlocks
  MaxBatches = 2
  frameOverhead = 1
  ChannelTimeout = 1
  MaxChannelBankSize = 6
INVARIANTS
  StagesTypeOK
  QueueMatchesMap
  ChannelWellFormed
  ReadOnce
PROPERTIES
  BankSpec
  ChannelsLeave
