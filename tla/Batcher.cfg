SPECIFICATION Spec
CONSTANTS
  MaxPending = 2
  ChannelTimeout = 1
  SubSafetyMargin = 0
  MaxChannelDuration = 1
  SeqWindowSize = 2
  MaxFrames = 2
  MaxL1 = 3
  MaxL2 = 2
  MaxEvents = 2
INVARIANTS
  BatcherTypeOK
  FramesTracked
  Accounted
PROPERTIES
  PublishEnds
