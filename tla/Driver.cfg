SPECIFICATION DriverSpec
CONSTANTS
  NumStages = 2
  SequencerMaxSafeLag = 2
  MaxLag = 3
  MaxBacklog = 2
  MaxResets = 2
INVARIANTS
  DriverTypeOK
  WorkScheduled
  SequencerArmed
PROPERTIES
  EngineReadyAgain
  SequencerMakesBlocks
CHECK_DEADLOCK FALSE
