SPECIFICATION DriverSpec
CONSTANTS
  NumStages = 2
  SequencerMaxSafeLag = 2
  MaxLag = 3
  MaxBacklog = 2
  MaxResets = 2
PROPERTIES
  SequencingResumes
CHECK_DEADLOCK FALSE
