SPECIFICATION RecFairSpec
CONSTANTS
  QUEUE_CAPACITY = 3
  MaxTick = 3
  MaxRecordings = 2
INVARIANTS
  PublishedWhole
  GivenBack
  FramesInStep
  AnswerTellsFiles
  OwnMessages
PROPERTIES
  RecordingEnds
CHECK_DEADLOCK FALSE
