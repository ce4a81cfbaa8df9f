\* A peer that awaits the end of each round.
SPECIFICATION FairSpec
CONSTANTS
  Files <- TwoFiles
  Stream <- SixRecords
  NumMessages = 1
  MaxInstructions = 6
  MaxAttrs = 6
  TriggerRange = 16
  MayFail = FALSE
  Paced = TRUE
INVARIANTS EveryRecordInOrder
PROPERTIES RelaySpec AckNamesFileBefore
