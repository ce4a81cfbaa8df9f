\* Is the index of the file known when its record is written?
SPECIFICATION FairSpec
CONSTANTS
  Files <- TwoFiles
  Stream <- ThreeRecords
  NumMessages = 1
  MaxInstructions = 3
  MaxAttrs = 3
  TriggerRange = 16
  MayFail = FALSE
  Paced = TRUE
INVARIANTS IndexKnownWhenWritten
