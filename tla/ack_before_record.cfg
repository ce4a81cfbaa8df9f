\* Was a record received when the message "received" leaves?
SPECIFICATION FairSpec
CONSTANTS
  Files <- TwoFiles
  Stream <- ThreeRecords
  NumMessages = 1
  MaxInstructions = 3
  MaxAttrs = 3
  TriggerRange = 16
  MayFail = FALSE
  Paced = TRUE
INVARIANTS AckMeansReceived
