\* Instructions, records and bookkeeping in any order and amount.
SPECIFICATION FairSpec
CONSTANTS
  Files <- TwoFiles
  Stream <- ThreeRecords
  NumMessages = 1
  MaxInstructions = 3
  MaxAttrs = 2
  TriggerRange = 16
  MayFail = TRUE
  Paced = FALSE
INVARIANTS TypeOK OneWritePerInstruction IndexOfFirstMessage
INVARIANTS ReplacedOnlyByNamesake
PROPERTIES RoundEnds FailedWriteIsFinal
\* The race of the two threads may end the program, as may a write that fails.
CHECK_DEADLOCK FALSE
