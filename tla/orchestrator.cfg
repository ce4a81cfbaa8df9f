\* A peer that awaits each request, and peers that send ahead of it.
SPECIFICATION FairSpec
CONSTANTS
  MaxInstructions = 7
  Windows <- PacedToThreeAhead
INVARIANTS TypeOK NoUnaskedRequest NothingMerged
PROPERTIES OverrunIsPermanent AnsweredOrOverrun LostOnlyAfterSample
