\* One file sent in two runs, the second with the sender of the first.
SPECIFICATION FairSpec
CONSTANTS
  Mode = "hdf5"
  Files <- TwoFiles
  Input = 1
  NumRuns = 2
  Threads <- MainAndTwoSenders
  Records <- OneTwo
  Damaged <- NoNames
  MaxRetries = 2
  FirstLedger <- GoodLedger
  FirstNames <- SecondName
  BufferNames = 1
  StorageMayVanish = FALSE
  MaxRequests = 3
  Window = 1
  MayCrash = FALSE
INVARIANTS LedgerNotFatal LedgerForgetsNothing OneWriterOfLedger
PROPERTIES FinishesOrDies
\* The program ends after its last run.
CHECK_DEADLOCK FALSE
