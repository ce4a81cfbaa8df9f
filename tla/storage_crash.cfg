\* From storage, any ledger at first, an empty and a damaged file, deaths and
\* restarts, a request too many.
SPECIFICATION Spec
CONSTANTS
  Mode = "storage"
  Files <- ThreeFiles
  Input = 1
  NumRuns = 1
  Threads <- MainAndSender
  Records <- FirstIsEmpty
  Damaged <- ThirdName
  MaxRetries = 2
  FirstLedger <- AnyLedger
  FirstNames <- ThirdName
  BufferNames = 1
  StorageMayVanish = TRUE
  MaxRequests = 3
  Window = 2
  MayCrash = TRUE
INVARIANTS TypeOK RecordedWasOffered NoResendOfRecorded NoUnaskedRound
PROPERTIES TornLedgerStopsDispatch BadFileStopsLater LedgerPromise
