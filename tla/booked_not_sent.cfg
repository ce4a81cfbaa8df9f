\* Is everything transferred when the last bookkeeping message leaves?
SPECIFICATION FairSpec
CONSTANTS
  Mode = "storage"
  Files <- OneFile
  Input = 1
  NumRuns = 1
  Threads <- MainAndSender
  Records <- OneTwo
  Damaged <- NoNames
  MaxRetries = 2
  FirstLedger <- List
  FirstNames <- NoNames
  BufferNames = 1
  StorageMayVanish = FALSE
  MaxRequests = 2
  Window = 1
  MayCrash = FALSE
INVARIANTS BookedMeansTransferred
