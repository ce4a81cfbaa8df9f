\* The ledger does not exist when the program starts.
SPECIFICATION FairSpec
CONSTANTS
  t1 = t1  t2 = t2  f1 = f1  f2 = f2  f3 = f3
  Threads <- OneThread
  Files <- ThreeFiles
  MaxRetries = 3
  FirstLedger <- LedgerMissing
  FirstNames <- OneName
  BufferNames = 1
  StorageMayVanish = FALSE
PROPERTIES GivesUpOnlyAfterRetries
