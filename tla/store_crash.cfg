\* Two sender threads over every kind of ledger, with deaths.
SPECIFICATION FairSpec
CONSTANTS
  t1 = t1  t2 = t2  f1 = f1  f2 = f2  f3 = f3
  Threads <- TwoThreads
  Files <- TwoFiles
  MaxRetries = 2
  FirstLedger <- AnyLedger
  FirstNames <- OneName
  BufferNames = 1
  StorageMayVanish = TRUE
INVARIANTS TypeOK ReadableLedgerIsComplete
PROPERTIES WaitIsBounded
