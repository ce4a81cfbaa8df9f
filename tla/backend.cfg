\* The three programs and the server, which asks for every file.
SPECIFICATION Spec
CONSTANTS
  Files <- TwoFiles
  Records <- OneEach
  MaxRetries = 1
  FirstLedger <- List
  FirstNames <- NoNames
  BufferNames = 2
  MaxAsks = 2
  MaxSelects = 4
  TriggerRange = 4
INVARIANTS NoRecordLost RecordedIsOnItsWay PeersAsAssumed
PROPERTIES EveryOldFileRecorded AcceptedIsSettled
