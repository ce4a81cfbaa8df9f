\* Every command line, with and without init().
SPECIFICATION Spec
CONSTANTS
  Hosts <- TwoHosts
  NumApps <- OneOrMore
  MaxTimeouts = 2
INVARIANTS TypeOK NamesAreDeclared AddressesAreDistinct OneReceiver LateOnlyAfterTimeout
\* A program that timed out too often is not started again.
CHECK_DEADLOCK FALSE
