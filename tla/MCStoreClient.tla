--------------------------- MODULE MCStoreClient ---------------------------
(* Model checking of StoreClient. *)
EXTENDS StoreClient

CONSTANTS t1, t2, f1, f2, f3

OneThread == {t1}
TwoThreads == {t1, t2}
TwoFiles == {f1, f2}
ThreeFiles == {f1, f2, f3}
OneName == {f1}
AnyLedger == Kinds
LedgerMissing == {"absent"}
=============================================================================
