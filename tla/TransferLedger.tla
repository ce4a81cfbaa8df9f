--------------------------- MODULE TransferLedger ---------------------------
(***************************************************************************)
(* What the dispatcher, run from storage, promises about the ledger: a     *)
(* name enters it once every record of that file was offered to the        *)
(* filter, no name ever leaves it, a file in it is not offered again, and  *)
(* a ledger torn by the death of the program stops the dispatch for good.  *)
(***************************************************************************)
CONSTANTS Files, Already

VARIABLES offered, ledger, torn

Init == offered = {} /\ ledger \in {{}, Already} /\ torn \in BOOLEAN

Offer(f) ==
  /\ ~torn /\ f \notin ledger
  /\ offered' = offered \cup {f}
  /\ UNCHANGED <<ledger, torn>>

Record(f) ==
  /\ ~torn /\ f \in offered
  /\ ledger' = ledger \cup {f}
  /\ UNCHANGED <<offered, torn>>

Tear == torn' = TRUE /\ UNCHANGED <<offered, ledger>>

Next == Tear \/ \E f \in Files : Offer(f) \/ Record(f)

Spec == Init /\ [][Next]_<<offered, ledger, torn>>
=============================================================================
