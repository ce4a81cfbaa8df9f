--------------------------- MODULE MCTRDispatcher ---------------------------
(* Model checking of TRDispatcher: three data files named 1, 2 and 3. *)
EXTENDS TRDispatcher

OneFile == {1}
TwoFiles == {1, 2}
ThreeFiles == {1, 2, 3}
MainAndSender == 0..1
MainAndTwoSenders == 0..2

\* Records per file; source 0 is the generated record.
OneTwo == [s \in Sources |-> IF s = 2 THEN 2 ELSE 1]
FirstIsEmpty == [s \in Sources |-> CASE s = 1 -> 0 [] s = 2 -> 2 [] OTHER -> 1]

AnyLedger == Kinds
GoodLedger == {"list", "nokey"}
List == {"list"}
NoNames == {}
SecondName == {2}
ThirdName == {3}
=============================================================================
