---------------------------- MODULE MCDFBackend ----------------------------
(***************************************************************************)
(* Model checking of DFBackend: two files, of one record each.             *)
(***************************************************************************)
EXTENDS DFBackend

TwoFiles == {1, 2}
OneEach == [s \in {0, 1, 2} |-> 1]
List == {"list"}
NoNames == {}
=============================================================================
