------------------------ MODULE MCFilterOrchestrator ------------------------
(* Model checking of FilterOrchestrator with peers of every pace. *)
EXTENDS FilterOrchestrator

PacedToThreeAhead == 1..3
=============================================================================
