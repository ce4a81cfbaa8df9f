------------------------ MODULE MCFilterResultWriter ------------------------
(***************************************************************************)
(* Model checking of FilterResultWriter: records of two data files.  Some  *)
(* have the same trigger number, with the next sequence number or behind   *)
(* the range of an int, which has four bits here.                          *)
(***************************************************************************)
EXTENDS FilterResultWriter

TwoFiles == {1, 2}
TR(file, trigger, seq) == [file |-> file, trigger |-> trigger, seq |-> seq]
ThreeRecords == <<TR(1, 7, 0), TR(2, 8, 0), TR(2, 8, 1)>>
SixRecords ==
  ThreeRecords \o <<TR(2, 10, 0), TR(1, 7 + TriggerRange, 0), TR(1, 12, 0)>>
=============================================================================
