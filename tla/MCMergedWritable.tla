-------------------------- MODULE MCMergedWritable --------------------------
(***************************************************************************)
(* Instance of MergedWritable for TLC: a device of three sectors that      *)
(* grows to four.                                                          *)
(***************************************************************************)
EXTENDS MergedWritable

FourSectors == 0 .. 3

\* One sector inside a piece, a whole piece, its tail, and two pieces.
SomeRanges == {<<1, 2>>, <<0, 3>>, <<2, 3>>, <<0, 4>>}

=============================================================================
