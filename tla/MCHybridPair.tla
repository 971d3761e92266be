---------------------------- MODULE MCHybridPair ----------------------------
(* A Hybrid upper of two sectors for TLC.                                   *)
EXTENDS HybridPair

TwoSectors == {0, 1}
SomeRanges == {<<0, 1>>, <<1, 2>>, <<0, 2>>}
=============================================================================
