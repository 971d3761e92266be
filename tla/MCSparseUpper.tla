---------------------------- MODULE MCSparseUpper ----------------------------
(* Three blocks of two sectors over lowers of two blocks.  The ranges are part *)
(* of a block, a part and a whole block, and a range into the grown block.     *)
EXTENDS SparseUpper
MCSizes == {4, 6}
MCRanges == {<<0, 1>>, <<1, 4>>, <<3, 6>>}
=============================================================================
