----------------------------- MODULE MCLayerFill -----------------------------
(***************************************************************************)
(* A finite instance of LayerFill: two extents fetched in one run through  *)
(* a queue of one, so that the run finds the queue full in its middle.     *)
(***************************************************************************)
EXTENDS LayerFill

CONSTANT r1

=============================================================================
