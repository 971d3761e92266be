---------------------------- MODULE MCLayerFetch ---------------------------
(* Two guest reads and a warm-up that miss the same extent. *)
EXTENDS LayerFetch

CONSTANTS g1, g2, p1, x1, f1, f2, f3

FewCallers == {g1, g2, p1}

Classes == [c \in Callers |-> IF c \in {g1, g2} THEN "OnDemand" ELSE "Prefetch"]

FewFlights == {f1, f2, f3}

OneExtent == {x1}
=============================================================================
