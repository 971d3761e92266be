---------------------------- MODULE MCLayerStore ---------------------------
(* A small instance of the layer store. *)
EXTENDS LayerStore, TLC

CONSTANTS e1, r1, w1, n1, n2

OneExtent == {e1}
OneReader == {r1}
OneWarmer == {w1}

TwoPairs == {n1, n2}

\* The nonces of the staging pairs are interchangeable.
Symmetry == Permutations(Pairs)

AllErrors == {"fatal", "other"}
=============================================================================
