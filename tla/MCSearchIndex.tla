--------------------------- MODULE MCSearchIndex ---------------------------
(* A small instance of SearchIndex. *)
EXTENDS SearchIndex, TLC

CONSTANTS w1, w2, w3, x, y

Symm == Permutations({w1, w2, w3}) \cup Permutations({x, y})
=============================================================================
