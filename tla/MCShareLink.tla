---------------------------- MODULE MCShareLink ----------------------------
EXTENDS ShareLink, TLC

CONSTANTS v1, v2

Ttl == [c \in Caches |-> IF c = "keys" THEN 1 ELSE 2]
Wait == [c \in Caches |-> IF c = "keys" THEN 0 ELSE 1]
Symmetry == Permutations(Views)
=============================================================================
