--------------------------- MODULE MCRequisitions ---------------------------
(* Who submits the requisitions of a small instance.                        *)
EXTENDS Requisitions

CONSTANTS ann, cal, o1, o2

\* ann owns a workspace; cal is a member of it, and may get one of her own.
Submitters == [o \in Reqs |-> IF o = o1 THEN ann ELSE cal]

Shared == {<<ann, cal>>}
=============================================================================
