------------------------------ MODULE NextIds ------------------------------
(***************************************************************************)
(* How the ids of a document's entities are given out: one more than the   *)
(* largest in use, so that the id of a removed last entity comes back.     *)
(***************************************************************************)
EXTENDS Naturals

\* The largest element of S, 0 when there is none.
Max0(S) == CHOOSE m \in S \cup {0} : \A n \in S : n <= m

\* Mutant of NextIntID: the largest id itself.
NextIntIDOffByOne(S) == Max0(S)

NextIntID(S) == Max0(S) + 1

\* "PH-2026-0007": the number after the largest of this year's.  An id stands
\* for the number in it; an id of another form counts as one no other row has.
NextStringID(S) == Max0(S) + 1
=============================================================================
