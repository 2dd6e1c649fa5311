----------------------------- MODULE MCRealtime -----------------------------
(* A small instance of Realtime: a request on each of two replicas and a
   member's connection on one of them. *)
EXTENDS Realtime, TLC

CONSTANTS w1, w2, c1, r1, r2, owner, member

MCUserOf == c1 :> member
MCReplicaOf == w1 :> r1 @@ w2 :> r2 @@ c1 :> r1
=============================================================================
