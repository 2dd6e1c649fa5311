----------------------------- MODULE MCMembers -----------------------------
(* Users have different names with the same initials; a user's id stands for
   the name as well. *)
EXTENDS Members, TLC

CONSTANTS w1, u1, u2, c1, c2, AN

Name == [u \in Users |-> u]
Initials == [n \in Users |-> AN]

\* Two events; or one beside a member added by hand, or beside tasks.
Scenario ==
  \/ hands = 0 /\ tasks = 0
  \/ Len(log) < 2 /\ (hands = 0 \/ tasks = 0)

Symmetry == Permutations(Users) \cup Permutations(Consumers)
=============================================================================
