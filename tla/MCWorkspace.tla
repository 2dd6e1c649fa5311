---------------------------- MODULE MCWorkspace ----------------------------
(* Small instances of Workspace. *)
EXTENDS Workspace, TLC

CONSTANTS ann, cal, m1, m2, p1, a1, c1

\* Who issues the mutation and the PUT: the owner or the shared member cal,
\* who owns nothing at the start.
Cast == [{m1, p1} -> {ann, cal}]

SharedWithCal == {<<ann, cal>>}

\* Two requests of a user who has no workspace yet.
BothCal == {[r \in {m1, m2} |-> cal]}
NoJob == {{}}

\* One job at a time beside the requests.
OneJob == {{a1}, {c1}}
=============================================================================
