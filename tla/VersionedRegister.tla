-------------------------- MODULE VersionedRegister --------------------------
(***************************************************************************)
(* What a stored workspace promises to everybody who writes it: it is an   *)
(* atomic, versioned document.  A fine-grained edit adds itself to exactly *)
(* the document that is there and removes nothing; only a full PUT may     *)
(* replace the document; every write moves the version by one.             *)
(*                                                                         *)
(* A document is abstracted to the set of edits it reflects.               *)
(***************************************************************************)
EXTENDS Naturals

CONSTANTS Owners,     \* the workspaces, named by their owner_user_id
          Editors,    \* writers of fine-grained edits (Mutate and the jobs)
          Replacers,  \* writers of whole documents (PUT /workspace)
          Nobody      \* the writer of a document nobody has written yet

VARIABLES doc,  \* owner -> the edits its document reflects
          ver,  \* owner -> version
          by    \* owner -> who wrote the current version

vars == <<doc, ver, by>>

Edits == Editors \cup Replacers

Init ==
  /\ doc \in [Owners -> SUBSET Edits]
  /\ ver \in [Owners -> Nat]
  /\ by \in [Owners -> Edits \cup {Nobody}]

Write(o, w, d) ==
  /\ doc' = [doc EXCEPT ![o] = d]
  /\ ver' = [ver EXCEPT ![o] = @ + 1]
  /\ by'  = [by EXCEPT ![o] = w]

\* An edit keeps every edit that is there.
Edit(o, e) == Write(o, e, doc[o] \cup {e})

\* A full PUT leaves what its client sent, its own edit included.
Replace(o, p, d) == p \in d /\ Write(o, p, d)

Next ==
  \E o \in Owners :
    \/ \E e \in Editors : Edit(o, e)
    \/ \E p \in Replacers, d \in SUBSET Edits : Replace(o, p, d)

Spec == Init /\ [][Next]_vars
=============================================================================
