----------------------------- MODULE ShareLink -----------------------------
(***************************************************************************)
(* PublicShare: a public link shows one task or project to whoever has it. *)
(* A view checks the token's signature with auth's keys, which are cached  *)
(* for some minutes, finds a document that holds the record, asks auth     *)
(* whether the link is still honoured, which is cached for a minute, and   *)
(* decides on the document it found.  Views run concurrently on one        *)
(* replica and share both caches; an answer is cached when it arrives.     *)
(*                                                                         *)
(* The module follows one link.  What auth says of it is two facts that    *)
(* may cease to hold: the key that signed it is published ("keys"), and it *)
(* is active ("status").  Of a document it keeps what becomes of the       *)
(* record: "absent"; "withheld", when it is in a members-only project or   *)
(* the link's creator is neither owner nor member; or "public".            *)
(***************************************************************************)
EXTENDS Naturals

CONSTANTS Views,       \* concurrent GET /shared requests
          LastWorkspace,  \* number of workspaces, in the order of their owners' ids
          TTL,         \* cache -> how long an answer is used
          Timeout,     \* cache -> how long its request may take
          MaxTime      \* bound on the clock

Caches == {"keys", "status"}

ASSUME ShareAssumption ==
  /\ TTL \in [Caches -> Nat \ {0}] /\ Timeout \in [Caches -> Nat]
  /\ MaxTime \in Nat /\ LastWorkspace \in Nat

Ranks == 1..LastWorkspace

VARIABLES
  now,     \* the clock
  ok,      \* cache -> the fact holds, at auth
  since,   \* cache -> when it ceased to hold
  cache,   \* cache -> the set of its entry: empty, or one answer and its time
  records, \* workspace -> its document
  viewPc,  \* view -> "keys", "verify", "find", "status", or how it ended
  began,   \* view -> when it began
  asked,   \* view -> when its request to auth was sent, in a set, or {}
  answer,  \* view -> the answer on its way, in a set, or {}
  found,   \* view -> the workspace it found, with its document, in a set, or {}
  shown    \* view -> workspaces that showed the record at some time since it began

issuerVars == <<now, ok, since>>
viewVars == <<viewPc, began, asked, answer, found>>
shareVars == <<issuerVars, cache, records, viewVars, shown>>

Document == {"absent", "withheld", "public"}

ShareInit ==
  /\ now = 0
  /\ ok = [c \in Caches |-> TRUE] /\ since = [c \in Caches |-> 0]
  /\ cache = [c \in Caches |-> {}]
  /\ records \in [Ranks -> Document]
  /\ viewPc = [r \in Views |-> "refused"] /\ began = [r \in Views |-> 0]
  /\ asked = [r \in Views |-> {}] /\ answer = [r \in Views |-> {}]
  /\ found = [r \in Views |-> {}] /\ shown = [r \in Views |-> {}]

-----------------------------------------------------------------------------
(* The clock, auth, and the edits of the documents. *)

(* A request to auth that takes too long fails before the clock moves on. *)
Tick ==
  /\ now < MaxTime
  /\ \A r \in Views : \A t \in asked[r] : now < t + Timeout[viewPc[r]]
  /\ now' = now + 1
  /\ UNCHANGED <<ok, since, cache, records, viewVars, shown>>

Withdraw(c) ==
  /\ ok[c]
  /\ ok' = [ok EXCEPT ![c] = FALSE]
  /\ since' = [since EXCEPT ![c] = now]
  /\ UNCHANGED <<now, cache, records, viewVars, shown>>

Ended(r) == viewPc[r] \in {"served", "refused"}

Edit(w, d) ==
  /\ records' = [records EXCEPT ![w] = d]
  /\ shown' = [r \in Views |-> IF d = "public" /\ ~Ended(r)
                              THEN shown[r] \cup {w} ELSE shown[r]]
  /\ UNCHANGED <<issuerVars, cache, viewVars>>

-----------------------------------------------------------------------------
(* A view. *)

(* A view that has been refused leaves nothing behind. *)
Proceed(r, to) ==
  /\ viewPc' = [viewPc EXCEPT ![r] = to]
  /\ IF to = "refused"
     THEN /\ began' = [began EXCEPT ![r] = 0]
          /\ found' = [found EXCEPT ![r] = {}]
          /\ shown' = [shown EXCEPT ![r] = {}]
     ELSE UNCHANGED <<began, found, shown>>

Open(r) ==
  /\ Ended(r)
  /\ viewPc' = [viewPc EXCEPT ![r] = "keys"]
  /\ began' = [began EXCEPT ![r] = now]
  /\ found' = [found EXCEPT ![r] = {}]
  /\ shown' = [shown EXCEPT ![r] = {w \in Ranks : records[w] = "public"}]
  /\ UNCHANGED <<issuerVars, cache, records, asked, answer>>

Fresh(c) == \E x \in cache[c] : now < x.at + TTL[c]

(* Mutant of Serves: the checks on the document are left out. *)
ServesAny(r) == found[r] # {}

(* canSee and taskInMembersOnlyProject, on the document that was found.  That
   the creator is in the workspace is part of "public": canSee counts every
   record of theirs, inactive ones too. *)
Serves(r) == \E f \in found[r] : f.doc = "public"

(* What follows an answer of auth's: with keys, whichever they are, the
   token is verified next; a link that is not honoured is refused. *)
Outcome(r, b) ==
  CASE viewPc[r] = "keys" -> "verify"
    [] viewPc[r] = "status" /\ b /\ Serves(r) -> "served"
    [] OTHER -> "refused"

Asking(r) == viewPc[r] \in Caches /\ asked[r] # {}

(* Mutant of Hit: an entry that is used is kept for another TTL. *)
HitRenews(r) ==
  /\ viewPc[r] \in Caches /\ ~Asking(r) /\ Fresh(viewPc[r])
  /\ \E x \in cache[viewPc[r]] :
       /\ Proceed(r, Outcome(r, x.ok))
       /\ cache' = [cache EXCEPT ![viewPc[r]] = {[ok |-> x.ok, at |-> now]}]
  /\ UNCHANGED <<issuerVars, records, asked, answer>>

Hit(r) ==
  /\ viewPc[r] \in Caches /\ ~Asking(r) /\ Fresh(viewPc[r])
  /\ \E x \in cache[viewPc[r]] : Proceed(r, Outcome(r, x.ok))
  /\ UNCHANGED <<issuerVars, cache, records, asked, answer>>

(* ensureKeys or status: the cache is read, unlocked, and auth is asked. *)
Ask(r) ==
  /\ viewPc[r] \in Caches /\ ~Asking(r) /\ ~Fresh(viewPc[r])
  /\ asked' = [asked EXCEPT ![r] = {now}]
  /\ UNCHANGED <<issuerVars, cache, records, viewPc, began, answer, found, shown>>

Answer(r) ==
  /\ Asking(r) /\ answer[r] = {}
  /\ answer' = [answer EXCEPT ![r] = {ok[viewPc[r]]}]
  /\ UNCHANGED <<issuerVars, cache, records, viewPc, began, asked, found, shown>>

(* The answer arrives and is cached as of now, over whatever another view
   has cached in the meantime. *)
ReceiveAnswer(r) ==
  /\ Asking(r)
  /\ \E b \in answer[r] :
       /\ cache' = [cache EXCEPT ![viewPc[r]] = {[ok |-> b, at |-> now]}]
       /\ Proceed(r, Outcome(r, b))
  /\ asked' = [asked EXCEPT ![r] = {}] /\ answer' = [answer EXCEPT ![r] = {}]
  /\ UNCHANGED <<issuerVars, records>>

(* Auth does not answer in time, or with an error: 401 or 503. *)
AskFails(r) ==
  /\ Asking(r)
  /\ Proceed(r, "refused")
  /\ asked' = [asked EXCEPT ![r] = {}] /\ answer' = [answer EXCEPT ![r] = {}]
  /\ UNCHANGED <<issuerVars, cache, records>>

(* verifyToken, with the keys that are cached by now. *)
Verify(r) ==
  /\ viewPc[r] = "verify"
  /\ \E x \in cache["keys"] : Proceed(r, IF x.ok THEN "find" ELSE "refused")
  /\ UNCHANGED <<issuerVars, cache, records, asked, answer>>

(* findDocumentByResource: the first of the documents in which the record
   lives, as they were when they were read. *)
Find(r) ==
  /\ viewPc[r] = "find"
  /\ \/ \E w \in Ranks :
          /\ records[w] # "absent" /\ \A v \in 1..(w - 1) : records[v] = "absent"
          /\ found' = [found EXCEPT ![r] = {[ws |-> w, doc |-> records[w]]}]
          /\ viewPc' = [viewPc EXCEPT ![r] = "status"]
          /\ UNCHANGED <<began, shown>>
     \/ (\A w \in Ranks : records[w] = "absent") /\ Proceed(r, "refused")
  /\ UNCHANGED <<issuerVars, cache, records, asked, answer>>

ShareNext ==
  \/ Tick
  \/ \E c \in Caches : Withdraw(c)
  \/ \E w \in Ranks, d \in Document : Edit(w, d)
  \/ \E r \in Views :
       Open(r) \/ Hit(r) \/ Ask(r) \/ Answer(r) \/ ReceiveAnswer(r) \/ AskFails(r)
       \/ Verify(r) \/ Find(r)

ShareSpec == ShareInit /\ [][ShareNext]_shareVars

-----------------------------------------------------------------------------
(* A view that begins TTL and one request after auth withdrew the link, or
   the key that signed it, is refused: late answers that overwrite newer ones
   in a cache make the withdrawal no later than that. *)
WithdrawnIsRefused ==
  \A r \in Views, c \in Caches :
    viewPc[r] = "served" /\ ~ok[c] => began[r] < since[c] + TTL[c] + Timeout[c]

(* What is served was public, and its creator was in the workspace, at some
   time during the view. *)
ServedWasShown ==
  \A r \in Views : viewPc[r] = "served" => \E f \in found[r] : f.ws \in shown[r]

(* Types of the state. *)
ShareTypeOK ==
  /\ now \in Nat
  /\ ok \in [Caches -> BOOLEAN] /\ since \in [Caches -> Nat]
  /\ cache \in [Caches -> SUBSET [ok : BOOLEAN, at : Nat]]
  /\ records \in [Ranks -> Document]
  /\ viewPc \in [Views -> {"keys", "verify", "find", "status", "served", "refused"}]
  /\ began \in [Views -> Nat]
  /\ asked \in [Views -> SUBSET Nat] /\ answer \in [Views -> SUBSET BOOLEAN]
  /\ found \in [Views -> SUBSET [ws : Ranks, doc : Document]]
  /\ shown \in [Views -> SUBSET Ranks]

(* Why the two hold.  A request to auth is under way for no longer than its
   timeout, and is what an answer belongs to. *)
RequestsInTime ==
  \A r \in Views :
    /\ asked[r] # {} => viewPc[r] \in Caches
    /\ answer[r] # {} => asked[r] # {}
    /\ \A t \in asked[r] : t <= now /\ now <= t + Timeout[viewPc[r]]

ClockIsLast ==
  /\ \A c \in Caches : since[c] <= now /\ \A x \in cache[c] : x.at <= now
  /\ \A r \in Views : began[r] <= now

(* A good answer on its way was asked for before the withdrawal, so one in
   the cache came at most a timeout after it. *)
GoodNewsIsOld ==
  \A c \in Caches : ~ok[c] =>
    /\ \A r \in Views : viewPc[r] = c /\ TRUE \in answer[r] => \A t \in asked[r] : t <= since[c]
    /\ \A x \in cache[c] : x.ok => x.at <= since[c] + Timeout[c]

OneEntry == \A c \in Caches : \A x, y \in cache[c] : x = y

(* The keys with which a view is about to verify were fresh when it began. *)
KeysWereFresh ==
  \A r \in Views : viewPc[r] = "verify" =>
    \A x \in cache["keys"] : began[r] < x.at + TTL["keys"]

(* Past a check, a view began before the answer it used went stale. *)
PastCheck(r, c) ==
  ~ok[c] => began[r] < since[c] + TTL[c] + Timeout[c]

ChecksPassed ==
  \A r \in Views :
    /\ viewPc[r] \in {"find", "status", "served"} => PastCheck(r, "keys")
    /\ viewPc[r] = "served" => PastCheck(r, "status")

(* What a view has found public is among what was shown since it began. *)
FoundWasShown ==
  \A r \in Views :
    /\ ~Ended(r) => \A w \in Ranks : records[w] = "public" => w \in shown[r]
    /\ \A f \in found[r] : f.doc = "public" => f.ws \in shown[r]
    /\ viewPc[r] = "served" => \E f \in found[r] : f.doc = "public"

(* The inductive invariant. *)
ShareInv ==
  /\ ShareTypeOK /\ RequestsInTime /\ ClockIsLast /\ GoodNewsIsOld /\ OneEntry
  /\ KeysWereFresh /\ ChecksPassed /\ FoundWasShown
=============================================================================
