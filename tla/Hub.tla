-------------------------------- MODULE Hub --------------------------------
(***************************************************************************)
(* realtime.Hub: the websocket connections of the replicas and the frames  *)
(* written to them.  gorilla allows one writer per connection, so each     *)
(* registered connection has a write mutex; a frame is written in three    *)
(* steps, since the hub's own lock is held only while the mutex is looked  *)
(* up.                                                                     *)
(*                                                                         *)
(* A process is a goroutine that writes frames: a request or consumer that *)
(* broadcasts, a Redis subscriber, or the handler of a connection with its *)
(* heartbeat, which starts when the handler has stopped writing.  A frame  *)
(* is the version of the document it carries; a ping carries none (0).     *)
(* The hubs of the replicas share no connection, so one set of variables   *)
(* holds them all.                                                         *)
(***************************************************************************)
EXTENDS Naturals, FiniteSets

CONSTANTS Conns,  \* connections; each handler process has its connection's name
          Procs,  \* goroutines that write frames
          NoProc, NoFrame

ASSUME HubAssumption ==
  /\ Conns \subseteq Procs
  /\ NoProc \notin Procs

VARIABLES
  joined,  \* connections in Hub.conns, which are the keys of Hub.writeMu
  mutex,   \* connection -> the process that holds its write mutex
  todo,    \* process -> frames it has still to write
  at,      \* process -> the frame whose writeFrame it is in
  stage,   \* process -> "idle", "wait" for the mutex, or "write" in WriteMessage
  got      \* connection -> versions its client has received

hubVars   == <<joined, mutex, todo, at, stage, got>>
writeVars == <<mutex, todo, at, stage, got>>

HubInit ==
  /\ joined = {}
  /\ mutex = [c \in Conns |-> NoProc]
  /\ todo = [p \in Procs |-> {}]
  /\ at = [p \in Procs |-> NoFrame]
  /\ stage = [p \in Procs |-> "idle"]
  /\ got = [c \in Conns |-> {}]

Idle(p) == todo[p] = {} /\ stage[p] = "idle"

(* Register: both channels of the connection's user and its write mutex. *)
Register(c) ==
  /\ joined' = joined \cup {c}
  /\ UNCHANGED writeVars

(* UnregisterAll deletes the mutex from the map; a process that looked it
   up before keeps the object and may still hold it. *)
UnregisterAll(c) ==
  /\ joined' = joined \ {c}
  /\ UNCHANGED writeVars

(* BroadcastChannel, its part under the hub's lock: the connections of the
   channel are collected.  WriteText and Ping of one connection begin here
   as well, and reach it whether it is registered or not. *)
Send(p, cs, v) ==
  /\ Idle(p)
  /\ todo' = [todo EXCEPT ![p] = {[conn |-> c, ver |-> v] : c \in cs}]
  /\ UNCHANGED <<joined, mutex, at, stage, got>>

BroadcastChannel(p, cs, v) == Send(p, cs \cap joined, v)

(* Mutant of LookUp: the frame is written without the connection's mutex. *)
LookUpUnlocked(p) ==
  \E f \in todo[p] :
    /\ stage[p] = "idle"
    /\ todo' = [todo EXCEPT ![p] = @ \ {f}]
    /\ at' = [at EXCEPT ![p] = f]
    /\ stage' = [stage EXCEPT ![p] = "write"]
    /\ UNCHANGED <<joined, mutex, got>>

(* writeFrame: the mutex is looked up under the hub's lock.  A connection
   that has been unregistered has none and is written to without it. *)
LookUp(p) ==
  \E f \in todo[p] :
    /\ stage[p] = "idle"
    /\ todo' = [todo EXCEPT ![p] = @ \ {f}]
    /\ at' = [at EXCEPT ![p] = f]
    /\ stage' = [stage EXCEPT ![p] = IF f.conn \in joined THEN "wait" ELSE "write"]
    /\ UNCHANGED <<joined, mutex, got>>

Lock(p) ==
  /\ stage[p] = "wait" /\ mutex[at[p].conn] = NoProc
  /\ mutex' = [mutex EXCEPT ![at[p].conn] = p]
  /\ stage' = [stage EXCEPT ![p] = "write"]
  /\ UNCHANGED <<joined, todo, at, got>>

(* Mutant of WriteMessage: the deferred Unlock is missing. *)
WriteWithoutUnlock(p) ==
  /\ stage[p] = "write"
  /\ got' = IF at[p].ver = 0 THEN got
            ELSE [got EXCEPT ![at[p].conn] = @ \cup {at[p].ver}]
  /\ stage' = [stage EXCEPT ![p] = "idle"]
  /\ at' = [at EXCEPT ![p] = NoFrame]
  /\ UNCHANGED <<joined, todo, mutex>>

(* WriteMessage returns and the mutex is released.  A write that fails is
   only logged, and gorilla then fails every later one: such a connection is
   one that is about to leave, and what it has got no longer matters. *)
WriteMessage(p) ==
  /\ stage[p] = "write"
  /\ LET c == at[p].conn IN
       /\ got' = IF at[p].ver = 0 THEN got
                 ELSE [got EXCEPT ![c] = @ \cup {at[p].ver}]
       /\ mutex' = IF mutex[c] = p THEN [mutex EXCEPT ![c] = NoProc] ELSE mutex
  /\ stage' = [stage EXCEPT ![p] = "idle"]
  /\ at' = [at EXCEPT ![p] = NoFrame]
  /\ UNCHANGED <<joined, todo>>

Frame == [conn : Conns, ver : Nat]

HubTypeOK ==
  /\ joined \subseteq Conns
  /\ mutex \in [Conns -> Procs \cup {NoProc}]
  /\ todo \in [Procs -> SUBSET Frame]
  /\ stage \in [Procs -> {"idle", "wait", "write"}]
  /\ DOMAIN at = Procs
  /\ \A p \in Procs : IF stage[p] = "idle" THEN at[p] = NoFrame ELSE at[p] \in Frame
  /\ got \in [Conns -> SUBSET Nat]
=============================================================================
