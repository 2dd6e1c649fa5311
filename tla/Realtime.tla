------------------------------ MODULE Realtime ------------------------------
(***************************************************************************)
(* How a committed version of a workspace document reaches the websockets  *)
(* of the owner and the members.  workspace.Service.BroadcastWorkspace     *)
(* runs after the commit, under no lock, so the pushes of several commits  *)
(* overlap in any order; with Redis they pass through the subscriber of    *)
(* each replica.  The module composes Hub with the requests that commit,   *)
(* the Redis bridge and the handlers of the connections.                   *)
(*                                                                         *)
(* Every writer commits one version.  Requests (Service.Mutate and PUT     *)
(* /workspace) and the consumer announce it; the archive and recurrence    *)
(* jobs call Repo.Update and nothing else, so they are silent.             *)
(***************************************************************************)
EXTENDS Hub, Sequences

CONSTANTS Writers,    \* requests, consumed events and job runs; one commit each
          Replicas,   \* processes of the service; the subscriber has its name
          Users,      \* the workspace's owner and members
          Owner,
          UserOf,     \* connection -> its user
          ReplicaOf   \* writer or connection -> the replica it is on

ASSUME RealtimeAssumption ==
  /\ Owner \in Users
  /\ Writers \subseteq Procs /\ Replicas \subseteq Procs
  /\ UserOf \in [Conns -> Users]
  /\ ReplicaOf \in [Writers \cup Conns -> Replicas]

VARIABLES
  silent,    \* writers that are jobs
  bridged,   \* replicas whose Redis answered when they started
  newest,    \* the version of the document
  version,   \* writer -> the version it committed, or 0
  pc,        \* writer -> where its tail is
  audience,  \* writer -> users it has still to push to
  queue,     \* replica -> Redis messages its subscriber has not handled
  lost,      \* <<version, user>> pushes that failed
  life,      \* connection -> where its handler is
  snapshot   \* connection -> the version its handler loaded, or 0

tailVars == <<silent, bridged, newest, version, pc, audience, queue, lost>>
connVars == <<life, snapshot>>
vars == <<hubVars, tailVars, connVars>>

(* A subscriber on a replica without connections drops what it gets, so
   only these replicas have a queue. *)
Listening == {ReplicaOf[c] : c \in Conns}

Init ==
  /\ HubInit
  /\ silent \in SUBSET Writers
  /\ bridged \in SUBSET Replicas
  /\ newest = 1
  /\ version = [w \in Writers |-> 0]
  /\ pc = [w \in Writers |-> "start"]
  /\ audience = [w \in Writers |-> {}]
  /\ queue = [r \in Listening |-> << >>]
  /\ lost = {}
  /\ life = [c \in Conns |-> "upgraded"]
  /\ snapshot = [c \in Conns |-> 0]

-----------------------------------------------------------------------------
(* The tail of a commit. *)

(* Repo.Update. *)
Commit(w) ==
  /\ pc[w] = "start"
  /\ newest' = newest + 1
  /\ version' = [version EXCEPT ![w] = newest + 1]
  /\ pc' = [pc EXCEPT ![w] = IF w \in silent THEN "done" ELSE "committed"]
  /\ UNCHANGED <<hubVars, connVars, silent, bridged, audience, queue, lost>>

(* BroadcastWorkspace, WorkspaceAudience: the owner and the members, or the
   owner alone when the query fails. *)
WorkspaceAudience(w, us) ==
  /\ pc[w] = "committed"
  /\ us \in {Users, {Owner}}
  /\ audience' = [audience EXCEPT ![w] = us]
  /\ lost' = lost \cup {<<version[w], u>> : u \in Users \ us}
  /\ pc' = [pc EXCEPT ![w] = "pushing"]
  /\ UNCHANGED <<hubVars, connVars, silent, bridged, newest, version, queue>>

(* The owner comes first, the members in the order of the query. *)
Turn(w, u) ==
  /\ pc[w] = "pushing" /\ u \in audience[w]
  /\ Owner \in audience[w] => u = Owner

Local(r, u) == {c \in Conns : UserOf[c] = u /\ ReplicaOf[c] = r}

(* Redis takes the message to every replica that subscribes. *)
Publish(w, u) ==
  /\ Turn(w, u) /\ ReplicaOf[w] \in bridged
  /\ audience' = [audience EXCEPT ![w] = @ \ {u}]
  /\ queue' = [r \in Listening |->
                 IF r \in bridged THEN Append(queue[r], <<version[w], u>>)
                 ELSE queue[r]]
  /\ UNCHANGED <<hubVars, connVars, silent, bridged, newest, version, pc, lost>>

(* The error of a failed PUBLISH is dropped. *)
PublishFails(w, u) ==
  /\ Turn(w, u) /\ ReplicaOf[w] \in bridged
  /\ audience' = [audience EXCEPT ![w] = @ \ {u}]
  /\ lost' = lost \cup {<<version[w], u>>}
  /\ UNCHANGED <<hubVars, connVars, silent, bridged, newest, version, pc, queue>>

(* Without Redis the request itself writes to the connections of its own
   replica, and goes on when they all have the frame. *)
BroadcastLocal(w, u) ==
  /\ Turn(w, u) /\ ReplicaOf[w] \notin bridged
  /\ BroadcastChannel(w, Local(ReplicaOf[w], u), version[w])
  /\ audience' = [audience EXCEPT ![w] = @ \ {u}]
  /\ UNCHANGED <<connVars, silent, bridged, newest, version, pc, queue, lost>>

(* RunSubscriber: one message at a time, broadcast on this replica's hub. *)
RunSubscriber(r) ==
  /\ queue[r] # << >>
  /\ LET m == Head(queue[r]) IN BroadcastChannel(r, Local(r, m[2]), m[1])
  /\ queue' = [queue EXCEPT ![r] = Tail(@)]
  /\ UNCHANGED <<connVars, silent, bridged, newest, version, pc, audience, lost>>

(* Pub/sub keeps nothing for a subscriber that is disconnected or slow. *)
MessageLost(r) ==
  /\ queue[r] # << >>
  /\ lost' = lost \cup {Head(queue[r])}
  /\ queue' = [queue EXCEPT ![r] = Tail(@)]
  /\ UNCHANGED <<hubVars, connVars, silent, bridged, newest, version, pc, audience>>

-----------------------------------------------------------------------------
(* Workspace.ws: the handler of one connection. *)

Step(c, from, to) == life[c] = from /\ life' = [life EXCEPT ![c] = to]

Join(c) ==
  /\ Step(c, "upgraded", "joined")
  /\ Register(c)
  /\ UNCHANGED <<tailVars, snapshot>>

(* Mutant of LoadSnapshot: the workspace is read before Register. *)
LoadBeforeRegister(c) ==
  /\ \/ /\ life[c] = "upgraded" /\ snapshot[c] = 0
        /\ snapshot' = [snapshot EXCEPT ![c] = newest]
        /\ UNCHANGED life
     \/ /\ snapshot[c] # 0 /\ Step(c, "joined", "loaded")
        /\ UNCHANGED snapshot
  /\ UNCHANGED <<hubVars, tailVars>>

(* ResolveForUser, after Register.  The module follows one workspace: a
   connection is one of a user whom this resolves to it. *)
LoadSnapshot(c) ==
  /\ Step(c, "joined", "loaded")
  /\ snapshot' = [snapshot EXCEPT ![c] = newest]
  /\ UNCHANGED <<hubVars, tailVars>>

(* The read failed: the connection is served without a snapshot. *)
LoadFails(c) ==
  /\ Step(c, "joined", "serving")
  /\ UNCHANGED <<hubVars, tailVars, snapshot>>

SendSnapshot(c) ==
  /\ Step(c, "loaded", "sending")
  /\ Send(c, {c}, snapshot[c])
  /\ UNCHANGED <<tailVars, snapshot>>

(* WriteText has returned; the heartbeat starts and the read loop runs. *)
Serve(c) ==
  /\ Step(c, "sending", "serving") /\ Idle(c)
  /\ UNCHANGED <<hubVars, tailVars, snapshot>>

Ping(c) ==
  /\ life[c] = "serving"
  /\ Send(c, {c}, 0)
  /\ UNCHANGED <<tailVars, connVars>>

(* ReadMessage fails: the client left, the pong deadline passed or a failed
   ping closed the connection.  The deferred Unregister runs, then Close,
   whatever the heartbeat or a broadcast is doing with the connection. *)
Leave(c) ==
  /\ Step(c, "serving", "left")
  /\ UnregisterAll(c)
  /\ UNCHANGED <<tailVars, snapshot>>

-----------------------------------------------------------------------------
(* writeFrame of any goroutine. *)
WriteFrame(p) ==
  /\ LookUp(p) \/ Lock(p) \/ WriteMessage(p)
  /\ UNCHANGED <<tailVars, connVars>>

Next ==
  \/ \E w \in Writers :
       \/ Commit(w)
       \/ \E us \in SUBSET Users : WorkspaceAudience(w, us)
       \/ \E u \in Users : Publish(w, u) \/ PublishFails(w, u) \/ BroadcastLocal(w, u)
  \/ \E r \in Listening : RunSubscriber(r) \/ MessageLost(r)
  \/ \E c \in Conns :
       \/ Join(c) \/ LoadSnapshot(c) \/ LoadFails(c) \/ SendSnapshot(c)
       \/ Serve(c) \/ Ping(c) \/ Leave(c)
  \/ \E p \in Procs : WriteFrame(p)

Spec == Init /\ [][Next]_vars

(* Goroutines keep running and writes end at their deadline.  A waiting
   goroutine gets the mutex although the heartbeat takes it again and again:
   sync.Mutex hands it over to one that starves (strong fairness). *)
Fairness ==
  /\ \A w \in Writers :
       WF_vars(\/ \E us \in SUBSET Users : WorkspaceAudience(w, us)
               \/ \E u \in Users : Publish(w, u) \/ BroadcastLocal(w, u))
  /\ \A r \in Listening : WF_vars(RunSubscriber(r))
  /\ \A p \in Procs :
       /\ WF_vars((LookUp(p) \/ WriteMessage(p)) /\ UNCHANGED <<tailVars, connVars>>)
       /\ SF_vars(Lock(p) /\ UNCHANGED <<tailVars, connVars>>)

FairSpec == Spec /\ Fairness

-----------------------------------------------------------------------------
(* Types of the state. *)
TypeOK ==
  /\ HubTypeOK
  /\ silent \subseteq Writers
  /\ bridged \subseteq Replicas
  /\ newest \in Nat
  /\ version \in [Writers -> 0..newest]
  /\ pc \in [Writers -> {"start", "committed", "pushing", "done"}]
  /\ audience \in [Writers -> SUBSET Users]
  /\ queue \in [Listening -> Seq(Nat \X Users)]
  /\ lost \subseteq Nat \X Users
  /\ life \in [Conns -> {"upgraded", "joined", "loaded", "sending", "serving", "left"}]
  /\ snapshot \in [Conns -> 0..newest]

Writing(p, c) == stage[p] = "write" /\ at[p].conn = c

(* At most one goroutine is inside WriteMessage of a connection while it is
   registered: snapshot, broadcasts of several requests and of the
   subscriber, and pings all pass through its write mutex (hub.go). *)
OneWriterWhileJoined ==
  \A c \in joined : \A p, q \in Procs :
    Writing(p, c) /\ Writing(q, c) => p = q

(* A push of this version is meant for the connection: its writer announces
   it, on the connection's replica or over Redis to it, and no failure lost
   it. *)
Reaches(w, c) ==
  /\ version[w] # 0 /\ w \notin silent
  /\ \/ ReplicaOf[w] \in bridged /\ ReplicaOf[c] \in bridged
     \/ ReplicaOf[w] \notin bridged /\ ReplicaOf[w] = ReplicaOf[c]
  /\ <<version[w], UserOf[c]>> \notin lost

Reading(c) ==
  c \in joined /\ life[c] = "serving" /\ snapshot[c] # 0

Current(c, v) == \E n \in got[c] : n >= v

Quiet ==
  /\ \A w \in Writers : pc[w] \in {"start", "done"} \/ (pc[w] = "pushing" /\ audience[w] = {})
  /\ \A r \in Listening : queue[r] = << >>
  /\ \A p \in Procs : Idle(p)

(* Registering before the snapshot is read leaves no gap: once everything
   announced has been delivered, a connected client has been sent the newest
   announced version or a newer one, in whatever order the frames came. *)
CaughtUp ==
  Quiet => \A c \in Conns, w \in Writers :
             Reading(c) /\ Reaches(w, c) => Current(c, version[w])

(* Why the two hold.  A frame is held by the goroutine that is to write it. *)
Carries(p, f) == f \in todo[p] \/ (stage[p] # "idle" /\ at[p] = f)

(* A connection is registered for as long as its handler serves it, and what
   the handler read is sent before its heartbeat starts. *)
HandlersInStep ==
  \A c \in Conns :
    /\ c \in joined <=> life[c] \notin {"upgraded", "left"}
    /\ life[c] \in {"upgraded", "joined"} => snapshot[c] = 0
    /\ life[c] = "sending" /\ snapshot[c] # 0 =>
         Carries(c, [conn |-> c, ver |-> snapshot[c]]) \/ snapshot[c] \in got[c]
    /\ life[c] = "serving" /\ snapshot[c] # 0 => snapshot[c] \in got[c]

(* No frame is for a connection that has still to register, so nobody is
   writing to it without the mutex when it does. *)
FramesAreForJoiners ==
  \A p \in Procs, c \in Conns : life[c] = "upgraded" =>
    /\ \A f \in todo[p] : f.conn # c
    /\ stage[p] # "idle" => at[p].conn # c

WritersHoldMutex ==
  \A p \in Procs : stage[p] = "write" /\ at[p].conn \in joined => mutex[at[p].conn] = p

Queued(c, m) == \E i \in DOMAIN queue[ReplicaOf[c]] : queue[ReplicaOf[c]][i] = m

(* Where the push of w's version to c is. *)
PushUnderWay(w, c) ==
  \/ snapshot[c] >= version[w]
  \/ pc[w] = "committed"
  \/ pc[w] = "pushing" /\ UserOf[c] \in audience[w]
  \/ Queued(c, <<version[w], UserOf[c]>>)
  \/ \E p \in Procs : Carries(p, [conn |-> c, ver |-> version[w]])
  \/ version[w] \in got[c]

NothingMissed ==
  \A c \in Conns, w \in Writers :
    c \in joined /\ snapshot[c] # 0 /\ Reaches(w, c) => PushUnderWay(w, c)

(* The inductive invariant. *)
IndInv ==
  /\ TypeOK /\ HandlersInStep /\ FramesAreForJoiners
  /\ WritersHoldMutex /\ NothingMissed

(* Every announced version reaches each connected client, unless the push
   was lost or the client leaves: no broadcast waits for ever for a write
   mutex. *)
PushArrives ==
  \A c \in Conns, w \in Writers :
    (Reading(c) /\ Reaches(w, c)) ~> (Current(c, version[w]) \/ ~Reading(c) \/ ~Reaches(w, c))
=============================================================================
