--------------------------- MODULE RealtimeProofs ---------------------------
(***************************************************************************)
(* Proofs that a websocket has one writer at a time and that a client that *)
(* is connected misses no announced version, for any number of             *)
(* connections, writers, users and replicas.                               *)
(***************************************************************************)
EXTENDS Realtime, TLAPS

LEMMA ProcNames ==
  /\ Conns \subseteq Procs /\ Writers \subseteq Procs /\ Listening \subseteq Procs
  /\ Listening \subseteq Replicas /\ NoProc \notin Procs
  /\ \A c \in Conns : ReplicaOf[c] \in Listening
BY HubAssumption, RealtimeAssumption DEF Listening

-----------------------------------------------------------------------------
(* The hub: what its operations do to the frames.                          *)

FrameTo(c, v) == [conn |-> c, ver |-> v]

LEMMA SendHub ==
  ASSUME HubTypeOK, NEW p \in Procs, NEW cs \in SUBSET Conns, NEW v \in Nat, Send(p, cs, v)
  PROVE  /\ HubTypeOK'
         /\ UNCHANGED <<joined, mutex, at, stage, got>>
         /\ \A q \in Procs : \A f : Carries(q, f) => Carries(q, f)'
         /\ \A c \in cs : Carries(p, FrameTo(c, v))'
         /\ \A q \in Procs : \A f \in todo'[q] : f \in todo[q] \/ f.conn \in cs
<1>1. /\ todo[p] = {} /\ stage[p] = "idle"
      /\ todo' = [todo EXCEPT ![p] = {FrameTo(c, v) : c \in cs}]
      /\ UNCHANGED <<joined, mutex, at, stage, got>>
  BY DEF Send, Idle, FrameTo
<1>2. \A c \in cs : FrameTo(c, v) \in Frame /\ FrameTo(c, v).conn = c
  BY DEF Frame, FrameTo
<1>3. todo \in [Procs -> SUBSET Frame]
  BY DEF HubTypeOK
<1>4. /\ todo'[p] = {FrameTo(c, v) : c \in cs}
      /\ \A q \in Procs \ {p} : todo'[q] = todo[q]
      /\ todo' \in [Procs -> SUBSET Frame]
  BY <1>1, <1>2, <1>3
<1>5. HubTypeOK'
  BY <1>1, <1>4 DEF HubTypeOK
<1>6. \A q \in Procs : \A f : Carries(q, f) => Carries(q, f)'
  BY <1>1, <1>4 DEF Carries
<1>7. \A c \in cs : Carries(p, FrameTo(c, v))'
  BY <1>4 DEF Carries
<1>8. \A q \in Procs : \A f \in todo'[q] : f \in todo[q] \/ f.conn \in cs
  BY <1>2, <1>4
<1>. QED
  BY <1>1, <1>5, <1>6, <1>7, <1>8

\* A frame that is being written stays with its goroutine until its client
\* has it, and no frame comes from nowhere.
LEMMA WriteHub ==
  ASSUME HubTypeOK, NEW p \in Procs, LookUp(p) \/ Lock(p) \/ WriteMessage(p)
  PROVE  /\ HubTypeOK' /\ joined' = joined
         /\ \A q \in Procs : \A f : Carries(q, f) =>
              Carries(q, f)' \/ f.ver = 0 \/ (f.conn \in Conns /\ f.ver \in got'[f.conn])
         /\ \A q \in Procs : todo'[q] \subseteq todo[q]
         /\ \A q \in Procs : stage'[q] # "idle" => Carries(q, at'[q])
         /\ \A c \in Conns : got[c] \subseteq got'[c]
<1> USE DEF HubTypeOK
<1>1. CASE LookUp(p)
  <2>1. PICK f \in todo[p] :
          /\ stage[p] = "idle"
          /\ todo' = [todo EXCEPT ![p] = @ \ {f}]
          /\ at' = [at EXCEPT ![p] = f]
          /\ stage' = [stage EXCEPT ![p] = IF f.conn \in joined THEN "wait" ELSE "write"]
          /\ UNCHANGED <<joined, mutex, got>>
    BY <1>1 DEF LookUp
  <2>2. /\ todo'[p] = todo[p] \ {f} /\ at'[p] = f /\ stage'[p] \in {"wait", "write"}
        /\ \A q \in Procs \ {p} : todo'[q] = todo[q] /\ at'[q] = at[q] /\ stage'[q] = stage[q]
        /\ f \in Frame
    BY <2>1
  <2>3. HubTypeOK'
    BY <2>1, <2>2
  <2>4. \A q \in Procs : \A g : Carries(q, g) => Carries(q, g)'
    BY <2>1, <2>2 DEF Carries
  <2>5. \A q \in Procs : stage'[q] # "idle" => Carries(q, at'[q])
    BY <2>2 DEF Carries
  <2>. QED BY <2>1, <2>2, <2>3, <2>4, <2>5
<1>2. CASE Lock(p)
  <2>1. /\ stage[p] = "wait"
        /\ mutex' = [mutex EXCEPT ![at[p].conn] = p]
        /\ stage' = [stage EXCEPT ![p] = "write"]
        /\ UNCHANGED <<joined, todo, at, got>>
    BY <1>2 DEF Lock
  <2>2. at[p].conn \in Conns
    BY <2>1 DEF Frame
  <2>3. HubTypeOK'
    BY <2>1, <2>2
  <2>4. \A q \in Procs : (stage[q] = "idle" <=> stage'[q] = "idle")
    BY <2>1
  <2>. QED BY <2>1, <2>3, <2>4 DEF Carries
<1>3. CASE WriteMessage(p)
  <2> DEFINE c == at[p].conn
  <2>1. /\ stage[p] = "write"
        /\ got' = IF at[p].ver = 0 THEN got
                  ELSE [got EXCEPT ![c] = @ \cup {at[p].ver}]
        /\ mutex' = IF mutex[c] = p THEN [mutex EXCEPT ![c] = NoProc] ELSE mutex
        /\ stage' = [stage EXCEPT ![p] = "idle"]
        /\ at' = [at EXCEPT ![p] = NoFrame]
        /\ UNCHANGED <<joined, todo>>
    BY <1>3 DEF WriteMessage
  <2>2. c \in Conns /\ at[p].ver \in Nat
    BY <2>1 DEF Frame
  <2>3. /\ \A q \in Procs \ {p} : at'[q] = at[q] /\ stage'[q] = stage[q]
        /\ stage'[p] = "idle" /\ at'[p] = NoFrame
        /\ mutex' \in [Conns -> Procs \cup {NoProc}]
        /\ got' \in [Conns -> SUBSET Nat]
        /\ DOMAIN at' = Procs
        /\ stage' \in [Procs -> {"idle", "wait", "write"}]
    BY <2>1, <2>2
  <2>4. at[p].ver # 0 => at[p].ver \in got'[c]
    BY <2>1, <2>2
  <2>5. \A d \in Conns : got[d] \subseteq got'[d]
    BY <2>1, <2>2
  <2>6. HubTypeOK'
    BY <2>1, <2>3
  <2>7. \A q \in Procs : \A g : Carries(q, g) => Carries(q, g)' \/ (q = p /\ g = at[p])
    BY <2>1, <2>3 DEF Carries
  <2>8. \A q \in Procs : stage'[q] # "idle" => Carries(q, at'[q])
    BY <2>3 DEF Carries
  <2>. QED BY <2>1, <2>2, <2>4, <2>5, <2>6, <2>7, <2>8
<1>. QED
  BY <1>1, <1>2, <1>3

\* The mutex protocol.
LEMMA WriteMutex ==
  ASSUME HubTypeOK, WritersHoldMutex, NEW p \in Procs, LookUp(p) \/ Lock(p) \/ WriteMessage(p)
  PROVE  WritersHoldMutex'
<1> USE DEF HubTypeOK
<1>1. CASE LookUp(p)
  <2>1. PICK f \in todo[p] :
          /\ at' = [at EXCEPT ![p] = f]
          /\ stage' = [stage EXCEPT ![p] = IF f.conn \in joined THEN "wait" ELSE "write"]
          /\ UNCHANGED <<joined, mutex>>
    BY <1>1 DEF LookUp
  <2>2. /\ at'[p] = f /\ stage'[p] = IF f.conn \in joined THEN "wait" ELSE "write"
        /\ \A q \in Procs \ {p} : at'[q] = at[q] /\ stage'[q] = stage[q]
    BY <2>1
  <2>. QED BY <2>1, <2>2 DEF WritersHoldMutex
<1>2. CASE Lock(p)
  <2>1. /\ stage[p] = "wait" /\ mutex[at[p].conn] = NoProc /\ at[p].conn \in Conns
        /\ mutex' = [mutex EXCEPT ![at[p].conn] = p]
        /\ stage' = [stage EXCEPT ![p] = "write"]
        /\ UNCHANGED <<joined, at>>
    BY <1>2 DEF Lock, Frame
  <2>2. mutex'[at[p].conn] = p /\ \A c \in Conns : c # at[p].conn => mutex'[c] = mutex[c]
    BY <2>1
  <2>3. ASSUME NEW q \in Procs, q # p, stage'[q] = "write", at[q].conn \in joined
        PROVE  mutex'[at[q].conn] = q
    <3>1. mutex[at[q].conn] = q
      BY <2>1, <2>3 DEF WritersHoldMutex
    <3>. QED BY <2>1, <2>2, <2>3, <3>1, ProcNames
  <2>. QED BY <2>1, <2>2, <2>3 DEF WritersHoldMutex
<1>3. CASE WriteMessage(p)
  <2> DEFINE c == at[p].conn
  <2>1. /\ stage[p] = "write"
        /\ mutex' = IF mutex[c] = p THEN [mutex EXCEPT ![c] = NoProc] ELSE mutex
        /\ stage' = [stage EXCEPT ![p] = "idle"]
        /\ at' = [at EXCEPT ![p] = NoFrame]
        /\ UNCHANGED joined
    BY <1>3 DEF WriteMessage
  <2>2. /\ stage'[p] = "idle"
        /\ \A q \in Procs \ {p} : at'[q] = at[q] /\ stage'[q] = stage[q]
        /\ \A d \in Conns : mutex[d] # p => mutex'[d] = mutex[d]
    BY <2>1
  <2>3. ASSUME NEW q \in Procs, q # p, stage[q] = "write", at[q].conn \in joined
        PROVE  mutex'[at[q].conn] = q
    <3>1. mutex[at[q].conn] = q /\ at[q].conn \in Conns
      BY <2>3 DEF WritersHoldMutex
    <3>. QED BY <2>2, <2>3, <3>1
  <2>. QED BY <2>1, <2>2, <2>3 DEF WritersHoldMutex
<1>. QED
  BY <1>1, <1>2, <1>3

-----------------------------------------------------------------------------
LEMMA InitInv == Init => IndInv
<1> SUFFICES ASSUME Init PROVE IndInv
  OBVIOUS
<1> USE DEF Init, HubInit
<1>1. TypeOK
  <2>1. HubTypeOK
    BY DEF HubTypeOK
  <2>2. queue \in [Listening -> Seq(Nat \X Users)]
    <3>1. << >> \in Seq(Nat \X Users)
      OBVIOUS
    <3>. QED BY <3>1
  <2>. QED BY <2>1, <2>2 DEF TypeOK
<1>2. HandlersInStep
  BY DEF HandlersInStep
<1>3. FramesAreForJoiners /\ WritersHoldMutex
  BY ProcNames DEF FramesAreForJoiners, WritersHoldMutex
<1>4. NothingMissed
  BY DEF NothingMissed
<1>. QED
  BY <1>1, <1>2, <1>3, <1>4 DEF IndInv

\* A step that leaves the connections and the hub alone.
LEMMA TailKeeps ==
  ASSUME IndInv, UNCHANGED <<hubVars, connVars>>
  PROVE  HubTypeOK' /\ HandlersInStep' /\ FramesAreForJoiners' /\ WritersHoldMutex'
<1>1. UNCHANGED <<joined, mutex, todo, at, stage, got, life, snapshot>>
  BY DEF hubVars, connVars
<1>2. HubTypeOK'
  BY <1>1 DEF IndInv, TypeOK, HubTypeOK
<1>3. HandlersInStep'
  BY <1>1 DEF IndInv, HandlersInStep, Carries
<1>. QED
  BY <1>1, <1>2, <1>3 DEF IndInv, FramesAreForJoiners, WritersHoldMutex

-----------------------------------------------------------------------------
(* The tail of a commit.                                                   *)

LEMMA CommitKeeps ==
  ASSUME IndInv, NEW w \in Writers, Commit(w) PROVE IndInv'
<1> USE DEF IndInv
<1>1. /\ pc[w] = "start" /\ newest' = newest + 1
      /\ version' = [version EXCEPT ![w] = newest + 1]
      /\ pc' = [pc EXCEPT ![w] = IF w \in silent THEN "done" ELSE "committed"]
      /\ UNCHANGED <<hubVars, connVars>> /\ UNCHANGED <<silent, bridged, audience, queue, lost>>
      /\ UNCHANGED <<joined, todo, at, stage, got, snapshot>>
  BY DEF Commit, hubVars, connVars
<1>2. HubTypeOK' /\ HandlersInStep' /\ FramesAreForJoiners' /\ WritersHoldMutex'
  BY <1>1, TailKeeps
<1>3. TypeOK'
  <2>1. newest \in Nat /\ newest' \in Nat /\ 0..newest \subseteq 0..newest' /\ newest + 1 \in 0..newest'
    BY <1>1 DEF TypeOK
  <2>2. version' \in [Writers -> 0..newest'] /\ snapshot' \in [Conns -> 0..newest']
    BY <1>1, <2>1 DEF TypeOK
  <2>3. pc' \in [Writers -> {"start", "committed", "pushing", "done"}]
    BY <1>1 DEF TypeOK
  <2>4. life' = life
    BY <1>1 DEF connVars
  <2>. QED BY <1>1, <1>2, <2>1, <2>2, <2>3, <2>4 DEF TypeOK
<1>4. NothingMissed'
  <2> SUFFICES ASSUME NEW c \in Conns, NEW x \in Writers,
                      c \in joined, snapshot[c] # 0, Reaches(x, c)'
               PROVE  PushUnderWay(x, c)'
    BY <1>1 DEF NothingMissed
  <2>1. CASE x = w
    BY <1>1, <2>1 DEF TypeOK, Reaches, PushUnderWay
  <2>2. CASE x # w
    <3>1. version'[x] = version[x] /\ pc'[x] = pc[x]
      BY <1>1, <2>2 DEF TypeOK
    <3>2. Reaches(x, c)
      BY <1>1, <3>1 DEF Reaches
    <3>3. PushUnderWay(x, c)
      BY <3>2 DEF NothingMissed
    <3>. QED BY <1>1, <3>1, <3>3 DEF PushUnderWay, Queued, Carries
  <2>. QED BY <2>1, <2>2
<1>. QED
  BY <1>2, <1>3, <1>4

\* The types, after a step of w's tail.
LEMMA TailTypes ==
  ASSUME TypeOK, HubTypeOK', UNCHANGED <<life, snapshot, silent, bridged, newest, version>>,
         pc' \in [Writers -> {"start", "committed", "pushing", "done"}],
         audience' \in [Writers -> SUBSET Users],
         queue' \in [Listening -> Seq(Nat \X Users)],
         lost' \subseteq Nat \X Users
  PROVE  TypeOK'
BY DEF TypeOK

LEMMA AudienceKeeps ==
  ASSUME IndInv, NEW w \in Writers, NEW us \in SUBSET Users, WorkspaceAudience(w, us)
  PROVE  IndInv'
<1> USE DEF IndInv
<1>1. /\ pc[w] = "committed"
      /\ audience' = [audience EXCEPT ![w] = us]
      /\ lost' = lost \cup {<<version[w], u>> : u \in Users \ us}
      /\ pc' = [pc EXCEPT ![w] = "pushing"]
      /\ UNCHANGED <<hubVars, connVars>> /\ UNCHANGED <<silent, bridged, newest, version, queue>>
      /\ UNCHANGED <<joined, todo, at, stage, got, life, snapshot>>
  BY DEF WorkspaceAudience, hubVars, connVars
<1>2. HubTypeOK' /\ HandlersInStep' /\ FramesAreForJoiners' /\ WritersHoldMutex'
  BY <1>1, TailKeeps
<1>3. TypeOK'
  <2>1. version[w] \in Nat
    BY DEF TypeOK
  <2>2. lost' \subseteq Nat \X Users
    BY <1>1, <2>1 DEF TypeOK
  <2>3. pc' \in [Writers -> {"start", "committed", "pushing", "done"}]
    BY <1>1 DEF TypeOK
  <2>4. audience' \in [Writers -> SUBSET Users] /\ queue' \in [Listening -> Seq(Nat \X Users)]
    BY <1>1 DEF TypeOK
  <2>. QED BY <1>1, <1>2, <2>2, <2>3, <2>4, TailTypes
<1>4. NothingMissed'
  <2> SUFFICES ASSUME NEW c \in Conns, NEW x \in Writers,
                      c \in joined, snapshot[c] # 0, Reaches(x, c)'
               PROVE  PushUnderWay(x, c)'
    BY <1>1 DEF NothingMissed
  <2>1. CASE x = w
    <3>1. UserOf[c] \in Users
      BY RealtimeAssumption
    <3>2. UserOf[c] \in us
      BY <1>1, <2>1, <3>1 DEF Reaches
    <3>3. pc'[w] = "pushing" /\ audience'[w] = us
      BY <1>1 DEF TypeOK
    <3>. QED BY <2>1, <3>2, <3>3 DEF PushUnderWay
  <2>2. CASE x # w
    <3>1. audience'[x] = audience[x] /\ pc'[x] = pc[x]
      BY <1>1, <2>2 DEF TypeOK
    <3>2. PushUnderWay(x, c)
      BY <1>1 DEF Reaches, NothingMissed
    <3>. QED BY <1>1, <3>1, <3>2 DEF PushUnderWay, Queued, Carries
  <2>. QED BY <2>1, <2>2
<1>. QED
  BY <1>2, <1>3, <1>4

\* Whatever pushes are under way stay so when u is taken off w's audience,
\* but for w's to u.
LEMMA TurnKeeps ==
  ASSUME IndInv, NEW w \in Writers, NEW u \in Users,
         audience' = [audience EXCEPT ![w] = @ \ {u}],
         UNCHANGED <<silent, bridged, version, pc, joined, snapshot>>,
         \A c \in Conns : \A m : Queued(c, m) => Queued(c, m)',
         \A q \in Procs : \A f : Carries(q, f) => Carries(q, f)',
         UNCHANGED got,
         lost \subseteq lost',
         \A c \in Conns : UserOf[c] = u /\ c \in joined /\ Reaches(w, c)' /\ pc[w] = "pushing"
                            => PushUnderWay(w, c)'
  PROVE  NothingMissed' /\ audience' \in [Writers -> SUBSET Users]
<1> USE DEF IndInv
<1>1. audience' \in [Writers -> SUBSET Users]
  BY DEF TypeOK
<1>2. ASSUME NEW c \in Conns, NEW x \in Writers, c \in joined, snapshot[c] # 0, Reaches(x, c)'
      PROVE  PushUnderWay(x, c)'
  <2>1. PushUnderWay(x, c)
    BY <1>2 DEF Reaches, NothingMissed
  <2>2. CASE pc[x] = "pushing" /\ UserOf[c] \in audience[x] /\ ~(x = w /\ UserOf[c] = u)
    <3>1. UserOf[c] \in audience'[x]
      BY <2>2 DEF TypeOK
    <3>. QED BY <2>2, <3>1 DEF PushUnderWay
  <2>3. CASE x = w /\ UserOf[c] = u /\ pc[w] = "pushing"
    BY <1>2, <2>3
  <2>4. CASE ~(pc[x] = "pushing" /\ UserOf[c] \in audience[x])
    BY <2>1, <2>4 DEF PushUnderWay
  <2>. QED BY <2>2, <2>3, <2>4
<1>. QED
  BY <1>1, <1>2 DEF NothingMissed

LEMMA PublishKeeps ==
  ASSUME IndInv, NEW w \in Writers, NEW u \in Users, Publish(w, u) PROVE IndInv'
<1> USE DEF IndInv
<1> DEFINE m == <<version[w], u>>
<1>1. /\ ReplicaOf[w] \in bridged
      /\ audience' = [audience EXCEPT ![w] = @ \ {u}]
      /\ queue' = [r \in Listening |-> IF r \in bridged THEN Append(queue[r], m) ELSE queue[r]]
      /\ UNCHANGED <<hubVars, connVars>> /\ UNCHANGED <<silent, bridged, newest, version, pc, lost>>
      /\ UNCHANGED <<joined, todo, at, stage, got, life, snapshot>>
  BY DEF Publish, hubVars, connVars
<1>2. HubTypeOK' /\ HandlersInStep' /\ FramesAreForJoiners' /\ WritersHoldMutex'
  BY <1>1, TailKeeps
<1>3. version[w] \in Nat /\ m \in Nat \X Users
  BY DEF TypeOK
<1>4. queue \in [Listening -> Seq(Nat \X Users)]
  BY DEF TypeOK
<1> HIDE DEF m
<1>5. ASSUME NEW r \in Listening
      PROVE  /\ queue'[r] \in Seq(Nat \X Users)
             /\ \A i \in DOMAIN queue[r] : i \in DOMAIN queue'[r] /\ queue'[r][i] = queue[r][i]
             /\ r \in bridged => \E i \in DOMAIN queue'[r] : queue'[r][i] = m
  <2>1. queue[r] \in Seq(Nat \X Users) /\ Len(queue[r]) \in Nat
    BY <1>4
  <2>2. CASE r \in bridged
    <3>1. queue'[r] = Append(queue[r], m)
      BY <1>1, <2>2
    <3>2. queue'[r][Len(queue[r]) + 1] = m /\ Len(queue[r]) + 1 \in DOMAIN queue'[r]
      BY <1>3, <2>1, <3>1
    <3>. QED BY <1>3, <2>1, <3>1, <3>2
  <2>3. CASE r \notin bridged
    BY <1>1, <2>1, <2>3
  <2>. QED BY <2>2, <2>3
<1>6. queue' \in [Listening -> Seq(Nat \X Users)]
  BY <1>1, <1>5
<1>7. \A c \in Conns : \A x : Queued(c, x) => Queued(c, x)'
  BY <1>5, ProcNames DEF Queued
<1>8. \A q \in Procs : \A f : Carries(q, f) => Carries(q, f)'
  BY <1>1 DEF Carries
<1>9. ASSUME NEW c \in Conns, UserOf[c] = u, Reaches(w, c)' PROVE PushUnderWay(w, c)'
  <2>1. ReplicaOf[c] \in bridged /\ ReplicaOf[c] \in Listening
    BY <1>1, <1>9, ProcNames DEF Reaches
  <2>2. Queued(c, m)'
    BY <1>1, <1>5, <2>1 DEF Queued, m
  <2>3. Queued(c, <<version[w], UserOf[c]>>)'
    BY <1>1, <1>9, <2>2 DEF m
  <2>. QED BY <2>3 DEF PushUnderWay
<1>10. NothingMissed' /\ audience' \in [Writers -> SUBSET Users]
  BY <1>1, <1>7, <1>8, <1>9, TurnKeeps
<1>11. pc' \in [Writers -> {"start", "committed", "pushing", "done"}] /\ lost' \subseteq Nat \X Users
  BY <1>1 DEF TypeOK
<1>12. TypeOK'
  BY <1>1, <1>2, <1>6, <1>10, <1>11, TailTypes
<1>. QED
  BY <1>2, <1>10, <1>12

LEMMA PublishFailsKeeps ==
  ASSUME IndInv, NEW w \in Writers, NEW u \in Users, PublishFails(w, u) PROVE IndInv'
<1> USE DEF IndInv
<1>1. /\ audience' = [audience EXCEPT ![w] = @ \ {u}]
      /\ lost' = lost \cup {<<version[w], u>>}
      /\ UNCHANGED <<hubVars, connVars>> /\ UNCHANGED <<silent, bridged, newest, version, pc, queue>>
      /\ UNCHANGED <<joined, todo, at, stage, got, life, snapshot>>
  BY DEF PublishFails, hubVars, connVars
<1>2. HubTypeOK' /\ HandlersInStep' /\ FramesAreForJoiners' /\ WritersHoldMutex'
  BY <1>1, TailKeeps
<1>3. \A c \in Conns : UserOf[c] = u => ~Reaches(w, c)'
  BY <1>1 DEF Reaches
<1>4. /\ \A c \in Conns : \A m : Queued(c, m) => Queued(c, m)'
      /\ \A q \in Procs : \A f : Carries(q, f) => Carries(q, f)'
  BY <1>1 DEF Queued, Carries
<1>5. NothingMissed' /\ audience' \in [Writers -> SUBSET Users]
  BY <1>1, <1>3, <1>4, TurnKeeps
<1>6. /\ pc' \in [Writers -> {"start", "committed", "pushing", "done"}]
      /\ lost' \subseteq Nat \X Users /\ queue' \in [Listening -> Seq(Nat \X Users)]
  <2>1. version[w] \in Nat
    BY DEF TypeOK
  <2>. QED BY <1>1, <2>1 DEF TypeOK
<1>7. TypeOK'
  BY <1>1, <1>2, <1>5, <1>6, TailTypes
<1>. QED
  BY <1>2, <1>5, <1>7

\* A broadcast on the hub, by a request or by the subscriber: it reaches the
\* connections that are registered, and no others.
LEMMA BroadcastKeeps ==
  ASSUME IndInv, NEW p \in Procs, NEW cs \in SUBSET Conns, NEW v \in Nat,
         BroadcastChannel(p, cs, v), UNCHANGED connVars
  PROVE  /\ HubTypeOK' /\ HandlersInStep' /\ FramesAreForJoiners' /\ WritersHoldMutex'
         /\ UNCHANGED <<joined, got, life, snapshot>>
         /\ \A q \in Procs : \A f : Carries(q, f) => Carries(q, f)'
         /\ \A c \in cs \cap joined : Carries(p, FrameTo(c, v))'
<1> USE DEF IndInv
<1>1. Send(p, cs \cap joined, v) /\ HubTypeOK /\ cs \cap joined \in SUBSET Conns
  BY DEF BroadcastChannel, TypeOK
<1>2. /\ HubTypeOK'
      /\ UNCHANGED <<joined, mutex, at, stage, got>>
      /\ \A q \in Procs : \A f : Carries(q, f) => Carries(q, f)'
      /\ \A c \in cs \cap joined : Carries(p, FrameTo(c, v))'
      /\ \A q \in Procs : \A f \in todo'[q] : f \in todo[q] \/ f.conn \in cs \cap joined
  BY <1>1, SendHub
<1>3. UNCHANGED <<life, snapshot>>
  BY DEF connVars
<1>4. WritersHoldMutex'
  BY <1>2 DEF WritersHoldMutex
<1>5. FramesAreForJoiners'
  <2>1. \A c \in cs \cap joined : life[c] # "upgraded"
    BY DEF HandlersInStep
  <2>. QED BY <1>2, <1>3, <2>1 DEF FramesAreForJoiners
<1>6. HandlersInStep'
  BY <1>2, <1>3, ProcNames DEF HandlersInStep, FrameTo
<1>. QED
  BY <1>2, <1>3, <1>4, <1>5, <1>6

LEMMA BroadcastLocalKeeps ==
  ASSUME IndInv, NEW w \in Writers, NEW u \in Users, BroadcastLocal(w, u) PROVE IndInv'
<1> USE DEF IndInv
<1> DEFINE cs == Local(ReplicaOf[w], u)
<1>1. /\ ReplicaOf[w] \notin bridged
      /\ BroadcastChannel(w, cs, version[w])
      /\ audience' = [audience EXCEPT ![w] = @ \ {u}]
      /\ UNCHANGED connVars /\ UNCHANGED <<silent, bridged, newest, version, pc, queue, lost>>
  BY DEF BroadcastLocal
<1>2. w \in Procs /\ cs \in SUBSET Conns /\ version[w] \in Nat
  BY ProcNames DEF TypeOK, Local
<1>3. /\ HubTypeOK' /\ HandlersInStep' /\ FramesAreForJoiners' /\ WritersHoldMutex'
      /\ UNCHANGED <<joined, got, life, snapshot>>
      /\ \A q \in Procs : \A f : Carries(q, f) => Carries(q, f)'
      /\ \A c \in cs \cap joined : Carries(w, FrameTo(c, version[w]))'
  <2> HIDE DEF cs
  <2>. QED BY <1>1, <1>2, BroadcastKeeps
<1>4. ASSUME NEW c \in Conns, UserOf[c] = u, c \in joined, Reaches(w, c)'
      PROVE  PushUnderWay(w, c)'
  <2>1. c \in cs \cap joined
    BY <1>1, <1>4 DEF Reaches, Local
  <2>2. Carries(w, FrameTo(c, version[w]))'
    BY <1>3, <2>1
  <2>. QED BY <1>1, <1>2, <2>2 DEF PushUnderWay, FrameTo
<1>5. \A c \in Conns : \A m : Queued(c, m) => Queued(c, m)'
  BY <1>1 DEF Queued
<1>6. NothingMissed' /\ audience' \in [Writers -> SUBSET Users]
  BY <1>1, <1>3, <1>4, <1>5, TurnKeeps
<1>7. /\ pc' \in [Writers -> {"start", "committed", "pushing", "done"}]
      /\ lost' \subseteq Nat \X Users /\ queue' \in [Listening -> Seq(Nat \X Users)]
  BY <1>1 DEF TypeOK
<1>8. TypeOK'
  BY <1>1, <1>3, <1>6, <1>7, TailTypes
<1>. QED
  BY <1>3, <1>6, <1>8

-----------------------------------------------------------------------------
(* The Redis subscriber.                                                   *)

\* Taking the first message leaves the others queued.
LEMMA DequeueKeeps ==
  ASSUME TypeOK, NEW r \in Listening, queue[r] # << >>, queue' = [queue EXCEPT ![r] = Tail(@)]
  PROVE  /\ Head(queue[r]) \in Nat \X Users
         /\ queue' \in [Listening -> Seq(Nat \X Users)]
         /\ \A c \in Conns : \A m : Queued(c, m) =>
              Queued(c, m)' \/ (ReplicaOf[c] = r /\ m = Head(queue[r]))
<1>1. queue \in [Listening -> Seq(Nat \X Users)]
  BY DEF TypeOK
<1>2. queue[r] \in Seq(Nat \X Users)
  BY <1>1
<1>3. /\ Head(queue[r]) = queue[r][1] /\ Head(queue[r]) \in Nat \X Users
      /\ Tail(queue[r]) \in Seq(Nat \X Users)
      /\ \A i \in DOMAIN queue[r] : i # 1 =>
           i - 1 \in DOMAIN Tail(queue[r]) /\ Tail(queue[r])[i - 1] = queue[r][i]
  BY <1>2
<1>4. queue' \in [Listening -> Seq(Nat \X Users)] /\ queue'[r] = Tail(queue[r])
  BY <1>1, <1>3
<1>5. ASSUME NEW c \in Conns, NEW m, Queued(c, m), ~(ReplicaOf[c] = r /\ m = Head(queue[r]))
      PROVE  Queued(c, m)'
  <2>1. CASE ReplicaOf[c] = r
    <3>1. PICK i \in DOMAIN queue[r] : queue[r][i] = m
      BY <1>5, <2>1 DEF Queued
    <3>2. i # 1
      BY <1>3, <1>5, <2>1, <3>1
    <3>3. i - 1 \in DOMAIN queue'[r] /\ queue'[r][i - 1] = m
      BY <1>3, <1>4, <3>1, <3>2
    <3>. QED BY <2>1, <3>3 DEF Queued
  <2>2. CASE ReplicaOf[c] # r
    <3>1. queue'[ReplicaOf[c]] = queue[ReplicaOf[c]]
      BY <1>1, <2>2, ProcNames
    <3>. QED BY <1>5, <3>1 DEF Queued
  <2>. QED BY <2>1, <2>2
<1>. QED
  BY <1>3, <1>4, <1>5

LEMMA SubscriberKeeps ==
  ASSUME IndInv, NEW r \in Listening, RunSubscriber(r) PROVE IndInv'
<1> USE DEF IndInv
<1>. PICK m : m = Head(queue[r])
  OBVIOUS
<1> DEFINE cs == Local(r, m[2])
<1>1. /\ queue[r] # << >>
      /\ BroadcastChannel(r, cs, m[1])
      /\ queue' = [queue EXCEPT ![r] = Tail(@)]
      /\ UNCHANGED connVars
      /\ UNCHANGED <<silent, bridged, newest, version, pc, audience, lost>>
  BY DEF RunSubscriber
<1>2. /\ m \in Nat \X Users
      /\ queue' \in [Listening -> Seq(Nat \X Users)]
      /\ \A c \in Conns : \A x : Queued(c, x) => Queued(c, x)' \/ (ReplicaOf[c] = r /\ x = m)
  BY <1>1, DequeueKeeps
<1>3. r \in Procs /\ cs \in SUBSET Conns /\ m[1] \in Nat
  BY <1>2, ProcNames DEF Local
<1>4. /\ HubTypeOK' /\ HandlersInStep' /\ FramesAreForJoiners' /\ WritersHoldMutex'
      /\ UNCHANGED <<joined, got, life, snapshot>>
      /\ \A q \in Procs : \A f : Carries(q, f) => Carries(q, f)'
      /\ \A c \in cs \cap joined : Carries(r, FrameTo(c, m[1]))'
  <2> HIDE DEF cs
  <2>. QED BY <1>1, <1>3, BroadcastKeeps
<1>5. TypeOK'
  <2>1. /\ pc' \in [Writers -> {"start", "committed", "pushing", "done"}]
        /\ audience' \in [Writers -> SUBSET Users] /\ lost' \subseteq Nat \X Users
    BY <1>1 DEF TypeOK
  <2>. QED BY <1>1, <1>2, <1>4, <2>1, TailTypes
<1>6. ASSUME NEW c \in Conns, NEW w \in Writers, c \in joined, snapshot[c] # 0, Reaches(w, c)'
      PROVE  PushUnderWay(w, c)'
  <2>1. PushUnderWay(w, c)
    BY <1>1, <1>6 DEF Reaches, NothingMissed
  <2>2. CASE Queued(c, <<version[w], UserOf[c]>>)
    <3>1. CASE ReplicaOf[c] = r /\ <<version[w], UserOf[c]>> = m
      <4>1. c \in cs \cap joined /\ m[1] = version[w]
        BY <1>6, <3>1 DEF Local
      <4>2. Carries(r, FrameTo(c, version[w]))'
        BY <1>1, <1>4, <4>1
      <4>. QED BY <1>1, <1>3, <4>2 DEF PushUnderWay, FrameTo
    <3>2. CASE Queued(c, <<version[w], UserOf[c]>>)'
      BY <1>1, <3>2 DEF PushUnderWay
    <3>. QED BY <1>1, <1>2, <2>2, <3>1, <3>2
  <2>3. CASE ~Queued(c, <<version[w], UserOf[c]>>)
    BY <1>1, <1>4, <2>1, <2>3 DEF PushUnderWay
  <2>. QED BY <2>2, <2>3
<1>7. NothingMissed'
  BY <1>4, <1>6 DEF NothingMissed
<1>. QED
  BY <1>4, <1>5, <1>7

LEMMA MessageLostKeeps ==
  ASSUME IndInv, NEW r \in Listening, MessageLost(r) PROVE IndInv'
<1> USE DEF IndInv
<1>1. /\ queue[r] # << >>
      /\ lost' = lost \cup {Head(queue[r])}
      /\ queue' = [queue EXCEPT ![r] = Tail(@)]
      /\ UNCHANGED <<hubVars, connVars>>
      /\ UNCHANGED <<silent, bridged, newest, version, pc, audience>>
      /\ UNCHANGED <<joined, todo, at, stage, got, life, snapshot>>
  BY DEF MessageLost, hubVars, connVars
<1>2. HubTypeOK' /\ HandlersInStep' /\ FramesAreForJoiners' /\ WritersHoldMutex'
  BY <1>1, TailKeeps
<1>3. /\ Head(queue[r]) \in Nat \X Users
      /\ queue' \in [Listening -> Seq(Nat \X Users)]
      /\ \A c \in Conns : \A x : Queued(c, x) =>
           Queued(c, x)' \/ (ReplicaOf[c] = r /\ x = Head(queue[r]))
  BY <1>1, DequeueKeeps
<1>4. TypeOK'
  <2>1. /\ pc' \in [Writers -> {"start", "committed", "pushing", "done"}]
        /\ audience' \in [Writers -> SUBSET Users] /\ lost' \subseteq Nat \X Users
    BY <1>1, <1>3 DEF TypeOK
  <2>. QED BY <1>1, <1>2, <1>3, <2>1, TailTypes
<1>5. ASSUME NEW c \in Conns, NEW w \in Writers, c \in joined, snapshot[c] # 0, Reaches(w, c)'
      PROVE  PushUnderWay(w, c)'
  <2>1. PushUnderWay(w, c)
    BY <1>1, <1>5 DEF Reaches, NothingMissed
  <2>2. <<version[w], UserOf[c]>> # Head(queue[r])
    BY <1>1, <1>5 DEF Reaches
  <2>3. Queued(c, <<version[w], UserOf[c]>>) => Queued(c, <<version[w], UserOf[c]>>)'
    BY <1>1, <1>3, <2>2
  <2>. QED BY <1>1, <2>1, <2>3 DEF PushUnderWay, Carries
<1>6. NothingMissed'
  BY <1>1, <1>5 DEF NothingMissed
<1>. QED
  BY <1>2, <1>4, <1>6

-----------------------------------------------------------------------------
(* The handlers of the connections.                                        *)

LEMMA TailSame ==
  ASSUME UNCHANGED tailVars
  PROVE  UNCHANGED <<silent, bridged, newest, version, pc, audience, queue, lost>>
BY DEF tailVars

LEMMA ConnTypes ==
  ASSUME TypeOK, HubTypeOK', UNCHANGED tailVars,
         life' \in [Conns -> {"upgraded", "joined", "loaded", "sending", "serving", "left"}],
         snapshot' \in [Conns -> 0..newest]
  PROVE  TypeOK'
BY TailSame DEF TypeOK

LEMMA StepLife ==
  ASSUME TypeOK, NEW c \in Conns, NEW from, NEW to, Step(c, from, to),
         to \in {"upgraded", "joined", "loaded", "sending", "serving", "left"}
  PROVE  /\ life[c] = from /\ life'[c] = to /\ \A d \in Conns \ {c} : life'[d] = life[d]
         /\ life' \in [Conns -> {"upgraded", "joined", "loaded", "sending", "serving", "left"}]
BY DEF Step, TypeOK

\* Nothing is missed when only the connection c takes a step and frames stay
\* with their goroutines.
LEMMA ConnMissesNothing ==
  ASSUME IndInv, NEW c \in Conns, UNCHANGED tailVars,
         UNCHANGED got,
         \A q \in Procs : \A f : Carries(q, f) => Carries(q, f)',
         \A d \in Conns \ {c} : snapshot'[d] = snapshot[d] /\ (d \in joined' => d \in joined),
         \/ c \notin joined' \/ snapshot'[c] = 0 \/ snapshot'[c] = newest
         \/ (snapshot'[c] = snapshot[c] /\ c \in joined)
  PROVE  NothingMissed'
<1> USE DEF IndInv
<1>1. UNCHANGED <<silent, bridged, newest, version, pc, audience, queue, lost>>
  BY TailSame
<1>2. ASSUME NEW d \in Conns, NEW w \in Writers, d \in joined', snapshot'[d] # 0, Reaches(w, d)'
      PROVE  PushUnderWay(w, d)'
  <2>1. Reaches(w, d)
    BY <1>1, <1>2 DEF Reaches
  <2>2. CASE snapshot'[d] = newest
    <3>1. version[w] \in 0..newest /\ newest \in Nat
      BY DEF TypeOK
    <3>2. snapshot'[d] >= version'[w]
      BY <1>1, <2>2, <3>1
    <3>. QED BY <3>2 DEF PushUnderWay
  <2>3. CASE snapshot'[d] = snapshot[d] /\ d \in joined
    <3>1. PushUnderWay(w, d)
      BY <1>2, <2>1, <2>3 DEF NothingMissed
    <3>. QED BY <1>1, <2>3, <3>1 DEF PushUnderWay, Queued
  <2>. QED BY <1>2, <2>2, <2>3
<1>. QED
  BY <1>2 DEF NothingMissed

LEMMA JoinKeeps ==
  ASSUME IndInv, NEW c \in Conns, Join(c) PROVE IndInv'
<1> USE DEF IndInv
<1>1. /\ Step(c, "upgraded", "joined") /\ joined' = joined \cup {c}
      /\ UNCHANGED <<mutex, todo, at, stage, got>> /\ UNCHANGED tailVars /\ UNCHANGED snapshot
  BY DEF Join, Register, writeVars
<1>2. /\ life[c] = "upgraded" /\ life'[c] = "joined" /\ \A d \in Conns \ {c} : life'[d] = life[d]
      /\ life' \in [Conns -> {"upgraded", "joined", "loaded", "sending", "serving", "left"}]
  BY <1>1, StepLife
<1>3. HubTypeOK'
  BY <1>1 DEF TypeOK, HubTypeOK
<1>4. TypeOK'
  BY <1>1, <1>2, <1>3, ConnTypes DEF TypeOK
<1>5. \A q \in Procs : \A f : Carries(q, f) <=> Carries(q, f)'
  BY <1>1 DEF Carries
<1>6. HandlersInStep'
  BY <1>1, <1>2, <1>5, ProcNames DEF HandlersInStep
<1>7. FramesAreForJoiners'
  BY <1>1, <1>2 DEF FramesAreForJoiners
<1>8. WritersHoldMutex'
  BY <1>1, <1>2 DEF WritersHoldMutex, FramesAreForJoiners
<1>9. snapshot'[c] = 0
  BY <1>1, <1>2 DEF HandlersInStep
<1>10. NothingMissed'
  BY <1>1, <1>5, <1>9, ConnMissesNothing
<1>. QED
  BY <1>4, <1>6, <1>7, <1>8, <1>10

\* The read that follows Register, or its failure, and the end of the first
\* write, which change nothing at the hub.
LEMMA HandlerKeeps ==
  ASSUME IndInv, NEW c \in Conns, LoadSnapshot(c) \/ LoadFails(c) \/ Serve(c) PROVE IndInv'
<1> USE DEF IndInv
<1>1. /\ UNCHANGED <<joined, mutex, todo, at, stage, got>> /\ UNCHANGED tailVars
      /\ \/ Step(c, "joined", "loaded") /\ snapshot' = [snapshot EXCEPT ![c] = newest]
         \/ Step(c, "joined", "serving") /\ UNCHANGED snapshot
         \/ Step(c, "sending", "serving") /\ Idle(c) /\ UNCHANGED snapshot
  BY DEF LoadSnapshot, LoadFails, Serve, hubVars
<1>2. /\ life[c] \in {"joined", "sending"} /\ life'[c] \in {"loaded", "serving"}
      /\ life'[c] = "loaded" => snapshot'[c] = newest
      /\ life'[c] = "serving" => snapshot'[c] = snapshot[c]
      /\ life'[c] = "serving" /\ life[c] # "joined" => Idle(c)
      /\ \A d \in Conns \ {c} : life'[d] = life[d] /\ snapshot'[d] = snapshot[d]
      /\ life' \in [Conns -> {"upgraded", "joined", "loaded", "sending", "serving", "left"}]
      /\ snapshot' \in [Conns -> 0..newest]
  BY <1>1, StepLife DEF TypeOK
<1>3. HubTypeOK'
  BY <1>1 DEF TypeOK, HubTypeOK
<1>4. TypeOK'
  BY <1>1, <1>2, <1>3, ConnTypes
<1>5. \A q \in Procs : \A f : Carries(q, f) <=> Carries(q, f)'
  BY <1>1 DEF Carries
<1>6. HandlersInStep'
  <2>1. ASSUME life'[c] = "serving", snapshot'[c] # 0 PROVE snapshot'[c] \in got'[c]
    <3>1. life[c] = "sending" /\ Idle(c) /\ snapshot[c] # 0
      BY <1>2, <2>1 DEF HandlersInStep
    <3>2. ~Carries(c, FrameTo(c, snapshot[c]))
      BY <3>1 DEF Idle, Carries
    <3>3. snapshot[c] \in got[c]
      BY <3>1, <3>2 DEF HandlersInStep, FrameTo
    <3>. QED BY <1>1, <1>2, <2>1, <3>3
  <2>2. c \in joined' /\ life'[c] \notin {"upgraded", "joined", "sending", "left"}
    BY <1>1, <1>2 DEF HandlersInStep
  <2>3. ASSUME NEW d \in Conns, d # c
        PROVE  /\ d \in joined' <=> life'[d] \notin {"upgraded", "left"}
               /\ life'[d] \in {"upgraded", "joined"} => snapshot'[d] = 0
               /\ life'[d] = "sending" /\ snapshot'[d] # 0 =>
                    Carries(d, [conn |-> d, ver |-> snapshot[d]])' \/ snapshot'[d] \in got'[d]
               /\ life'[d] = "serving" /\ snapshot'[d] # 0 => snapshot'[d] \in got'[d]
    BY <1>1, <1>2, <1>5, <2>3, ProcNames DEF HandlersInStep
  <2>. QED BY <2>1, <2>2, <2>3 DEF HandlersInStep
<1>7. FramesAreForJoiners'
  BY <1>1, <1>2 DEF FramesAreForJoiners
<1>8. WritersHoldMutex'
  BY <1>1 DEF WritersHoldMutex
<1>9. NothingMissed'
  <2>1. c \in joined
    BY <1>2 DEF HandlersInStep
  <2>. QED BY <1>1, <1>2, <1>5, <2>1, ConnMissesNothing
<1>. QED
  BY <1>4, <1>6, <1>7, <1>8, <1>9

\* A write to the connection itself: the snapshot, or a ping.
LEMMA OwnSendKeeps ==
  ASSUME IndInv, NEW c \in Conns, SendSnapshot(c) \/ Ping(c) PROVE IndInv'
<1> USE DEF IndInv
<1>1. PICK v \in Nat : /\ Send(c, {c}, v) /\ UNCHANGED tailVars /\ UNCHANGED snapshot
                       /\ \/ v = snapshot[c] /\ Step(c, "loaded", "sending")
                          \/ life[c] = "serving" /\ UNCHANGED life
  <2>1. snapshot[c] \in Nat /\ 0 \in Nat
    BY DEF TypeOK
  <2>. QED BY <2>1 DEF SendSnapshot, Ping, connVars
<1>2. c \in Procs /\ {c} \in SUBSET Conns /\ HubTypeOK
  BY ProcNames DEF TypeOK
<1>3. /\ HubTypeOK'
      /\ UNCHANGED <<joined, mutex, at, stage, got>>
      /\ \A q \in Procs : \A f : Carries(q, f) => Carries(q, f)'
      /\ Carries(c, FrameTo(c, v))'
      /\ \A q \in Procs : \A f \in todo'[q] : f \in todo[q] \/ f.conn = c
  BY <1>1, <1>2, SendHub
<1>4. /\ life[c] \in {"loaded", "serving"} /\ life'[c] \in {"sending", "serving"}
      /\ life'[c] = "sending" => v = snapshot[c]
      /\ life'[c] = "serving" => life[c] = "serving"
      /\ \A d \in Conns \ {c} : life'[d] = life[d]
      /\ life' \in [Conns -> {"upgraded", "joined", "loaded", "sending", "serving", "left"}]
  BY <1>1, StepLife DEF TypeOK
<1>5. TypeOK'
  BY <1>1, <1>3, <1>4, ConnTypes DEF TypeOK
<1>6. HandlersInStep'
  <2>1. ASSUME NEW d \in Conns
        PROVE  /\ d \in joined' <=> life'[d] \notin {"upgraded", "left"}
               /\ life'[d] \in {"upgraded", "joined"} => snapshot'[d] = 0
               /\ life'[d] = "sending" /\ snapshot'[d] # 0 =>
                    Carries(d, FrameTo(d, snapshot[d]))' \/ snapshot'[d] \in got'[d]
               /\ life'[d] = "serving" /\ snapshot'[d] # 0 => snapshot'[d] \in got'[d]
    <3>1. CASE d = c
      BY <1>1, <1>3, <1>4, <3>1 DEF HandlersInStep
    <3>2. CASE d # c
      BY <1>1, <1>3, <1>4, <3>2, ProcNames DEF HandlersInStep, FrameTo
    <3>. QED BY <3>1, <3>2
  <2>. QED BY <2>1 DEF HandlersInStep, FrameTo
<1>7. FramesAreForJoiners'
  BY <1>3, <1>4 DEF FramesAreForJoiners
<1>8. WritersHoldMutex'
  BY <1>3 DEF WritersHoldMutex
<1>9. NothingMissed'
  <2>1. c \in joined
    BY <1>4 DEF HandlersInStep
  <2>. QED BY <1>1, <1>3, <2>1, ConnMissesNothing
<1>. QED
  BY <1>5, <1>6, <1>7, <1>8, <1>9

LEMMA LeaveKeeps ==
  ASSUME IndInv, NEW c \in Conns, Leave(c) PROVE IndInv'
<1> USE DEF IndInv
<1>1. /\ Step(c, "serving", "left") /\ joined' = joined \ {c}
      /\ UNCHANGED <<mutex, todo, at, stage, got>> /\ UNCHANGED tailVars /\ UNCHANGED snapshot
  BY DEF Leave, UnregisterAll, writeVars
<1>2. /\ life'[c] = "left" /\ \A d \in Conns \ {c} : life'[d] = life[d]
      /\ life' \in [Conns -> {"upgraded", "joined", "loaded", "sending", "serving", "left"}]
  BY <1>1, StepLife
<1>3. HubTypeOK'
  BY <1>1 DEF TypeOK, HubTypeOK
<1>4. TypeOK'
  BY <1>1, <1>2, <1>3, ConnTypes DEF TypeOK
<1>5. \A q \in Procs : \A f : Carries(q, f) <=> Carries(q, f)'
  BY <1>1 DEF Carries
<1>6. HandlersInStep'
  BY <1>1, <1>2, <1>5, ProcNames DEF HandlersInStep
<1>7. FramesAreForJoiners'
  BY <1>1, <1>2 DEF FramesAreForJoiners
<1>8. WritersHoldMutex'
  BY <1>1 DEF WritersHoldMutex
<1>9. NothingMissed'
  BY <1>1, <1>5, ConnMissesNothing
<1>. QED
  BY <1>4, <1>6, <1>7, <1>8, <1>9

-----------------------------------------------------------------------------
LEMMA WriteFrameKeeps ==
  ASSUME IndInv, NEW p \in Procs, WriteFrame(p) PROVE IndInv'
<1> USE DEF IndInv
<1>1. /\ LookUp(p) \/ Lock(p) \/ WriteMessage(p)
      /\ UNCHANGED tailVars /\ UNCHANGED <<life, snapshot>> /\ HubTypeOK
  BY DEF WriteFrame, connVars, TypeOK
<1>2. UNCHANGED <<silent, bridged, newest, version, pc, audience, queue, lost>>
  BY <1>1, TailSame
<1>3. /\ HubTypeOK' /\ joined' = joined
      /\ \A q \in Procs : \A f : Carries(q, f) =>
           Carries(q, f)' \/ f.ver = 0 \/ (f.conn \in Conns /\ f.ver \in got'[f.conn])
      /\ \A q \in Procs : todo'[q] \subseteq todo[q]
      /\ \A q \in Procs : stage'[q] # "idle" => Carries(q, at'[q])
      /\ \A c \in Conns : got[c] \subseteq got'[c]
  BY <1>1, WriteHub
<1>4. TypeOK'
  BY <1>1, <1>3, ConnTypes DEF TypeOK
\* A frame that carries a version is still there or has been received.
<1>5. ASSUME NEW q \in Procs, NEW c \in Conns, NEW v, v # 0, Carries(q, FrameTo(c, v))
      PROVE  Carries(q, FrameTo(c, v))' \/ v \in got'[c]
  <2>1. FrameTo(c, v).conn = c /\ FrameTo(c, v).ver = v
    BY DEF FrameTo
  <2>. QED BY <1>3, <1>5, <2>1
<1>6. HandlersInStep'
  <2>1. ASSUME NEW c \in Conns, life[c] = "sending", snapshot[c] # 0
        PROVE  Carries(c, FrameTo(c, snapshot[c]))' \/ snapshot[c] \in got'[c]
    <3>1. Carries(c, FrameTo(c, snapshot[c])) \/ snapshot[c] \in got[c]
      BY <2>1 DEF HandlersInStep, FrameTo
    <3>2. \A v : v = snapshot[c] => Carries(c, FrameTo(c, v))' \/ v \in got'[c]
      BY <1>3, <1>5, <2>1, <3>1, ProcNames
    <3>. QED BY <1>1, <3>2
  <2>. QED BY <1>1, <1>3, <2>1 DEF HandlersInStep, FrameTo
<1>7. FramesAreForJoiners'
  <2>1. \A q \in Procs, c \in Conns : life[c] = "upgraded" => \A f : Carries(q, f) => f.conn # c
    BY DEF FramesAreForJoiners, Carries
  <2>2. \A q \in Procs, c \in Conns : life[c] = "upgraded" => \A f \in todo'[q] : f.conn # c
    BY <1>3 DEF FramesAreForJoiners
  <2>3. \A q \in Procs, c \in Conns :
          life[c] = "upgraded" /\ stage'[q] # "idle" => at'[q].conn # c
    BY <1>3, <2>1
  <2>. QED BY <1>1, <2>2, <2>3 DEF FramesAreForJoiners
<1>8. WritersHoldMutex'
  BY <1>1, WriteMutex
<1>9. ASSUME NEW c \in Conns, NEW w \in Writers, c \in joined, snapshot[c] # 0, Reaches(w, c)'
      PROVE  PushUnderWay(w, c)'
  <2>1. PushUnderWay(w, c) /\ version[w] # 0
    BY <1>2, <1>9 DEF Reaches, NothingMissed
  <2>2. CASE \E q \in Procs : Carries(q, FrameTo(c, version[w]))
    <3>1. \A v : v = version[w] =>
            (\E q \in Procs : Carries(q, FrameTo(c, v))') \/ v \in got'[c]
      BY <1>5, <2>1, <2>2
    <3>. QED BY <1>2, <3>1 DEF PushUnderWay, FrameTo
  <2>3. CASE ~\E q \in Procs : Carries(q, FrameTo(c, version[w]))
    BY <1>1, <1>2, <1>3, <2>1, <2>3 DEF PushUnderWay, Queued, FrameTo
  <2>. QED BY <2>2, <2>3
<1>10. NothingMissed'
  BY <1>1, <1>3, <1>9 DEF NothingMissed
<1>. QED
  BY <1>4, <1>6, <1>7, <1>8, <1>10

LEMMA NextInv == IndInv /\ [Next]_vars => IndInv'
<1> SUFFICES ASSUME IndInv, [Next]_vars PROVE IndInv'
  OBVIOUS
<1>1. CASE UNCHANGED vars
  <2>1. UNCHANGED <<hubVars, connVars>> /\ UNCHANGED tailVars
    BY <1>1 DEF vars
  <2>2. UNCHANGED <<joined, todo, at, stage, got, life, snapshot>>
    BY <2>1 DEF hubVars, connVars
  <2>3. HubTypeOK' /\ HandlersInStep' /\ FramesAreForJoiners' /\ WritersHoldMutex'
    BY <2>1, TailKeeps
  <2>4. TypeOK'
    BY <2>1, <2>2, <2>3, ConnTypes DEF IndInv, TypeOK
  <2>5. NothingMissed'
    BY <2>1, <2>2, TailSame DEF IndInv, NothingMissed, Reaches, PushUnderWay, Queued, Carries
  <2>. QED BY <2>3, <2>4, <2>5 DEF IndInv
<1>2. ASSUME NEW w \in Writers,
             \/ Commit(w)
             \/ \E us \in SUBSET Users : WorkspaceAudience(w, us)
             \/ \E u \in Users : Publish(w, u) \/ PublishFails(w, u) \/ BroadcastLocal(w, u)
      PROVE  IndInv'
  BY <1>2, CommitKeeps, AudienceKeeps, PublishKeeps, PublishFailsKeeps, BroadcastLocalKeeps
<1>3. ASSUME NEW c \in Conns,
             \/ Join(c) \/ LoadSnapshot(c) \/ LoadFails(c) \/ SendSnapshot(c)
             \/ Serve(c) \/ Ping(c) \/ Leave(c)
      PROVE  IndInv'
  BY <1>3, JoinKeeps, HandlerKeeps, OwnSendKeeps, LeaveKeeps
<1>. QED
  BY <1>1, <1>2, <1>3, SubscriberKeeps, MessageLostKeeps, WriteFrameKeeps DEF Next

\* The inductive invariant holds throughout.
THEOREM Invariance == Spec => []IndInv
BY InitInv, NextInv, PTL DEF Spec

\* The state keeps its types; a goroutine that is not idle has a frame.
THEOREM TypeCorrect == Spec => []TypeOK
<1>1. IndInv => TypeOK
  BY DEF IndInv
<1>. QED
  BY <1>1, Invariance, PTL

\* Hub.writeFrame keeps gorilla's rule of one concurrent writer for as long as
\* the connection is registered, although the mutex is looked up under one
\* lock and taken after it is released.
THEOREM OneWriter == Spec => []OneWriterWhileJoined
<1>1. IndInv => OneWriterWhileJoined
  BY DEF IndInv, WritersHoldMutex, OneWriterWhileJoined, Writing
<1>. QED
  BY <1>1, Invariance, PTL

\* Workspace.ws registers before it reads, so a connected client has the
\* newest announced version, or a newer one, once everything is delivered.
THEOREM ClientsCatchUp == Spec => []CaughtUp
<1>1. IndInv => CaughtUp
  <2> SUFFICES ASSUME IndInv, Quiet, NEW c \in Conns, NEW w \in Writers,
                      Reading(c), Reaches(w, c)
               PROVE  Current(c, version[w])
    BY DEF CaughtUp
  <2> USE DEF IndInv
  <2>1. c \in joined /\ life[c] = "serving" /\ snapshot[c] # 0
    BY DEF Reading
  <2>2. PushUnderWay(w, c)
    BY <2>1 DEF NothingMissed
  <2>3. version[w] \in Nat
    BY DEF TypeOK
  <2>4. snapshot[c] \in got[c]
    BY <2>1 DEF HandlersInStep
  <2>5. pc[w] # "committed" /\ ~(pc[w] = "pushing" /\ UserOf[c] \in audience[w])
    BY DEF Quiet
  <2>6. ~Queued(c, <<version[w], UserOf[c]>>)
    <3>1. queue[ReplicaOf[c]] = << >>
      BY ProcNames DEF Quiet
    <3>. QED BY <3>1 DEF Queued
  <2>7. ~\E p \in Procs : Carries(p, [conn |-> c, ver |-> version[w]])
    BY DEF Quiet, Idle, Carries
  <2>8. snapshot[c] >= version[w] \/ version[w] \in got[c]
    BY <2>2, <2>5, <2>6, <2>7 DEF PushUnderWay
  <2>. QED BY <2>3, <2>4, <2>8 DEF Current
<1>. QED
  BY <1>1, Invariance, PTL
=============================================================================
