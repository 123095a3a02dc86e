-------------------------- MODULE SessionSetupProofs --------------------------
(***************************************************************************)
(* Proofs about SessionSetup: for any number of clients, sessions, apps    *)
(* and server processes, only a crash leaves pools behind, a pool awaits   *)
(* the client that was told of it, and two sessions in PEER state share    *)
(* their arenas.                                                           *)
(***************************************************************************)
EXTENDS SessionSetup, TLAPS

\* A Session_server is there, or being destroyed.
Running == server \in {"up", "closing", "closed"}

\* Sessions are in the process that accepted them, and gone when it is; and while
\* one is logging in its Session_server, or what is left of it, is there.
Lives ==
  /\ Running => pid # 0
  /\ \A s \in Session :
       /\ life[s] = "unborn" <=> w[s] = "unused"
       /\ life[s] # "unborn" => srv_pid[s] \in 1 .. pid /\ peer[s] \in Client
       /\ Exists(s) => srv_pid[s] = pid /\ Running
       /\ Exists(s) /\ w[s] # "peer" => server \in {"up", "closing"}
       /\ life[s] = "crashed" /\ srv_pid[s] = pid => ~Running

\* What names there are: of sessions there have been, and to be removed by the
\* Session_server only those of apps.
Names ==
  /\ \A p \in 1 .. MaxStarts, s \in Session :
       <<"session", p, s>> \in linked => srv_pid[s] = p /\ life[s] # "unborn"
  /\ pool_names \subseteq {"app"} \X (1 .. MaxStarts) \X App
  /\ server = "down" => linked = {}

\* From its creation until the destructor the session pool has its name.
SessionPools ==
  \A s \in Session :
    /\ deinit[s] => w[s] \in {"arenas set", "peer", "failed"}
    /\ w[s] \in {"pool created", "arenas set", "peer"} /\ Exists(s) => SessionPool(s) \in linked
    /\ w[s] \in {"arenas set", "peer"} /\ life[s] = "alive" => srv_session[s] = "attached"

\* What m_app_shm_mutex is for: one thread of the running process has it, which lives,
\* and which knows what the map holds.
Mutex ==
  \A s \in Session :
    /\ InAppShm(s) => life[s] # "destroyed"
    /\ \A r \in Session :
         InAppShm(s) /\ InAppShm(r) /\ srv_pid[s] = pid /\ srv_pid[r] = pid => s = r
    /\ server = "up" /\ ThreadW(s, "app absent") => app_map[AppAt(s)] = "null"
    /\ ThreadW(s, "app created") => app_map[AppAt(s)] = "attached"
    /\ ThreadW(s, "app ready") => app_map[AppAt(s)] # "null"

\* The map of the Session_server, while it is there, and the pools there are.
AppPools ==
  server = "up" => \A a \in App : AppPool(pid, a) \in linked => app_map[a] = "attached"

\* What app_shm() of a session is: what is in the map, which does not change any
\* more; and an arena with a pool, if there is one to be opened.  (The latter where no
\* thread W found the map destroyed.)
AppArenas ==
  \A s \in Session :
    /\ w[s] \in {"unused", "request"} => srv_app[s] = "null"
    /\ w[s] \in {"pool created", "arenas set", "peer"} => srv_app[s] # "null"
    /\ srv_pid[s] \notin dangling /\ srv_app[s] # "null" /\ AppPool(srv_pid[s], AppAt(s)) \in linked =>
         srv_app[s] = "attached"
    /\ server = "up" /\ srv_app[s] # "null" /\ srv_pid[s] = pid => srv_app[s] = app_map[AppAt(s)]

\* A client connects to the session that was begun for it, and gets a response only
\* from one in PEER state.
Connections ==
  /\ \A s \in rsp : w[s] = "peer"
  /\ \A c \in Client :
       /\ cli[c] \in {"connecting", "opening session", "opening app", "peer"} =>
            at[c] \in Session /\ life[at[c]] # "unborn" /\ peer[at[c]] = c
       /\ cli[c] \in {"opening session", "opening app", "peer"} => w[at[c]] = "peer"

IInv ==
  /\ TypeOK
  /\ Lives
  /\ Names
  /\ SessionPools
  /\ Mutex
  /\ AppPools
  /\ AppArenas
  /\ Connections
  /\ LeakOnlyByCrash
  /\ PeersShareArenas

-----------------------------------------------------------------------------

\* A step, by who takes it.
LEMMA Steps ==
  ASSUME [Next]_vars
  PROVE  \/ ServerStart \/ ServerStartFails \/ ServerDestroyMembers \/ ServerDeinit
         \/ ProcessExit \/ ServerCrash
         \/ \E c \in Client, s \in Session : LogInRequest(c, s)
         \/ \E s \in Session :
              \/ FindAppShm(s) \/ CreateAppShm(s) \/ RecordAppShm(s) \/ CreateSessionPool(s)
              \/ SetArenas(s) \/ Respond(s) \/ RespondFails(s)
              \/ SessionDestroyMembers(s) \/ SessionDeinit(s)
         \/ \E c \in Client :
              \/ ReceiveResponse(c) \/ ConnectFails(c) \/ OpenSessionPool(c)
              \/ OpenSessionPoolFails(c) \/ OpenAppPool(c) \/ OpenAppPoolFails(c) \/ ClientEnds(c)
         \/ UNCHANGED vars
BY DEF Next, ThreadWStep, DestructorStep, ClientStep

\* TypeOK in three parts.
ServerType ==
  /\ linked \subseteq PoolName
  /\ pid \in 0 .. MaxStarts
  /\ server \in {"down", "up", "closing", "closed", "crashed"}
  /\ app_map \in [App -> ArenaPtr]
  /\ pool_names \subseteq PoolName

SessionType ==
  /\ w \in [Session -> {"unused", "request", "app absent", "app created", "app refused",
                         "app ready", "pool created", "arenas set", "peer", "failed"}]
  /\ life \in [Session -> {"unborn", "alive", "members gone", "destroyed", "crashed"}]
  /\ srv_pid \in [Session -> 0 .. MaxStarts]
  /\ srv_session \in [Session -> ArenaPtr]
  /\ srv_app \in [Session -> ArenaPtr]
  /\ deinit \in [Session -> BOOLEAN]
  /\ peer \in [Session -> Client \cup {None}]
  /\ rsp \subseteq Session
  /\ dangling \subseteq 1 .. MaxStarts

ClientType ==
  /\ cli \in [Client -> {"null", "connecting", "opening session", "opening app", "peer",
                         "aborted", "gone"}]
  /\ at \in [Client -> Session \cup {None}]
  /\ cli_session \in [Client -> ArenaPtr]
  /\ cli_app \in [Client -> ArenaPtr]
  /\ tripped \in [Client -> {"none", "arenas set once", "app_shm null on failure"}]

LEMMA TypeParts == TypeOK <=> ServerType /\ SessionType /\ ClientType
BY DEF TypeOK, ServerType, SessionType, ClientType

LEMMA TypePartsPrime == TypeOK' <=> ServerType' /\ SessionType' /\ ClientType'
BY DEF TypeOK, ServerType, SessionType, ClientType

\* Sessions in the running process are typed, and so are their pools.
LEMMA RunningSession ==
  ASSUME TypeOK, Lives, NEW s \in Session, Exists(s)
  PROVE  /\ pid \in 1 .. MaxStarts /\ srv_pid[s] = pid
         /\ AppAt(s) \in App
         /\ AppPool(pid, AppAt(s)) \in PoolName
         /\ SessionPool(s) \in PoolName
<1>1. pid \in 1 .. MaxStarts /\ srv_pid[s] = pid /\ peer[s] \in Client
  <2>1. life[s] # "unborn"
    BY DEF Exists
  <2>2. srv_pid[s] = pid /\ pid # 0 /\ peer[s] \in Client
    BY <2>1 DEF Lives
  <2>3. pid \in 0 .. MaxStarts /\ MaxStarts \in Nat
    BY TypeParts, SetupAssumption DEF ServerType
  <2> QED BY <2>2, <2>3
<1>2. AppAt(s) \in App
  BY <1>1, SetupAssumption DEF AppAt
<1> QED BY <1>1, <1>2 DEF AppPool, SessionPool, PoolName

\* What W does to the session it is of.
LEMMA SessionSteps ==
  ASSUME TypeOK, NEW s \in Session,
         \/ FindAppShm(s) \/ CreateAppShm(s) \/ RecordAppShm(s) \/ CreateSessionPool(s)
         \/ SetArenas(s) \/ Respond(s) \/ RespondFails(s)
  PROVE  /\ w[s] \notin {"unused", "peer", "failed"} /\ w'[s] \notin {"unused", "request"}
         /\ \A r \in Session \ {s} : w'[r] = w[r]
         /\ UNCHANGED <<pid, server, life, srv_pid, peer, clientVars>>
         /\ dangling \subseteq dangling' /\ dangling' \subseteq dangling \cup {pid}
         /\ Exists(s)
<1> USE DEF serverVars, sessionVars, ThreadW, Progress
<1>1. w'[s] \notin {"unused", "request"} /\ \A r \in Session \ {s} : w'[r] = w[r]
  BY TypeParts DEF SessionType, FindAppShm, CreateAppShm, RecordAppShm, CreateSessionPool, SetArenas, Respond,
     RespondFails
<1>2. /\ w[s] \notin {"unused", "peer", "failed"} /\ Exists(s)
      /\ UNCHANGED <<pid, server, life, srv_pid, peer, clientVars>>
  BY DEF FindAppShm, CreateAppShm, RecordAppShm, CreateSessionPool, SetArenas, Respond, RespondFails
<1>3. dangling \subseteq dangling' /\ dangling' \subseteq dangling \cup {pid}
  BY DEF FindAppShm, CreateAppShm, RecordAppShm, CreateSessionPool, SetArenas, Respond, RespondFails, Uses
<1> QED BY <1>1, <1>2, <1>3

\* Without the Session_server it uses dead members.
LEMMA UsesDestroyedServer ==
  ASSUME NEW s \in Session, FindAppShm(s) \/ CreateAppShm(s) \/ CreateSessionPool(s), server # "up"
  PROVE  pid \in dangling'
BY DEF FindAppShm, CreateAppShm, CreateSessionPool, Uses

LEMMA TypeStep ==
  ASSUME TypeOK, Lives, [Next]_vars
  PROVE  TypeOK'
<1> USE DEF serverVars, sessionVars, clientVars, ArenaPtr
<1>1. CASE ServerStart \/ ServerStartFails \/ ServerDestroyMembers \/ ServerDeinit \/ ProcessExit
  <2>1. pid' \in 0 .. MaxStarts
    <3>1. pid \in 0 .. MaxStarts /\ MaxStarts \in Nat
      BY TypeParts, SetupAssumption DEF ServerType
    <3>2. pid' = pid \/ (pid < MaxStarts /\ pid' = pid + 1)
      BY <1>1 DEF ServerStart, ServerStartFails, ServerDestroyMembers, ServerDeinit, ProcessExit
    <3> QED BY <3>1, <3>2
  <2>2. ServerType'
    BY <1>1, <2>1, TypeParts DEF ServerType, ServerStart, ServerStartFails, ServerDestroyMembers, ServerDeinit,
                          ProcessExit
  <2>3. UNCHANGED <<sessionVars, rsp, clientVars>>
    BY <1>1 DEF ServerStart, ServerStartFails, ServerDestroyMembers, ServerDeinit, ProcessExit
  <2>4. SessionType' /\ ClientType'
    BY <2>3, TypeParts DEF SessionType, ClientType
  <2> QED BY <2>2, <2>4, TypePartsPrime
<1>2. CASE ServerCrash
  <2>1. ServerType' /\ ClientType'
    BY <1>2, TypeParts DEF ServerType, ClientType, ServerCrash
  <2>2. SessionType'
    BY <1>2, TypeParts DEF SessionType, ServerCrash
  <2> QED BY <2>1, <2>2, TypePartsPrime
<1>3. ASSUME NEW c \in Client, NEW s \in Session, LogInRequest(c, s)
      PROVE  TypeOK'
  <2>1. ServerType'
    BY <1>3, TypeParts DEF ServerType, LogInRequest
  <2>2. ClientType'
    BY <1>3, TypeParts DEF ClientType, LogInRequest
  <2>3. SessionType'
    BY <1>3, TypeParts DEF ServerType, SessionType, LogInRequest
  <2> QED BY <2>1, <2>2, <2>3, TypePartsPrime
<1>4. ASSUME NEW s \in Session,
             \/ FindAppShm(s) \/ CreateAppShm(s) \/ RecordAppShm(s) \/ CreateSessionPool(s)
             \/ SetArenas(s) \/ Respond(s) \/ RespondFails(s)
      PROVE  TypeOK'
  <2>1. /\ Exists(s) /\ pid \in 1 .. MaxStarts /\ AppAt(s) \in App
        /\ AppPool(pid, AppAt(s)) \in PoolName /\ SessionPool(s) \in PoolName
    BY <1>4, SessionSteps, RunningSession
  <2>2. dangling' \subseteq 1 .. MaxStarts
    <3>1. dangling' \subseteq dangling \cup {pid}
      BY <1>4, SessionSteps
    <3> QED BY <2>1, <3>1, TypeParts DEF SessionType
  <2>3. ClientType'
    <3>1. UNCHANGED clientVars
      BY <1>4, SessionSteps
    <3> QED BY <3>1, TypeParts DEF ClientType
  <2>4. CASE FindAppShm(s) \/ RecordAppShm(s)
    <3>1. ServerType'
      BY <2>1, <2>4, TypeParts DEF ServerType, FindAppShm, RecordAppShm
    <3>2. SessionType'
      BY <2>2, <2>4, TypeParts DEF SessionType, FindAppShm, RecordAppShm, Progress
    <3> QED BY <2>3, <3>1, <3>2, TypePartsPrime
  <2>5. CASE CreateAppShm(s)
    <3>1. linked' \subseteq PoolName
      BY <2>1, <2>5, TypeParts DEF ServerType, CreateAppShm
    <3>2. app_map' \in [App -> ArenaPtr]
      BY <2>1, <2>5, TypeParts DEF ServerType, CreateAppShm, AppArenaAfterFailure
    <3>3. SessionType'
      BY <2>2, <2>5, TypeParts DEF SessionType, CreateAppShm, Progress
    <3> QED BY <2>3, <2>5, <3>1, <3>2, <3>3, TypeParts, TypePartsPrime DEF ServerType, CreateAppShm
  <2>6. CASE CreateSessionPool(s)
    <3>1. ServerType'
      BY <2>1, <2>6, TypeParts DEF ServerType, CreateSessionPool
    <3>2. srv_app' \in [Session -> ArenaPtr]
      <4>1. srv_app \in [Session -> ArenaPtr] /\ app_map[AppAt(s)] \in ArenaPtr
        BY <2>1, TypeParts DEF ServerType, SessionType
      <4> QED BY <2>6, <4>1 DEF CreateSessionPool
    <3>3. SessionType'
      BY <2>2, <2>6, <3>2, TypeParts DEF SessionType, CreateSessionPool, Progress
    <3> QED BY <2>3, <3>1, <3>3, TypePartsPrime
  <2>7. CASE SetArenas(s) \/ Respond(s) \/ RespondFails(s)
    <3>1. ServerType'
      BY <2>7, TypeParts DEF ServerType, SetArenas, Respond, RespondFails
    <3>2. SessionType'
      BY <2>2, <2>7, TypeParts DEF SessionType, SetArenas, Respond, RespondFails, Progress
    <3> QED BY <2>3, <3>1, <3>2, TypePartsPrime
  <2> QED BY <1>4, <2>4, <2>5, <2>6, <2>7
<1>5. ASSUME NEW s \in Session, SessionDestroyMembers(s) \/ SessionDeinit(s)
      PROVE  TypeOK'
  <2>1. ServerType' /\ ClientType'
    BY <1>5, TypeParts DEF ServerType, ClientType, SessionDestroyMembers, SessionDeinit
  <2>2. SessionType'
    BY <1>5, TypeParts DEF SessionType, SessionDestroyMembers, SessionDeinit
  <2> QED BY <2>1, <2>2, TypePartsPrime
<1>6. ASSUME NEW c \in Client,
             \/ ReceiveResponse(c) \/ ConnectFails(c) \/ OpenSessionPool(c)
             \/ OpenSessionPoolFails(c) \/ OpenAppPool(c) \/ OpenAppPoolFails(c) \/ ClientEnds(c)
      PROVE  TypeOK'
  <2>1. ServerType' /\ SessionType'
    BY <1>6, TypeParts DEF ServerType, SessionType, ReceiveResponse, ConnectFails, OpenSessionPool,
         OpenSessionPoolFails, OpenAppPool, OpenAppPoolFails, ClientEnds
  <2>2. CASE ReceiveResponse(c) \/ ConnectFails(c) \/ OpenSessionPool(c) \/ ClientEnds(c)
    <3>1. ClientType'
      BY <2>2, TypeParts DEF ClientType, ReceiveResponse, ConnectFails, OpenSessionPool, ClientEnds
    <3> QED BY <2>1, <3>1, TypePartsPrime
  <2>3. CASE OpenSessionPoolFails(c) \/ OpenAppPool(c) \/ OpenAppPoolFails(c)
    <3>1. ClientType'
      BY ZenonT(40), <2>3, TypeParts DEF ClientType, OpenSessionPoolFails, OpenAppPool, OpenAppPoolFails,
           InitClientArenas, Abort
    <3> QED BY <2>1, <3>1, TypePartsPrime
  <2> QED BY <1>6, <2>2, <2>3
<1>7. CASE UNCHANGED vars
  BY <1>7, TypeParts, TypePartsPrime DEF ServerType, SessionType, ClientType, vars
<1> QED BY <1>1, <1>2, <1>3, <1>4, <1>5, <1>6, <1>7, Steps

\* What a destructor does to the session it is of.
LEMMA DestructorSteps ==
  ASSUME TypeOK, NEW s \in Session, SessionDestroyMembers(s) \/ SessionDeinit(s)
  PROVE  /\ life[s] \in {"alive", "members gone"} /\ life'[s] \in {"members gone", "destroyed"}
         /\ \A r \in Session \ {s} : life'[r] = life[r]
         /\ UNCHANGED <<serverVars, w, srv_pid, srv_app, deinit, peer, dangling, rsp, clientVars>>
<1>1. life'[s] \in {"members gone", "destroyed"} /\ \A r \in Session \ {s} : life'[r] = life[r]
  BY TypeParts DEF SessionType, SessionDestroyMembers, SessionDeinit
<1> QED BY <1>1 DEF SessionDestroyMembers, SessionDeinit

LEMMA ClientSteps ==
  ASSUME NEW c \in Client,
         \/ ReceiveResponse(c) \/ ConnectFails(c) \/ OpenSessionPool(c)
         \/ OpenSessionPoolFails(c) \/ OpenAppPool(c) \/ OpenAppPoolFails(c) \/ ClientEnds(c)
  PROVE  UNCHANGED <<linked, serverVars, sessionVars>> /\ rsp' \subseteq rsp
BY DEF ReceiveResponse, ConnectFails, OpenSessionPool, OpenSessionPoolFails, OpenAppPool, OpenAppPoolFails,
       ClientEnds

\* A log-in begins, in a session nobody used.
LEMMA LogInSteps ==
  ASSUME TypeOK, Lives, NEW c \in Client, NEW s \in Session, LogInRequest(c, s)
  PROVE  /\ life[s] = "unborn" /\ w[s] = "unused" /\ server = "up" /\ cli[c] = "null"
         /\ life'[s] = "alive" /\ w'[s] = "request" /\ srv_pid'[s] = pid /\ peer'[s] = c
         /\ cli'[c] = "connecting" /\ at'[c] = s
         /\ \A r \in Session \ {s} : /\ life'[r] = life[r] /\ w'[r] = w[r]
                                     /\ srv_pid'[r] = srv_pid[r] /\ peer'[r] = peer[r]
         /\ \A d \in Client \ {c} : cli'[d] = cli[d] /\ at'[d] = at[d]
         /\ UNCHANGED <<linked, serverVars, srv_session, srv_app, deinit, dangling, rsp, cli_session,
                        cli_app, tripped>>
<1>1. life[s] = "unborn" /\ w[s] = "unused"
  BY DEF LogInRequest, Lives
<1>2. /\ life'[s] = "alive" /\ w'[s] = "request" /\ srv_pid'[s] = pid /\ peer'[s] = c
      /\ \A r \in Session \ {s} : /\ life'[r] = life[r] /\ w'[r] = w[r]
                                  /\ srv_pid'[r] = srv_pid[r] /\ peer'[r] = peer[r]
  BY TypeParts DEF SessionType, LogInRequest
<1>3. /\ cli'[c] = "connecting" /\ at'[c] = s
      /\ \A d \in Client \ {c} : cli'[d] = cli[d] /\ at'[d] = at[d]
  BY TypeParts DEF ClientType, LogInRequest
<1> QED BY <1>1, <1>2, <1>3 DEF LogInRequest

LEMMA LivesStep ==
  ASSUME TypeOK, Lives, [Next]_vars
  PROVE  Lives'
<1> USE DEF serverVars, sessionVars, Running, Exists
<1>1. CASE ServerStart \/ ServerStartFails \/ ServerDestroyMembers \/ ServerDeinit
  <2>1. pid \in Nat /\ pid' \in {pid, pid + 1} /\ (Running' => pid' # 0)
    <3>1. pid \in Nat
      BY TypeParts, SetupAssumption DEF ServerType
    <3>2. CASE ServerStart \/ ServerStartFails
      BY <3>1, <3>2 DEF ServerStart, ServerStartFails
    <3>3. CASE ServerDestroyMembers \/ ServerDeinit
      BY <3>1, <3>3 DEF Lives, ServerDestroyMembers, ServerDeinit
    <3> QED BY <1>1, <3>2, <3>3
  <2>2. UNCHANGED <<life, w, srv_pid, peer>>
    BY <1>1 DEF ServerStart, ServerStartFails, ServerDestroyMembers, ServerDeinit
  <2>3. ASSUME NEW s \in Session, Exists(s)
        PROVE  pid' = pid /\ Running'
    BY <1>1, <2>3 DEF Lives, ServerStart, ServerStartFails, ServerDestroyMembers, ServerDeinit
  <2>4. \A s \in Session : srv_pid[s] \in 1 .. pid => srv_pid[s] \in 1 .. pid'
    BY <2>1
  <2>5. \A s \in Session : Exists(s) /\ w[s] # "peer" => server' \in {"up", "closing"}
    BY <1>1 DEF Lives, ServerStart, ServerStartFails, ServerDestroyMembers, ServerDeinit
  <2>6. ASSUME NEW s \in Session, life[s] = "crashed", srv_pid[s] = pid'
        PROVE  ~Running'
    <3>1. srv_pid[s] \in 1 .. pid
      BY <2>6 DEF Lives
    <3>2. pid' = pid /\ pid # pid + 1
      BY <2>1, <2>6, <3>1
    <3>3. ServerDestroyMembers \/ ServerDeinit
      BY <1>1, <3>2 DEF ServerStart, ServerStartFails
    <3> QED BY <2>6, <3>2, <3>3 DEF Lives, ServerDestroyMembers, ServerDeinit
  <2> QED BY <2>1, <2>2, <2>3, <2>4, <2>5, <2>6 DEF Lives
<1>2. CASE ProcessExit
  <2>1. /\ UNCHANGED <<pid, life, w, srv_pid, peer>> /\ server' = "down"
        /\ \A s \in Session : srv_pid[s] = pid => ~Exists(s)
    BY <1>2 DEF ProcessExit
  <2> QED BY <2>1 DEF Lives
<1>3. CASE ServerCrash
  <2>1. /\ UNCHANGED <<pid, w, srv_pid, peer>> /\ server' = "crashed"
        /\ \A s \in Session : life'[s] = IF Exists(s) THEN "crashed" ELSE life[s]
    BY <1>3 DEF ServerCrash
  <2> QED BY <2>1 DEF Lives
<1>4. ASSUME NEW c \in Client, NEW s \in Session, LogInRequest(c, s)
      PROVE  Lives'
  <2>1. /\ life[s] = "unborn" /\ w[s] = "unused" /\ server = "up"
        /\ life'[s] = "alive" /\ w'[s] = "request" /\ srv_pid'[s] = pid /\ peer'[s] = c
        /\ \A r \in Session \ {s} : /\ life'[r] = life[r] /\ w'[r] = w[r]
                                    /\ srv_pid'[r] = srv_pid[r] /\ peer'[r] = peer[r]
        /\ UNCHANGED <<pid, server>>
    BY <1>4, LogInSteps
  <2>2. pid \in 1 .. pid
    <3>1. pid \in Nat
      BY TypeParts, SetupAssumption DEF ServerType
    <3>2. pid # 0
      BY <2>1 DEF Lives
    <3> QED BY <3>1, <3>2
  <2> QED BY <2>1, <2>2 DEF Lives
<1>5. ASSUME NEW s \in Session,
             \/ FindAppShm(s) \/ CreateAppShm(s) \/ RecordAppShm(s) \/ CreateSessionPool(s)
             \/ SetArenas(s) \/ Respond(s) \/ RespondFails(s)
      PROVE  Lives'
  BY <1>5, SessionSteps DEF Lives
<1>6. ASSUME NEW s \in Session, SessionDestroyMembers(s) \/ SessionDeinit(s)
      PROVE  Lives'
  BY <1>6, DestructorSteps DEF Lives
<1>7. ASSUME NEW c \in Client,
             \/ ReceiveResponse(c) \/ ConnectFails(c) \/ OpenSessionPool(c)
             \/ OpenSessionPoolFails(c) \/ OpenAppPool(c) \/ OpenAppPoolFails(c) \/ ClientEnds(c)
      PROVE  Lives'
  BY <1>7, ClientSteps DEF Lives
<1>8. CASE UNCHANGED vars
  BY <1>8 DEF Lives, vars
<1> QED BY <1>1, <1>2, <1>3, <1>4, <1>5, <1>6, <1>7, <1>8, Steps

\* Which names come and go.
LEMMA NameSteps ==
  ASSUME TypeOK, Lives, [Next]_vars
  PROVE  \/ linked' \subseteq linked /\ UNCHANGED <<life, srv_pid>>
         \/ ServerCrash
         \/ \E c \in Client, s \in Session : LogInRequest(c, s)
         \/ \E s \in Session : CreateAppShm(s) \/ CreateSessionPool(s)
         \/ \E s \in Session : SessionDestroyMembers(s) \/ SessionDeinit(s)
<1> USE DEF serverVars, sessionVars
<1>1. CASE ServerStart \/ ServerStartFails \/ ServerDestroyMembers \/ ServerDeinit \/ ProcessExit
  BY <1>1 DEF ServerStart, ServerStartFails, ServerDestroyMembers, ServerDeinit, ProcessExit
<1>2. ASSUME NEW s \in Session,
             FindAppShm(s) \/ RecordAppShm(s) \/ SetArenas(s) \/ Respond(s) \/ RespondFails(s)
      PROVE  linked' \subseteq linked /\ UNCHANGED <<life, srv_pid>>
  BY <1>2 DEF FindAppShm, RecordAppShm, SetArenas, Respond, RespondFails
<1>3. ASSUME NEW c \in Client,
             \/ ReceiveResponse(c) \/ ConnectFails(c) \/ OpenSessionPool(c)
             \/ OpenSessionPoolFails(c) \/ OpenAppPool(c) \/ OpenAppPoolFails(c) \/ ClientEnds(c)
      PROVE  linked' \subseteq linked /\ UNCHANGED <<life, srv_pid>>
  BY <1>3, ClientSteps
<1>4. CASE UNCHANGED vars
  BY <1>4 DEF vars
<1> QED BY <1>1, <1>2, <1>3, <1>4, Steps

LEMMA NamesStep ==
  ASSUME TypeOK, Lives, Names, LeakOnlyByCrash, [Next]_vars
  PROVE  Names'
<1> USE DEF serverVars, sessionVars
<1>1. ASSUME NEW p \in 1 .. MaxStarts, NEW s \in Session, <<"session", p, s>> \in linked'
      PROVE  srv_pid'[s] = p /\ life'[s] # "unborn"
  <2>1. CASE linked' \subseteq linked /\ UNCHANGED <<life, srv_pid>>
    BY <1>1, <2>1 DEF Names
  <2>2. CASE ServerCrash
    <3>1. /\ UNCHANGED <<linked, srv_pid>>
          /\ \A r \in Session : life'[r] = IF Exists(r) THEN "crashed" ELSE life[r]
      BY <2>2 DEF ServerCrash
    <3> QED BY <1>1, <3>1 DEF Names
  <2>3. ASSUME NEW c \in Client, NEW r \in Session, LogInRequest(c, r)
        PROVE  srv_pid'[s] = p /\ life'[s] # "unborn"
    <3>1. /\ life[r] = "unborn" /\ linked' = linked
          /\ s # r => srv_pid'[s] = srv_pid[s] /\ life'[s] = life[s]
      BY <2>3, LogInSteps
    <3> QED BY <1>1, <3>1 DEF Names
  <2>4. ASSUME NEW r \in Session, CreateAppShm(r)
        PROVE  srv_pid'[s] = p /\ life'[s] # "unborn"
    <3>1. /\ linked' \subseteq linked \cup {AppPool(pid, AppAt(r))} /\ UNCHANGED <<life, srv_pid>>
      BY <2>4 DEF CreateAppShm
    <3>2. <<"session", p, s>> # AppPool(pid, AppAt(r))
      BY DEF AppPool
    <3> QED BY <1>1, <3>1, <3>2 DEF Names
  <2>5. ASSUME NEW r \in Session, CreateSessionPool(r)
        PROVE  srv_pid'[s] = p /\ life'[s] # "unborn"
    <3>1. /\ linked' \subseteq linked \cup {SessionPool(r)} /\ UNCHANGED <<life, srv_pid>>
          /\ life[r] # "unborn"
      BY <2>5 DEF CreateSessionPool, ThreadW, Exists
    <3>2. CASE <<"session", p, s>> = SessionPool(r)
      BY <3>1, <3>2 DEF SessionPool
    <3>3. CASE <<"session", p, s>> \in linked
      BY <3>1, <3>3 DEF Names
    <3> QED BY <1>1, <3>1, <3>2, <3>3
  <2>6. ASSUME NEW r \in Session, SessionDestroyMembers(r) \/ SessionDeinit(r)
        PROVE  srv_pid'[s] = p /\ life'[s] # "unborn"
    <3>1. linked' \subseteq linked
      BY <2>6 DEF SessionDestroyMembers, SessionDeinit
    <3>2. UNCHANGED srv_pid /\ life'[r] # "unborn" /\ (s # r => life'[s] = life[s])
      BY <2>6, DestructorSteps
    <3> QED BY <1>1, <3>1, <3>2 DEF Names
  <2> QED BY <2>1, <2>2, <2>3, <2>4, <2>5, <2>6, NameSteps
<1>2. pool_names' \subseteq {"app"} \X (1 .. MaxStarts) \X App
  <2>1. CASE pool_names' \subseteq pool_names
    BY <2>1 DEF Names
  <2>2. ASSUME NEW s \in Session, RecordAppShm(s)
        PROVE  pool_names' \subseteq {"app"} \X (1 .. MaxStarts) \X App
    <3>1. AppAt(s) \in App /\ pid \in 1 .. MaxStarts
      BY <2>2, SessionSteps, RunningSession
    <3>2. AppPool(pid, AppAt(s)) \in {"app"} \X (1 .. MaxStarts) \X App
      BY <3>1 DEF AppPool
    <3>3. pool_names' \subseteq pool_names \cup {AppPool(pid, AppAt(s))}
      BY <2>2 DEF RecordAppShm
    <3> QED BY <3>2, <3>3 DEF Names
  <2>3. pool_names' \subseteq pool_names \/ \E s \in Session : RecordAppShm(s)
    <3>1. CASE \/ ServerStart \/ ServerStartFails \/ ServerDestroyMembers \/ ServerDeinit
               \/ ProcessExit \/ ServerCrash
      BY <3>1 DEF ServerStart, ServerStartFails, ServerDestroyMembers, ServerDeinit, ProcessExit, ServerCrash
    <3>2. CASE UNCHANGED pool_names
      BY <3>2
    <3>3. ASSUME NEW s \in Session,
                 \/ FindAppShm(s) \/ CreateAppShm(s) \/ CreateSessionPool(s)
                 \/ SetArenas(s) \/ Respond(s) \/ RespondFails(s)
                 \/ SessionDestroyMembers(s) \/ SessionDeinit(s)
          PROVE  UNCHANGED pool_names
      BY <3>3 DEF FindAppShm, CreateAppShm, CreateSessionPool, SetArenas, Respond, RespondFails,
                  SessionDestroyMembers, SessionDeinit
    <3>4. ASSUME NEW c \in Client,
                 \/ ReceiveResponse(c) \/ ConnectFails(c) \/ OpenSessionPool(c)
                 \/ OpenSessionPoolFails(c) \/ OpenAppPool(c) \/ OpenAppPoolFails(c) \/ ClientEnds(c)
          PROVE  UNCHANGED pool_names
      BY <3>4, ClientSteps
    <3>5. ASSUME NEW c \in Client, NEW s \in Session, LogInRequest(c, s)
          PROVE  UNCHANGED pool_names
      BY <3>5 DEF LogInRequest
    <3>6. CASE UNCHANGED vars
      BY <3>6 DEF vars
    <3> QED BY <3>1, <3>3, <3>4, <3>5, <3>6, Steps
  <2> QED BY <2>1, <2>2, <2>3
\* No process: everything was unlinked on the way out.
<1>3. ASSUME server' = "down"
      PROVE  linked' = {}
  <2>1. CASE ProcessExit
    <3>1. server = "closed" /\ linked' = linked /\ \A s \in Session : srv_pid[s] = pid => ~Exists(s)
      BY <2>1 DEF ProcessExit
    <3>2. ASSUME NEW name \in linked
          PROVE  FALSE
      <4>1. name \in PoolName /\ name[2] = pid
        BY <3>1, TypeParts DEF ServerType, LeakOnlyByCrash
      <4>2. CASE \E s \in Session : name = <<"session", pid, s>>
        <5>1. PICK s \in Session : name = <<"session", pid, s>>
          BY <4>2
        <5>2. pid \in 1 .. MaxStarts
          BY <4>1, <5>1 DEF PoolName
        <5>3. srv_pid[s] = pid
          BY <5>1, <5>2 DEF Names
        <5>4. SessionPool(s) \in linked
          BY <5>1, <5>3 DEF SessionPool
        <5> QED BY <3>1, <5>3, <5>4 DEF LeakOnlyByCrash
      <4>3. CASE \E a \in App : name = <<"app", pid, a>>
        BY <3>1, <4>3 DEF LeakOnlyByCrash, AppPool
      <4> QED BY <4>1, <4>2, <4>3 DEF PoolName
    <3> QED BY <3>1, <3>2
  <2>2. CASE ServerStartFails
    BY <1>3, <2>2 DEF ServerStartFails, Names
  <2>3. CASE ServerStart \/ ServerDestroyMembers \/ ServerDeinit \/ ServerCrash
    BY <1>3, <2>3 DEF ServerStart, ServerDestroyMembers, ServerDeinit, ServerCrash
  <2>4. ASSUME NEW c \in Client, NEW s \in Session, LogInRequest(c, s)
        PROVE  linked' = {}
    BY <1>3, <2>4 DEF LogInRequest
  <2>5. ASSUME NEW s \in Session,
               \/ FindAppShm(s) \/ CreateAppShm(s) \/ RecordAppShm(s) \/ CreateSessionPool(s)
               \/ SetArenas(s) \/ Respond(s) \/ RespondFails(s)
        PROVE  linked' = {}
    <3>1. Exists(s) /\ server = "down"
      BY <1>3, <2>5, SessionSteps
    <3> QED BY <3>1 DEF Lives, Running
  <2>6. ASSUME NEW s \in Session, SessionDestroyMembers(s) \/ SessionDeinit(s)
        PROVE  linked' = {}
    <3>1. linked' \subseteq linked /\ server' = server
      BY <2>6 DEF SessionDestroyMembers, SessionDeinit
    <3> QED BY <1>3, <3>1 DEF Names
  <2>7. ASSUME NEW c \in Client,
               \/ ReceiveResponse(c) \/ ConnectFails(c) \/ OpenSessionPool(c)
               \/ OpenSessionPoolFails(c) \/ OpenAppPool(c) \/ OpenAppPoolFails(c) \/ ClientEnds(c)
        PROVE  linked' = {}
    BY <1>3, <2>7, ClientSteps DEF Names
  <2>8. CASE UNCHANGED vars
    BY <1>3, <2>8 DEF Names, vars
  <2> QED BY <2>1, <2>2, <2>3, <2>4, <2>5, <2>6, <2>7, <2>8, Steps
<1> QED BY <1>1, <1>2, <1>3 DEF Names

\* Different sessions have different pools, and none is an app's.
LEMMA NamesDiffer ==
  ASSUME NEW s \in Session, NEW r \in Session
  PROVE  /\ s # r => SessionPool(s) # SessionPool(r)
         /\ \A p, a : SessionPool(s) # AppPool(p, a)
BY DEF SessionPool, AppPool

LEMMA SessionPoolsStep ==
  ASSUME TypeOK, Lives, Names, SessionPools, [Next]_vars
  PROVE  SessionPools'
<1> USE DEF serverVars, sessionVars
<1> DEFINE Same(s) == /\ w'[s] = w[s] /\ deinit'[s] = deinit[s] /\ srv_pid'[s] = srv_pid[s]
                      /\ life'[s] = life[s] /\ srv_session'[s] = srv_session[s]
           Part(s) == /\ deinit[s] => w[s] \in {"arenas set", "peer", "failed"}
                      /\ w[s] \in {"pool created", "arenas set", "peer"} /\ Exists(s) =>
                           SessionPool(s) \in linked
                      /\ w[s] \in {"arenas set", "peer"} /\ life[s] = "alive" =>
                           srv_session[s] = "attached"
\* A session that did nothing, while its pool stayed.
<1>1. ASSUME NEW s \in Session, Same(s), Exists(s) /\ SessionPool(s) \in linked => SessionPool(s) \in linked'
      PROVE  Part(s)'
  <2>1. Part(s)
    BY DEF SessionPools
  <2>2. SessionPool(s)' = SessionPool(s) /\ (Exists(s)' <=> Exists(s))
    BY <1>1 DEF SessionPool, Exists
  <2> QED BY <1>1, <2>1, <2>2
<1>2. CASE \/ ServerStart \/ ServerStartFails \/ ServerDestroyMembers \/ ServerDeinit \/ ProcessExit
  <2>1. ASSUME NEW s \in Session
        PROVE  Same(s) /\ (Exists(s) /\ SessionPool(s) \in linked => SessionPool(s) \in linked')
    <3>1. Same(s)
      BY <1>2 DEF ServerStart, ServerStartFails, ServerDestroyMembers, ServerDeinit, ProcessExit
    <3>2. CASE ServerStart
      BY <3>1, <3>2 DEF Lives, Running, ServerStart
    <3>3. CASE ServerDeinit
      <4>1. SessionPool(s) \notin pool_names
        BY DEF Names, SessionPool
      <4> QED BY <3>1, <3>3, <4>1 DEF ServerDeinit
    <3>4. CASE ServerStartFails \/ ServerDestroyMembers \/ ProcessExit
      BY <3>1, <3>4 DEF ServerStartFails, ServerDestroyMembers, ProcessExit
    <3> QED BY <1>2, <3>2, <3>3, <3>4
  <2> HIDE DEF Same, Part
  <2>2. \A s \in Session : Part(s)'
    BY <1>1, <2>1
  <2> QED BY <2>2 DEF SessionPools, Part
<1>3. CASE ServerCrash
  <2>1. /\ UNCHANGED <<linked, w, deinit, srv_pid, srv_session>>
        /\ \A s \in Session : life'[s] = IF Exists(s) THEN "crashed" ELSE life[s]
    BY <1>3 DEF ServerCrash
  <2>2. ASSUME NEW s \in Session
        PROVE  Part(s)'
    <3>1. ~Exists(s)'
      BY <2>1 DEF Exists
    <3> QED BY <2>1, <3>1 DEF SessionPools, Exists
  <2> QED BY <2>2 DEF SessionPools
<1>4. ASSUME NEW c \in Client, NEW r \in Session, LogInRequest(c, r)
      PROVE  SessionPools'
  <2>1. /\ w[r] = "unused" /\ w'[r] = "request" /\ deinit' = deinit /\ linked' = linked
        /\ \A s \in Session \ {r} : Same(s)
    BY <1>4, LogInSteps
  <2>2. ASSUME NEW s \in Session
        PROVE  Part(s)'
    <3>1. CASE s = r
      <4>1. ~deinit[r]
        BY <2>1 DEF SessionPools
      <4> QED BY <2>1, <3>1, <4>1
    <3>2. CASE s # r
      <4> HIDE DEF Same, Part
      <4> QED BY <1>1, <2>1, <3>2
    <3> QED BY <3>1, <3>2
  <2> QED BY <2>2 DEF SessionPools
<1>5. ASSUME NEW r \in Session,
             \/ FindAppShm(r) \/ CreateAppShm(r) \/ RecordAppShm(r) \/ CreateSessionPool(r)
             \/ SetArenas(r) \/ Respond(r) \/ RespondFails(r)
      PROVE  SessionPools'
  <2>1. linked \subseteq linked'
    BY <1>5 DEF FindAppShm, CreateAppShm, RecordAppShm, CreateSessionPool, SetArenas, Respond, RespondFails
  <2>2. \A s \in Session \ {r} : Same(s)
    <3>1. \A s \in Session \ {r} : w'[s] = w[s] /\ srv_pid'[s] = srv_pid[s] /\ life'[s] = life[s]
      BY <1>5, SessionSteps
    <3>2. \A s \in Session \ {r} : deinit'[s] = deinit[s] /\ srv_session'[s] = srv_session[s]
      BY <1>5, TypeParts DEF SessionType, FindAppShm, CreateAppShm, RecordAppShm, CreateSessionPool, SetArenas,
                             Respond, RespondFails
    <3> QED BY <3>1, <3>2
  <2>3. UNCHANGED <<life, srv_pid>> /\ SessionPool(r)' = SessionPool(r) /\ (Exists(r)' <=> Exists(r))
        /\ Exists(r)
    BY <1>5, SessionSteps DEF SessionPool, Exists
  <2>4. Part(r)
    BY DEF SessionPools
  <2>5. Part(r)'
    <3>1. CASE FindAppShm(r) \/ CreateAppShm(r) \/ RecordAppShm(r)
      <4>1. /\ w[r] \in {"request", "app absent", "app created", "app refused"} /\ deinit' = deinit
            /\ w'[r] \in {"app absent", "app created", "app refused", "app ready", "failed"}
        BY <3>1, TypeParts DEF SessionType, FindAppShm, CreateAppShm, RecordAppShm, ThreadW, Progress
      <4> QED BY <2>4, <4>1
    <3>2. CASE CreateSessionPool(r)
      <4>1. /\ w[r] = "app ready" /\ deinit' = deinit
            /\ w'[r] = "failed" \/ (w'[r] = "pool created" /\ SessionPool(r) \in linked')
        BY <3>2, TypeParts DEF SessionType, CreateSessionPool, ThreadW, Progress
      <4> QED BY <2>3, <2>4, <4>1
    <3>3. CASE SetArenas(r)
      <4>1. /\ w[r] = "pool created" /\ w'[r] = "arenas set" /\ linked' = linked
            /\ life[r] = "alive" => srv_session'[r] = "attached"
        BY <3>3, TypeParts DEF SessionType, SetArenas, ThreadW, Progress
      <4> QED BY <2>3, <2>4, <4>1
    <3>4. CASE Respond(r)
      <4>1. /\ w[r] = "arenas set" /\ w'[r] = "peer" /\ linked' = linked
            /\ UNCHANGED <<srv_session, deinit>>
        BY <3>4, TypeParts DEF SessionType, Respond, ThreadW, Progress
      <4> QED BY <2>3, <2>4, <4>1
    <3>5. CASE RespondFails(r)
      <4>1. w'[r] = "failed"
        BY <3>5, TypeParts DEF SessionType, RespondFails, Progress
      <4> QED BY <4>1
    <3> QED BY <1>5, <3>1, <3>2, <3>3, <3>4, <3>5
  <2> HIDE DEF Same, Part
  <2>6. \A s \in Session : Part(s)'
    BY <1>1, <2>1, <2>2, <2>5
  <2> QED BY <2>6 DEF SessionPools, Part
<1>6. ASSUME NEW r \in Session, SessionDestroyMembers(r) \/ SessionDeinit(r)
      PROVE  SessionPools'
  <2>1. /\ life[r] \in {"alive", "members gone"} /\ life'[r] \in {"members gone", "destroyed"}
        /\ \A s \in Session \ {r} : life'[s] = life[s]
        /\ UNCHANGED <<w, srv_pid, deinit>>
    BY <1>6, DestructorSteps
  <2>2. \A s \in Session \ {r} : Same(s)
    BY <1>6, <2>1, TypeParts DEF SessionType, SessionDestroyMembers, SessionDeinit
  <2>3. \A s \in Session \ {r} : SessionPool(s) \in linked => SessionPool(s) \in linked'
    BY <1>6, NamesDiffer DEF SessionDestroyMembers, SessionDeinit
  <2>4. Part(r)'
    <3>1. life'[r] = "destroyed" \/ linked' = linked
      BY <1>6, TypeParts DEF SessionType, SessionDestroyMembers, SessionDeinit
    <3>2. SessionPool(r)' = SessionPool(r)
      BY <2>1 DEF SessionPool
    <3> QED BY <2>1, <3>1, <3>2 DEF SessionPools, Exists
  <2> HIDE DEF Same, Part
  <2>5. \A s \in Session : Part(s)'
    BY <1>1, <2>2, <2>3, <2>4
  <2> QED BY <2>5 DEF SessionPools, Part
<1>7. ASSUME NEW c \in Client,
             \/ ReceiveResponse(c) \/ ConnectFails(c) \/ OpenSessionPool(c)
             \/ OpenSessionPoolFails(c) \/ OpenAppPool(c) \/ OpenAppPoolFails(c) \/ ClientEnds(c)
      PROVE  SessionPools'
  BY <1>7, ClientSteps DEF SessionPools, SessionPool, Exists
<1>8. CASE UNCHANGED vars
  BY <1>8 DEF SessionPools, SessionPool, Exists, vars
<1> QED BY <1>2, <1>3, <1>4, <1>5, <1>6, <1>7, <1>8, Steps

\* The mutex is held as long as its holder is in init_app_shm_as_needed().
LEMMA MutexStep ==
  ASSUME TypeOK, Lives, Mutex, [Next]_vars
  PROVE  Mutex'
<1> USE DEF serverVars, sessionVars
<1> DEFINE Excludes(s, r) == InAppShm(s) /\ InAppShm(r) /\ srv_pid[s] = pid /\ srv_pid[r] = pid => s = r
           Knows(s) ==
             /\ InAppShm(s) => life[s] # "destroyed"
             /\ server = "up" /\ ThreadW(s, "app absent") => app_map[AppAt(s)] = "null"
             /\ ThreadW(s, "app created") => app_map[AppAt(s)] = "attached"
             /\ ThreadW(s, "app ready") => app_map[AppAt(s)] # "null"
\* No step of a thread W.
<1>1. ASSUME \A s \in Session : InAppShm(s)' <=> InAppShm(s),
             \A s \in Session : InAppShm(s) /\ srv_pid'[s] = pid' => srv_pid[s] = pid,
             \A s \in Session : InAppShm(s) => life'[s] # "destroyed",
             \A s \in Session, step \in {"app absent", "app created", "app ready"} :
               ThreadW(s, step)' =>
                 ThreadW(s, step) /\ AppAt(s)' = AppAt(s) /\ app_map' = app_map
                 /\ (server' = "up" => server = "up")
      PROVE  Mutex'
  <2>1. ASSUME NEW s \in Session, NEW r \in Session
        PROVE  Excludes(s, r)'
    <3>1. Excludes(s, r)
      BY DEF Mutex
    <3> HIDE DEF serverVars
    <3> QED BY <1>1, <3>1
  <2>2. ASSUME NEW s \in Session
        PROVE  Knows(s)'
    BY <1>1 DEF Mutex
  <2> QED BY <2>1, <2>2 DEF Mutex
\* A step of one: it alone may come to have the mutex, and alone changes the map.
<1>2. ASSUME NEW r \in Session, UNCHANGED <<pid, server, life, srv_pid, peer>>, Exists(r),
             \A s \in Session \ {r} : w'[s] = w[s],
             InAppShm(r)' => InAppShm(r) \/ MutexFree,
             app_map' = app_map \/ (InAppShm(r) /\ \A a \in App \ {AppAt(r)} : app_map'[a] = app_map[a]),
             app_map'[AppAt(r)] = "null" => app_map[AppAt(r)] = "null",
             Knows(r)'
      PROVE  Mutex'
  <2>1. life[r] # "destroyed"
    BY <1>2 DEF Exists
  <2>2. srv_pid[r] = pid
    BY <1>2 DEF Lives
  <2>3. ASSUME NEW s \in Session, NEW q \in Session
        PROVE  Excludes(s, q)'
    <3>1. Excludes(s, q) /\ Excludes(s, r) /\ Excludes(r, q)
      BY DEF Mutex
    <3>2. \A p \in Session \ {r} : InAppShm(p)' <=> InAppShm(p)
      BY <1>2 DEF InAppShm
    <3>3. MutexFree => \A p \in Session : InAppShm(p) => srv_pid[p] # pid
      BY DEF MutexFree
    <3> QED BY <1>2, <3>1, <3>2, <3>3
  <2>4. ASSUME NEW s \in Session \ {r}
        PROVE  Knows(s)'
    <3>1. Knows(s) /\ Excludes(s, r)
      BY DEF Mutex
    <3>2. /\ AppAt(s)' = AppAt(s) /\ (InAppShm(s)' <=> InAppShm(s))
          /\ \A step : ThreadW(s, step)' <=> ThreadW(s, step)
      BY <1>2 DEF AppAt, InAppShm, ThreadW, Exists
    <3>3. \A step : ThreadW(s, step) => srv_pid[s] = pid /\ AppAt(s) \in App
      BY RunningSession DEF ThreadW
    <3>4. \A step \in {"app absent", "app created"} : ThreadW(s, step) => InAppShm(s)
      BY DEF ThreadW, InAppShm
    <3>5. \A step \in {"app absent", "app created"} : ThreadW(s, step) => app_map' = app_map
      BY <1>2, <2>2, <3>1, <3>3, <3>4
    <3>6. ThreadW(s, "app ready") => app_map'[AppAt(s)] # "null"
      BY <1>2, <3>1, <3>3
    <3> QED BY <1>2, <3>1, <3>2, <3>5, <3>6
  <2> QED BY <1>2, <2>3, <2>4 DEF Mutex
<1> HIDE DEF Excludes
<1>3. CASE ServerStart
  <2>1. /\ UNCHANGED sessionVars /\ pid' = pid + 1 /\ server \in {"down", "crashed"}
    BY <1>3 DEF ServerStart
  <2>2. \A s \in Session : InAppShm(s) => srv_pid[s] # pid'
    <3>1. \A s \in Session : InAppShm(s) => srv_pid[s] \in 1 .. pid
      BY DEF Lives, InAppShm
    <3>2. pid \in Nat
      BY TypeParts, SetupAssumption DEF ServerType
    <3> QED BY <2>1, <3>1, <3>2
  <2>3. \A s \in Session, step \in {"app absent", "app created", "app ready"} : ~ThreadW(s, step)'
    BY <2>1 DEF ThreadW, Exists, Lives, Running
  <2>4. \A s \in Session : (InAppShm(s)' <=> InAppShm(s)) /\ (InAppShm(s) => life'[s] # "destroyed")
    BY <2>1 DEF InAppShm, Mutex
  <2> QED BY <1>1, <2>1, <2>2, <2>3, <2>4
<1>4. CASE ServerStartFails
  <2>1. /\ UNCHANGED <<server, app_map, sessionVars>> /\ pid' = pid + 1
    BY <1>4 DEF ServerStartFails
  <2>2. \A s \in Session : InAppShm(s) => srv_pid[s] # pid'
    <3>1. \A s \in Session : InAppShm(s) => srv_pid[s] \in 1 .. pid
      BY DEF Lives, InAppShm
    <3>2. pid \in Nat
      BY TypeParts, SetupAssumption DEF ServerType
    <3> QED BY <2>1, <3>1, <3>2
  <2>3. \A s \in Session : (InAppShm(s)' <=> InAppShm(s)) /\ (InAppShm(s) => life'[s] # "destroyed")
    BY <2>1 DEF InAppShm, Mutex
  <2>4. \A s \in Session, step \in {"app absent", "app created", "app ready"} : ~ThreadW(s, step)'
    <3>1. ~Running
      BY <1>4 DEF ServerStartFails, Running
    <3> QED BY <2>1, <3>1 DEF ThreadW, Exists, Lives
  <2>5. \A s \in Session : InAppShm(s) /\ srv_pid'[s] = pid' => srv_pid[s] = pid
    BY <2>1, <2>2
  <2> QED BY <1>1, <2>3, <2>4, <2>5
<1>5. CASE ServerDestroyMembers \/ ServerDeinit \/ ProcessExit
  <2>1. UNCHANGED <<pid, app_map, sessionVars>> /\ server' # "up"
    BY <1>5 DEF ServerDestroyMembers, ServerDeinit, ProcessExit
  <2>2. \A s \in Session : (InAppShm(s)' <=> InAppShm(s)) /\ (InAppShm(s) => life'[s] # "destroyed")
    BY <2>1 DEF InAppShm, Mutex
  <2>3. \A s \in Session : \A step : AppAt(s)' = AppAt(s) /\ (ThreadW(s, step)' <=> ThreadW(s, step))
    BY <2>1 DEF ThreadW, Exists, AppAt
  <2> QED BY <1>1, <2>1, <2>2, <2>3
<1>6. CASE ServerCrash
  <2>1. /\ UNCHANGED <<pid, w, srv_pid>>
        /\ \A s \in Session : life'[s] = IF Exists(s) THEN "crashed" ELSE life[s]
    BY <1>6 DEF ServerCrash
  <2>2. \A s \in Session : \A step : ~ThreadW(s, step)'
    BY <2>1 DEF ThreadW, Exists
  <2>3. \A s \in Session : (InAppShm(s)' <=> InAppShm(s)) /\ (InAppShm(s) => life'[s] # "destroyed")
    BY <2>1 DEF InAppShm, Mutex
  <2> QED BY <1>1, <2>1, <2>2, <2>3
<1>7. ASSUME NEW c \in Client, NEW r \in Session, LogInRequest(c, r)
      PROVE  Mutex'
  <2>1. /\ w[r] = "unused" /\ w'[r] = "request" /\ UNCHANGED serverVars
        /\ \A s \in Session \ {r} : /\ life'[s] = life[s] /\ w'[s] = w[s]
                                    /\ srv_pid'[s] = srv_pid[s] /\ peer'[s] = peer[s]
    BY <1>7, LogInSteps
  <2>2. ~InAppShm(r) /\ ~InAppShm(r)'
    BY <2>1 DEF InAppShm
  <2>3. \A s \in Session : /\ InAppShm(s)' <=> InAppShm(s)
                           /\ InAppShm(s) => srv_pid'[s] = srv_pid[s] /\ life'[s] # "destroyed"
    BY <2>1, <2>2 DEF InAppShm, Mutex
  <2>4. \A s \in Session, step \in {"app absent", "app created", "app ready"} :
          ThreadW(s, step)' => ThreadW(s, step) /\ AppAt(s)' = AppAt(s)
    BY <2>1 DEF ThreadW, Exists, AppAt
  <2> QED BY <1>1, <2>1, <2>3, <2>4
<1>8. ASSUME NEW r \in Session,
             \/ FindAppShm(r) \/ CreateAppShm(r) \/ RecordAppShm(r) \/ CreateSessionPool(r)
             \/ SetArenas(r) \/ Respond(r) \/ RespondFails(r)
      PROVE  Mutex'
  <2>1. /\ UNCHANGED <<pid, server, life, srv_pid, peer>> /\ Exists(r)
        /\ \A s \in Session \ {r} : w'[s] = w[s]
    BY <1>8, SessionSteps
  <2>2. /\ AppAt(r)' = AppAt(r) /\ AppAt(r) \in App /\ life'[r] # "destroyed"
        /\ \A step : ThreadW(r, step)' <=> w'[r] = step
    BY <2>1, RunningSession DEF AppAt, ThreadW, Exists
  <2>3. CASE FindAppShm(r)
    <3>1. /\ MutexFree /\ app_map' = app_map
          /\ \/ w'[r] = "app absent" /\ (server = "up" => app_map[AppAt(r)] = "null")
             \/ w'[r] = "app ready" /\ app_map[AppAt(r)] # "null"
      BY <2>3, TypeParts DEF SessionType, FindAppShm, Found, Progress
    <3>2. Knows(r)'
      BY <2>1, <2>2, <3>1
    <3> HIDE DEF Knows
    <3> QED BY <1>2, <2>1, <3>1, <3>2
  <2>4. CASE CreateAppShm(r)
    <3>1. InAppShm(r)
      BY <2>4 DEF CreateAppShm, ThreadW, InAppShm
    <3>2. app_map \in [App -> ArenaPtr]
      BY TypeParts DEF ServerType
    <3>3. /\ \A a \in App \ {AppAt(r)} : app_map'[a] = app_map[a]
          /\ \/ w'[r] = "app created" /\ app_map'[AppAt(r)] = "attached"
             \/ w'[r] = "app refused" /\ app_map'[AppAt(r)] = "poolless"
      BY <2>2, <2>4, <3>2, TypeParts DEF SessionType, CreateAppShm, AppArenaAfterFailure, Progress
    <3>4. Knows(r)'
      BY <2>1, <2>2, <3>3
    <3> HIDE DEF Knows
    <3> QED BY <1>2, <2>1, <3>1, <3>3, <3>4
  <2>5. CASE RecordAppShm(r)
    <3>1. /\ app_map' = app_map
          /\ \/ ThreadW(r, "app created") /\ w'[r] = "app ready"
             \/ w'[r] = "failed"
      BY <2>5, TypeParts DEF SessionType, RecordAppShm, Progress
    <3>2. ThreadW(r, "app created") => app_map[AppAt(r)] = "attached"
      BY DEF Mutex
    <3>3. Knows(r)' /\ ~InAppShm(r)'
      BY <2>1, <2>2, <3>1, <3>2 DEF InAppShm
    <3> HIDE DEF Knows
    <3> QED BY <1>2, <2>1, <3>1, <3>3
  <2>6. CASE CreateSessionPool(r) \/ SetArenas(r) \/ Respond(r) \/ RespondFails(r)
    <3>1. app_map' = app_map /\ w'[r] \in {"pool created", "failed", "arenas set", "peer"}
      BY <2>6, TypeParts DEF SessionType, CreateSessionPool, SetArenas, Respond, RespondFails, Progress
    <3>2. Knows(r)' /\ ~InAppShm(r)'
      BY <2>2, <3>1 DEF InAppShm
    <3> HIDE DEF Knows
    <3> QED BY <1>2, <2>1, <3>1, <3>2
  <2> QED BY <1>8, <2>3, <2>4, <2>5, <2>6
<1>9. ASSUME NEW r \in Session, SessionDestroyMembers(r) \/ SessionDeinit(r)
      PROVE  Mutex'
  <2>1. /\ UNCHANGED <<serverVars, w, srv_pid, peer>> /\ life[r] \in {"alive", "members gone"}
        /\ life'[r] = "members gone" \/ ~InAppShm(r)
        /\ \A s \in Session \ {r} : life'[s] = life[s]
    BY <1>9, DestructorSteps, TypeParts DEF SessionType, SessionDestroyMembers, SessionDeinit, InSetupTask
  <2>2. \A s \in Session : (InAppShm(s)' <=> InAppShm(s)) /\ (InAppShm(s) => life'[s] # "destroyed")
    BY <2>1 DEF InAppShm, Mutex
  <2>3. \A s \in Session : \A step : AppAt(s)' = AppAt(s) /\ (ThreadW(s, step)' => ThreadW(s, step))
    BY <2>1 DEF ThreadW, Exists, AppAt
  <2> QED BY <1>1, <2>1, <2>2, <2>3
<1>10. ASSUME UNCHANGED <<serverVars, sessionVars>>
       PROVE  Mutex'
  BY <1>10 DEF Mutex, InAppShm, ThreadW, Exists, AppAt
<1>11. ASSUME NEW c \in Client,
             \/ ReceiveResponse(c) \/ ConnectFails(c) \/ OpenSessionPool(c)
             \/ OpenSessionPoolFails(c) \/ OpenAppPool(c) \/ OpenAppPoolFails(c) \/ ClientEnds(c)
       PROVE  Mutex'
  BY <1>10, <1>11, ClientSteps
<1>12. CASE UNCHANGED vars
  BY <1>10, <1>12 DEF vars
<1> QED BY <1>3, <1>4, <1>5, <1>6, <1>7, <1>8, <1>9, <1>11, <1>12, Steps

\* The map says what pools of apps there are, while there is a map.
LEMMA AppPoolsStep ==
  ASSUME TypeOK, Lives, Mutex, AppPools, [Next]_vars
  PROVE  AppPools'
<1> USE DEF serverVars, sessionVars
<1>1. CASE ServerStart \/ ServerDestroyMembers \/ ServerDeinit \/ ProcessExit \/ ServerCrash
  BY <1>1 DEF AppPools, ServerStart, CleanedUp, ServerDestroyMembers, ServerDeinit, ProcessExit, ServerCrash
<1>2. CASE ServerStartFails
  BY <1>2 DEF AppPools, ServerStartFails
<1>3. ASSUME NEW s \in Session, CreateAppShm(s), server = "up"
      PROVE  AppPools'
  <2> DEFINE a == AppAt(s)
  <2>1. a \in App /\ app_map[a] = "null" /\ UNCHANGED <<pid, server>>
    BY <1>3, SessionSteps, RunningSession DEF CreateAppShm, Mutex
  <2>2. \A b \in App \ {a} : AppPool(pid, b) # AppPool(pid, a)
    BY DEF AppPool
  <2>3. \A b \in App \ {a} : app_map'[b] = app_map[b] /\ (AppPool(pid, b) \in linked' => AppPool(pid, b) \in linked)
    <3>1. linked' \subseteq linked \cup {AppPool(pid, a)}
      BY <1>3 DEF CreateAppShm
    <3>2. app_map \in [App -> ArenaPtr]
      BY TypeParts DEF ServerType
    <3>3. \A b \in App \ {a} : app_map'[b] = app_map[b]
      BY <1>3, <2>1, <3>2 DEF CreateAppShm
    <3> QED BY <2>2, <3>1, <3>3
  <2>4. AppPool(pid, a) \in linked' => app_map'[a] = "attached"
    <3>1. AppPool(pid, a) \notin linked
      BY <1>3, <2>1 DEF AppPools
    <3>2. app_map \in [App -> ArenaPtr]
      BY TypeParts DEF ServerType
    <3> QED BY <1>3, <2>1, <3>1, <3>2 DEF CreateAppShm
  <2> HIDE DEF a
  <2>5. \A b \in App : AppPool(pid, b) \in linked' => app_map'[b] = "attached"
    BY <1>3, <2>1, <2>3, <2>4 DEF AppPools
  <2> QED BY <2>1, <2>5 DEF AppPools, AppPool
<1>4. ASSUME NEW s \in Session, CreateSessionPool(s)
      PROVE  AppPools'
  <2>1. UNCHANGED serverVars /\ linked' \subseteq linked \cup {SessionPool(s)}
    BY <1>4 DEF CreateSessionPool
  <2>2. \A b \in App : AppPool(pid, b) \in linked' => AppPool(pid, b) \in linked
    BY <2>1, NamesDiffer
  <2> QED BY <2>1, <2>2 DEF AppPools, AppPool
<1>5. CASE UNCHANGED <<pid, server>> /\ server # "up"
  BY <1>5 DEF AppPools
<1>6. CASE UNCHANGED <<pid, server, app_map>> /\ linked' \subseteq linked
  BY <1>6 DEF AppPools, AppPool
<1>7. ASSUME NEW s \in Session, CreateAppShm(s)
      PROVE  UNCHANGED <<pid, server>>
  BY <1>7, SessionSteps
<1>8. ASSUME NEW s \in Session,
             \/ FindAppShm(s) \/ RecordAppShm(s) \/ SetArenas(s) \/ Respond(s) \/ RespondFails(s)
             \/ SessionDestroyMembers(s) \/ SessionDeinit(s)
      PROVE  UNCHANGED <<pid, server, app_map>> /\ linked' \subseteq linked
  BY <1>8 DEF FindAppShm, RecordAppShm, SetArenas, Respond, RespondFails, SessionDestroyMembers, SessionDeinit
<1>9. ASSUME NEW c \in Client,
             \/ ReceiveResponse(c) \/ ConnectFails(c) \/ OpenSessionPool(c)
             \/ OpenSessionPoolFails(c) \/ OpenAppPool(c) \/ OpenAppPoolFails(c) \/ ClientEnds(c)
      PROVE  UNCHANGED <<pid, server, app_map>> /\ linked' \subseteq linked
  BY <1>9, ClientSteps
<1>10. ASSUME NEW c \in Client, NEW s \in Session, LogInRequest(c, s)
      PROVE  UNCHANGED <<pid, server, app_map>> /\ linked' \subseteq linked
  BY <1>10 DEF LogInRequest
<1>11. CASE UNCHANGED vars
  BY <1>6, <1>11 DEF vars
<1> QED BY <1>1, <1>2, <1>3, <1>4, <1>5, <1>6, <1>7, <1>8, <1>9, <1>10, <1>11, Steps

LEMMA AppArenasStep ==
  ASSUME TypeOK, Lives, Mutex, AppPools, AppArenas, [Next]_vars
  PROVE  AppArenas'
<1> USE DEF serverVars, sessionVars
<1> DEFINE Same(s) == /\ w'[s] = w[s] /\ srv_app'[s] = srv_app[s] /\ srv_pid'[s] = srv_pid[s]
                      /\ peer'[s] = peer[s]
           Part(s) ==
             /\ w[s] \in {"unused", "request"} => srv_app[s] = "null"
             /\ w[s] \in {"pool created", "arenas set", "peer"} => srv_app[s] # "null"
             /\ srv_pid[s] \notin dangling /\ srv_app[s] # "null" /\ AppPool(srv_pid[s], AppAt(s)) \in linked =>
                  srv_app[s] = "attached"
             /\ server = "up" /\ srv_app[s] # "null" /\ srv_pid[s] = pid => srv_app[s] = app_map[AppAt(s)]
\* The names of apps, and the map, do not change for a session that did nothing.
<1>1. ASSUME NEW s \in Session, Same(s), UNCHANGED <<pid, server, app_map>>, dangling \subseteq dangling',
             \A p, a : AppPool(p, a) \in linked' => AppPool(p, a) \in linked
      PROVE  Part(s)'
  <2>1. AppAt(s)' = AppAt(s)
    BY <1>1 DEF AppAt
  <2>2. AppPool(srv_pid[s], AppAt(s))' = AppPool(srv_pid[s], AppAt(s))
    BY <1>1, <2>1 DEF AppPool
  <2>3. Part(s)
    BY DEF AppArenas
  <2> QED BY <1>1, <2>1, <2>2, <2>3
<1>2. CASE ServerStart
  <2>1. /\ UNCHANGED sessionVars /\ linked' = {} /\ pid' = pid + 1
    BY <1>2 DEF ServerStart, CleanedUp
  <2>2. ASSUME NEW s \in Session
        PROVE  Part(s)'
    <3>1. Part(s)
      BY DEF AppArenas
    <3>2. srv_app[s] # "null" => srv_pid'[s] # pid'
      <4>1. srv_app[s] # "null" => srv_pid[s] \in 1 .. pid
        BY <3>1 DEF Lives
      <4>2. pid \in Nat
        BY TypeParts, SetupAssumption DEF ServerType
      <4> QED BY <2>1, <4>1, <4>2
    <3> QED BY <2>1, <3>1, <3>2
  <2> QED BY <2>2 DEF AppArenas
<1>3. CASE ServerStartFails \/ ServerDestroyMembers \/ ServerDeinit \/ ProcessExit
  <2>1. /\ UNCHANGED sessionVars /\ linked' \subseteq linked /\ server' # "up"
    BY <1>3 DEF ServerStartFails, ServerDestroyMembers, ServerDeinit, ProcessExit
  <2>2. \A s \in Session : AppPool(srv_pid[s], AppAt(s))' = AppPool(srv_pid[s], AppAt(s))
    BY <2>1 DEF AppPool, AppAt
  <2> QED BY <2>1, <2>2 DEF AppArenas
<1>4. CASE ServerCrash
  <2>1. /\ UNCHANGED <<w, srv_app, srv_pid, peer, dangling, linked>> /\ server' # "up"
    BY <1>4 DEF ServerCrash
  <2>2. \A s \in Session : AppPool(srv_pid[s], AppAt(s))' = AppPool(srv_pid[s], AppAt(s))
    BY <2>1 DEF AppPool, AppAt
  <2> QED BY <2>1, <2>2 DEF AppArenas
<1>5. ASSUME NEW c \in Client, NEW r \in Session, LogInRequest(c, r)
      PROVE  AppArenas'
  <2>1. /\ w[r] = "unused" /\ w'[r] = "request" /\ UNCHANGED <<linked, serverVars, srv_app, dangling>>
        /\ \A s \in Session \ {r} : Same(s)
    BY <1>5, LogInSteps
  <2>2. Part(r)'
    BY <2>1 DEF AppArenas
  <2> HIDE DEF Same, Part
  <2>3. \A s \in Session : Part(s)'
    BY <1>1, <2>1, <2>2
  <2> QED BY <2>3 DEF AppArenas, Part
<1>6. ASSUME NEW r \in Session, CreateAppShm(r)
      PROVE  AppArenas'
  <2> DEFINE a == AppAt(r)
  <2>1. /\ a \in App /\ srv_pid[r] = pid /\ ThreadW(r, "app absent")
        /\ UNCHANGED <<pid, server, life, srv_pid, peer>> /\ dangling \subseteq dangling'
        /\ \A s \in Session \ {r} : w'[s] = w[s]
    BY <1>6, SessionSteps, RunningSession DEF CreateAppShm
  <2>2. /\ w'[r] \notin {"unused", "request", "pool created", "arenas set", "peer"} /\ srv_app' = srv_app
    BY <1>6, TypeParts DEF SessionType, CreateAppShm, Progress
  <2>3. /\ linked' \subseteq linked \cup {AppPool(pid, a)}
        /\ \A b \in App \ {a} : app_map'[b] = app_map[b]
    <3>1. app_map \in [App -> ArenaPtr]
      BY TypeParts DEF ServerType
    <3> QED BY <1>6, <3>1 DEF CreateAppShm
  <2>4. server = "up" => app_map[a] = "null"
    BY <2>1 DEF Mutex
  <2>5. server # "up" => pid \in dangling'
    BY <1>6, UsesDestroyedServer
  <2>6. ASSUME NEW s \in Session
        PROVE  Part(s)'
    <3>1. Part(s) /\ AppAt(s)' = AppAt(s)
      BY <2>1 DEF AppArenas, AppAt
    <3>2. AppPool(srv_pid[s], AppAt(s))' = AppPool(srv_pid[s], AppAt(s))
      BY <2>1, <3>1 DEF AppPool
    <3>3. srv_app[s] # "null" => AppAt(s) \in App
      <4>1. srv_app[s] # "null" => peer[s] \in Client
        BY <3>1 DEF Lives
      <4> QED BY <4>1, SetupAssumption DEF AppAt
    <3>4. server = "up" /\ srv_app[s] # "null" /\ srv_pid[s] = pid => AppAt(s) # a
      BY <2>4, <3>1
    <3>5. AppPool(srv_pid[s], AppAt(s)) = AppPool(pid, a) => srv_pid[s] = pid /\ AppAt(s) = a
      BY DEF AppPool
    <3> HIDE DEF a
    <3>6. srv_pid[s] \notin dangling' /\ srv_app[s] # "null" /\ AppPool(srv_pid[s], AppAt(s)) \in linked' =>
            AppPool(srv_pid[s], AppAt(s)) \in linked
      BY <2>3, <2>5, <3>4, <3>5
    <3>7. server = "up" /\ srv_app[s] # "null" /\ srv_pid[s] = pid => app_map'[AppAt(s)] = app_map[AppAt(s)]
      BY <2>3, <3>3, <3>4
    <3>8. w'[s] \in {"unused", "request", "pool created", "arenas set", "peer"} => w'[s] = w[s]
      BY <2>1, <2>2
    <3> QED BY <2>1, <2>2, <3>1, <3>2, <3>6, <3>7, <3>8
  <2> HIDE DEF Part
  <2>7. \A s \in Session : Part(s)'
    BY <2>6
  <2> QED BY <2>7 DEF AppArenas, Part
<1>7. ASSUME NEW r \in Session, CreateSessionPool(r)
      PROVE  AppArenas'
  <2> DEFINE a == AppAt(r)
  <2>1. /\ a \in App /\ srv_pid[r] = pid /\ w[r] = "app ready" /\ app_map[a] # "null"
        /\ UNCHANGED <<serverVars, life, srv_pid, peer>> /\ dangling \subseteq dangling'
    BY <1>7, SessionSteps, RunningSession DEF CreateSessionPool, ThreadW
  <2>2. /\ \/ w'[r] = "failed" /\ srv_app'[r] = srv_app[r]
           \/ w'[r] = "pool created" /\ srv_app'[r] = app_map[a]
        /\ \A s \in Session \ {r} : w'[s] = w[s] /\ srv_app'[s] = srv_app[s]
    BY <1>7, TypeParts DEF SessionType, CreateSessionPool, Progress
  <2>3. \A p, b : AppPool(p, b) \in linked' => AppPool(p, b) \in linked
    <3>1. linked' \subseteq linked \cup {SessionPool(r)}
      BY <1>7 DEF CreateSessionPool
    <3>2. \A p, b : SessionPool(r) # AppPool(p, b)
      BY NamesDiffer
    <3> QED BY <3>1, <3>2
  <2>4. server = "up" /\ AppPool(pid, a) \in linked => app_map[a] = "attached"
    BY <2>1 DEF AppPools
  <2>5. AppAt(r)' = a /\ AppPool(srv_pid[r], AppAt(r))' = AppPool(pid, a)
    BY <2>1 DEF AppAt, AppPool
  <2>6. server # "up" => pid \in dangling'
    BY <1>7, UsesDestroyedServer
  <2>7. Part(r)'
    <3>1. Part(r)
      BY DEF AppArenas
    <3>2. AppPool(srv_pid[r], AppAt(r)) = AppPool(pid, a)
      BY <2>1
    <3> QED BY <2>1, <2>2, <2>3, <2>4, <2>5, <2>6, <3>1, <3>2
  <2>8. \A s \in Session \ {r} : Same(s)
    BY <2>1, <2>2
  <2> HIDE DEF Same, Part
  <2>9. \A s \in Session : Part(s)'
    BY <1>1, <2>1, <2>3, <2>7, <2>8
  <2> QED BY <2>9 DEF AppArenas, Part
<1>8. ASSUME NEW r \in Session,
             FindAppShm(r) \/ RecordAppShm(r) \/ SetArenas(r) \/ Respond(r) \/ RespondFails(r)
      PROVE  AppArenas'
  <2>1. UNCHANGED <<linked, pid, server, app_map, life, srv_pid, peer>> /\ dangling \subseteq dangling'
    <3>1. UNCHANGED <<linked, app_map>>
      BY <1>8 DEF FindAppShm, RecordAppShm, SetArenas, Respond, RespondFails
    <3> QED BY <1>8, <3>1, SessionSteps
  <2>2. \A s \in Session \ {r} : w'[s] = w[s] /\ srv_app'[s] = srv_app[s]
    BY <1>8, TypeParts DEF SessionType, FindAppShm, RecordAppShm, SetArenas, Respond, RespondFails, Progress
  <2>3. \/ w'[r] \in {"app absent", "app ready", "failed"} /\ srv_app'[r] \in {srv_app[r], "null"}
        \/ w[r] \in {"pool created", "arenas set"} /\ w'[r] \in {"arenas set", "peer"}
           /\ srv_app'[r] = srv_app[r]
    BY <1>8, TypeParts DEF SessionType, FindAppShm, RecordAppShm, SetArenas, Respond, RespondFails, Progress,
       ThreadW
  <2>4. AppAt(r)' = AppAt(r) /\ AppPool(srv_pid[r], AppAt(r))' = AppPool(srv_pid[r], AppAt(r))
    BY <2>1 DEF AppAt, AppPool
  <2>5. Part(r)'
    <3>1. Part(r)
      BY DEF AppArenas
    <3> QED BY <2>1, <2>3, <2>4, <3>1
  <2>6. \A s \in Session \ {r} : Same(s)
    BY <2>1, <2>2
  <2> HIDE DEF Same, Part
  <2>7. \A s \in Session : Part(s)'
    BY <1>1, <2>1, <2>5, <2>6
  <2> QED BY <2>7 DEF AppArenas, Part
<1>9. ASSUME NEW r \in Session, SessionDestroyMembers(r) \/ SessionDeinit(r)
      PROVE  AppArenas'
  <2>1. /\ UNCHANGED <<serverVars, w, srv_pid, srv_app, peer, dangling>> /\ linked' \subseteq linked
    BY <1>9, DestructorSteps DEF SessionDestroyMembers, SessionDeinit
  <2>2. \A s \in Session : /\ AppAt(s)' = AppAt(s)
                           /\ AppPool(srv_pid[s], AppAt(s))' = AppPool(srv_pid[s], AppAt(s))
    BY <2>1 DEF AppAt, AppPool
  <2> QED BY <2>1, <2>2 DEF AppArenas
<1>10. ASSUME UNCHANGED <<linked, serverVars, sessionVars>>
       PROVE  AppArenas'
  BY <1>10 DEF AppArenas, AppAt, AppPool
<1>11. ASSUME NEW c \in Client,
             \/ ReceiveResponse(c) \/ ConnectFails(c) \/ OpenSessionPool(c)
             \/ OpenSessionPoolFails(c) \/ OpenAppPool(c) \/ OpenAppPoolFails(c) \/ ClientEnds(c)
       PROVE  AppArenas'
  BY <1>10, <1>11, ClientSteps
<1>12. CASE UNCHANGED vars
  BY <1>10, <1>12 DEF vars
<1> QED BY <1>2, <1>3, <1>4, <1>5, <1>6, <1>7, <1>8, <1>9, <1>11, <1>12, Steps

LEMMA ConnectionsStep ==
  ASSUME TypeOK, Lives, Connections, [Next]_vars
  PROVE  Connections'
<1> USE DEF serverVars, sessionVars, clientVars
<1> DEFINE Part(c) ==
             /\ cli[c] \in {"connecting", "opening session", "opening app", "peer"} =>
                  at[c] \in Session /\ life[at[c]] # "unborn" /\ peer[at[c]] = c
             /\ cli[c] \in {"opening session", "opening app", "peer"} => w[at[c]] = "peer"
\* Clients that did nothing, whose sessions got no further back.
<1>1. ASSUME UNCHANGED <<peer, rsp, cli, at>>, \A s \in Session : w[s] = "peer" => w'[s] = "peer",
             \A s \in Session : life[s] # "unborn" => life'[s] # "unborn"
      PROVE  Connections'
  <2>1. \A s \in rsp : s \in Session
    BY TypeParts DEF SessionType
  <2> QED BY <1>1, <2>1 DEF Connections
<1>2. CASE ServerStart \/ ServerStartFails \/ ServerDestroyMembers \/ ServerDeinit \/ ProcessExit
  <2>1. UNCHANGED <<sessionVars, rsp, clientVars>>
    BY <1>2 DEF ServerStart, ServerStartFails, ServerDestroyMembers, ServerDeinit, ProcessExit
  <2> QED BY <1>1, <2>1
<1>3. CASE ServerCrash
  BY <1>1, <1>3 DEF ServerCrash
<1>4. ASSUME NEW c \in Client, NEW s \in Session, LogInRequest(c, s)
      PROVE  Connections'
  <2>1. /\ life[s] = "unborn" /\ w[s] = "unused" /\ life'[s] = "alive" /\ peer'[s] = c
        /\ cli'[c] = "connecting" /\ at'[c] = s
        /\ \A r \in Session \ {s} : life'[r] = life[r] /\ w'[r] = w[r] /\ peer'[r] = peer[r]
        /\ \A d \in Client \ {c} : cli'[d] = cli[d] /\ at'[d] = at[d]
        /\ rsp' = rsp
    BY <1>4, LogInSteps
  <2>2. \A r \in rsp' : w'[r] = "peer"
    <3>1. \A r \in rsp : r \in Session /\ r # s
      BY <2>1, TypeParts DEF SessionType, Connections
    <3> QED BY ZenonT(40), <2>1, <3>1 DEF Connections
  <2>3. ASSUME NEW d \in Client \ {c}
        PROVE  Part(d)'
    <3>1. Part(d)
      BY DEF Connections
    <3>2. cli[d] \in {"connecting", "opening session", "opening app", "peer"} => at[d] \in Session \ {s}
      BY <2>1, <3>1
    <3> QED BY <2>1, <3>1, <3>2
  <2>4. Part(c)'
    BY <2>1
  <2> QED BY <2>2, <2>3, <2>4 DEF Connections
<1>5. ASSUME NEW s \in Session, Respond(s)
      PROVE  Connections'
  <2>1. /\ rsp' = rsp \cup {s} /\ w'[s] = "peer" /\ \A r \in Session \ {s} : w'[r] = w[r]
        /\ UNCHANGED <<life, peer, cli, at>>
    BY <1>5, TypeParts DEF SessionType, Respond, Progress
  <2>2. \A r \in rsp : r \in Session
    BY TypeParts DEF SessionType
  <2> QED BY <2>1, <2>2 DEF Connections
<1>6. ASSUME NEW s \in Session,
             \/ FindAppShm(s) \/ CreateAppShm(s) \/ RecordAppShm(s) \/ CreateSessionPool(s)
             \/ SetArenas(s) \/ RespondFails(s)
      PROVE  Connections'
  <2>1. rsp' = rsp
    BY <1>6 DEF FindAppShm, CreateAppShm, RecordAppShm, CreateSessionPool, SetArenas, RespondFails
  <2>2. /\ w[s] # "peer" /\ \A r \in Session \ {s} : w'[r] = w[r]
        /\ UNCHANGED <<life, peer, cli, at>>
    BY <1>6, SessionSteps
  <2> QED BY <1>1, <2>1, <2>2
<1>7. ASSUME NEW s \in Session, SessionDestroyMembers(s) \/ SessionDeinit(s)
      PROVE  Connections'
  BY <1>1, <1>7, DestructorSteps
<1>8. ASSUME NEW c \in Client,
             \/ ReceiveResponse(c) \/ ConnectFails(c) \/ OpenSessionPool(c)
             \/ OpenSessionPoolFails(c) \/ OpenAppPool(c) \/ OpenAppPoolFails(c) \/ ClientEnds(c)
      PROVE  Connections'
  <2>1. UNCHANGED <<life, w, peer>> /\ rsp' \subseteq rsp
    BY <1>8, ClientSteps
  <2>2. \A d \in Client \ {c} : cli'[d] = cli[d] /\ at'[d] = at[d]
    BY <1>8, TypeParts DEF ClientType, ReceiveResponse, ConnectFails, OpenSessionPool, OpenSessionPoolFails,
       OpenAppPool, OpenAppPoolFails, ClientEnds, InitClientArenas, Abort
  <2>3. \/ cli'[c] \in {"null", "aborted", "gone"}
        \/ /\ at'[c] = at[c] /\ cli[c] \in {"connecting", "opening session", "opening app"}
           /\ cli[c] = "connecting" => at[c] \in rsp
    <3>1. cli \in [Client -> {"null", "connecting", "opening session", "opening app", "peer", "aborted", "gone"}]
          /\ at \in [Client -> Session \cup {None}]
      BY TypeParts DEF ClientType
    <3>2. CASE ReceiveResponse(c) \/ ConnectFails(c) \/ OpenSessionPool(c) \/ ClientEnds(c)
      BY <3>1, <3>2 DEF ReceiveResponse, ConnectFails, OpenSessionPool, ClientEnds
    <3>3. CASE OpenSessionPoolFails(c) \/ OpenAppPool(c) \/ OpenAppPoolFails(c)
      BY <3>1, <3>3 DEF OpenSessionPoolFails, OpenAppPool, OpenAppPoolFails, InitClientArenas, Abort
    <3> QED BY <1>8, <3>2, <3>3
  <2>4. ASSUME NEW d \in Client \ {c}
        PROVE  Part(d)'
    <3>1. Part(d)
      BY DEF Connections
    <3> QED BY <2>1, <2>2, <3>1
  <2>5. Part(c)'
    <3>1. Part(c) /\ \A s \in rsp : w[s] = "peer"
      BY DEF Connections
    <3> QED BY <2>1, <2>3, <3>1
  <2>6. \A s \in rsp' : w'[s] = "peer"
    BY <2>1 DEF Connections
  <2> QED BY <2>4, <2>5, <2>6 DEF Connections
<1>9. CASE UNCHANGED vars
  BY <1>1, <1>9 DEF vars
<1> QED BY <1>2, <1>3, <1>4, <1>5, <1>6, <1>7, <1>8, <1>9, Steps

\* The app arena of a session in PEER state whose pool there is has that pool.
LEMMA PeersStep ==
  ASSUME TypeOK, Lives, SessionPools, AppArenas, Connections, PeersShareArenas, [Next]_vars
  PROVE  PeersShareArenas'
<1> USE DEF serverVars, sessionVars, clientVars
<1> DEFINE Server(s) == life[s] = "alive" /\ srv_pid[s] \notin dangling =>
                          srv_session[s] = "attached" /\ srv_app[s] = "attached"
\* Clients that did nothing, while their sessions kept what they have.
<1>1. ASSUME UNCHANGED <<cli, at, cli_session, cli_app>>,
             \A s \in Session : w[s] = "peer" /\ Server(s) => Server(s)'
      PROVE  PeersShareArenas'
  BY <1>1 DEF PeersShareArenas, Connections
<1>2. CASE ServerStart \/ ServerStartFails \/ ServerDestroyMembers \/ ServerDeinit \/ ProcessExit
  <2>1. UNCHANGED <<sessionVars, clientVars>>
    BY <1>2 DEF ServerStart, ServerStartFails, ServerDestroyMembers, ServerDeinit, ProcessExit
  <2> QED BY <1>1, <2>1
<1>3. CASE ServerCrash
  <2>1. UNCHANGED <<clientVars, srv_session, srv_app, srv_pid, dangling>>
        /\ \A s \in Session : life'[s] = IF Exists(s) THEN "crashed" ELSE life[s]
    BY <1>3 DEF ServerCrash
  <2>2. \A s \in Session : life'[s] # "alive"
    BY <2>1 DEF Exists
  <2> QED BY <1>1, <2>1, <2>2
<1>4. ASSUME NEW c \in Client, NEW s \in Session, LogInRequest(c, s)
      PROVE  PeersShareArenas'
  <2>1. /\ life[s] = "unborn" /\ cli'[c] = "connecting"
        /\ \A r \in Session \ {s} : life'[r] = life[r] /\ srv_pid'[r] = srv_pid[r]
        /\ \A d \in Client \ {c} : cli'[d] = cli[d] /\ at'[d] = at[d]
        /\ UNCHANGED <<srv_session, srv_app, dangling, cli_session, cli_app>>
    BY <1>4, LogInSteps
  <2>2. \A d \in Client : cli[d] = "peer" => at[d] \in Session \ {s}
    BY ZenonT(40), <2>1 DEF Connections
  <2> QED BY <2>1, <2>2 DEF PeersShareArenas
<1>5. ASSUME NEW s \in Session,
             \/ FindAppShm(s) \/ CreateAppShm(s) \/ RecordAppShm(s) \/ CreateSessionPool(s)
             \/ SetArenas(s) \/ Respond(s) \/ RespondFails(s)
      PROVE  PeersShareArenas'
  <2>1. w[s] # "peer" /\ UNCHANGED <<life, srv_pid, clientVars>> /\ dangling \subseteq dangling'
    BY <1>5, SessionSteps
  <2>2. \A r \in Session \ {s} : srv_session'[r] = srv_session[r] /\ srv_app'[r] = srv_app[r]
    BY <1>5, TypeParts DEF SessionType, FindAppShm, CreateAppShm, RecordAppShm, CreateSessionPool, SetArenas,
                           Respond, RespondFails
  <2> QED BY <1>1, <2>1, <2>2
<1>6. ASSUME NEW s \in Session, SessionDestroyMembers(s) \/ SessionDeinit(s)
      PROVE  PeersShareArenas'
  <2>1. /\ life'[s] # "alive" /\ \A r \in Session \ {s} : life'[r] = life[r]
        /\ UNCHANGED <<clientVars, srv_app, srv_pid, dangling>>
    BY <1>6, DestructorSteps
  <2>2. \A r \in Session \ {s} : srv_session'[r] = srv_session[r]
    BY <1>6, TypeParts DEF SessionType, SessionDestroyMembers, SessionDeinit
  <2> QED BY <1>1, <2>1, <2>2
<1>7. ASSUME NEW c \in Client,
             \/ ReceiveResponse(c) \/ ConnectFails(c) \/ OpenSessionPool(c)
             \/ OpenSessionPoolFails(c) \/ OpenAppPool(c) \/ OpenAppPoolFails(c) \/ ClientEnds(c)
      PROVE  PeersShareArenas'
  <2>1. UNCHANGED <<linked, sessionVars>>
    BY <1>7, ClientSteps
  <2>2. \A d \in Client \ {c} : /\ cli'[d] = cli[d] /\ at'[d] = at[d]
                                /\ cli_session'[d] = cli_session[d] /\ cli_app'[d] = cli_app[d]
    BY ZenonT(40), <1>7, TypeParts DEF ClientType, ReceiveResponse, ConnectFails, OpenSessionPool, OpenSessionPoolFails,
       OpenAppPool, OpenAppPoolFails, ClientEnds, InitClientArenas, Abort
  <2>3. cli'[c] = "peer" =>
          /\ cli[c] = "opening app" /\ at'[c] = at[c]
          /\ cli_session'[c] = "attached" /\ cli_app'[c] = "attached"
          /\ AppPool(srv_pid[at[c]], AppOf[c]) \in linked
    <3>1. /\ cli \in [Client -> {"null", "connecting", "opening session", "opening app", "peer", "aborted", "gone"}]
          /\ at \in [Client -> Session \cup {None}]
          /\ cli_session \in [Client -> ArenaPtr] /\ cli_app \in [Client -> ArenaPtr]
      BY TypeParts DEF ClientType
    <3>2. CASE \/ ReceiveResponse(c) \/ ConnectFails(c) \/ OpenSessionPool(c) \/ OpenSessionPoolFails(c)
               \/ OpenAppPoolFails(c) \/ ClientEnds(c)
      <4>1. cli'[c] # "peer"
        BY <3>1, <3>2 DEF ReceiveResponse, ConnectFails, OpenSessionPool, OpenSessionPoolFails,
           OpenAppPoolFails, ClientEnds, InitClientArenas, Abort
      <4> QED BY <4>1
    <3>3. CASE OpenAppPool(c)
      BY <3>1, <3>3 DEF OpenAppPool, InitClientArenas, Abort, CanOpen
    <3> QED BY <1>7, <3>2, <3>3
  <2>4. ASSUME cli'[c] = "peer"
        PROVE  /\ cli_session'[c] = "attached" /\ cli_app'[c] = "attached"
               /\ Server(at[c]) /\ at'[c] = at[c]
    <3>1. at[c] \in Session /\ w[at[c]] = "peer" /\ AppAt(at[c]) = AppOf[c]
      BY <2>3, <2>4 DEF Connections, AppAt
    <3>2. srv_pid[at[c]] \notin dangling => srv_app[at[c]] = "attached"
      BY <2>3, <2>4, <3>1 DEF AppArenas
    <3> QED BY <2>3, <2>4, <3>1, <3>2 DEF SessionPools
  <2> QED BY <2>1, <2>2, <2>4 DEF PeersShareArenas
<1>8. CASE UNCHANGED vars
  BY <1>1, <1>8 DEF vars
<1> QED BY <1>2, <1>3, <1>4, <1>5, <1>6, <1>7, <1>8, Steps

\* Every name goes with the object that has to remove it.
LEMMA LeakStep ==
  ASSUME TypeOK, Lives, Names, SessionPools, Mutex, LeakOnlyByCrash, [Next]_vars
  PROVE  LeakOnlyByCrash'
<1> USE DEF serverVars, sessionVars
<1> SUFFICES ASSUME server' # "crashed"
             PROVE  LeakOnlyByCrash'
  BY DEF LeakOnlyByCrash
<1> DEFINE OfSession(s) ==
             SessionPool(s) \in linked => Exists(s) /\ (deinit[s] \/ w[s] = "pool created")
           Creating(a) == \E s \in Session : ThreadW(s, "app created") /\ AppAt(s) = a
           OfApps == \A a \in App : AppPool(pid, a) \in linked =>
                       /\ server \in {"up", "closing"}
                       /\ AppPool(pid, a) \in pool_names \/ Creating(a)
           Ours == \A name \in linked : name[2] = pid
\* Nothing happened to the sessions, nor to the Session_server.
<1>1. ASSUME linked' \subseteq linked, UNCHANGED <<serverVars, w, life, srv_pid, peer, deinit>>
      PROVE  LeakOnlyByCrash'
  <2>1. \A s \in Session : SessionPool(s)' = SessionPool(s) /\ (Exists(s)' <=> Exists(s))
    BY <1>1 DEF SessionPool, Exists
  <2>2. \A a \in App : AppPool(pid, a)' = AppPool(pid, a) /\ (Creating(a)' <=> Creating(a))
    BY <1>1, <2>1 DEF AppPool, AppAt, ThreadW
  <2> HIDE DEF Creating
  <2> QED BY <1>1, <2>1, <2>2 DEF LeakOnlyByCrash, Creating
<1>2. CASE ServerStart
  BY <1>2 DEF ServerStart, CleanedUp, LeakOnlyByCrash
<1>3. CASE ServerStartFails
  <2>1. linked' = {}
    BY <1>3 DEF ServerStartFails, Names
  <2> QED BY <2>1 DEF LeakOnlyByCrash
<1>4. CASE ServerDestroyMembers
  <2>1. /\ UNCHANGED <<linked, pid, pool_names, sessionVars>> /\ server = "up" /\ server' = "closing"
    BY <1>4 DEF ServerDestroyMembers
  <2>2. \A s \in Session : SessionPool(s)' = SessionPool(s) /\ (Exists(s)' <=> Exists(s))
    BY <2>1 DEF SessionPool, Exists
  <2>3. \A a \in App : AppPool(pid, a)' = AppPool(pid, a) /\ (Creating(a)' <=> Creating(a))
    BY <2>1, <2>2 DEF AppPool, AppAt, ThreadW
  <2> HIDE DEF Creating
  <2> QED BY <2>1, <2>2, <2>3 DEF LeakOnlyByCrash, Creating
<1>5. CASE ServerDeinit
  <2>1. /\ linked' = linked \ pool_names /\ server = "closing" /\ UNCHANGED <<pid, pool_names, sessionVars>>
    BY <1>5 DEF ServerDeinit
  <2>2. \A a \in App : AppPool(pid, a)' = AppPool(pid, a) /\ AppPool(pid, a) \notin linked'
    <3>1. \A s \in Session : Exists(s) => w[s] = "peer"
      BY <1>5 DEF ServerDeinit, Lives
    <3> QED BY <2>1, <3>1 DEF LeakOnlyByCrash, AppPool, ThreadW
  <2>3. \A s \in Session : SessionPool(s)' = SessionPool(s)
    BY <2>1 DEF SessionPool
  <2> QED BY <2>1, <2>2, <2>3 DEF LeakOnlyByCrash, Exists
<1>6. CASE ProcessExit
  <2>1. server = "closed" /\ linked' = linked /\ server' = "down"
    BY <1>6 DEF ProcessExit
  <2>2. linked' = {}
    BY <2>1, NamesStep DEF Names
  <2> QED BY <2>2 DEF LeakOnlyByCrash
<1>7. CASE ServerCrash
  BY <1>7 DEF ServerCrash
<1>8. ASSUME NEW c \in Client, NEW r \in Session, LogInRequest(c, r)
      PROVE  LeakOnlyByCrash'
  <2>1. /\ life[r] = "unborn" /\ srv_pid'[r] = pid /\ server = "up"
        /\ UNCHANGED <<linked, serverVars, deinit>>
        /\ \A s \in Session \ {r} : /\ life'[s] = life[s] /\ w'[s] = w[s]
                                    /\ srv_pid'[s] = srv_pid[s] /\ peer'[s] = peer[s]
    BY <1>8, LogInSteps
  <2>2. ASSUME NEW s \in Session
        PROVE  OfSession(s)'
    <3>1. CASE s = r
      <4>1. pid \in 1 .. MaxStarts
        <5>1. pid \in 0 .. MaxStarts /\ MaxStarts \in Nat
          BY TypeParts, SetupAssumption DEF ServerType
        <5>2. pid # 0
          BY <2>1 DEF Lives, Running
        <5> QED BY <5>1, <5>2
      <4>2. <<"session", pid, r>> \notin linked
        BY <2>1, <4>1 DEF Names
      <4> QED BY <2>1, <3>1, <4>2 DEF SessionPool
    <3>2. CASE s # r
      BY <2>1, <3>2 DEF LeakOnlyByCrash, SessionPool, Exists
    <3> QED BY <3>1, <3>2
  <2>3. \A a \in App : Creating(a) => Creating(a)'
    BY <2>1 DEF ThreadW, Exists, AppAt
  <2> HIDE DEF Creating
  <2>4. OfApps' /\ Ours'
    BY <2>1, <2>3 DEF LeakOnlyByCrash, AppPool, Creating
  <2> QED BY <2>2, <2>4 DEF LeakOnlyByCrash, Creating
\* The others of those who create an app pool go on.
<1>9. ASSUME NEW r \in Session, NEW a \in App, Creating(a), a # AppAt(r) \/ w[r] # "app created",
             UNCHANGED <<life, peer>>, \A s \in Session \ {r} : w'[s] = w[s]
      PROVE  Creating(a)'
  BY <1>9 DEF ThreadW, Exists, AppAt
<1>10. ASSUME NEW r \in Session, CreateAppShm(r)
       PROVE  LeakOnlyByCrash'
  <2> DEFINE name == AppPool(pid, AppAt(r))
  <2>1. /\ w[r] = "app absent" /\ Exists(r) /\ server \in {"up", "closing"} /\ AppAt(r)' = AppAt(r)
        /\ UNCHANGED <<pid, server, life, srv_pid, peer>>
        /\ \A s \in Session \ {r} : w'[s] = w[s]
    BY <1>10, SessionSteps DEF CreateAppShm, ThreadW, Lives, AppAt
  <2>2. /\ UNCHANGED <<pool_names, deinit>> /\ w'[r] # "pool created"
        /\ linked' = linked \/ (linked' = linked \cup {name} /\ w'[r] = "app created")
    BY <1>10, TypeParts DEF SessionType, CreateAppShm, Progress
  <2>3. \A s \in Session : SessionPool(s)' = SessionPool(s) /\ SessionPool(s) # name
    BY <2>1, NamesDiffer DEF SessionPool
  <2>4. ASSUME NEW s \in Session
        PROVE  OfSession(s)'
    BY <2>1, <2>2, <2>3 DEF LeakOnlyByCrash, Exists
  <2>5. name[2] = pid
    BY DEF AppPool
  <2>6. Ours'
    <3> HIDE DEF name
    <3> QED BY <2>1, <2>2, <2>5 DEF LeakOnlyByCrash
  <2>7. ASSUME NEW a \in App, AppPool(pid, a) \in linked'
        PROVE  AppPool(pid, a) \in pool_names \/ Creating(a)'
    <3>1. CASE AppPool(pid, a) \in linked
      <4>1. AppPool(pid, a) \in pool_names \/ Creating(a)
        BY <2>1, <3>1 DEF LeakOnlyByCrash
      <4>2. Creating(a) => Creating(a)'
        BY <1>9, <2>1
      <4> QED BY <4>1, <4>2
    <3>2. CASE AppPool(pid, a) \notin linked
      <4>1. AppPool(pid, a) = name /\ w'[r] = "app created"
        BY <2>2, <2>7, <3>2
      <4>2. a = AppAt(r)
        BY <4>1 DEF AppPool
      <4> QED BY <2>1, <4>1, <4>2 DEF ThreadW, Exists
    <3> QED BY <3>1, <3>2
  <2>8. OfApps'
    <3>1. \A a \in App : AppPool(pid, a)' = AppPool(pid, a)
      BY <2>1 DEF AppPool
    <3> HIDE DEF Creating
    <3> QED BY <2>1, <2>2, <2>7, <3>1
  <2> HIDE DEF Creating
  <2> QED BY <2>4, <2>6, <2>8 DEF LeakOnlyByCrash, Creating
<1>11. ASSUME NEW r \in Session, FindAppShm(r) \/ RecordAppShm(r)
       PROVE  LeakOnlyByCrash'
  <2>1. /\ w[r] \in {"request", "app created", "app refused"} /\ AppAt(r) \in App
        /\ UNCHANGED <<linked, pid, server, life, srv_pid, peer, deinit>> /\ pool_names \subseteq pool_names'
        /\ \A s \in Session \ {r} : w'[s] = w[s]
    <3>1. w[r] \in {"request", "app created", "app refused"} /\ pool_names \subseteq pool_names'
      BY <1>11 DEF FindAppShm, RecordAppShm, ThreadW
    <3>2. UNCHANGED <<linked, deinit>>
      BY <1>11 DEF FindAppShm, RecordAppShm
    <3> QED BY <1>11, <3>1, <3>2, SessionSteps, RunningSession
  <2>2. ASSUME NEW s \in Session
        PROVE  OfSession(s)'
    BY <2>1 DEF LeakOnlyByCrash, SessionPool, Exists
  <2>3. w[r] = "app created" => AppPool(pid, AppAt(r)) \in pool_names'
    <3>1. w[r] = "app created" => RecordAppShm(r) /\ ThreadW(r, "app created")
      BY <1>11 DEF FindAppShm, RecordAppShm, ThreadW
    <3>2. w[r] = "app created" => app_map[AppAt(r)] = "attached"
      BY <3>1 DEF Mutex
    <3> QED BY <3>1, <3>2 DEF RecordAppShm
  <2>4. ASSUME NEW a \in App, AppPool(pid, a) \in linked
        PROVE  server \in {"up", "closing"} /\ (AppPool(pid, a) \in pool_names' \/ Creating(a)')
    <3>1. server \in {"up", "closing"} /\ (AppPool(pid, a) \in pool_names \/ Creating(a))
      BY <2>1, <2>4 DEF LeakOnlyByCrash
    <3>2. Creating(a) => Creating(a)' \/ AppPool(pid, a) \in pool_names'
      BY <1>9, <2>1, <2>3
    <3> HIDE DEF Creating
    <3> QED BY <2>1, <3>1, <3>2
  <2>5. \A a \in App : AppPool(pid, a)' = AppPool(pid, a)
    BY <2>1 DEF AppPool
  <2>6. Ours'
    BY <2>1 DEF LeakOnlyByCrash
  <2> HIDE DEF Creating
  <2>7. OfApps'
    BY <2>1, <2>4, <2>5
  <2> QED BY <2>2, <2>6, <2>7 DEF LeakOnlyByCrash, Creating
<1>12. ASSUME NEW r \in Session, CreateSessionPool(r)
       PROVE  LeakOnlyByCrash'
  <2> DEFINE name == SessionPool(r)
  <2>1. /\ w[r] = "app ready" /\ Exists(r)
        /\ UNCHANGED <<serverVars, life, srv_pid, peer, deinit>>
        /\ \/ linked' = linked /\ w'[r] = "failed"
           \/ linked' = linked \cup {name} /\ w'[r] = "pool created"
    BY <1>12, TypeParts DEF SessionType, CreateSessionPool, ThreadW, Progress
  <2>2. \A s \in Session \ {r} : w'[s] = w[s]
    BY <1>12, SessionSteps
  <2>3. \A s \in Session : /\ SessionPool(s)' = SessionPool(s) /\ (s # r => SessionPool(s) # name)
                           /\ \A p, a : AppPool(p, a) # name
    BY <2>1, NamesDiffer DEF SessionPool
  <2>4. ~deinit[r] /\ name \notin linked
    BY <2>1 DEF SessionPools, LeakOnlyByCrash
  <2>5. ASSUME NEW s \in Session
        PROVE  OfSession(s)'
    <3>1. CASE s = r
      BY <2>1, <2>3, <2>4, <3>1 DEF Exists
    <3>2. CASE s # r
      BY <2>1, <2>2, <2>3, <3>2 DEF LeakOnlyByCrash, Exists
    <3> QED BY <3>1, <3>2
  <2>6. name[2] = pid
    BY <2>1, RunningSession DEF SessionPool
  <2> HIDE DEF name
  <2>7. Ours'
    BY <2>1, <2>6 DEF LeakOnlyByCrash
  <2>8. \A a \in App : Creating(a) => Creating(a)'
    BY <1>9, <2>1, <2>2
  <2> HIDE DEF Creating
  <2>9. OfApps'
    <3>1. \A a \in App : AppPool(pid, a)' = AppPool(pid, a)
      BY <2>1 DEF AppPool
    <3> QED BY <2>1, <2>3, <2>8, <3>1 DEF LeakOnlyByCrash, Creating
  <2> QED BY <2>5, <2>7, <2>9 DEF LeakOnlyByCrash, Creating
<1>13. ASSUME NEW r \in Session, SetArenas(r) \/ Respond(r) \/ RespondFails(r)
       PROVE  LeakOnlyByCrash'
  <2>1. /\ UNCHANGED <<linked, serverVars, life, srv_pid, peer>> /\ w[r] # "app created"
        /\ \A s \in Session \ {r} : w'[s] = w[s] /\ deinit'[s] = deinit[s]
        /\ (w[r] # "pool created" /\ deinit'[r] = deinit[r]) \/ deinit'[r]
    BY <1>13, TypeParts DEF SessionType, SetArenas, Respond, RespondFails, Progress, ThreadW
  <2>2. ASSUME NEW s \in Session
        PROVE  OfSession(s)'
    <3>1. SessionPool(s)' = SessionPool(s)
      BY <2>1 DEF SessionPool
    <3> QED BY <2>1, <3>1 DEF LeakOnlyByCrash, Exists
  <2>3. \A a \in App : Creating(a) => Creating(a)'
    BY <1>9, <2>1
  <2> HIDE DEF Creating
  <2>4. OfApps' /\ Ours'
    BY <2>1, <2>3 DEF LeakOnlyByCrash, AppPool, Creating
  <2> QED BY <2>2, <2>4 DEF LeakOnlyByCrash, Creating
<1>14. ASSUME NEW r \in Session, SessionDestroyMembers(r)
       PROVE  LeakOnlyByCrash'
  <2>1. /\ UNCHANGED <<linked, serverVars, w, srv_pid, peer, deinit>>
        /\ \A s \in Session : Exists(s) => Exists(s)'
    BY <1>14, TypeParts DEF SessionType, SessionDestroyMembers, Exists
  <2>2. \A s \in Session : SessionPool(s)' = SessionPool(s)
    BY <2>1 DEF SessionPool
  <2>3. \A a \in App : Creating(a) => Creating(a)'
    BY <2>1 DEF ThreadW, AppAt
  <2> HIDE DEF Creating
  <2> QED BY <2>1, <2>2, <2>3 DEF LeakOnlyByCrash, AppPool, Creating
<1>15. ASSUME NEW r \in Session, SessionDeinit(r)
       PROVE  LeakOnlyByCrash'
  <2>1. /\ UNCHANGED <<serverVars, w, srv_pid, peer, deinit>>
        /\ w[r] \notin {"app created", "pool created"} /\ Exists(r)
        /\ linked' = IF deinit[r] THEN linked \ {SessionPool(r)} ELSE linked
        /\ \A s \in Session \ {r} : life'[s] = life[s]
    BY <1>15, TypeParts DEF SessionType, SessionDeinit, InSetupTask, InAppShm, Exists
  <2>2. \A s \in Session : SessionPool(s)' = SessionPool(s)
    BY <2>1 DEF SessionPool
  <2>3. SessionPool(r) \notin linked'
    BY <2>1 DEF LeakOnlyByCrash
  <2>4. \A a \in App : Creating(a) => Creating(a)'
    BY <2>1 DEF ThreadW, Exists, AppAt
  <2>5. \A s \in Session : OfSession(s)'
    BY <2>1, <2>2, <2>3 DEF LeakOnlyByCrash, Exists
  <2> HIDE DEF Creating
  <2>6. OfApps' /\ Ours'
    BY <2>1, <2>4 DEF LeakOnlyByCrash, AppPool, Creating
  <2> QED BY <2>5, <2>6 DEF LeakOnlyByCrash, Creating
<1>16. ASSUME NEW c \in Client,
             \/ ReceiveResponse(c) \/ ConnectFails(c) \/ OpenSessionPool(c)
             \/ OpenSessionPoolFails(c) \/ OpenAppPool(c) \/ OpenAppPoolFails(c) \/ ClientEnds(c)
      PROVE  LeakOnlyByCrash'
  BY <1>1, <1>16, ClientSteps
<1>17. CASE UNCHANGED vars
  BY <1>1, <1>17 DEF vars
<1> QED BY <1>2, <1>3, <1>4, <1>5, <1>6, <1>7, <1>8, <1>10, <1>11, <1>12, <1>13, <1>14, <1>15, <1>16, <1>17, Steps

-----------------------------------------------------------------------------

LEMMA Initially ==
  ASSUME Init
  PROVE  IInv
<1>1. TypeOK
  <2>1. ServerType
    BY SetupAssumption DEF Init, ServerType, ArenaPtr
  <2>2. SessionType
    <3>1. 0 \in 0 .. MaxStarts
      BY SetupAssumption
    <3> QED BY <3>1 DEF Init, SessionType, ArenaPtr
  <2>3. ClientType
    BY DEF Init, ClientType, ArenaPtr
  <2> QED BY <2>1, <2>2, <2>3, TypeParts
<1>2. Lives /\ Names
  BY DEF Init, Lives, Running, Exists, Names
<1>3. SessionPools /\ Mutex /\ AppPools /\ AppArenas
  BY DEF Init, SessionPools, Mutex, InAppShm, AppPools, AppArenas, ThreadW
<1>4. Connections /\ LeakOnlyByCrash /\ PeersShareArenas
  BY DEF Init, Connections, LeakOnlyByCrash, PeersShareArenas
<1> QED BY <1>1, <1>2, <1>3, <1>4 DEF IInv

\* The invariant is inductive.
THEOREM Inductive == Spec => []IInv
<1>1. IInv /\ [Next]_vars => IInv'
  BY TypeStep, LivesStep, NamesStep, SessionPoolsStep, MutexStep, AppPoolsStep, AppArenasStep,
     ConnectionsStep,
     LeakStep, PeersStep DEF IInv
<1> QED BY Initially, <1>1, PTL DEF Spec

\* What the variables hold, in every behaviour.
THEOREM TypeCorrect == Spec => []TypeOK
<1>1. IInv => TypeOK
  BY DEF IInv
<1> QED BY <1>1, Inductive, PTL

\* A pool of a process that did not crash has its session, or its Session_server, to
\* remove it: the two destructors race with any number of log-ins and leave nothing, the
\* app pool included that a thread W creates, and records, after ~Session_server() began.
THEOREM NoLeak == Spec => []LeakOnlyByCrash
<1>1. IInv => LeakOnlyByCrash
  BY DEF IInv
<1> QED BY <1>1, Inductive, PTL

\* The name a client was told of stays until the session's destructor.
THEOREM PoolAwaits == Spec => []PoolAwaitsClient
<1>1. IInv => PoolAwaitsClient
  <2> SUFFICES ASSUME IInv, NEW c \in Client,
                      cli[c] = "opening session" \/ (cli[c] = "connecting" /\ at[c] \in rsp),
                      life[at[c]] = "alive"
               PROVE  SessionPool(at[c]) \in linked
    BY DEF PoolAwaitsClient
  <2>1. at[c] \in Session /\ w[at[c]] = "peer"
    BY DEF IInv, Connections
  <2> QED BY <2>1 DEF IInv, SessionPools, Exists
<1> QED BY <1>1, Inductive, PTL

\* A client in PEER state, and its session as long as it lives, have both arenas,
\* each with its pool; the session's part where no thread W of its process used a
\* destroyed member.
THEOREM PeersShare == Spec => []PeersShareArenas
<1>1. IInv => PeersShareArenas
  BY DEF IInv
<1> QED BY <1>1, Inductive, PTL

\* The arenas whose pool has its name.  One without a pool is among them if creating a
\* pool fails for no reason but that the name exists.
Linkable == IF CreateFaults THEN {"attached"} ELSE {"attached", "poolless"}

\* Such an arena, in the map or taken from it by a session, has a pool with a name, till
\* the deinit function.
AppsLinked ==
  server \in {"up", "closing"} =>
    /\ \A a \in App : app_map[a] \in Linkable => AppPool(pid, a) \in linked
    /\ \A s \in Session :
         srv_app[s] \in Linkable /\ srv_pid[s] = pid => AppPool(pid, AppAt(s)) \in linked

LEMMA AppsLinkedStep ==
  ASSUME IInv, AppsLinked, [Next]_vars
  PROVE  AppsLinked'
<1> USE DEF serverVars, sessionVars, IInv
<1>0. "null" \notin Linkable
  BY DEF Linkable
\* No name of an app goes, and no session has an arena it had not.
<1>1. ASSUME UNCHANGED <<pid, app_map>>, server' \in {"up", "closing"} => server \in {"up", "closing"},
             \A p, a : AppPool(p, a) \in linked => AppPool(p, a) \in linked',
             \A s \in Session : \/ srv_app'[s] = "null"
                                \/ /\ srv_app'[s] = srv_app[s] /\ srv_pid'[s] = srv_pid[s]
                                   /\ peer'[s] = peer[s]
      PROVE  AppsLinked'
  <2> SUFFICES ASSUME server' \in {"up", "closing"}
               PROVE  AppsLinked'
    BY DEF AppsLinked
  <2>1. \A a : AppPool(pid, a)' = AppPool(pid, a')
    BY <1>1 DEF AppPool
  <2>2. ASSUME NEW a \in App, app_map[a] \in Linkable
        PROVE  AppPool(pid', a) \in linked'
    BY <1>1, <2>2 DEF AppsLinked
  <2>3. ASSUME NEW s \in Session, srv_app'[s] \in Linkable, srv_pid'[s] = pid'
        PROVE  AppPool(pid', AppAt(s)') \in linked'
    <3>1. AppAt(s)' = AppAt(s) /\ srv_app[s] \in Linkable /\ srv_pid[s] = pid
      BY <1>0, <1>1, <2>3 DEF AppAt
    <3> QED BY <1>1, <3>1 DEF AppsLinked
  <2> QED BY <1>1, <2>2, <2>3 DEF AppsLinked, AppPool, Linkable
<1>2. CASE ServerStart
  <2>1. app_map' = [a \in App |-> "null"] /\ pid' = pid + 1 /\ UNCHANGED <<srv_app, srv_pid>>
    BY <1>2 DEF ServerStart
  <2>2. ASSUME NEW s \in Session, srv_app[s] \in Linkable
        PROVE  srv_pid[s] # pid'
    <3>1. srv_pid[s] \in 1 .. pid
      BY <1>0, <2>2 DEF AppArenas, Lives
    <3>2. pid \in Nat
      BY TypeParts, SetupAssumption DEF ServerType
    <3> QED BY <2>1, <3>1, <3>2
  <2> QED BY <1>0, <2>1, <2>2 DEF AppsLinked, Linkable
<1>3. CASE ServerStartFails \/ ServerDeinit \/ ProcessExit \/ ServerCrash
  <2>1. server' \notin {"up", "closing"}
    BY <1>3 DEF ServerStartFails, ServerDeinit, ProcessExit, ServerCrash
  <2> QED BY <2>1 DEF AppsLinked
<1>4. CASE ServerDestroyMembers
  <2>1. /\ server = "up" /\ UNCHANGED <<linked, pid, app_map, srv_app, srv_pid, peer>>
    BY <1>4 DEF ServerDestroyMembers
  <2> QED BY <1>1, <2>1
<1>5. ASSUME NEW c \in Client, NEW r \in Session, LogInRequest(c, r)
      PROVE  AppsLinked'
  <2>1. /\ w[r] = "unused" /\ UNCHANGED <<linked, serverVars, srv_app>>
        /\ \A s \in Session \ {r} : srv_pid'[s] = srv_pid[s] /\ peer'[s] = peer[s]
    BY <1>5, LogInSteps
  <2>2. srv_app[r] = "null"
    BY <2>1 DEF AppArenas
  <2> QED BY <1>1, <2>1, <2>2
<1>6. ASSUME NEW r \in Session, CreateAppShm(r)
      PROVE  AppsLinked'
  <2> DEFINE a == AppAt(r)
  <2>1. /\ a \in App /\ server \in {"up", "closing"}
        /\ UNCHANGED <<pid, server, srv_pid, peer>>
    BY <1>6, SessionSteps, RunningSession DEF Lives
  <2>2. linked \subseteq linked' /\ srv_app' = srv_app
    BY <1>6 DEF CreateAppShm
  <2>3. app_map \in [App -> ArenaPtr]
    BY TypeParts DEF ServerType
  <2>4. \A b \in App : \/ app_map'[b] = app_map[b]
                       \/ b = a /\ (app_map'[b] \in Linkable => AppPool(pid, a) \in linked')
    BY <1>6, <2>1, <2>3 DEF CreateAppShm, AppArenaAfterFailure, Linkable
  <2> HIDE DEF a
  <2>5. ASSUME NEW b \in App, app_map'[b] \in Linkable
        PROVE  AppPool(pid, b) \in linked'
    BY <2>1, <2>2, <2>4, <2>5 DEF AppsLinked
  <2>6. \A s \in Session : srv_app[s] \in Linkable /\ srv_pid[s] = pid => AppPool(pid, AppAt(s)) \in linked'
    BY <2>1, <2>2 DEF AppsLinked
  <2> QED BY <2>1, <2>2, <2>5, <2>6 DEF AppsLinked, AppPool, AppAt, Linkable
<1>7. ASSUME NEW r \in Session, CreateSessionPool(r)
      PROVE  AppsLinked'
  <2>1. /\ AppAt(r) \in App /\ server \in {"up", "closing"} /\ linked \subseteq linked'
        /\ UNCHANGED <<serverVars, srv_pid, peer>>
    BY <1>7, SessionSteps, RunningSession DEF CreateSessionPool, ThreadW, Lives
  <2>2. /\ srv_app'[r] \in {srv_app[r], app_map[AppAt(r)]}
        /\ \A s \in Session \ {r} : srv_app'[s] = srv_app[s]
    BY <1>7, TypeParts DEF SessionType, CreateSessionPool
  <2>3. ASSUME NEW s \in Session, srv_app'[s] \in Linkable, srv_pid[s] = pid
        PROVE  AppPool(pid, AppAt(s)) \in linked'
    BY <2>1, <2>2, <2>3 DEF AppsLinked
  <2>4. \A b \in App : app_map[b] \in Linkable => AppPool(pid, b) \in linked'
    BY <2>1 DEF AppsLinked
  <2> QED BY <2>1, <2>3, <2>4 DEF AppsLinked, AppPool, AppAt, Linkable
<1>8. ASSUME NEW r \in Session, FindAppShm(r) \/ RecordAppShm(r) \/ SetArenas(r) \/ Respond(r)
      PROVE  AppsLinked'
  <2>1. UNCHANGED <<linked, pid, server, app_map, srv_app, srv_pid, peer>>
    BY <1>8 DEF FindAppShm, RecordAppShm, SetArenas, Respond
  <2> QED BY <1>1, <2>1
<1>9. ASSUME NEW r \in Session, RespondFails(r)
      PROVE  AppsLinked'
  <2>1. /\ UNCHANGED <<linked, serverVars, srv_pid, peer>>
        /\ \A s \in Session : srv_app'[s] \in {srv_app[s], "null"}
    BY <1>9, TypeParts DEF SessionType, RespondFails
  <2> QED BY <1>1, <2>1
<1>10. ASSUME NEW r \in Session, SessionDestroyMembers(r) \/ SessionDeinit(r)
       PROVE  AppsLinked'
  <2>1. /\ UNCHANGED <<serverVars, srv_app, srv_pid, peer>>
        /\ linked' = linked \/ linked' = linked \ {SessionPool(r)}
    BY <1>10 DEF SessionDestroyMembers, SessionDeinit
  <2>2. \A p, a : AppPool(p, a) \in linked => AppPool(p, a) \in linked'
    BY <2>1, NamesDiffer
  <2> QED BY <1>1, <2>1, <2>2
<1>11. ASSUME NEW c \in Client,
             \/ ReceiveResponse(c) \/ ConnectFails(c) \/ OpenSessionPool(c)
             \/ OpenSessionPoolFails(c) \/ OpenAppPool(c) \/ OpenAppPoolFails(c) \/ ClientEnds(c)
       PROVE  AppsLinked'
  <2>1. UNCHANGED <<linked, serverVars, sessionVars>>
    BY <1>11, ClientSteps
  <2> QED BY <1>1, <2>1
<1>12. CASE UNCHANGED vars
  BY <1>1, <1>12 DEF vars
<1> QED BY <1>2, <1>3, <1>4, <1>5, <1>6, <1>7, <1>8, <1>9, <1>10, <1>11, <1>12, Steps

LEMMA AppPoolIsThere ==
  ASSUME IInv, AppsLinked, NEW c \in Client,
         \/ cli[c] \in {"opening session", "opening app"}
         \/ cli[c] = "connecting" /\ at[c] \in rsp,
         srv_app[at[c]] \in Linkable, srv_pid[at[c]] = pid, server \in {"up", "closing"}
  PROVE  AppPool(pid, AppOf[c]) \in linked
<1>1. at[c] \in Session /\ peer[at[c]] = c
  BY DEF IInv, Connections
<1> QED BY <1>1 DEF AppsLinked, AppAt

LEMMA AppsAreLinked == Spec => [](IInv /\ AppsLinked)
<1>1. Init => AppsLinked
  BY DEF Init, AppsLinked, Linkable
<1>2. IInv /\ AppsLinked /\ [Next]_vars => AppsLinked'
  BY AppsLinkedStep
<1> QED BY <1>1, <1>2, Inductive, PTL DEF Spec

\* The app pool, whichever session of the app created it, awaits the client until the
\* Session_server's deinit function: m_shm_pool_names does not shrink before.
THEOREM AppPoolAwaits == Spec => []AppPoolAwaitsClient
<1>1. IInv /\ AppsLinked => AppPoolAwaitsClient
  BY AppPoolIsThere DEF AppPoolAwaitsClient, Linkable
<1> QED BY <1>1, AppsAreLinked, PTL

\* No arena of an app is without a pool, in a process no thread W of which found the map
\* destroyed.
AppsHavePools ==
  /\ server \in {"up", "closing"} /\ pid \notin dangling => \A a \in App : app_map[a] # "poolless"
  /\ \A s \in Session : srv_pid[s] \notin dangling => srv_app[s] # "poolless"

\* A pool that is not in the map has no name yet: its creation can but fail for a
\* reason of the system's.
LEMMA AppsHavePoolsStep ==
  ASSUME ~CreateFaults, IInv, AppsHavePools, [Next]_vars
  PROVE  AppsHavePools'
<1> USE DEF serverVars, sessionVars, IInv
<1>1. ASSUME UNCHANGED <<pid, app_map>>, server' \in {"up", "closing"} => server \in {"up", "closing"},
             dangling \subseteq dangling',
             \A s \in Session : srv_app'[s] = "null" \/ (srv_app'[s] = srv_app[s] /\ srv_pid'[s] = srv_pid[s])
      PROVE  AppsHavePools'
  BY <1>1 DEF AppsHavePools
<1>2. CASE ServerStart
  BY <1>2 DEF ServerStart, AppsHavePools
<1>3. CASE ServerDestroyMembers
  BY <1>1, <1>3 DEF ServerDestroyMembers
<1>4. CASE ServerStartFails \/ ServerDeinit \/ ProcessExit \/ ServerCrash
  BY <1>4 DEF ServerStartFails, ServerDeinit, ProcessExit, ServerCrash, AppsHavePools
<1>5. ASSUME NEW c \in Client, NEW r \in Session, LogInRequest(c, r)
      PROVE  AppsHavePools'
  <2>1. /\ w[r] = "unused" /\ UNCHANGED <<serverVars, srv_app, dangling>>
        /\ \A s \in Session \ {r} : srv_pid'[s] = srv_pid[s]
    BY <1>5, LogInSteps
  <2>2. srv_app[r] = "null"
    BY <2>1 DEF AppArenas
  <2> QED BY <1>1, <2>1, <2>2
<1>6. ASSUME NEW s \in Session, CreateAppShm(s)
      PROVE  AppsHavePools'
  <2>1. /\ ThreadW(s, "app absent") /\ AppAt(s) \in App /\ server \in {"up", "closing"}
        /\ UNCHANGED <<pid, server, srv_pid, srv_app>> /\ dangling \subseteq dangling'
    <3>1. ThreadW(s, "app absent") /\ UNCHANGED srv_app
      BY <1>6 DEF CreateAppShm
    <3> QED BY <1>6, <3>1, SessionSteps, RunningSession DEF Lives, ThreadW
  <2>2. server = "up" => AppPool(pid, AppAt(s)) \notin linked
    BY <2>1 DEF Mutex, AppPools
  <2>3. app_map \in [App -> ArenaPtr]
    BY TypeParts DEF ServerType
  <2>4. server = "up" => \A a \in App : app_map'[a] # "poolless" \/ app_map'[a] = app_map[a]
    BY <1>6, <2>2, <2>3 DEF CreateAppShm
  <2>5. server # "up" => pid \in dangling'
    BY <1>6, UsesDestroyedServer
  <2> QED BY <2>1, <2>4, <2>5 DEF AppsHavePools
<1>7. ASSUME NEW s \in Session, CreateSessionPool(s)
      PROVE  AppsHavePools'
  <2>1. /\ AppAt(s) \in App /\ srv_pid[s] = pid /\ server \in {"up", "closing"}
        /\ UNCHANGED <<serverVars, srv_pid>> /\ dangling \subseteq dangling'
    BY <1>7, SessionSteps, RunningSession DEF CreateSessionPool, ThreadW, Lives
  <2>2. /\ srv_app'[s] \in {srv_app[s], app_map[AppAt(s)]}
        /\ \A r \in Session \ {s} : srv_app'[r] = srv_app[r]
    BY <1>7, TypeParts DEF SessionType, CreateSessionPool
  <2> QED BY <2>1, <2>2 DEF AppsHavePools
<1>8. ASSUME NEW s \in Session,
             FindAppShm(s) \/ RecordAppShm(s) \/ SetArenas(s) \/ Respond(s) \/ RespondFails(s)
      PROVE  AppsHavePools'
  <2>1. UNCHANGED <<pid, server, srv_pid>> /\ dangling \subseteq dangling'
    BY <1>8, SessionSteps
  <2>2. app_map' = app_map /\ \A r \in Session : srv_app'[r] \in {srv_app[r], "null"}
    BY <1>8, TypeParts DEF SessionType, FindAppShm, RecordAppShm, SetArenas, Respond, RespondFails
  <2> QED BY <1>1, <2>1, <2>2
<1>9. ASSUME NEW s \in Session, SessionDestroyMembers(s) \/ SessionDeinit(s)
      PROVE  AppsHavePools'
  BY <1>1, <1>9, DestructorSteps
<1>10. ASSUME NEW c \in Client,
             \/ ReceiveResponse(c) \/ ConnectFails(c) \/ OpenSessionPool(c)
             \/ OpenSessionPoolFails(c) \/ OpenAppPool(c) \/ OpenAppPoolFails(c) \/ ClientEnds(c)
      PROVE  AppsHavePools'
  BY <1>1, <1>10, ClientSteps
<1>11. CASE UNCHANGED vars
  BY <1>1, <1>11 DEF vars
<1> QED BY <1>2, <1>3, <1>4, <1>5, <1>6, <1>7, <1>8, <1>9, <1>10, <1>11, Steps

\* What init_app_shm_as_needed()'s caller takes for granted does hold, in every
\* interleaving of log-ins, destructors and restarts, where creating a pool fails for
\* no reason but that its name exists: it is the other failures that break it, and,
\* in its process, a thread W that looks for its app in a destroyed map.
THEOREM AppPoolUnlessFaults ==
  ASSUME ~CreateFaults
  PROVE  Spec => [](\A s \in Session : srv_pid[s] \notin dangling => SetUpWithAppPool(s))
<1> DEFINE HaveAppPools == \A s \in Session : srv_pid[s] \notin dangling => SetUpWithAppPool(s)
<1>1. Init => AppsHavePools
  BY DEF Init, AppsHavePools
<1>2. IInv /\ AppsHavePools /\ [Next]_vars => AppsHavePools'
  BY AppsHavePoolsStep
<1>3. IInv /\ AppsHavePools => HaveAppPools
  <2> SUFFICES ASSUME IInv, AppsHavePools, NEW s \in Session, srv_pid[s] \notin dangling,
                      w[s] \in {"pool created", "arenas set", "peer"}
               PROVE  srv_app[s] = "attached"
    BY DEF SetUpWithAppPool
  <2>1. srv_app[s] \in ArenaPtr
    BY TypeParts DEF IInv, SessionType
  <2> QED BY <2>1 DEF IInv, AppArenas, AppsHavePools, ArenaPtr
<1> HIDE DEF HaveAppPools
<1>4. Spec => []HaveAppPools
  BY <1>1, <1>2, <1>3, Inductive, PTL DEF Spec
<1> QED BY <1>4 DEF HaveAppPools

\* The client's assert(!m_app_shm), when it trips, trips on the end of the server: if
\* the system fails neither to create a pool nor to open one that is there, the
\* Session_server the client logged in to is destroyed by then, or its process ended.
THEOREM AssertionTripsLate ==
  ASSUME ~CreateFaults, ~OpenFaults
  PROVE  Spec => [][\A c \in Client :
                      OpenAppPoolFails(c) => srv_pid[at[c]] # pid \/ server \notin {"up", "closing"}]_vars
<1> DEFINE Late == \A c \in Client :
              OpenAppPoolFails(c) => srv_pid[at[c]] # pid \/ server \notin {"up", "closing"}
<1>1. IInv /\ AppsLinked => Late
  <2> SUFFICES ASSUME IInv, AppsLinked, NEW c \in Client,
                      OpenAppPoolFails(c), srv_pid[at[c]] = pid, server \in {"up", "closing"}
               PROVE  FALSE
    OBVIOUS
  <2>1. cli[c] = "opening app" /\ AppPool(pid, AppOf[c]) \notin linked
    BY DEF OpenAppPoolFails, MayFailToOpen
  <2>2. at[c] \in Session /\ w[at[c]] = "peer"
    BY <2>1 DEF IInv, Connections
  <2>3. srv_app[at[c]] \in ArenaPtr /\ srv_app[at[c]] # "null"
    BY <2>2, TypeParts DEF IInv, SessionType, AppArenas
  <2>4. srv_app[at[c]] \in Linkable
    BY <2>3 DEF Linkable, ArenaPtr
  <2> QED BY <2>1, <2>4, AppPoolIsThere
<1> HIDE DEF Late
<1>2. Spec => [][Late]_vars
  BY <1>1, AppsAreLinked, PTL
<1> QED BY <1>2 DEF Late

\* A response is there until the client it is for reads it.
Awaited == \A c \in Client : cli[c] = "connecting" /\ w[at[c]] = "peer" => at[c] \in rsp

LEMMA AwaitedStep ==
  ASSUME IInv, Awaited, [Next]_vars
  PROVE  Awaited'
<1> USE DEF serverVars, sessionVars, clientVars, IInv
<1> DEFINE Answered(c) == cli[c] = "connecting" /\ w[at[c]] = "peer" => at[c] \in rsp
<1>1. ASSUME UNCHANGED <<w, rsp, cli, at>>
      PROVE  Awaited'
  BY <1>1 DEF Awaited
<1>2. CASE \/ ServerStart \/ ServerStartFails \/ ServerDestroyMembers \/ ServerDeinit
           \/ ProcessExit \/ ServerCrash
  BY <1>1, <1>2 DEF ServerStart, ServerStartFails, ServerDestroyMembers, ServerDeinit, ProcessExit, ServerCrash
<1>3. ASSUME NEW c \in Client, NEW r \in Session, LogInRequest(c, r)
      PROVE  Awaited'
  <2>1. /\ life[r] = "unborn" /\ w'[r] = "request" /\ rsp' = rsp
        /\ cli'[c] = "connecting" /\ at'[c] = r
        /\ \A s \in Session \ {r} : w'[s] = w[s]
        /\ \A d \in Client \ {c} : cli'[d] = cli[d] /\ at'[d] = at[d]
    BY <1>3, LogInSteps
  <2>2. \A d \in Client : cli[d] = "connecting" => at[d] \in Session \ {r}
    BY <2>1 DEF Connections
  <2> QED BY <2>1, <2>2 DEF Awaited
<1>4. ASSUME NEW r \in Session,
             \/ FindAppShm(r) \/ CreateAppShm(r) \/ RecordAppShm(r) \/ CreateSessionPool(r)
             \/ SetArenas(r) \/ Respond(r) \/ RespondFails(r)
      PROVE  Awaited'
  <2>1. /\ \A s \in Session \ {r} : w'[s] = w[s]
        /\ UNCHANGED clientVars
    BY <1>4, SessionSteps
  <2>2. (w'[r] = "peer" => r \in rsp') /\ rsp \subseteq rsp'
    BY <1>4, TypeParts DEF SessionType, FindAppShm, CreateAppShm, RecordAppShm, CreateSessionPool, SetArenas,
       Respond, RespondFails, Progress
  <2>3. ASSUME NEW c \in Client, cli[c] = "connecting", w'[at[c]] = "peer"
        PROVE  at[c] \in rsp'
    <3>1. at[c] \in Session
      BY <2>3 DEF Connections
    <3> QED BY <2>1, <2>2, <2>3, <3>1 DEF Awaited
  <2> QED BY <2>1, <2>3 DEF Awaited
<1>5. ASSUME NEW r \in Session, SessionDestroyMembers(r) \/ SessionDeinit(r)
      PROVE  Awaited'
  BY <1>1, <1>5, DestructorSteps
<1>6. ASSUME NEW c \in Client,
             \/ ReceiveResponse(c) \/ ConnectFails(c) \/ OpenSessionPool(c)
             \/ OpenSessionPoolFails(c) \/ OpenAppPool(c) \/ OpenAppPoolFails(c) \/ ClientEnds(c)
      PROVE  Awaited'
  <2>1. UNCHANGED <<w, peer>>
    BY <1>6, ClientSteps
  <2>2. \A d \in Client \ {c} : cli'[d] = cli[d] /\ at'[d] = at[d]
    BY <1>6, TypeParts DEF ClientType, ReceiveResponse, ConnectFails, OpenSessionPool, OpenSessionPoolFails,
       OpenAppPool, OpenAppPoolFails, ClientEnds, InitClientArenas, Abort
  <2>3. cli'[c] # "connecting" /\ (rsp' = rsp \/ (cli[c] = "connecting" /\ rsp' = rsp \ {at[c]}))
    <3>1. cli \in [Client -> {"null", "connecting", "opening session", "opening app", "peer", "aborted", "gone"}]
      BY TypeParts DEF ClientType
    <3>2. CASE ReceiveResponse(c) \/ ConnectFails(c) \/ OpenSessionPool(c) \/ ClientEnds(c)
      BY <3>1, <3>2 DEF ReceiveResponse, ConnectFails, OpenSessionPool, ClientEnds
    <3>3. CASE OpenSessionPoolFails(c) \/ OpenAppPool(c) \/ OpenAppPoolFails(c)
      BY <3>1, <3>3 DEF OpenSessionPoolFails, OpenAppPool, OpenAppPoolFails, InitClientArenas, Abort
    <3> QED BY <1>6, <3>2, <3>3
  <2>4. ASSUME NEW d \in Client, Answered(d)
        PROVE  Answered(d)'
    <3>1. CASE d = c
      BY <2>3, <3>1
    <3>2. ASSUME d # c, cli[d] = "connecting", w[at[d]] = "peer"
          PROVE  at[d] \in rsp'
      <4>1. peer[at[d]] = d /\ (cli[c] = "connecting" => peer[at[c]] = c)
        BY <3>2 DEF Connections
      <4>2. cli[c] = "connecting" => at[d] # at[c]
        BY <3>2, <4>1
      <4> QED BY <2>3, <2>4, <3>2, <4>2
    <3> QED BY <2>1, <2>2, <3>1, <3>2
  <2> QED BY <2>1, <2>4 DEF Awaited
<1>7. CASE UNCHANGED vars
  BY <1>1, <1>7 DEF vars
<1> QED BY <1>2, <1>3, <1>4, <1>5, <1>6, <1>7, Steps

\* No client, and neither of the two destructors that stop a thread W, waits for
\* something that cannot come any more: what ConnectEnds and DestructorsEnd rest on,
\* for any number of sessions.
THEOREM NoVainWait == Spec => []NobodyWaitsInVain
<1>1. Init => Awaited
  BY DEF Init, Awaited
<1>2. IInv /\ Awaited /\ [Next]_vars => Awaited'
  BY AwaitedStep
<1>3. IInv /\ Awaited => NobodyWaitsInVain
  <2> SUFFICES ASSUME IInv, Awaited
               PROVE  NobodyWaitsInVain
    OBVIOUS
  <2> USE DEF IInv
\* Who has the mutex lives, if anybody of its process does.
  <2>1. ASSUME NEW s \in Session, Exists(s), NEW r \in Session, InAppShm(r), srv_pid[r] = pid
        PROVE  Exists(r)
    <3>1. life[r] \notin {"unborn", "destroyed"}
      BY <2>1 DEF Lives, Mutex, InAppShm
    <3>2. life[r] # "crashed"
      BY <2>1 DEF Lives
    <3>3. life[r] \in {"unborn", "alive", "members gone", "destroyed", "crashed"}
      BY TypeParts DEF SessionType
    <3> QED BY <3>1, <3>2, <3>3 DEF Exists
  <2>2. \A s \in Session : Exists(s) /\ w[s] = "app ready" => app_map[AppAt(s)] # "null"
    BY DEF Mutex, ThreadW
  <2>3. \A s \in Session : w[s] \in {"unused", "request", "app absent", "app created", "app refused", "app ready",
                                     "pool created", "arenas set", "peer", "failed"}
    BY TypeParts DEF SessionType
  <2>4. \A c \in Client : cli[c] = "connecting" => at[c] \in Session /\ w[at[c]] # "unused"
    BY DEF Connections, Lives
  <2>5. ASSUME NEW c \in Client, cli[c] = "connecting", at[c] \notin rsp, w[at[c]] # "failed", Exists(at[c])
        PROVE  \/ InAppShm(at[c]) \/ w[at[c]] \in {"pool created", "arenas set"}
               \/ /\ w[at[c]] = "request" \/ (w[at[c]] = "app ready" /\ app_map[AppAt(at[c])] # "null")
                  /\ \A r \in Session : InAppShm(r) /\ srv_pid[r] = pid => Exists(r)
    <3>1. w[at[c]] # "peer"
      BY <2>5 DEF Awaited
    <3>2. \A r \in Session : InAppShm(r) /\ srv_pid[r] = pid => Exists(r)
      BY <2>1, <2>4, <2>5
    <3> QED BY <2>2, <2>3, <2>4, <2>5, <3>1, <3>2 DEF InAppShm
  <2>6. ASSUME NEW s \in Session, life[s] = "members gone", InSetupTask(s)
        PROVE  \/ InAppShm(s) \/ w[s] \in {"pool created", "arenas set"}
               \/ /\ w[s] = "app ready" /\ app_map[AppAt(s)] # "null"
                  /\ \A r \in Session : InAppShm(r) /\ srv_pid[r] = pid => Exists(r)
    <3>1. Exists(s)
      BY <2>6 DEF Exists
    <3> QED BY <2>1, <2>2, <2>6, <3>1 DEF InSetupTask
  <2>7. \A s \in Session : life[s] = "members gone" => Exists(s)
    BY DEF Exists
  <2> HIDE DEF IInv
  <2> QED BY <2>5, <2>6, <2>7 DEF NobodyWaitsInVain
<1> QED BY <1>1, <1>2, <1>3, Inductive, PTL DEF Spec
=============================================================================
