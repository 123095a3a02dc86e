----------------------------- MODULE SessionSetup -----------------------------
(***************************************************************************)
(* How the SHM pools of ipc::session::shm::classic come and go: the        *)
(* per-session pool of a Server_session_impl, the per-app pool of the      *)
(* Session_server, and the Client_session_impl that opens both by name     *)
(* after log-in.  One Server_app; its Session_server lives in one process  *)
(* at a time, and a process (a PID, the srv_namespace) is never reused.    *)
(*                                                                         *)
(* Three kinds of actors interleave: the server's user, who destroys       *)
(* objects; a thread W per server session, which sets a log-in up; the     *)
(* clients.  A pool is identified with its name: names are not reused.     *)
(***************************************************************************)
EXTENDS Naturals

CONSTANTS
  Client,        \* the Client_session objects
  App,           \* the Client_apps
  AppOf,         \* the Client_app of each client
  Session,       \* the Server_session objects; each is one cli_namespace
  MaxStarts,     \* bound: how many server processes are started
  CreateFaults,  \* may creating a pool fail for a reason of the system's?
  OpenFaults,    \* may opening an existing pool fail?
  None

ASSUME SetupAssumption ==
  /\ AppOf \in [Client -> App]
  /\ MaxStarts \in Nat
  /\ CreateFaults \in BOOLEAN /\ OpenFaults \in BOOLEAN
  /\ None \notin Client \cup Session

VARIABLES
  linked,      \* the pool names in the system's name space
  pid,         \* the latest server process
  server,      \* its Session_server
  app_map,     \* m_app_shm_by_name: per app, the Arena there
  pool_names,  \* *m_shm_pool_names, which the deinit function captured
  w,           \* per session: where thread W is in async_accept_log_in()
  life,        \* per session: its Server_session_impl object
  srv_pid,     \* per session: the process it is in
  srv_session, \* per session: session_shm() on the server side
  srv_app,     \* per session: app_shm() on the server side
  deinit,      \* per session: is a deinit function set?
  peer,        \* per session: the client that logs in
  rsp,         \* the sessions whose log-in response the client did not read yet
  dangling,    \* the processes a thread W of which used a destroyed member of its owners
  cli,         \* per client: where async_connect() is
  at,          \* per client: the session it connects to
  cli_session, \* per client: m_session_shm
  cli_app,     \* per client: m_app_shm
  tripped      \* per client: the assertion that ended its process

serverVars == <<pid, server, app_map, pool_names>>
sessionVars == <<w, life, srv_pid, srv_session, srv_app, deinit, peer, dangling>>
clientVars == <<cli, at, cli_session, cli_app, tripped>>
vars == <<linked, serverVars, sessionVars, rsp, clientVars>>

\* An Arena pointer: null, or to a Pool_arena with or without a pool attached.
ArenaPtr == {"null", "attached", "poolless"}

SessionPool(s) == <<"session", srv_pid[s], s>>

\* (Mutant: the name lacks the PID.)
AppPoolOfNoProcess(p, a) == <<"app", 0, a>>

AppPool(p, a) == <<"app", p, a>>

PoolName == {"session"} \X (1 .. MaxStarts) \X Session
              \cup {"app"} \X (1 .. MaxStarts) \X App

AppAt(s) == AppOf[peer[s]]

\* The object's memory is there: alive, or its destructor is under way.
Exists(s) == life[s] \in {"alive", "members gone"}

\* The process of session s has a thread W that runs.
ThreadW(s, step) == w[s] = step /\ Exists(s)

\* W has m_app_shm_mutex, in init_app_shm_as_needed().
InAppShm(s) == w[s] \in {"app absent", "app created", "app refused"}

MutexFree == \A s \in Session : InAppShm(s) => srv_pid[s] # pid

\* In the middle of the one task in which W sets the log-in up and responds.
InSetupTask(s) == InAppShm(s) \/ w[s] \in {"app ready", "pool created", "arenas set"}

-----------------------------------------------------------------------------

Init ==
  /\ linked = {}
  /\ pid = 0
  /\ server = "down"
  /\ app_map = [a \in App |-> "null"]
  /\ pool_names = {}
  /\ w = [s \in Session |-> "unused"]
  /\ life = [s \in Session |-> "unborn"]
  /\ srv_pid = [s \in Session |-> 0]
  /\ srv_session = [s \in Session |-> "null"]
  /\ srv_app = [s \in Session |-> "null"]
  /\ deinit = [s \in Session |-> FALSE]
  /\ peer = [s \in Session |-> None]
  /\ rsp = {}
  /\ dangling = {}
  /\ cli = [c \in Client |-> "null"]
  /\ at = [c \in Client |-> None]
  /\ cli_session = [c \in Client |-> "null"]
  /\ cli_app = [c \in Client |-> "null"]
  /\ tripped = [c \in Client |-> "none"]

-----------------------------------------------------------------------------
(* The server process and its Session_server. *)

\* The names a starting Session_server removes: every one with its prefix,
\* which stops short of the PID.
CleanedUp(names) == names

\* A process starts and constructs its Session_server: the cleanup point.
ServerStart ==
  /\ server \in {"down", "crashed"}
  /\ pid < MaxStarts
  /\ pid' = pid + 1
  /\ server' = "up"
  /\ linked' = linked \ CleanedUp(linked)
  /\ app_map' = [a \in App |-> "null"]
  /\ pool_names' = {}
  /\ UNCHANGED <<sessionVars, rsp, clientVars>>

\* A process starts, and the base of its Session_server fails to construct: with
\* that there is no cleanup, and there will be none when it is destroyed.
ServerStartFails ==
  /\ server \in {"down", "crashed"}
  /\ pid < MaxStarts
  /\ pid' = pid + 1
  /\ UNCHANGED <<linked, server, app_map, pool_names, sessionVars, rsp, clientVars>>

\* (Mutant: the destructor unlinks the pools in its map, before it stops any thread W.)
ServerDestroyMembersAndUnlink ==
  /\ server = "up"
  /\ server' = "closing"
  /\ linked' = linked \ pool_names
  /\ UNCHANGED <<pid, app_map, pool_names, sessionVars, rsp, clientVars>>

\* ~Session_server() begins, and takes no lock: the names' shared_ptr, the map of
\* arenas and its mutex, members, are destroyed.  Their storage, with whatever it
\* held, and the vector of names stay till ~Session_server_impl() returns.
ServerDestroyMembers ==
  /\ server = "up"
  /\ server' = "closing"
  /\ UNCHANGED <<linked, pid, app_map, pool_names, sessionVars, rsp, clientVars>>

\* (Mutant: the deinit function runs before the threads W are stopped.)
ServerDeinitAtOnce ==
  /\ server = "closing"
  /\ server' = "closed"
  /\ linked' = linked \ pool_names
  /\ UNCHANGED <<pid, app_map, pool_names, sessionVars, rsp, clientVars>>

\* ~Session_server_impl(): it has destroyed the sessions still logging in, no
\* thread of theirs is left; the deinit function unlinks the app pools.
ServerDeinit ==
  /\ server = "closing"
  /\ \A s \in Session : srv_pid[s] = pid /\ Exists(s) => w[s] = "peer"
  /\ server' = "closed"
  /\ linked' = linked \ pool_names
  /\ UNCHANGED <<pid, app_map, pool_names, sessionVars, rsp, clientVars>>

\* The process ends, gracefully: everything in it was destroyed.
ProcessExit ==
  /\ server = "closed"
  /\ \A s \in Session : srv_pid[s] = pid => ~Exists(s)
  /\ server' = "down"
  /\ UNCHANGED <<linked, pid, app_map, pool_names, sessionVars, rsp, clientVars>>

\* The process dies.  No destructor runs; the names stay.
ServerCrash ==
  /\ server \notin {"down", "crashed"}
  /\ server' = "crashed"
  /\ life' = [s \in Session |-> IF Exists(s) THEN "crashed" ELSE life[s]]
  /\ UNCHANGED <<linked, pid, app_map, pool_names, w, srv_pid, srv_session, srv_app,
                 deinit, peer, dangling, rsp, clientVars>>

-----------------------------------------------------------------------------
(* Log-in, server side: thread W of session s. *)

\* A client calls async_connect() and its log-in request arrives.
LogInRequest(c, s) ==
  /\ server = "up"
  /\ cli[c] = "null"
  /\ life[s] = "unborn"
  /\ life' = [life EXCEPT ![s] = "alive"]
  /\ w' = [w EXCEPT ![s] = "request"]
  /\ srv_pid' = [srv_pid EXCEPT ![s] = pid]
  /\ peer' = [peer EXCEPT ![s] = c]
  /\ cli' = [cli EXCEPT ![c] = "connecting"]
  /\ at' = [at EXCEPT ![c] = s]
  /\ UNCHANGED <<linked, serverVars, srv_session, srv_app, deinit, dangling, rsp,
                 cli_session, cli_app, tripped>>

Progress(s, step) == w' = [w EXCEPT ![s] = step]

\* W goes on with members of its owners, whether or not they are there: if they are
\* not, it finds what their storage holds or, where that ends the process (a mutex that
\* cannot be locked, a null pointer followed, an assertion), takes a ServerCrash.
Uses(intact) == dangling' = IF intact THEN dangling ELSE dangling \cup {pid}

\* What W finds in m_app_shm_by_name: in a destroyed map, maybe nothing.
Found(a) == {app_map[a]} \cup (IF server = "up" THEN {} ELSE {"null"})

\* What m_app_shm_by_name holds after a failed creation: make_unique() gave an
\* Arena all the same, one with no pool.
AppArenaAfterFailure == "poolless"

\* (Mutant: without the lock.)
FindAppShmUnlocked(s) ==
  /\ ThreadW(s, "request")
  /\ \E app_shm \in Found(AppAt(s)) :
       Progress(s, IF app_shm = "null" THEN "app absent" ELSE "app ready")
  /\ Uses(server = "up")
  /\ UNCHANGED <<linked, serverVars, life, srv_pid, srv_session, srv_app, deinit, peer, rsp,
                 clientVars>>

\* Session_server::init_app_shm_as_needed(): locks the mutex, and keeps it unless
\* the app has its Arena.
FindAppShm(s) ==
  /\ ThreadW(s, "request")
  /\ MutexFree
  /\ \E app_shm \in Found(AppAt(s)) :
       Progress(s, IF app_shm = "null" THEN "app absent" ELSE "app ready")
  /\ Uses(server = "up")
  /\ UNCHANGED <<linked, serverVars, life, srv_pid, srv_session, srv_app, deinit, peer, rsp,
                 clientVars>>

\* The pool is created.
CreateAppShm(s) ==
  LET a == AppAt(s)
      name == AppPool(pid, a) IN
  /\ ThreadW(s, "app absent")
  /\ \/ /\ name \notin linked
        /\ linked' = linked \cup {name}
        /\ app_map' = [app_map EXCEPT ![a] = "attached"]
        /\ Progress(s, "app created")
     \/ /\ name \in linked \/ CreateFaults
        /\ app_map' = [app_map EXCEPT ![a] = AppArenaAfterFailure]
        /\ Progress(s, "app refused")
        /\ UNCHANGED linked
  /\ Uses(server = "up")
  /\ UNCHANGED <<pid, server, pool_names, life, srv_pid, srv_session, srv_app, deinit, peer, rsp,
                 clientVars>>

\* Its name, if there is an Arena, is added to the vector; the mutex is unlocked.  If
\* the creation failed so does the log-in, and reset_shm_arenas() is called.
RecordAppShm(s) ==
  /\ \/ /\ ThreadW(s, "app created")
        /\ Progress(s, "app ready")
        /\ Uses(server = "up")
     \/ /\ ThreadW(s, "app refused")
        /\ Progress(s, "failed")
        /\ Uses(server = "up" /\ life[s] = "alive")
  /\ pool_names' = IF app_map[AppAt(s)] = "null" THEN pool_names
                                                  ELSE pool_names \cup {AppPool(pid, AppAt(s))}
  /\ UNCHANGED <<linked, pid, server, app_map, life, srv_pid, srv_session, srv_app, deinit, peer,
                 rsp, clientVars>>

\* app_shm() is looked up, under the mutex, and the session pool created.  (If it is
\* null, assert(app_shm) ends the process.)  What was found is a local variable until
\* init_shm_arenas() makes it srv_app.
CreateSessionPool(s) ==
  LET app_shm == app_map[AppAt(s)] IN
  /\ ThreadW(s, "app ready")
  /\ MutexFree
  /\ app_shm # "null"
  /\ \/ /\ SessionPool(s) \notin linked
        /\ linked' = linked \cup {SessionPool(s)}
        /\ srv_app' = [srv_app EXCEPT ![s] = app_shm]
        /\ Progress(s, "pool created")
        /\ Uses(server = "up")
     \/ /\ SessionPool(s) \in linked \/ CreateFaults
        /\ Progress(s, "failed")
        /\ Uses(server = "up" /\ life[s] = "alive")
        /\ UNCHANGED <<linked, srv_app>>
  /\ UNCHANGED <<serverVars, life, srv_pid, srv_session, deinit, peer, rsp, clientVars>>

\* (Mutant: the name is unlinked as soon as the pool is mapped here.)
SetArenasAndUnlink(s) ==
  /\ ThreadW(s, "pool created")
  /\ srv_session' = [srv_session EXCEPT
                       ![s] = IF life[s] = "alive" THEN "attached" ELSE "null"]
  /\ Uses(life[s] = "alive")
  /\ linked' = linked \ {SessionPool(s)}
  /\ Progress(s, "arenas set")
  /\ UNCHANGED <<serverVars, life, srv_pid, srv_app, deinit, peer, rsp, clientVars>>

\* init_shm_arenas(), and the deinit function is set.  If the destructor already
\* destroyed m_session_shm, the assignment goes to a dead member.
SetArenas(s) ==
  /\ ThreadW(s, "pool created")
  /\ srv_session' = [srv_session EXCEPT
                       ![s] = IF life[s] = "alive" THEN "attached" ELSE "null"]
  /\ Uses(life[s] = "alive")
  /\ deinit' = [deinit EXCEPT ![s] = TRUE]
  /\ Progress(s, "arenas set")
  /\ UNCHANGED <<linked, serverVars, life, srv_pid, srv_app, peer, rsp, clientVars>>

\* The log-in response is sent: the session is in PEER state, no answer is
\* awaited.
Respond(s) ==
  /\ ThreadW(s, "arenas set")
  /\ Progress(s, "peer")
  /\ rsp' = rsp \cup {s}
  /\ UNCHANGED <<linked, serverVars, life, srv_pid, srv_session, srv_app, deinit, peer,
                 dangling, clientVars>>

\* Sending it fails: reset_shm_arenas() (which also writes dead members, if the
\* destructor is under way).
RespondFails(s) ==
  /\ ThreadW(s, "arenas set")
  /\ Progress(s, "failed")
  /\ srv_session' = [srv_session EXCEPT ![s] = "null"]
  /\ srv_app' = [srv_app EXCEPT ![s] = "null"]
  /\ Uses(life[s] = "alive")
  /\ UNCHANGED <<linked, serverVars, life, srv_pid, deinit, peer, rsp, clientVars>>

-----------------------------------------------------------------------------
(* ~Server_session_impl(). *)

\* It begins, called by the user of a session in PEER state, or by the
\* Session_server for one that failed or that is logging in when the
\* Session_server itself is destroyed.  m_session_shm, a member of the derived
\* class, is destroyed.
SessionDestroyMembers(s) ==
  /\ life[s] = "alive"
  /\ w[s] \in {"peer", "failed"} \/ server = "closing"
  /\ life' = [life EXCEPT ![s] = "members gone"]
  /\ srv_session' = [srv_session EXCEPT ![s] = "null"]
  /\ UNCHANGED <<linked, serverVars, w, srv_pid, srv_app, deinit, peer, dangling, rsp, clientVars>>

\* (Mutant: the destructor does not wait for the task in which W is.)
SessionDeinitAtOnce(s) ==
  /\ life[s] = "members gone"
  /\ life' = [life EXCEPT ![s] = "destroyed"]
  /\ linked' = IF deinit[s] THEN linked \ {SessionPool(s)} ELSE linked
  /\ UNCHANGED <<serverVars, w, srv_pid, srv_session, srv_app, deinit, peer, dangling, rsp,
                 clientVars>>

\* (Mutant: the destructor waits for the log-in to succeed.)
SessionDeinitAfterLogIn(s) ==
  /\ life[s] = "members gone"
  /\ w[s] = "peer"
  /\ life' = [life EXCEPT ![s] = "destroyed"]
  /\ linked' = IF deinit[s] THEN linked \ {SessionPool(s)} ELSE linked
  /\ UNCHANGED <<serverVars, w, srv_pid, srv_session, srv_app, deinit, peer, dangling, rsp,
                 clientVars>>

\* The base destructor waits for W's current task, stops W, and only then runs
\* the deinit function, which unlinks the session pool.
SessionDeinit(s) ==
  /\ life[s] = "members gone"
  /\ ~InSetupTask(s)
  /\ life' = [life EXCEPT ![s] = "destroyed"]
  /\ linked' = IF deinit[s] THEN linked \ {SessionPool(s)} ELSE linked
  /\ UNCHANGED <<serverVars, w, srv_pid, srv_session, srv_app, deinit, peer, dangling, rsp,
                 clientVars>>

-----------------------------------------------------------------------------
(* Client_session_impl::async_connect(). *)

\* The response arrives (the server may be gone by now).
ReceiveResponse(c) ==
  /\ cli[c] = "connecting"
  /\ at[c] \in rsp
  /\ rsp' = rsp \ {at[c]}
  /\ cli' = [cli EXCEPT ![c] = "opening session"]
  /\ UNCHANGED <<linked, serverVars, sessionVars, at, cli_session, cli_app, tripped>>

\* (Mutant: the death of the other side goes unnoticed.)
ConnectFailsOnRefusal(c) ==
  /\ cli[c] = "connecting"
  /\ at[c] \notin rsp
  /\ w[at[c]] = "failed"
  /\ cli' = [cli EXCEPT ![c] = "null"]
  /\ at' = [at EXCEPT ![c] = None]
  /\ UNCHANGED <<linked, serverVars, sessionVars, rsp, cli_session, cli_app, tripped>>

\* The base async_connect() fails: the other side ended without a response.
ConnectFails(c) ==
  /\ cli[c] = "connecting"
  /\ at[c] \notin rsp
  /\ w[at[c]] = "failed" \/ ~Exists(at[c])
  /\ cli' = [cli EXCEPT ![c] = "null"]
  /\ at' = [at EXCEPT ![c] = None]
  /\ UNCHANGED <<linked, serverVars, sessionVars, rsp, cli_session, cli_app, tripped>>

CanOpen(name) == name \in linked

MayFailToOpen(name) == name \notin linked \/ OpenFaults

\* The process ends at an assertion.
Abort(c, assertion) ==
  /\ cli' = [cli EXCEPT ![c] = "aborted"]
  /\ tripped' = [tripped EXCEPT ![c] = assertion]
  /\ at' = [at EXCEPT ![c] = None]
  /\ UNCHANGED cli_session

\* init_shm_arenas(), which asserts that nothing was set before.
InitClientArenas(c, session_shm, state) ==
  IF cli_session[c] # "null"
    THEN Abort(c, "arenas set once")
    ELSE /\ cli_session' = [cli_session EXCEPT ![c] = session_shm]
         /\ cli' = [cli EXCEPT ![c] = state]
         /\ at' = [at EXCEPT ![c] = IF state = "peer" THEN @ ELSE None]
         /\ UNCHANGED tripped

\* The session pool is opened; the local session_shm holds it.
OpenSessionPool(c) ==
  /\ cli[c] = "opening session"
  /\ CanOpen(SessionPool(at[c]))
  /\ cli' = [cli EXCEPT ![c] = "opening app"]
  /\ UNCHANGED <<linked, serverVars, sessionVars, rsp, at, cli_session, cli_app, tripped>>

\* It cannot be opened: the app pool is not tried, the state goes back to NULL,
\* and the local session_shm -- an Arena without a pool -- is saved all the same.
OpenSessionPoolFails(c) ==
  /\ cli[c] = "opening session"
  /\ MayFailToOpen(SessionPool(at[c]))
  /\ InitClientArenas(c, "poolless", "null")
  /\ UNCHANGED <<linked, serverVars, sessionVars, rsp, cli_app>>

OpenAppPool(c) ==
  /\ cli[c] = "opening app"
  /\ CanOpen(AppPool(srv_pid[at[c]], AppOf[c]))
  /\ cli_app' = [cli_app EXCEPT ![c] = "attached"]
  /\ InitClientArenas(c, "attached", "peer")
  /\ UNCHANGED <<linked, serverVars, sessionVars, rsp>>

\* It cannot be opened: m_app_shm is an Arena without a pool by now, and the
\* failure branch asserts that it is null.
OpenAppPoolFails(c) ==
  /\ cli[c] = "opening app"
  /\ MayFailToOpen(AppPool(srv_pid[at[c]], AppOf[c]))
  /\ cli_app' = [cli_app EXCEPT ![c] = "poolless"]
  /\ Abort(c, "app_shm null on failure")
  /\ UNCHANGED <<linked, serverVars, sessionVars, rsp>>

\* ~Client_session_impl(), at any point, or the death of the process: the client
\* unlinks nothing ("server's job").
ClientEnds(c) ==
  /\ cli[c] \notin {"gone", "aborted"}
  /\ cli' = [cli EXCEPT ![c] = "gone"]
  /\ cli_session' = [cli_session EXCEPT ![c] = "null"]
  /\ cli_app' = [cli_app EXCEPT ![c] = "null"]
  /\ at' = [at EXCEPT ![c] = None]
  /\ UNCHANGED <<linked, serverVars, sessionVars, rsp, tripped>>

-----------------------------------------------------------------------------

ThreadWStep(s) ==
  \/ FindAppShm(s) \/ CreateAppShm(s) \/ RecordAppShm(s) \/ CreateSessionPool(s)
  \/ SetArenas(s) \/ Respond(s) \/ RespondFails(s)

ClientStep(c) ==
  \/ ReceiveResponse(c) \/ ConnectFails(c)
  \/ OpenSessionPool(c) \/ OpenSessionPoolFails(c)
  \/ OpenAppPool(c) \/ OpenAppPoolFails(c)

DestructorStep(s) == SessionDestroyMembers(s) \/ SessionDeinit(s)

Next ==
  \/ ServerStart \/ ServerStartFails \/ ServerDestroyMembers \/ ServerDeinit \/ ProcessExit \/ ServerCrash
  \/ \E c \in Client, s \in Session : LogInRequest(c, s)
  \/ \E s \in Session : ThreadWStep(s) \/ DestructorStep(s)
  \/ \E c \in Client : ClientStep(c) \/ ClientEnds(c)

Spec == Init /\ [][Next]_vars

\* Threads that have something to do get to do it; a destructor that began goes
\* on, the Session_server's destroying the sessions which are still logging in.
FairSpec ==
  /\ Spec
  /\ \A s \in Session :
       /\ WF_vars(ThreadWStep(s))
       /\ WF_vars(SessionDeinit(s))
       /\ WF_vars(server = "closing" /\ w[s] # "peer" /\ SessionDestroyMembers(s))
  /\ \A c \in Client : WF_vars(ClientStep(c))
  /\ WF_vars(ServerDeinit)

-----------------------------------------------------------------------------
(* Properties. *)

TypeOK ==
  /\ linked \subseteq PoolName
  /\ pid \in 0 .. MaxStarts
  /\ server \in {"down", "up", "closing", "closed", "crashed"}
  /\ app_map \in [App -> ArenaPtr]
  /\ pool_names \subseteq PoolName
  /\ w \in [Session -> {"unused", "request", "app absent", "app created", "app refused",
                         "app ready", "pool created", "arenas set", "peer", "failed"}]
  /\ life \in [Session -> {"unborn", "alive", "members gone", "destroyed", "crashed"}]
  /\ srv_pid \in [Session -> 0 .. MaxStarts]
  /\ srv_session \in [Session -> ArenaPtr]
  /\ srv_app \in [Session -> ArenaPtr]
  /\ deinit \in [Session -> BOOLEAN]
  /\ peer \in [Session -> Client \cup {None}]
  /\ rsp \subseteq Session
  /\ dangling \subseteq 1 .. MaxStarts
  /\ cli \in [Client -> {"null", "connecting", "opening session", "opening app", "peer",
                         "aborted", "gone"}]
  /\ at \in [Client -> Session \cup {None}]
  /\ cli_session \in [Client -> ArenaPtr]
  /\ cli_app \in [Client -> ArenaPtr]
  /\ tripped \in [Client -> {"none", "arenas set once", "app_shm null on failure"}]

\* A pool of the running process outlives neither its session nor its
\* Session_server, however their destruction interleaves with a log-in that is
\* under way; only a crash leaves names behind, and those are gone once a process
\* after it has its Session_server, however many failed to.  (The two destructors'
\* "Why do it?" and "What if this dtor never runs?".)
LeakOnlyByCrash ==
  server # "crashed" =>
    /\ \A name \in linked : name[2] = pid
    /\ \A s \in Session : SessionPool(s) \in linked =>
         Exists(s) /\ (deinit[s] \/ w[s] = "pool created")
    /\ \A a \in App : AppPool(pid, a) \in linked =>
         /\ server \in {"up", "closing"}
         /\ \/ AppPool(pid, a) \in pool_names
            \/ \E s \in Session : ThreadW(s, "app created") /\ AppAt(s) = a

\* While a session lives a client that was told of it finds its pool by name,
\* however late it gets to opening it: the reason why the name is unlinked by
\* the destructor and not earlier ("Why not do it earlier?").
PoolAwaitsClient ==
  \A c \in Client :
    /\ cli[c] = "opening session" \/ (cli[c] = "connecting" /\ at[c] \in rsp)
    /\ life[at[c]] = "alive"
    => SessionPool(at[c]) \in linked

\* Nor is it by chance that its app pool is there, which any session of the app may
\* have created, in a log-in before it or while it was logging in: from the response on
\* the client finds it until ~Session_server() has stopped every thread W and runs the
\* deinit function its constructor set.
AppPoolAwaitsClient ==
  \A c \in Client :
    /\ \/ cli[c] \in {"opening session", "opening app"}
       \/ cli[c] = "connecting" /\ at[c] \in rsp
    /\ srv_app[at[c]] = "attached"
    /\ srv_pid[at[c]] = pid /\ server \in {"up", "closing"}
    => AppPool(pid, AppOf[c]) \in linked

\* Whatever failed on the way, however many log-ins of the app went on at once: two
\* sessions in PEER state have the same two arenas, each with its pool, or else the
\* client does not get to PEER state.  (Of the server's nothing is said for a process one
\* of whose threads W used a destroyed member.)
PeersShareArenas ==
  \A c \in Client : cli[c] = "peer" =>
    /\ cli_session[c] = "attached" /\ cli_app[c] = "attached"
    /\ life[at[c]] = "alive" /\ srv_pid[at[c]] \notin dangling =>
         srv_session[at[c]] = "attached" /\ srv_app[at[c]] = "attached"

\* Nobody waits for everybody else: a client has its response or its refusal, or there
\* is a thread W on the way to one, which has a step to take or waits for the mutex while
\* the thread that has it does; and the destructor that waits for a task of W waits for
\* such a thread, also while ~Session_server() waits for it.
NobodyWaitsInVain ==
  LET Moves(s) == Exists(s) /\ (InAppShm(s) \/ w[s] \in {"pool created", "arenas set"})
      WillMove(s) ==
        \/ Moves(s)
        \/ /\ Exists(s)
           /\ w[s] = "request" \/ (w[s] = "app ready" /\ app_map[AppAt(s)] # "null")
           /\ \A r \in Session : InAppShm(r) /\ srv_pid[r] = pid => Moves(r) IN
  /\ \A c \in Client : cli[c] = "connecting" =>
       at[c] \in rsp \/ w[at[c]] = "failed" \/ ~Exists(at[c]) \/ WillMove(at[c])
  /\ \A s \in Session : life[s] = "members gone" /\ InSetupTask(s) => WillMove(s)

\* async_connect() ends, whatever becomes of the server.
ConnectEnds ==
  \A c \in Client :
    cli[c] \in {"connecting", "opening session", "opening app"}
      ~> cli[c] \in {"null", "peer", "aborted", "gone"}

\* Each destructor that has to wait for a thread W ends, or the process crashes.
DestructorsEnd ==
  /\ \A s \in Session : life[s] = "members gone" ~> life[s] \in {"destroyed", "crashed"}
  /\ server = "closing" ~> server \in {"closed", "crashed"}

(* What the repository says of the program, and the code does not do. *)

\* "At *that* stage there is no more race involved": no thread W uses a member
\* that a destructor has destroyed.
NoRaceWithDestructor == dangling = {}

\* "If that creation failed, then pre_rsp_setup_func() just failed, so we are not
\* here": past it, app_shm() is an arena with a pool.
SetUpWithAppPool(s) ==
  w[s] \in {"pool created", "arenas set", "peer"} => srv_app[s] = "attached"

SetupOnlyWithAppPool == \A s \in Session : SetUpWithAppPool(s)

\* The assertions a client meets on the way, assert(!m_app_shm) in the failure
\* branch of async_connect() and assert(!m_session_shm) in init_shm_arenas().
ClientAssertionsHold == \A c \in Client : tripped[c] = "none"
=============================================================================
