# Specifications of ipc_shm

TLA+ modules, TLC configurations and TLAPS proofs for Flow-IPC's `ipc_shm`: SHM pools in which
processes construct objects that several of them own jointly (`ipc::shm::classic`), sessions that
create and open such pools (`ipc::session::shm::classic`), and structured messages whose
serialization is in one (`ipc::transport::struc::shm`).

Paths below are relative to `src/ipc/` in the repository.

## 1. The system

### Components

| component | state | operations | made correct by |
|---|---|---|---|
| **Pool_arena** `shm/classic/pool_arena.{hpp,cpp}` | the attached pool (or none); in the pool: buffers, and beside each constructed `T` an atomic `m_atomic_owner_ct` | constructors (create, open, open-or-create), destructor, `allocate`, `deallocate`, `construct`, `lend_object`, `borrow_object`, the `shared_ptr` deleter, `remove_persistent` | the count is the number of owners in all processes; the last one, alone, destroys; a borrowed handle means the object that was lent |
| **stl::Arena_activator, Stateless_allocator** `shm/stl/` | per thread, a stack of active arenas | activate, deactivate; allocate and deallocate in the active arena | inner buffers of a `T` come from, and go back to, the arena of `T` |
| **Session_impl** `session/detail/shm/classic/session_impl.hpp` | `m_session_shm`, `m_app_shm` | `init_shm_arenas`, `reset_shm_arenas`, `lend_object`, `borrow_object` | the blob says which of the two pools it is from; set once |
| **Server_session_impl** `.../server_session_impl.hpp` | the above; a deinit function | `async_accept_log_in` and its set-up function in thread W, destructor | the session pool's name exists from before the client is told until the session is destroyed |
| **Client_session_impl** `.../client_session_impl.hpp` | the above | `async_connect`, `sync_connect`, destructor | it ends in PEER state with both pools, or in NULL state with none |
| **Session_server** `session/shm/classic/session_server.hpp` | `m_app_shm_by_name` under a mutex, the names of the app pools | constructor (removes the names a dead process left), `init_app_shm_as_needed`, `app_shm`, destructor | one app pool per Client_app, found or created by any of its sessions |
| **session wrappers** `session/shm/classic/{session,server_session,client_session}.hpp` | an impl pointer | forwarding, move | |
| **Capnp_message_builder** `transport/struc/shm/capnp_msg_builder.{hpp,cpp}` | a handle to a list of segments in SHM; `m_segment_sz` | constructor, `allocateSegment`, `lend`, destructor | capnp never gets less than it asked for; each segment's size says what is in it |
| **Builder, Reader** `transport/struc/shm/serializer.{hpp,cpp}` | the top serialization; the Reader's handle to the list and the segments it noted | `emit_serialization`; `add_serialization_segment`, `deserialization`, destructors | the list lives while a Reader needs it; a Reader sees all that was emitted |
| error codes, forward declarations, schemas, `link_test` | - | - | - |

### How they interact

* A `Pool_arena`'s objects are *shared state* of all processes attached to the pool. There is no
  message between owners and no lock: the atomic count is all the coordination there is.
* `lend_object()` makes a blob; the user carries it to another process by whatever channel; that
  process calls `borrow_object()`. The lender counts the borrower.
* `Session_impl` picks one of two `Pool_arena`s and marks the blob with a scope ID.
* The vanilla session log-in (another library) calls back, in *thread W*, into
  `Server_session_impl`'s set-up function, which calls back into `Session_server` for the app pool.
  The user's thread may destroy either object meanwhile; the base destructors stop W.
* Server and client otherwise meet in the *name space of the system*: a pool is created, opened and
  unlinked by name.
* A `shm::Builder` constructs a list of segments in an arena and lends it at each emission; the small
  blob is sent as a message; the `shm::Reader` borrows it.

### What is hard

Concurrent last releases in several processes; a lender that lets go before the borrower arrives;
processes that die with shares; blobs that never arrive; constructors that throw halfway; addresses
that differ per process; destructors that race with thread W; names that must outlive the client's
opening and no longer; a second connect after a failed one; a Reader that traverses a list which its
Builder is changing. `PROJECT.json` lists each at its line, with the properties that cover it.

## 2. Modules

    SharedOwnership              what joint ownership means, without counts
      ^ implemented by             ^ used as the pool by
    PoolArena ...Proofs          ShmMessage ...Proofs   one list of segments, builder to readers
                                   ^ SegmentGrowthProofs, with SetInduction
    StatefulAllocator            containers each of whose allocators has a pointer to its arena
      ^ implemented by
    ArenaActivator ...Proofs     which pool an inner buffer comes from
    ObjectReferences             references that simply are the objects
      ^ implemented by
    LendBorrow ...Proofs         what a lent blob means in the other process
    SessionSetup ...Proofs       how the pools themselves come and go

`MCPoolArena`, `MCArenaActivator`, `MCLendBorrow`, `MCSessionSetup` and `MCShmMessage` instantiate them for TLC:
symmetry sets, and the functions among the constants.

Some definitions are marked `(Mutant: ...)`. They are variants of the definition below them with a
plausible mistake in them and are not part of any specification; each property was seen to fail when
the definition is replaced by such a variant (`mutants` in `PROJECT.json`).

### SharedOwnership

The promise: objects are created with one owner, owners come from owners, and an object may be
reclaimed once it has none. (That it is reclaimed is `LastOwnerReclaims` in `PoolArena`.)

### PoolArena (`shm/classic/pool_arena.{hpp,cpp}`)

Ownership is modelled by *shares*. A share is one unit of `m_atomic_owner_ct`: a `shared_ptr` group
in a process, or a blob on its way. Each share is an actor with a control state (`phase`), an object
(`obj`) and a process (`home`), so any number of threads in any number of processes act at once.

| action | code |
|---|---|
| `OpenArena`, `CloseArena` | the constructors, with either outcome; the destructor (handles must be gone: their deleters use the `Pool_arena`) |
| `ConstructAllocate`, `AllocateInner`, `ConstructReturn`, `ConstructThrow` | `construct()`: the outer buffer and the count in it; `T`'s constructor, allocation by allocation; its two ends. When it throws, the outer buffer stays allocated: `construct()` has no handler |
| `LendObject` | `lend_object()`: atomic increment, blob |
| `BorrowObject`, `LoseBlob` | `borrow_object()`; a blob that never arrives or meets a `Pool_arena` with no pool |
| `ReleaseHandle` | the deleter's atomic decrement and the decision from the value it returned |
| `DeallocateInner`, `Deallocate` | `~T()`, deallocation by deallocation; then the outer buffer |
| `Crash` | the process dies; its shares take no more steps |

`AllocateInner` and `DeallocateInner` also happen while a user mutates an object through a handle.
The pool's allocation algorithm (Boost.Interprocess) is external: a set of free blocks. Which of two
processes mutates an object when is up to the users and is not a property of this code.

### ArenaActivator (`shm/stl/arena_activator.hpp`, `shm/stl/stateless_allocator.hpp`)

`PoolArena` takes for granted that an inner buffer comes from, and goes back to, the pool of its object.
The code has to work for that: the allocator in a container has no state and uses the arena that is
active in its thread. An `Arena_activator` saves the active arena and sets its own; its destructor
restores. `EnterScope` and `LeaveScope` are a user's activator (and the two in
`Capnp_message_builder`); `BeginConstruct`/`EndConstruct` the one in `construct()`, left by return or exception;
`BeginDestroy`/`EndDestroy` the one in the deleter. Between them `Allocate` and `Deallocate` use whatever is
active, while `MayWorkOn` is the documented contract: work on an object in the scope of an
activator of its arena, or in its own constructor or destructor. Each of these may nest in any other.
`MoveInner` is what a move or swap of containers does, given that any two allocators compare equal: the
buffers change hands, no arena is consulted. Both containers are worked on, so the contract excludes a move
between two arenas; the code would do it without noticing, and nothing is said here of what follows.

`StatefulAllocator` says what all this is for: the containers of an object behave as if each had an allocator with a
pointer to the object's arena. It has neither threads nor scopes, any object there is may be worked on at any time,
and a move is between objects of one arena. `ImplementsAllocators` maps the objects that exist, their inner buffers and
what is allocated to it.

### LendBorrow (`session_impl.hpp` lend and borrow; `pool_arena.hpp` lend and borrow)

The arithmetic that `PoolArena` leaves out: a handle is an address in a process; a blob is a signed
offset and a scope ID; unsigned subtraction wraps. A server process with several sessions of one
Client_app has all session pools and the app pool mapped, each client its session's pool and the app
pool, everywhere at different addresses. `Construct`, `LendObject`, `BorrowObject` and `DropHandle`
move handles and blobs around; every handle and blob carries, as a ghost, the object it stands for.

`ObjectReferences` is what a user of sessions sees: a process holds references to objects and sends them on; a
reference is the object, there is no encoding. `ImplementsReferences` does not use the ghosts. It maps the address in
a handle to the objects that lie there, and a blob to the objects that its receiver would find if it borrowed it
now, the whole of `borrow_object()` included. Were there two such objects, or none, a step would have no
counterpart.

### SessionSetup (`session_server.hpp`, `server_session_impl.hpp`, `client_session_impl.hpp`)

| action | code |
|---|---|
| `ServerStart` | a process starts; `Session_server`'s constructor and its cleanup point |
| `ServerStartFails` | the constructor's early return when its base emitted an error: no cleanup, and no deinit function for later |
| `ServerDestroyMembers`, `ServerDeinit` | `~Session_server()`: the derived members, with no lock taken; the base destructor, which stops the threads and runs the deinit function |
| `LogInRequest` | `async_connect()` and the start of `async_accept_log_in()` |
| `FindAppShm`, `CreateAppShm`, `RecordAppShm` | `init_app_shm_as_needed()` in thread W: the lock and the look-up in the map; the creation of the pool; its name into the vector, and the unlock |
| `CreateSessionPool`, `SetArenas`, `Respond`, `RespondFails` | the rest of the set-up function, with `app_shm()`, and the completion handler, also in thread W, cut where another thread can see the difference |
| `SessionDestroyMembers`, `SessionDeinit` | `~Server_session_impl()`: the derived member first; then the base destructor, which waits for W's task, stops W and runs the deinit function |
| `ReceiveResponse`, `OpenSessionPool`, `OpenAppPool` and their failures | `Client_session_impl::async_connect()`, up to its assertions |
| `ClientEnds` | the client's destructor or death |
| `ProcessExit`, `ServerCrash` | graceful and other ends of the server process |

A pool is identified with its name; names contain the PID, which is not reused. The vanilla log-in
is external: a request and a response. An arena pointer is null, an arena with a pool, or an arena
*without* one: what `make_unique<Pool_arena>(..., &err_code)` leaves behind when it fails. The
difference matters for most of section 6.

The mutex is who is between look-up and unlock (`InAppShm`). `~Session_server()` does not lock it, and a thread W
that is past the look-up, or only gets to it later, goes on with members that were destroyed: it creates the pool
and records the name while the Session_server is `"closing"`, until the base destructor has stopped it. (So does a W
that `~Session_server_impl()` finds logging in and has to wait for.) That use is undefined, and it is modelled by what
a build can do: the storage of the map still holds what it held, or the map looks empty (`Found`); the
vector of names is there, which the deinit function shares, and so is the pointer to it in the storage; the mutex
excludes as before. Where the remains lead to the end of the process instead (a mutex that cannot be locked, a null
pointer, an assertion), that is a `ServerCrash`, which may happen at any step. Not modelled is a W that writes over memory which
has been given to something else by then. `dangling` is the set of processes in which a destroyed member was used, by
such a W or by one whose own session's destructor has begun; what follows there about the *contents* of members is not claimed
(section 5), what follows about names is.

### ShmMessage (`transport/struc/shm/{capnp_msg_builder,serializer}.hpp`)

The pool is an instance of `SharedOwnership`, which `PoolArena` implements (a theorem), so that what is
shown of the one pool holds of the other; the owners of a list are its Builder and its emissions. A segment
is its capacity, the size noted in it and how much capnp has used (a ghost the Reader cannot see).
Contents are not modelled.

| action | code |
|---|---|
| `BuilderCtor`, `BuilderDtor`, `Reclaim` | the list is constructed, its handle released, and its last owner's deleter destroys it |
| `Mutate`, `AllocateSegment` | what setting a field makes capnp do: write into the last segment, past `size()` if need be, or call `allocateSegment()` |
| `BeginEmission`, `AdjustSegment`, `LendSegments`, `LendFails`, `EmitTop` | `emit_serialization()`: the loop of `lend()`, a step per segment; `lend_object()` with either outcome; the top serialization, which may fail when the list is already lent |
| `Receive`, `Lose` | the message arrives, or never does |
| `Deserialize`, `DeserializeFails`, `TraverseSegment`, `FinishTraversal` | `deserialization()` in the order in which it looks at segments |
| `ReaderDtor` | `~Reader()`, which releases the handle if there is one |
| `BuilderCrash`, `ReaderCrash` | the death of either process, at any of these points |

Both loops run in different processes with no lock between them, so that their steps, and further mutations
and emissions, interleave. What is taken for granted:

* An append to the list and a change of a segment's size are each one step, which the other process sees whole or
  not at all. The code has no fence or lock that says so; a torn append is not covered.
* The use of a segment only grows, and only in the last one. That is what capnp's arena does when fields are set;
  `HasRoom`, `Mutate` and `Used` are external.
* `deserialization()` also rejects an empty list and a segment whose size is no multiple of a word, after the
  list was borrowed; as `lend()` never emits either, these returns have no action.
* The share of a process that died with a Reader is not released; `FreedOnceRead` is about messages that were neither lost nor
  ended by a death.

## 3. Runs

| run | checks | instance |
|---|---|---|
| `pool_arena_safety` | `TypeOK`, `OwnerCountExact`, `NoUseAfterFree`, `SoleDestroyer`, `BlocksAccountedFor`, `ImplementsOwnership`, `NoResurrection` | 3 processes (all may crash), 3 blocks, 4 shares, count modulo 5 |
| `pool_arena_liveness` | `LastOwnerReclaims`, `UnlentObjectsGo` | 2 processes, one may crash; 2 blocks, 3 shares |
| `lend_borrow_safety` | `TypeOK`, `HandlesMeanTheirObject`, `BlobsMeanTheirObject`, `BorrowsStayInPool`, `ImplementsReferences` | 2 sessions, 16-word memory, all layouts |
| `session_setup_safety` | `TypeOK`, `LeakOnlyByCrash`, `PoolAwaitsClient`, `AppPoolAwaitsClient`, `PeersShareArenas`, `NobodyWaitsInVain` | 2 clients, 2 sessions, 3 server processes, all faults |
| `session_setup_liveness` | `ConnectEnds`, `DestructorsEnd` | 2 clients of 2 apps, 2 sessions |
| `arena_activator_safety` | `TypeOK`, `InnermostIsActive`, `InnerBuffersAtHome`, `ImplementsAllocators` | 2 threads, 2 arenas, 3 objects, 3 buffers, 3 activators deep |
| `shm_message_safety` | `TypeOK`, `ReaderNeverDangles`, `ReaderSeesEmission`, `ReaderStaysInside`, `SegmentsGrow`, `SegmentsStayFew`, `FreedOnceRead` | 1 builder, 3 messages, leaves of 2 words, a first segment of 1, a pool of 11; deaths of either process |
| five `violation` runs | section 6 | |

**Bounds.** `PoolArena`: with four shares an object has up to four owners, an unsigned count modulo 5
reaches its greatest value, and two objects of two owners each interact; three blocks allow an object
with inner buffers next to another object; three processes allow a blob to be passed on by a process
which is neither its constructor nor its last owner. `LendBorrow`: the three addresses allow two
adjacent pools and a pool that ends exactly at the top of memory, offsets take both signs, and every
offset that can be written in a blob is tried by `BorrowsStayInPool`; `MaxObjects` is 1, as objects do
not interact. `SessionSetup`: `MaxStarts = 3` is a crash, a start that fails before its cleanup and the one that cleans
up after both; two sessions are two log-ins of one Client_app at once, or a connect that failed and its retry; the two
faults switch on failures of the system that the code handles. (With three sessions and two starts, a client that retries
while another one connects, the same properties hold in 4.2 million states, too many for a run of a few minutes.) `ArenaActivator`: three levels are a user's scope, a
constructor or destructor in it and another in that, in two arenas in any order. Two of the three objects
are in one arena, so that buffers are moved between them. `ShmMessage`: three emissions of one list, of
which one may be read, one in traversal, one not yet borrowed or just being adjusted; the first leaf is larger
than the first segment would be, later ones fit a segment or do not; the pool has room for two
segments and a third does not fit. Several Builders do not interact but for the space in the pool.

**Deadlock** is checked in `lend_borrow_safety` and `arena_activator_safety`. The other systems may stop: all
processes have crashed, all shares are lost, all sessions are used up, all messages were read. For `SessionSetup`, where threads do
wait for each other, `NobodyWaitsInVain` says what a deadlock check would.

## 4. Fairness

* `PoolArena!FairSpec`: a deleter which found itself last runs to its end. It waits for nobody; the
  pool's own lock is held only for the time of an allocation. (A process that dies *inside* the
  allocation algorithm leaves that lock locked, as the provider's documentation says; the model's
  allocations are atomic.) Weak fairness of a crashed process's step asks nothing: it is disabled.
* `UserFairness`, users who let go, is a premise of `UnlentObjectsGo` only. Nothing in the code ensures
  it; the property says what stays in the pool even then.
* `SessionSetup!FairSpec`: thread W and the client's thread take the steps they have; a destructor
  which began goes on. That users ever destroy anything, that a process ever ends and that a client ever
  connects is not assumed. Fairness of W also is that of the mutex: the thread that has it moves on, and with finitely many
  sessions each gets its turn.
* `ShmMessage` needs none: `FreedOnceRead` is a state property (nobody owns the list any more), and that a
  list nobody owns is deallocated is `LastOwnerReclaims`.

## 5. Proofs

`PoolArenaProofs`, `ArenaActivatorProofs`, `LendBorrowProofs`, `SessionSetupProofs`, `ShmMessageProofs` and
`SegmentGrowthProofs` prove for every value of the constants what the safety runs show for one; every invariant and
every action property of a run is a theorem. `SetInduction` has facts that are about no component.
Assumptions, all evaluated by TLC on the runs:

* `ShareAssumption`, `CtAssumption`: there are finitely many shares, fewer than the count can tell
  apart (2^32). The code does not check this. It is the one assumption about behaviour.
* `NoneAssumption`, `FaultyAssumption`, `NamesAssumption`, `NullAssumption`, `ArenaOfAssumption`,
  `DepthAssumption`, `SetupAssumption`, `MessageAssumption`: names are distinct, constants are of their kind; a
  leaf and the first segment have at least one word; there are finitely many Builders.
* `ModulusAssumption`, `SizeAssumption`: addresses are words of even modulus, pools are not mapped at 0, a size is
  a word and an object has at least one byte. That pools do not overlap is `Layout`, part of `Init`.

**PoolArena.** `IInv` is `TypeOK`, `ShareShape`, `OwnerCountExact`, `SoleDestroyer` and
`BlocksAccountedFor`. `NoUseAfterFree` is not inductive alone. That nobody else is left when a deleter
reads 1 follows only from the exact count: 1 is the number of shares, so the decrementing share was
the only one. That the exact count survives a construction needs the converse: a block that is free has
no shares, which is `BlocksAccountedFor`. And that a new share never joins a dying
object needs `SoleDestroyer`: a destroying share is alone, so there is no handle to lend from.
`ShareShape` ties the two together: exactly the shares in use have an object. `IInv` gives the theorems `TypeCorrect`, `CountIsExact`, `DestroyedOnce`, `NoSilentLeak`,
`SharesAreSafe` (a consequence), `NeverRevived` (an action property) and `Implements`
(each step is a step of `SharedOwnership` or a stutter).

**ArenaActivator.** No step looks at more than the innermost activator, so `InnermostIsActive` is not
inductive: when a scope ends nothing in it says what the activator outside is. `SavedAreOuter` does: each
activator on the stack saved the arena of the one below it. With `ActivatorsFit` (an activator around a
constructor or destructor is that of the object's arena) whoever may work on an object does so with its arena
active, lemma `WorksInArena`, from which `InnerBuffersAtHome` follows; for a move it gives that both objects
are in one arena. Depth, threads and arenas are arbitrary. `ImplementsStateful` is the refinement: entering and
leaving a scope are stutters, and an allocation in whatever arena is active is one in the object's, by `WorksInArena`.
That an object leaves nothing behind when it ends, and that a buffer is in no other arena, come from
`InnerBuffersAtHome`.

**LendBorrow.** `IInv` is `TypeOK`, `Layout`, and that objects lie where the handles and blobs say.
The lemma `OffsetRoundTrip` says that the subtraction in the lender and the addition in the borrower
cancel, although the offset passes through a signed type; `InsideIsAccepted` and `AcceptedIsInside` that the checks of
`borrow_object()` accept exactly what lies in the pool. `LendThenBorrow` adds the choice of pool: since
pools do not overlap, asking the session pool first never takes an app object for one of its own. `ImplementsRefs` is the
refinement of `ObjectReferences`. Its hypothesis on blobs is `SentAsLent`, stronger than
`BlobsMeanTheirObject`: a blob on its way still is the one `lend_object()` makes of that object at its address, in a
session both of whose ends have its pool. Lemma `MeansOneObject` says that at an address lies at most one object; with
`HeldAre` and `OnWayAre` the mapped state is the ghosts', which makes each step a step of `ObjectReferences` or,
when a reference is lent or borrowed a second time, a stutter of it.

**SessionSetup.** Each property is about names and pointers; why it holds is where every thread is. `IInv`
adds to the properties: `Lives` (sessions are in the process that accepted them, gone when it is, and logging in only while the
Session_server or its remains are there), `Mutex` (one thread has it, and what that knows of the map), `Names` (which
names there are, and which of them the Session_server has to remove), `SessionPools` (a session pool is linked from its
creation in the set-up function until the deinit function), `AppPools` and `AppArenas` (while the Session_server is up, the map has
an arena with a pool for every linked app pool of the process; `app_shm()` of a session is what the map has, and that does not change)
and `Connections` (a client connects to the session that was begun for it, and a response is from a session in
PEER state). `NoLeak` takes in a thread W that creates an app pool after `~Session_server()` began: from creation to
recording the name is covered by the thread itself (`Mutex`), and the deinit function, which reads the vector, runs when no session
is logging in any more (`Lives`). Of the map nothing is used for it, once the server is `"closing"`, but what that W itself put there.
The steps are proved part by part: `NamesStep`, `LeakStep` and so on, a step per action in each. Theorems: `TypeCorrect`,
`NoLeak`, `PoolAwaits`, `PeersShare`. No bound on clients, sessions, apps or starts.

`AppPoolAwaits` needs the converse of `AppPools`: `AppsLinked`, every arena with a pool that is in the map, *or that a
session took from it*, has its name in the system; without `CreateFaults` so has every other arena (`Linkable`). `NoVainWait` is the part of the two liveness
properties that is about states: `Awaited` says that a thread W which needs the Session_server has it, or its
remains, and that a response is there until the client it is for reads it, which is that no two clients share a
session (`Connections`); a W that waits for the mutex waits for a thread that exists and waits for nothing itself. That the steps which are possible are then taken is what fairness, and TLC, add.

Two theorems say how far findings 2 and 3 of section 6 go. `AppPoolUnlessFaults`: with `~CreateFaults`,
`SetUpWithAppPool`, of which `SetupOnlyWithAppPool` is the conjunction, holds for every session in a process whose threads used no destroyed
member. A creation there does not fail because of a name that is there, as a name that is there is in the map
(`AppPools`); so no ordering of log-ins, crashes and restarts is to blame, only failures of the system, or finding 1: a W that
finds the destroyed map empty tries to create what exists. The same exception is in the server's half of `PeersShareArenas`. `AssertionTripsLate`: with `~CreateFaults` and `~OpenFaults` the step that trips `assert(!m_app_shm)`
is taken only when the Session_server which the client logged in to is gone. The hypotheses are constants
which the violation run of finding 2, and the safety run, set to `TRUE`; the run of finding 3 has both `FALSE`.

**ShmMessage.** `Sharing` says who owns a list: its Builder until the destructor, and each emission from `lend()` on, unless a
Reader released it; `ReaderNeverDangles` and `FreedOnceRead` follow. `ReaderSeesEmission` does not follow from
the sizes alone, as they go up and down with each emission. `Covered` does it: use and size of a segment never fall
below what an emission recorded, since use only grows and a later emission's sizes are uses. `Viewed` says the
same of what a Reader has noted so far, and `Len` at the end of the list. That a Reader sees *exactly* the
emission if nothing was added needs `SizesStay`: no size has moved since, however often the list was emitted again.
`OneEmission` (a Builder emits one message at a time) keeps an emission under way exact. `TypeCorrect` includes that
no size or use exceeds a capacity; with that a lemma `CapsStay` gives `ReaderStaysInside`. The lemma `StepKinds` sorts
all actions by what they do to lists and records. Theorems:
`TypeCorrect`, `NeverDangles`, `SeesEmission`, `StaysInside`, `FreedOnce`, and `BorrowersRelease`, which confines
finding 4 to messages that were never traversed.

**Growth of segments.** `SegmentsGrow` is about a sum over a list and `SegmentsStayFew` about a power of two and a sum over a
set of Builders: recursive functions and a fold. The library's induction theorems have an operator for the
predicate, which the provers cannot instantiate. `SetInduction` therefore has induction with a *set* for it:
`NatInductionOnSet`, from the fact that a finite set of naturals shrinks, and `SubsetInduction` over the
subsets of a finite set; and from these that the functions such recursions define exist (`RunningSumExists`,
`IterationExists`, `SetSumExists`) and what they do when a summand changes (`SetSumChange`). In `SegmentGrowthProofs`,
`SegmentsAlwaysGrow` needs that `m_segment_sz` is what all segments take and the first size more; each new segment is as
large as that at least (`GrowsDoubles`). `SegmentsAreFew` then bounds their number: with `n` segments a list takes
`FirstSegmentSz * (2^n - 1)` words at least, and all lists together fit the pool (`PoolFitsStep`). So what a Reader has to
traverse is logarithmic in the size of the pool, however the user adds to the message.

**Only model-checked.** The liveness properties (`LastOwnerReclaims`, `UnlentObjectsGo`, `ConnectEnds`,
`DestructorsEnd`): fairness and `ENABLED` are out of the prover's reach. And the violation runs, which are
counterexamples.

## 6. Where code and text differ

Each is a run whose one property states what the repository says, and which TLC violates.

1. **`session_setup_destructor_race`.** The comments around `Server_session_impl`'s deinit function say
   that a destructor that runs during a log-in meets no race. But the derived destructor is defaulted:
   `m_session_shm` (and in `Session_server` the map and its mutex) is gone before the base destructor
   stops thread W, which may still be in the set-up function. What was meant to be ensured, that the deinit functions
   miss no pool, does hold (`NoLeak`), as far as the undefined use of the members leaves the process running.
2. **`session_setup_poolless_app`.** If creating the app pool fails, the comments say that null stays in the
   map. A `Pool_arena` without a pool stays in it; the next log-in of that Client_app takes it for
   set up and succeeds.
3. **`session_setup_client_assertion`.** If the session pool opened and the app pool does not, the client
   trips `assert(!m_app_shm)` instead of failing the connect. (A failed connect also saves a session arena
   without a pool, "might be saving nulls", while the state goes back to NULL: a second connect that
   succeeds trips `assert(!m_session_shm)`. The model reaches that assertion too, in more steps.)
4. **`shm_message_reader_leak`.** `~Reader()` is documented to decrement the count. It does not if
   `deserialization()` was not called or failed before it borrowed: the segments stay in the pool.
5. **`shm_message_null_err_code`.** `deserialization()` is declared with `err_code = 0` and reads `*err_code`.

Assertions are modelled as in a debug build: the process ends.

## 7. Not modelled

* The allocation algorithm, the mutex and the named-object index inside Boost.Interprocess; capnp's
  layout of messages; the vanilla session's log-in: external, as described above.
* Overflow of `m_atomic_owner_ct`, excluded by `CtAssumption`; the use of a server session's `app_shm()` after its
  `Session_server` is gone, excluded by the documented contract.
* Moved-from and default-constructed wrappers (`Session_mv` and its like, moved Builders): each method asserts that
  there is an impl object and calls it; a move moves a pointer to it, which the model cannot tell.
* A pool opened read-only: no session opens one so, and what a write then does, the deleter's decrement
  included, is documented as undefined.
* Pool sizes and permissions; handles to const objects; error-code tables, forward declarations, schemas, logging.
* `link_test`: its one scenario is among those of `SessionSetup` and `ShmMessage`.

## 8. Plan

Order of the modules, the most important behaviour first: ownership (`SharedOwnership`, `PoolArena` and its
proofs), then the life of the pools (`SessionSetup` and its proofs), then what handles mean across processes
(`LendBorrow` and its proofs), then the users of all this (`ShmMessage` and its proofs), then the allocators
(`ArenaActivator` and its proofs); then `ObjectReferences` and `StatefulAllocator` with the two refinements, and the
growth of segments. These are written. What could still be added:

1. **Messages on sessions**: `ShmMessage` with the handle's encoding taken from `LendBorrow`, so that a message passed on
   over a second session is one behaviour. Each half is proved; the step between them is a blob carried unchanged.
2. **Liveness of messages**: that a list whose Readers and Builder let go is deallocated follows from `FreedOnceRead` and
   `LastOwnerReclaims`; stated in one module it needs fairness of `Reclaim` in `ShmMessage`.
3. **`SessionSetup` with several apps and three sessions** in one safety run, if a smaller abstraction of thread W allows it.
