# Verification of the Hetero Streams Library

hetero-streams (hStreams) lets an application put computes, data transfers and
waits into streams that end on a card or on the host itself. The library turns
them into actions of COI, the layer below, with explicit lists of events to wait
for. This project models the library's source side, `src/src/`, and the programs
that come with it, in TLA+: TLC checks the models on small instances, TLAPS
proves the main results for every value of the constants. All paths below are
relative to the repository, which is `src/`; definitions keep the names of the
functions they stand for.

## 1. Inventory

| Component | State | Operations | What is hard about it |
|---|---|---|---|
| Physical stream (`hStreams_PhysStream.cpp`; calls in `hStreams_core_api_workers_source.cpp`) | event of the last compute or barrier; per buffer the event of its last update; `lock_` | enqueueFunction, enqueueTransfer, EventStreamWait, StreamSynchronize, ThreadSynchronize, StreamDestroy | several threads per stream; a few remembered events stand for all earlier actions; buffers are told about an action after the lock is gone; destruction; time-outs |
| Host-side worker (`hStreams_PhysStreamHost.cpp`, `hStreams_HostSideSinkWorker.cpp`, `hStreams_threading.cpp`) | queue, condition variable, status, a thread | put an action, pop, wait for its inputs, run, signal, stop and join | lost wake-ups, errors in the thread, transfers that overtake the queue |
| Physical buffer (`hStreams_PhysBuffer.cpp`) | list of pending actions, clean-up counter | addPendingAction, removeCompletedActions, destructor | actions complete at any moment; index arithmetic of the clean-up; a cast to 16 bits |
| Library life (`hStreams_core_api_workers_source.cpp`, `hStreams_core_api_source.cpp`, `hStreams_atomic.h`) | state, call counter, two locks, the collections | Init, Fini, the prologue and epilogue of every call | calls racing Fini, failures half way, Init against Fini |
| Exported functions (`hStreams_core_api_source.cpp`, `hStreams_app_api_source.cpp`) | none of their own | one wrapper for each | which of them are counted; Fini takes no lock of a collection |
| Locks (`hStreams_locks.cpp`, `hStreams_internal_vars_source.cpp`) | four read-write locks of collections, two of settings | taken by every call | order of locks, writers that hold back readers, structures without a lock of their own |
| Logical buffers (`hStreams_LogBufferCollection.cpp`, `hStreams_helpers_source.h`) | ordered map from addresses to buffers | lookup, Alloc1D, DeAlloc, operand checks of transfers | off-by-one and wrap-around in address arithmetic |
| Buffer instantiations (`hStreams_LogBuffer.cpp`) | per logical domain a physical buffer, or an alias of one | attach, tryAttach, detach | roll-back of partial failures, shared instances |
| Registry (`hStreams_LogDomain*.cpp`, `hStreams_LogStream*.cpp`, `hStreams_RefCountDestroyed.cpp`) | logical domains, logical streams, reference counts of physical streams | AddLogDomain, RmLogDomains, StreamCreate, StreamDestroy | streams with equal masks share one physical stream; partial removal |
| Physical domains (`hStreams_PhysDomain*.cpp`) | masks to logical domains, oversubscription counts | lookup, mapping, counts | creations that fail half way |
| App API (`hStreams_app_api_*.cpp`) | ids of the domains it made, base of the stream ids | app_init, app_init_domains and thin wrappers | partition arithmetic, second initialisation |
| Reference programs and tutorials (`ref_code/`, `tutorial/`) | matrices in tiles, arrays of events | enqueue, wait, synchronise | dependences between streams are the program's own business |
| COI wrapper, logger, sink side | | | input and output |

The components interact through events. A stream submits an action to COI (or to
the worker, which plays COI on the host) with a list of events and gets one
back; buffers collect the events they must outlive; the application may pass any
event to EventStreamWait. The read-write locks order the calls: an enqueue holds
`log_streams_lock` and `log_buffers_lock` for reading, a synchronisation or
destruction holds them for writing. The call counter keeps calls and Fini apart.

What makes each component correct: a stream orders what its dependence policy
says is ordered, and a synchronisation means what it says; a buffer's memory
outlives the actions that name it; the worker behaves like COI; no call meets a
teardown and no two calls' bodies conflict; the registry's lists agree and its
counts match; buffers are disjoint and transfers stay inside them; a call that
attaches a buffer does all or nothing; app_init shares out the cards evenly; and
the programs order every two actions that touch the same memory.

## 2. Modules

| Module | Stands for |
|---|---|
| `StreamPromise` | the abstract stream: enqueue, execute in the promised order and after the events named, synchronise |
| `PhysStream` | the detailed stream, its calls and the buffers' pending actions |
| `PhysStreamInv`, `PhysStreamProofs` | inductive invariants and theorems of `PhysStream` |
| `EventPromise` | what a stream expects of whoever executes its actions |
| `HostSinkWorker`, `HostSinkWorkerProofs` | producer, queue and thread on the host; implements `EventPromise` |
| `PhysBuffer` | the pending list that `PhysStream` abstracts to a set |
| `Lifecycle`, `LifecycleProofs` | state, counter and locks of Init and Fini around every call |
| `ApiLocks` | the footprint of every call: its locks in order, what it reads and writes |
| `PublicApi`, `PublicApiProofs` | every exported function; composes `ApiLocks` with `Lifecycle`; theorems about both compositions |
| `Registry`, `RegistryProofs` | logical domains and streams, shared physical streams, counts |
| `BufferInstances`, `BufferInstancesProofs` | where buffers are instantiated, attach by attach |
| `LogBuffers` | lookup by address, allocation, operand checks |
| `BufferProofs` | theorems about `LogBuffers` and `PhysBuffer` |
| `AppInit` | app_init and app_init_domains, domain by domain and stream by stream |
| `StreamProgram` | programs compiled: what each command touches and what holds it back; the static check |
| `StreamClient` | a program's host thread call by call, composed with `StreamPromise`; implements `StreamProgram` |
| `RefPrograms`, `MulticardPrograms`, `TutorialPrograms` | the programs |
| `AppProofs` | theorems about `AppInit`, `StreamProgram` and `StreamClient` |
| `MC*` | instances for TLC |

How they fit together: `PhysStream` implements `StreamPromise`, and
`StreamClient` runs programs against the promise only; what it does is a run of
`StreamProgram`, about which the properties of programs are proved. `HostSinkWorker`
implements `EventPromise`, which is how `PhysStream` sees COI. `ApiLocks` is why
a call may be one step in `Registry` and `LogBuffers`, and why the steps of one
call in `BufferInstances` have no other call's between them. `Lifecycle` is why
no call sees the collections while Fini destroys them, for calls that are
counted; `PublicApi` puts both together for the functions there are.

### PhysStream

`lastAction_`, `pendingBufUpdates_` and `lock_` are the members of the class,
`log_streams` the logical streams not destroyed yet and `getPhysStream` the
physical stream of each, which several may share (`alive` are those in use),
`call[t]` is the library call a thread is in and the local variables it carries,
`pending_actions_` the buffers' lists (as sets), `action`, `deps` and `done`
what COI knows. `prior` and `after` are history: the earlier actions of the same
stream, and the transitive closure of the dependences.

Calls are split where another thread can step in:

- EnqueueCompute and EnqueueData1D: `enqueueFunction` or `enqueueTransfer` take
  `lock_` and read the dependences (`getInputDeps`); `Submit` hands the action
  to COI, updates the dependences (`setOutputDeps`) and releases `lock_`;
  `addPendingActions` tells the buffers. `SubmitFails` is an error of COI.
- EventStreamWait: `EventStreamWait` reads, `SubmitWait` submits and updates,
  without `lock_`, as in the code. `WaitRecord` has its three forms: all of the
  stream, the buffers of some addresses, events only; a number of addresses below
  -1, which the code lets pass, comes with no buffers.
- StreamSynchronize, ThreadSynchronize and StreamDestroy collect events under
  the write lock (`ExclusiveAccess`), then return, time out, or destroy. The
  collected vector is `getAllEvents`, a place for each event of each logical
  stream, also where the same event is in several, so that ThreadSynchronize
  counts what two logical streams share twice. StreamDestroy waits only if the
  logical stream is the last of its physical one; `StreamDetach` takes away any
  other at once. COIEventWait gets its length in 16 bits (`EventCount`) and
  looks at that many places (`FirstPlaces`); zero for a vector that is not empty
  makes a synchronisation fail and the destructor go on.
- DeAlloc collects the buffer's pending actions, and `BufferDestroyed` ends it.
- `Complete` is COI, external: an action may finish when its events have.

A stream that has enqueued nothing holds an invalid event, which the library
takes for signalled; here it is `None` and counts as no event. Errors of
COIEventWait other than a time-out end a call like a time-out does and are not
modelled apart. `Events` bounds the actions, `MaxUserEvents` the events passed
to EventStreamWait. `Users` and `WaitUsers` say which threads enqueue into a
stream and which call EventStreamWait on it. `CountWidth`, 16 in the code, is 3 and 2 in
the runs, which has room for the places there are. Logical streams are there at
first and may be destroyed; how they come to share a physical one is `Registry`.

### HostSinkWorker

One process is the producer, since `lock_` and StreamDestroy's write lock
serialise those who play it; the other is the worker. `add` and `popFront` are
one step each: they run under `mutex_`, which the condition variable gives up
in the instant the worker falls asleep. The read of `worker_status_` by the
producer is unlocked and interleaves with everything. Wake-ups may be spurious.
The constructor initialises the status before it starts the thread
(`hStreams_HostSideSinkWorker.h` declares the members in that order). Four
things may fail: the thread's start (`"affinity"`, `WorkerFails`), anything in
the loop that throws, popFront or the user's function (`"exception"`,
`LoopThrows`; both end in the handler at `:267`), the wait for an action's inputs
(`"wait"`), the signal (`"signal"`); `faults` records which have.

### PhysBuffer

The list, the counter and the clean-up are as in the code. `Completed` is what
COIEventWait reports; `functorIndex` stands for the index the predicate given to
`std::remove_if` keeps by pointer, so that it survives the predicate's copies.
`CleanupValue`, 100 in the code, and `CountWidth`, 16 in the code, are small.

### Lifecycle

Every read or write of the state and every atomic addition to the counter is a
step; the atomics are full barriers. `Enter`, `IsInitialized`, `NotInitialized`
or `Indifferent`, `OperationDone`, `Leave` are any counted call. Init and Fini
follow their code line by line; what Init builds is abstracted to the helper
buffer and to the set of initialisations whose domains are in the collections.
The nested call of `hStreams_IsInitialized` inside Init only raises a positive
counter and is left out.

### ApiLocks and PublicApi

In `ApiLocks` a call is a record: the locks in the order its worker takes them
and in which mode, the structures its body reads and writes, and whether it
looks options up while it works (`hStreams_GetOptions_*` take the options' lock
for one read, inside the others). `"instances"`, the buffers' maps from domains
to physical buffers, has no lock of its own: who changes it holds either
`log_domains_lock` for writing or `log_buffers_lock` for writing. A waiting
writer may or may not hold new readers back (`writersFirst`): pthread and
Windows differ.

`PublicApi` gives each exported function three things: whether its wrapper
counts the call, what state of the library the worker demands, and the
footprint. A caller goes through both machines: it counts itself, asks for the
state, takes its locks, works, lets go, takes the count back. One more thread
calls Init and Fini. `CoreFunctions` and `AppFunctions` list them all.

### Registry

One step per call. `log_domains` and `log_streams` are the collections,
`log_domains_` and `log_streams_` the lists that physical and logical domains
keep beside them; `phys_streams` has the reference counts. `RmLogDomains` works
through a list of ids to the first that is unknown or repeated.
`StreamCreateShared` and `StreamCreateNew` are the two ways of StreamCreate,
`StreamCreateFails` the set-up of OpenMP that throws after the physical stream
was made. `Fini` empties the registry and the next Init fills it. Where the code
takes the first match in a list the model takes any.

### BufferInstances

`phys_buffers_` says which instance a buffer has for a logical domain,
`instances` how often each is held. Calls that attach several domains take one
step for each (`Attach`, then `Return`) and keep in `call` what was asked, what
is done and the state before. A failure may come at every attachment
(`AttachRangeFails`, `AddLogDomainFails`); the roll-back is part of that step.
Alias and incremental properties are chosen at allocation. AddLogDomain
instantiates incremental buffers; RmLogDomains detaches all buffers.

### LogBuffers

A buffer is a start and a length in a `Width`-bit address space. Lookups are
those of `std::map::lower_bound` and the element before it. All operations run
under `log_buffers_lock`, so each is a step. `EnqueueData` is the chain of checks of
a transfer's operands.

### AppInit

The loops of the worker, one step per domain (`CreateDomain`, `ReuseDomain`)
and per stream (`CreateStream`), so that a failure can come at any of them.
`call` has the local variables by name. The library's Init chooses which of the
cards that COI counts are active. Masks are sets of threads of a card.

### StreamProgram, StreamClient and the programs

A program is a text: the calls of the app API that its loops make, unrolled, with
its streams, their places and its buffers. Memory is a function from instances
of tiles (place and proxy address) to terms: what made the value and out of
what. Places are the source, the host as a sink with memory of its own, and the
cards. Event variables mean the action they were last given to, or nothing if
never set (`Named`).

`StreamClient` makes the calls one by one on an instance of `StreamPromise`.
`Enqueue` tells it of an action, its operands and, for a wait in a stream, the
events named; `Synchronize` and `SyncReturns` are the two ends of a
synchronisation, `EventWait` is passed when the events are signalled,
`HostTaskRuns` is work of the host's own. `Complete` is the library: any
action that the promise lets execute runs and is signalled, waits in a stream
and transfers that move nothing (`Elided`) included. No step knows what the
action of another waits for.

`StreamProgram` knows. `Compile` works out of the text for each command which
earlier actions hold it back: those `StreamPromise!MustFollow` says (same
stream, conflicting operands, the BUFFERS policy) and those of the events it
names, and through what does no work itself whatever held that back. `Issue` is
the host thread getting past a command, `Execute` any action that nothing holds
back. `StreamClient` implements it (`ImplementsProgram`), with the same host,
memory and work done.

Beside the run there is a static check, `StaticallyRight`: the text says nothing
outside its streams, tiles and events (`Sane`); of two compiled commands that
conflict, the first is over before the second runs, as far as the host's waits
and the events say (`Ordered`); and the commands one after the other compute
what the sequential algorithm does (`SequentiallyRight`). It looks at the text
only, not at the orders in which actions may complete, so it is cheap;
the theorems say that it is enough.

`RefPrograms` has the tiled Cholesky, the tiled LU and the blocked product, each
with the sequential algorithm whose result it must have; `MulticardPrograms`
the Cholesky and the product over the host and several cards, with the
custom_init that places their streams; `TutorialPrograms` tutorials A.1 to A.5,
B.2 to B.4 and C.0 to C.6 except C.3, in their solutions, hello_world,
basic_perf and io_perf.

## 3. What the runs check

| Run | Instance | Shows |
|---|---|---|
| `stream_shared` | 2 threads, 2 logical streams that share a physical one, 2 buffers, 3 actions, time-outs, destruction, allocation, buffer policy | `ConflictOrder`, `SyncCoversStreams`, `BufferOutlivesItsActions`, `DestroyedStreamIsQuiet` |
| `stream_live` | 2 threads, each with a stream of its own that waits for events of both, 3 actions, buffer policy without buffers, refusals by COI, synchronisation without time-out, destruction | `EnqueuedActionsRun`, `WaitingCallsReturn`, refinement of `StreamPromise` with named events |
| `lifecycle` | 3 threads, one of which calls Init and Fini, 6 calls, failures of both | `LifeInv`, `OperationsAreProtected`, `OperationsFindTheirDomains`, `CallsReturn` |
| `worker` | 4 actions, computes and transfers mixed, all failures | `ExecutedOnceInOrder`, `JoinedMeansDrained`, `DestructionEnds`, refinement of `EventPromise` |
| `buffer_pending` | 5 events, 6 registrations, clean-up every 3 | `PendingIsUnfinished`, `DestroyedMeansFinished`, `CleanupForgetsCompleted` |
| `buffers` | addresses of 3 bits, buffers of every size | `OnlySwallowersOverlap`, `LookupIsExact`, `TransfersInBounds` |
| `registry` | host of 1 thread and card of 2, 3 stream ids, 3 addresses, domain ids up to 3, symmetric addresses | `CollectionsAgree`, `MasksEqualOrDisjoint`, `SharingIsExact`, `RefCountsMatch`, `OversubscriptionMatches` |
| `public_api` | 2 callers in any of 8 functions, a controller, 4 counted calls | `NoConflictingAccess`, `NobodyStuck`, `TeardownMeetsNobody`, `EverybodyReturns` |
| `public_api_uncounted` | the same with two functions of the app API | violation of `TeardownMeetsNobody` |
| `buffer_instances` | 2 symmetric buffers, host and card, domain ids up to 2 | `RefCountsMatch`, `NothingDangles`, `SharingIsExact`, `AllOrNothing` |
| `app_init` | 2 cards of 5 and 3 threads, either active or not, up to 3 domains with up to 2 places, oversubscription up to 2, 7 streams | `DomainsPartition`, `StreamsPartition`, `FreshStreamIDs` |
| `ref_programs` | 20 programs, listed in `MCRefPrograms`, on top of the promise | `NoRace`, `RightResult`, refinement of `StreamProgram` (`ImplementsProgram`); nine larger programs pass the static check (`LargerInstancesAreRight`, an assumption that TLC evaluates) |

### Why the bounds are enough

A dependence is lost by one action that overwrites what a second left and a third
needs, hence three actions; a race needs two threads; "its own buffer" and
"another buffer" need two. For a cycle of waits
each of two streams must wait for the other: `stream_live` has three actions, so that
a wait in either stream can name an event of the other that itself waits for the
first, and a handle that COI refused can be followed by actions that would
take it for an event. It has no buffers, hence no DeAlloc; the policy then keeps
what computes and waits in a stream leave behind. `stream_shared` needs a third bit for the
events' count: two logical streams on one physical stream and two buffers make
six places. The other policy is covered by the proofs, for any
number. The worker's queue must hold more than one action beside transfers,
and its stop. A clean-up of three among six registrations happens twice, with
any subset completed. Six calls are two lives of the library with calls in
between, one of them spoilt. Addresses of three bits
hold up to seven buffers with every kind of gap, and every size lets a range
swallow one or more.

In the registry a card of two threads has masks that are equal, disjoint or
nested; three domains besides none let two share a mask and a list of two ids
repeat or miss one; three streams are two that share and one that does not. The
eight functions of `public_api` are one for each pattern of locking and
counting: all domain locks for writing, domains read and streams written,
everything read, buffers written with domains read, options alone, nothing,
settings, and an uncounted function that is in nobody's way. Four counted calls
are Init, Fini and two of the callers'. The proofs cover every function.
`buffer_instances` needs two buffers so that one call's roll-back could touch
another's instance, and a domain more than the source on each physical domain.
In `app_init`, 5 and 3 threads divide unevenly by 2, three domains over two
cards too, and seven streams are enough for a second call that adds to a first.

The programs are small instances of each loop: three tiles a side let a tile be
updated by two steps and solved in between, two streams or two cards let any two
actions be apart. `TestIters` is 2 of the 4 repetitions of `NUM_TESTS_ITERS`, after each of
which the host synchronises. `HOST_HT_ON` is off. On top of the promise the 20
have 52 773 states. Larger instances take
longer to run than a run should. `LargerInstances` lists nine of them: Cholesky of 4
tiles on 3 streams, LU of 3 tiles on 3 streams, the product with 2 by 3 blocks,
multi-card Cholesky of 3 and 4 tiles with the host and cards and of 4 tiles on three cards
alone, and the product over the host and one card, two cards, and one card in balanced
mode (`LB`), with as many blocks and streams as the program asks for. TLC makes the static
check of each before the run, and the theorems `ClientRaceFree` and `ClientResultIsRight`
give the rest. The balanced mode of the
multi-card Cholesky (`balance`) is defined, but its smallest instance that
differs is beyond TLC, and none is checked.

### Fairness

A thread inside the library goes on, and the user's functions return (weak
fairness, in `PhysStream` of whatever a thread inside a call does next
(`Continues`), a failure being as good an end as success); COI completes actions whose events are signalled. In `PublicApi`
a thread that may go on does, one that waits for a lock included once it is
free for it (weak fairness for each caller; strong fairness is not needed since
the calls are bounded). Nothing forces the application to call, a failure to
happen, or a spurious wake-up. `EnqueuedActionsRun` and `WaitingCallsReturn` have the
form `[]<>`: again and again a time comes when all that was enqueued has executed,
and when no call is blocked. Actions are bounded and never undone, and a
blocked call keeps all others out, so that this is what each action and each
call would be asked for one by one. `CallsReturn` and `EverybodyReturns` rest on the
bound on calls: Fini polls the counter, and an endless supply of calls from other
threads, each of which finds the library uninitialised and returns, could keep
it above zero at every look.

### The violated property

`public_api_uncounted`: `hStreams_app_memset`, like `hStreams_app_memcpy`,
`hStreams_app_event_wait` and the four gemm functions, calls the worker of a
core function past the wrapper that counts the call
(`src/src/hStreams_app_api_workers_source.cpp:428`). Fini, which waits for the
count alone and takes no lock of the collections, destroys streams and buffers
while such a call is using them. `src/src/include/hStreams_internal.h:220` says
that the counter is there "to allow hStreams_Fini() to block until all hStreams
activity completes".

### Observations

What the models and the reading have shown of the code, beside the runs. They
bound what the passing runs claim; some are violated properties of larger or
freer instances, which the constants named let one reproduce.

Streams and buffers:

- EventStreamWait takes no `lock_` (`hStreams_core_api_workers_source.cpp:1885`,
  `:1946`), though it may run beside other enqueues
  (`src/include/hStreams_source.h:1079`, `:922`). An action enqueued between its read and
  its update is forgotten and StreamSynchronize returns early:
  `SyncCoversStreams` is violated in `stream_shared` with `MaxUserEvents = 1` and
  `WaitUsers` all threads.
- A transfer remembers its destination only (`hStreams_PhysStream.cpp:284`). The
  comment at `hStreams_PhysStream.cpp:106` and `src/include/hStreams_types.h:290`
  count write after read as a dependence. `ConflictOrder` orders what the code tracks.
- The policy is read repeatedly for one action (`hStreams_PhysStream.cpp:69`),
  while SetOptions may change it.
- An exception in the worker's loop, such as one that a user's function throws
  (called unguarded at `hStreams_sink.cpp:230`), ends the thread
  (`hStreams_HostSideSinkWorker.cpp:267`). The event of the action in hand and those
  still queued are never signalled; later computes are refused, but
  synchronisations and the destructor's wait for these events do not end.
- When COIEventWait fails for one compute, the worker skips it without
  signalling its event (`hStreams_HostSideSinkWorker.cpp:246`). Later computes of the
  stream depend on that event, so the worker waits for ever and the destructor's
  join with it. `DestructionEnds` and the liveness of `EventPromise` are claimed
  without faults.
- The clean-up passes the number of pending actions as 16 bits
  (`hStreams_PhysBuffer.cpp:107`). With 2^16 or more it asks about a part and may
  clear all. `PendingIsUnfinished` is checked with fewer (`MaxAdds` below
  `2^CountWidth`) and proved under `ListFits`. StreamSynchronize, ThreadSynchronize
  (`hStreams_core_api_workers_source.cpp:1650`, `:1703`) and ~PhysStream have the same
  cast: with 65536 buffers updated in a stream, or spread over the streams that
  ThreadSynchronize names, the call returns success early; what logical streams share
  is counted for each of them. `SyncCoversStreams` is
  violated in `stream_shared` with `CountWidth` 2.
- The lookup misses a buffer that lies strictly inside a range
  (`hStreams_LogBufferCollection.cpp:149`), so that Alloc1D accepts a range that
  swallows one, against `src/include/hStreams_source.h:1195`: that no two buffers
  overlap (`BuffersDisjoint`) is false. `OnlySwallowersOverlap` says what
  remains true: among disjoint buffers a new one overlaps others only if it
  begins below all of these and has one strictly inside. `LookupIsExact` speaks of
  disjoint buffers and of ranges that swallow none.
- A transfer within one domain is always refused
  (`hStreams_core_api_workers_source.cpp:1406`), where the message at `:1408` speaks of
  overlapping operands.
- A buffer of no instance stays allocated when Alloc1DEx fails (`:2070`); Alloc1DEx
  with a domain list that names a domain RmLogDomains has removed, as it may the
  source (id 0), inserts a null domain (`:2079`). The host's memory is not freed
  when COI refuses the buffer (`hStreams_LogBuffer.cpp:246`).
- An aliased buffer attached to a host domain before the source gets memory of
  the library's (the order is that of an unordered set, `:2081`).
  RmBufferLogDomains of all domains detaches the source too, after which
  getNumAttachedLogDomains (`hStreams_LogBuffer.cpp:314`, size minus one) is one
  too few, against `src/include/hStreams_source.h:1345`.

Life of the library:

- Init takes another lock than Fini (`hStreams_core_api_workers_source.cpp:469`,
  `:58`) and sets the state to INITIALIZED under it, against "thread safe" in
  `src/include/hStreams_source.h:170`. `OperationsAreProtected` is violated with two
  threads in `Initializers` and `Finalizers`.
- After an Init that fails half way its domains stay in the collections
  (`:137`); the next Init adds a second set and lookups find the first.
  `OperationsFindTheirDomains` holds up to the first failure.
- The number of active domains is read uninitialised when there is no COI
  (`:260`, read at `:169`).
- Fini resets options and libraries without their locks (`:496`), while SetOptions
  and SetLibrariesToLoad are not counted; the settings' functions check the state
  and then act, beside an Init. AddLogDomain asks a domain for its id after
  deleting it (`:785`).
- A stream whose OpenMP set-up fails takes its threads from counts they were
  never added to (`hStreams_PhysDomainCOI.cpp:159`). `OversubscriptionMatches`
  leaves out the threads this has happened to (`spoiled`).

App API (`hStreams_app_api_workers_source.cpp`):

- A later call does not move `d_lower` past the domains it reuses (`:203`,
  `:246`), so that it fails on cards with two domains or more, against
  `src/include/hStreams_app_api.h:79`. `app_init` asks for a domain on every card COI
  counts (`:373`), active or not. `StreamsPartition` speaks of calls that return.
- A failed call leaves domains and ids behind that a later call runs into. A
  limit of zero physical domains divides by zero (`:159`).

Programs. `NoRace` and `RightResult` are violated in instances that the run does not have:

- LU of 4 tiles and 2 streams: an event is overwritten by the second of a pair
  (`lu_tile_hstreams.cpp:303`), and the one that is waited for is never set (`:346`).
- The multi-card product without the host and with several block columns per
  card (size 4, 3 streams; size 2, 4 streams; 2 cards): one branch waits for the copy
  of A to another domain (`matMult_host_multicard.cpp:506`). Its last loop
  synchronises streams by another index than the one used before (`:567`), to no
  harm.
- Tutorial C.3 sets the whole of `out` in stream 0 and computes slices in the
  other streams with nothing between. It is not among the programs.
- The formula for the last domain in `hStreams_custom_init.h:154` takes
  `num_phys % num_log` where the remainder of threads is meant.

## 4. What is proved

`PhysStreamProofs`, for any number of threads, streams, logical streams in any
sharing of these, buffers and actions:
`TypeCorrect`; `Ordered`, `Synchronized` and `QuietAfterDestruction`
(`ConflictOrder`, `SyncCoversStreams`, `DestroyedStreamIsQuiet`); `Refinement`
(`PhysStream` implements `StreamPromise`, events named in EventStreamWait included); `BuffersOutlive`, with no hypothesis.
All but the first and last assume `WaitsAreExclusive` (whoever calls
EventStreamWait on a stream has it to itself; see the first observation), and a policy
other than NONE, under which nothing is promised. The three about synchronisation
assume `CountsFit` too: logical streams times buffers and one more are fewer than
2^`CountWidth`, so that the count passed to COIEventWait is the vector's length
(`EveryPlace`).

The argument. `ConflictOrder` speaks of all earlier actions and the stream
remembers a few events, so it is not inductive. `OrderInv` adds why the few are
enough: `Covered`, every tracked action is implied by an event still remembered,
directly or through `after`; `DepsStillCurrent`, what a call has read is what
the stream holds when it submits (this is where `lock_`, the write locks and
`WaitsAreExclusive` come in); `WaitIsSufficient`, given `CountsFit`, the same for the
events a synchronisation has collected; and `HistoryIsExact`, an event signalled has all
of `after` behind it. For the buffers, `BufferInv` says that each unfinished use
is known to its buffer or to the thread that is about to tell it
(`UsesAreRemembered`), and that DeAlloc, which excludes such threads, has
collected all of them (`FreeingIsSufficient`).

`LifecycleProofs`, for any number of threads and calls and with failures:
`LifeInvariant` (the counter equals the number of threads inside counted calls,
and the state tells what exists), `ProtectedFromFini`, `FreshDomains`. They
assume `SoleController`, one thread that calls Init and Fini. The heart is that Fini
leaves INITIALIZED before it reads the counter and a call counts itself before
it reads the state, so that a zero counter means nobody is operating and nobody
will be (`DrainedMeansNobodyInside`).

`PublicApiProofs`, `ApiLocks` for any callers and any of the calls: `BodiesDoNotConflict`
and `SomebodyGoesOn`. Each call is shown to be a `Footprint`: what it touches it
has a lock for (`Guarded`) and its locks come in one order (`Ordered`). From the
first and from locks being exclusive (`Exclusive`, inductive) follows that no
two bodies conflict; from the second, that of those inside the one with the
highest lock can go on.

`PublicApiProofs`, `PublicApi`: the composition, seen by its locks, implements `ApiLocks`
(`ApiImplementsLocks`), whence `ExportsDoNotConflict`; seen by its count it
implements `Lifecycle`. `InStep` ties the two: a caller in its body has passed
its wrapper. `FiniMeetsNobody` follows for functions that count and ask
(`Counting`), and `CoreApiMeetsFini` shows that each function of the core API is
one, by cases.

`RegistryProofs`: all five invariants of `registry`, for any physical domains,
masks and ids, from their conjunction with `TypeOK`. The counts need the
cardinality of sets of holders to follow creations and removals of several
streams at once.

`BufferInstancesProofs`: the invariants of `buffer_instances` (`InstInv`) and
`CallsAllOrNothing`. The latter needs `CallInv` (a call under way has attached
`done` of what it was `asked`, and nothing else has changed since `before`):
`SinceCallInv` describes the state as the old one plus those attachments, and the roll-back
lemma shows that detaching them restores it, counts included.

`HostSinkWorkerProofs`: `ExecutesOnceInOrder`, `JoinDrains` and `SafeExecutor`
(the worker implements the safety part of `EventPromise`). The inductive
invariant is the order of the pipeline: what has been executed was enqueued
before what the worker has in hand, that before what is queued, that before what
the producer is about to put. For `JoinDrains` it also says that no accepted
compute is anywhere else, apart from those skipped for a failed wait, and that
a worker without an error has gone only by taking the stop, which is the last
on the queue.

`BufferProofs`, `LogBuffers` for any width and sizes: `LookupExact`, `TransfersStayInside`
and `OverlapsBySwallowing` (`OnlySwallowersOverlap`). The lemmas
characterise the neighbours of an address in the collection (`Above`, `Behind`),
show that a buffer behind the nearest one ends before it (`OthersEndBefore`, from
disjointness), and conclude that what a lookup reports of two neighbours is right
of all buffers (`ReportIsRight`). A new range that swallows none is then refused if it
overlaps any; and one that is accepted begins below every buffer it overlaps
(`FreeBeginsBelow`), since a buffer that holds its first byte is a neighbour.

`BufferProofs`, `PhysBuffer` for any events, clean-up value and number of
registrations: `PendingIsExact`, `DestroyedLast` and `CleanupForgets`
(`PendingIsUnfinished`, `DestroyedMeansFinished`, `CleanupForgetsCompleted`), as
long as the list is shorter than 2^`CountWidth` (`ListFits`); beyond that the
first is false, see the observation on the cast. The work is in `std::remove_if`
with an index of its own: the positions it keeps are numbered from 1 without gaps
(`KeptAreNumbered`, by the least number that is missed), whence a clean-up leaves
what has not completed, no more and no less (`CleanupIsExact`).

`AppProofs`, `AppInit` for any cards, threads per card, requests, failures and
number of calls: `AppInitInvariant`, `FreshIDs`, `DomainsShared`, `StreamsShared`
(`FreshStreamIDs`, `DomainsPartition`, `StreamsPartition`). The code computes
where it is by adding up; the properties are about the whole. `AIInv` closes the
gap: it gives every running value in closed form. `Even(n, k, j)` is how much the first
`j` of `k` even shares of `n` have, `Rest` the same where the last share takes what
is left. `CallOK` says that the domain at hand is number `dom` on card `p` and that
`str_base` has counted the streams before it; `DomainsOK` that `d_lower` is past
the domains made so far, and where each of those lies; `StreamsOK` that the ids in
use are those of earlier calls and those whose place and number in the place come
before the ones at hand, each with the share of threads its place has. That the
next id is unused then comes from division with remainder being unique
(`SameStream`); that shares cover what is divided from a function that climbs
from 0 passing every number (`ClimbReaches`); that they are disjoint from its
never falling (`ClimbMonotone`). `DivisionUnique` also shows that the two formulas
the code has for the domains of a card, with the comparison to -1, are the even
share (`Shares`). `StreamsOK` is given up when a call fails, as are the claims:
see the observation on failed calls. A later call does not move
`d_lower`, so the invariant cannot say that its places begin where the domain does.
It need not: each place that was created lies in the domain, as `CanCreate`
demands, and places as large as the domain all of which lie in it begin where it
begins (`ThisPlace`).

`AppProofs`, `StreamClient` and `StreamProgram` for any programs. What a program
says is its text, and the theorems take nothing else: `AllSane`, every text is
`Sane`; `AllOrdered`, it also compiles to commands that are `Ordered`; `AllRight`, it
passes the whole of `StaticallyRight`.

`CompiledIsWellFormed`: whatever a sane text says, its compiled commands wait for
earlier work only and touch memory there is. `Compile` is a recursive function,
and so are the other folds over a program; each is shown to exist by a
function that `Growing` defines (a list that each step extends by one), so that what
`CompileNext` says of one command may be used of all (`CompiledIs`,
`PrecedingIs`, `SequentialRunIs`).

`ProgramImplemented` (`ImplementsProgram`) for any sane texts. `ClientInv` is what it
takes: the library has been told exactly of the enqueued commands, each with
the record and the events its text gives it and after those of its stream
(`Told`, `Before`); the work done is the signalled actions that do any; and
whatever has been signalled without doing any has behind it all that its compiled
command lists. The last is the point: an event wait in a stream has no work of its
own, and the compiled program has dropped it, so when it is signalled what held
it back must be done. Every call is then a step of the compiled program or none:
an `Enqueue` is an `Issue`, the return of a synchronisation one whose actions
are done because the streams are quiet (`ReturnIssues`), the completion of an
action an `Execute` when the action does work and a stutter otherwise
(`CompleteExecutes`). `NothingHangs`, from the same invariant: of the actions that
are late the least waits for earlier ones only, so that it may execute.

`RaceFree` (`NoRace`) for `AllOrdered`, `ResultIsRight` (`RightResult`) and `OneOutcome`
for `AllRight`, `NoWaitForever` for `AllSane`, all of compiled programs. `OrderInv` says that what a command's
waits and events claim to be over when it runs is over (`past`). `MemInv` compares a
memory in the middle of some order of execution with the sequential run: a place
whose executed writers are exactly those among the first `k` commands holds
what the sequential run has there after `k`. It is inductive because the
commands that conflict run in the order they are listed in, so that each finds in
its operands what it would find in the sequential run. `ClientRaceFree` and
`ClientResultIsRight` carry both over the refinement to programs on top of the
promise, which is what the run checks.

So there is a chain from the library's code to the programs' results: `PhysStream`
implements `StreamPromise` (`Refinement`), `StreamClient` runs on it, and implements
`StreamProgram`, whose results are right. The two ends meet in the module
`StreamPromise`, not in one theorem: `PhysStream` has one host of its own, with
bounds and calls that no program makes, and the programs use one thread, so that
`WaitsAreExclusive` holds of them, few enough buffers for `CountsFit`, no
time-outs, and the BUFFERS policy.

Only model-checked: every liveness property, since the proof system does not
reason about fairness or ENABLED; that the programs are sane and pass the static
check, which is evaluated program by program (`InstancesAreSane`,
`LargerInstancesAreRight`).

## 5. Not modelled, and what could come next

Left out for good: the COI library and its loading, how devices and processes
are started, the sink side (thunks, OpenMP affinity, MKL), logging, error texts,
and the translation of addresses between domains. These are input, output and
data none of the properties tell apart. The headers hold declarations and
documentation. Of the programs, command lines, timing, checks of results and the
numerics of kernels are left out, the exercise versions of the tutorials (which
differ from the solutions by blanks to fill in or are the same), tutorial B.1
(B.2 without functions) and C.3 (see above).

What could come next, in this order:

1. Composition: `PhysStream` with `PhysBuffer`'s list in place of the set, and
   with the registry's StreamCreate, whose sharing is given and fixed in `PhysStream`.
2. A stream whose policy changes, once the documentation says what is promised.
