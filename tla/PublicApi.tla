----------------------------- MODULE PublicApi -----------------------------
(***************************************************************************)
(* What the library exports: every function wraps a worker.  The wrapper   *)
(* counts the call and turns exceptions into results, the worker asks      *)
(* whether the library is initialised, takes its locks and does its work.  *)
(* This module puts the two halves together that ApiLocks (the locks) and  *)
(* Lifecycle (the count, Init and Fini) model apart: Fini takes no lock of *)
(* a collection and relies on the count alone.                             *)
(*                                                                         *)
(* A function exported in several versions is one definition: the versions *)
(* differ in the types and the order of arguments.                         *)
(***************************************************************************)
EXTENDS ApiLocks, FiniteSets

\* Whether the wrapper counts the call, what state of the library the worker
\* demands, and the footprint of its work.
Function(counted, demands, does) ==
  [counted |-> counted, demands |-> demands, does |-> does]

\* Almost all functions.
Operation(does) == Function(TRUE, "initialized", does)

\* Functions that call the worker of another function past its wrapper.
Bypass(does) == Function(FALSE, "initialized", does)

\* Settings.  NoCall: they are single words behind no lock.
Setting == Function(TRUE, "uninitialized", NoCall)

-----------------------------------------------------------------------------
(* The core API.                                                           *)

hStreams_GetNumPhysDomains == Operation(GetNumPhysDomains)
hStreams_GetPhysDomainDetails == Operation(GetPhysDomainDetails)
hStreams_GetOversubscriptionLevel == Operation(GetOversubscriptionLevel)
hStreams_GetAvailable == Operation(GetAvailable)
hStreams_AddLogDomain == Operation(AddLogDomain)
hStreams_RmLogDomains == Operation(RmLogDomains)
hStreams_GetNumLogDomains == Operation(GetNumLogDomains)
hStreams_GetLogDomainIDList == Operation(GetLogDomainIDList)
hStreams_GetLogDomainDetails == Operation(GetLogDomainDetails)

\* Mutant: the wrapper forgets to count.
hStreams_StreamCreate_uncounted == Bypass(StreamCreate)

hStreams_StreamCreate == Operation(StreamCreate)
hStreams_StreamDestroy == Operation(StreamDestroy)
hStreams_GetNumLogStreams == Operation(GetNumLogStreams)
hStreams_GetLogStreamIDList == Operation(GetLogStreamIDList)
hStreams_GetLogStreamDetails == Operation(GetLogStreamDetails)
hStreams_EnqueueCompute == Operation(EnqueueCompute)
hStreams_EnqueueData1D == Operation(EnqueueData1D)
hStreams_EnqueueDataXDomain1D == Operation(EnqueueDataXDomain1D)
hStreams_StreamSynchronize == Operation(StreamSynchronize)
hStreams_ThreadSynchronize == Operation(ThreadSynchronize)
hStreams_EventWait == Operation(EventWait)
hStreams_EventStreamWait == Operation(EventStreamWait)
hStreams_Alloc1D == Operation(Alloc1DEx)
hStreams_Alloc1DEx == Operation(Alloc1DEx)
hStreams_AddBufferLogDomains == Operation(AddBufferLogDomains)
hStreams_RmBufferLogDomains == Operation(RmBufferLogDomains)
hStreams_GetBufferNumLogDomains == Operation(GetBufferNumLogDomains)
hStreams_GetBufferLogDomains == Operation(GetBufferLogDomains)
hStreams_GetBufferProps == Operation(GetBufferProps)
hStreams_DeAlloc == Operation(DeAlloc)

\* The last error is one word, read and written atomically.
hStreams_GetLastError == Function(TRUE, "nothing", NoCall)
hStreams_ClearLastError == Function(TRUE, "nothing", NoCall)
hStreams_Cfg_SetLogLevel == Setting
hStreams_Cfg_SetLogInfoType == Setting
hStreams_Cfg_SetMKLInterface == Setting
hStreams_GetCurrentOptions == Function(TRUE, "nothing", GetCurrentOptions)
hStreams_SetOptions == Function(FALSE, "nothing", SetOptions)
hStreams_SetLibrariesToLoad == Function(FALSE, "uninitialized", SetLibrariesToLoad)
hStreams_GetVersionStringLen == Function(FALSE, "nothing", NoCall)
hStreams_Version == Function(FALSE, "nothing", NoCall)
hStreams_GetVerbose == Function(FALSE, "nothing", NoCall)
hStreams_SetVerbose == Function(FALSE, "nothing", NoCall)

-----------------------------------------------------------------------------
(* The app API: some of its functions call functions of the core API, some *)
(* the workers behind them.                                                *)

hStreams_app_create_buf == hStreams_Alloc1D
hStreams_app_xfer_memory == hStreams_EnqueueData1D
hStreams_app_invoke == hStreams_EnqueueCompute
hStreams_app_stream_sync == hStreams_StreamSynchronize
hStreams_app_thread_sync == hStreams_ThreadSynchronize
hStreams_app_event_wait_in_stream == hStreams_EventStreamWait

\* After a call of hStreams_GetCurrentOptions, which is a call of its own.
app_event_wait_impl_throw == Bypass(EventWait)
app_memset_impl_throw == Bypass(EnqueueCompute)
app_memcpy_impl_throw == Bypass(EnqueueCompute)
app_sgemm_impl_throw == Bypass(EnqueueCompute)
app_dgemm_impl_throw == Bypass(EnqueueCompute)
app_cgemm_impl_throw == Bypass(EnqueueCompute)
app_zgemm_impl_throw == Bypass(EnqueueCompute)

\* The wrappers, which do not count either.
hStreams_app_event_wait == app_event_wait_impl_throw
hStreams_app_memset == app_memset_impl_throw
hStreams_app_memcpy == app_memcpy_impl_throw
hStreams_app_sgemm == app_sgemm_impl_throw
hStreams_app_dgemm == app_dgemm_impl_throw
hStreams_app_cgemm == app_cgemm_impl_throw
hStreams_app_zgemm == app_zgemm_impl_throw

CoreFunctions ==
  {hStreams_GetNumPhysDomains, hStreams_GetPhysDomainDetails,
   hStreams_GetOversubscriptionLevel, hStreams_GetAvailable,
   hStreams_AddLogDomain, hStreams_RmLogDomains, hStreams_GetNumLogDomains,
   hStreams_GetLogDomainIDList, hStreams_GetLogDomainDetails,
   hStreams_StreamCreate, hStreams_StreamDestroy, hStreams_GetNumLogStreams,
   hStreams_GetLogStreamIDList, hStreams_GetLogStreamDetails,
   hStreams_EnqueueCompute, hStreams_EnqueueData1D,
   hStreams_EnqueueDataXDomain1D, hStreams_StreamSynchronize,
   hStreams_ThreadSynchronize, hStreams_EventWait, hStreams_EventStreamWait,
   hStreams_Alloc1D, hStreams_Alloc1DEx, hStreams_AddBufferLogDomains,
   hStreams_RmBufferLogDomains, hStreams_GetBufferNumLogDomains,
   hStreams_GetBufferLogDomains, hStreams_GetBufferProps, hStreams_DeAlloc,
   hStreams_GetLastError, hStreams_ClearLastError, hStreams_Cfg_SetLogLevel,
   hStreams_Cfg_SetLogInfoType, hStreams_Cfg_SetMKLInterface,
   hStreams_GetCurrentOptions, hStreams_SetOptions,
   hStreams_SetLibrariesToLoad, hStreams_GetVersionStringLen,
   hStreams_Version, hStreams_GetVerbose, hStreams_SetVerbose}

AppFunctions ==
  {hStreams_app_create_buf, hStreams_app_xfer_memory, hStreams_app_invoke,
   hStreams_app_stream_sync, hStreams_app_thread_sync,
   hStreams_app_event_wait_in_stream, hStreams_app_event_wait,
   hStreams_app_memset, hStreams_app_memcpy, hStreams_app_sgemm,
   hStreams_app_dgemm, hStreams_app_cgemm, hStreams_app_zgemm}

-----------------------------------------------------------------------------
CONSTANTS
  Functions,   \* the functions the callers call
  Controller,  \* the thread that calls Init and Fini
  Failures,    \* what may fail in them
  MaxCounted,  \* bound on the counted calls, Init and Fini among them
  None         \* no thread

ASSUME FunctionsAssumption ==
  /\ Functions \subseteq CoreFunctions \cup AppFunctions
  /\ \A f \in Functions :
       \/ f.does \in Calls
       \/ f.does = NoCall /\ f.demands # "initialized"
ASSUME ThreadsAssumption ==
  /\ IsFiniteSet(Callers)
  /\ Controller \notin Callers
  /\ None \notin Callers \cup {Controller}

VARIABLES
  hStreamsState, callCounter, initLock, finiLock, stage, domains, dummy_buf,
  inits, calls, failed,  \* Lifecycle's, with stage for its pc
  function               \* the function each caller is in

L == INSTANCE Lifecycle WITH
  Threads <- Callers \cup {Controller}, Initializers <- {Controller},
  Finalizers <- {Controller}, MaxCalls <- MaxCounted, pc <- stage

\* Of a caller outside the library.
NoFunction == Function(FALSE, "nothing", NoCall)

lifeVars ==
  <<hStreamsState, callCounter, initLock, finiLock, stage, domains, dummy_buf,
    inits, calls, failed>>
apiVars == <<vars, lifeVars, function>>

Goes(c) == function[c] # NoFunction

\* The wrapper is entered.
Begin(c, f) ==
  /\ ~Goes(c)
  /\ made[c] < MaxCalls
  /\ function' = [function EXCEPT ![c] = f]
  /\ IF f.counted THEN L!Enter(c) ELSE UNCHANGED lifeVars
  /\ UNCHANGED vars

\* The worker has yet to start: not entered or, past the wrapper, not counted.
AtWorker(c) ==
  /\ Goes(c)
  /\ pc[c] = "idle"
  /\ function[c].counted => stage[c] = "entered"

\* It demands an initialised library and finds one.
StartOperation(c) ==
  /\ AtWorker(c)
  /\ function[c].demands = "initialized"
  /\ hStreamsState = "INITIALIZED"
  /\ IF function[c].counted THEN L!IsInitialized(c) ELSE UNCHANGED lifeVars
  /\ Enter(c, function[c].does)
  /\ UNCHANGED function

\* It works on a library in any state, or on one not initialised.
StartAnyway(c) ==
  /\ AtWorker(c)
  /\ function[c].does # NoCall
  /\ \/ function[c].demands = "nothing"
     \/ function[c].demands = "uninitialized" /\ hStreamsState # "INITIALIZED"
  /\ Enter(c, function[c].does)
  /\ UNCHANGED <<lifeVars, function>>

\* What is left of a call after its worker: the count is taken back.
EndsAt(c) ==
  IF function[c].counted THEN UNCHANGED function
  ELSE function' = [function EXCEPT ![c] = NoFunction]

\* The library is not initialised: the worker throws.
Refuse(c) ==
  /\ AtWorker(c)
  /\ function[c].demands = "initialized"
  /\ hStreamsState # "INITIALIZED"
  /\ IF function[c].counted THEN L!NotInitialized(c) ELSE UNCHANGED lifeVars
  /\ EndsAt(c)
  /\ UNCHANGED vars

\* The worker touches no structure, because it needs none or because it throws
\* before: for its arguments, or for a library that is initialised already.
NoWork(c) ==
  /\ AtWorker(c)
  /\ IF function[c].counted THEN L!Indifferent(c) ELSE UNCHANGED lifeVars
  /\ EndsAt(c)
  /\ UNCHANGED vars

\* Locks, options and the work itself.
Proceed(c) ==
  /\ Lock(c) \/ Work(c) \/ AskOptions(c) \/ TellOptions(c)
  /\ UNCHANGED <<lifeVars, function>>

\* The worker returns or throws: its locks go first, the count after.
Finish(c) ==
  /\ Return(c)
  /\ IF ~function[c].counted THEN UNCHANGED lifeVars
     ELSE L!OperationDone(c) \/ L!Indifferent(c)
  /\ EndsAt(c)

Leave(c) ==
  /\ L!Leave(c)
  /\ function' = [function EXCEPT ![c] = NoFunction]
  /\ UNCHANGED vars

CallerStep(c) ==
  \/ StartOperation(c) \/ StartAnyway(c) \/ Refuse(c) \/ NoWork(c)
  \/ Proceed(c) \/ Finish(c) \/ Leave(c)

\* hStreams_Init and hStreams_Fini.
ControllerCalls ==
  /\ L!InitEnter(Controller) \/ L!FiniEnter(Controller)
  /\ UNCHANGED <<vars, function>>

ControllerStep ==
  /\ L!InitStep(Controller) \/ L!FiniStep(Controller) \/ L!Leave(Controller)
  /\ UNCHANGED <<vars, function>>

ApiInit ==
  /\ Init
  /\ L!Init
  /\ function = [c \in Callers |-> NoFunction]

ApiNext ==
  \/ \E c \in Callers : CallerStep(c) \/ \E f \in Functions : Begin(c, f)
  \/ ControllerCalls
  \/ ControllerStep

ApiSpec == ApiInit /\ [][ApiNext]_apiVars

\* Threads inside the library keep going.
FairApiSpec ==
  /\ ApiSpec
  /\ \A c \in Callers : WF_apiVars(CallerStep(c))
  /\ WF_apiVars(ControllerStep)

-----------------------------------------------------------------------------
(* Properties.                                                             *)

Collections == {"phys_domains", "log_domains", "log_streams", "log_buffers", "instances"}

TearingDown == stage[Controller] \in {"finiDrained", "finiBufferless", "finiEmptied"}

\* While Fini, which takes no lock of theirs, destroys the collections, no other
\* thread is inside a function that reads or changes one of them.
TeardownMeetsNobody ==
  TearingDown =>
    \A c \in Callers :
      InBody(c) => (call[c].reads \cup call[c].writes) \cap Collections = {}

\* Everybody comes back: callers that wait for each other's locks, and Fini, which
\* waits for all of them.
EverybodyReturns ==
  /\ \A c \in Callers : Goes(c) ~> ~Goes(c)
  /\ stage[Controller] # "idle" ~> stage[Controller] = "idle"
=============================================================================
