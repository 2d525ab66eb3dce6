------------------------------ MODULE ApiLocks ------------------------------
(***************************************************************************)
(* The locks of the API.  Every call takes the reader/writer locks of the  *)
(* collections it needs, one after another, works, and lets go of them in  *)
(* the opposite order.  This module knows each call by its footprint: the  *)
(* locks in the order the code takes them, and what the body reads and     *)
(* writes under them.  What the bodies do is in Registry, BufferInstances, *)
(* LogBuffers and PhysStream, where a call is one step, and this module is *)
(* why it may be.                                                          *)
(*                                                                         *)
(* Init and Fini take none of these locks: Lifecycle is about them.        *)
(***************************************************************************)
EXTENDS Naturals, Sequences

Locks == {"phys_domains", "log_domains", "log_streams", "log_buffers",
          "options", "libraries_to_load"}

\* What the locks are there for.  "log_streams" is everything that comes and goes
\* with streams: collection, the domains' lists of them, the reference counts of
\* physical streams, the oversubscription counts.  "instances" is the buffers'
\* maps from domains to physical buffers; it has no lock of its own.
Structures == Locks \cup {"instances"}

Read(l) == [lock |-> l, mode |-> "READ"]
Write(l) == [lock |-> l, mode |-> "WRITE"]

\* Footprint of a call.  With asks it looks options up while it works.
Call(locks, reads, writes, asks) ==
  [locks |-> locks, reads |-> reads, writes |-> writes, asks |-> asks]

\* Of a thread outside the library.
NoCall == Call(<<>>, {}, {}, FALSE)

-----------------------------------------------------------------------------
(* The calls.                                                              *)

GetNumPhysDomains ==
  Call(<<Read("phys_domains")>>, {"phys_domains"}, {}, FALSE)
GetPhysDomainDetails ==
  Call(<<Read("phys_domains")>>, {"phys_domains"}, {}, FALSE)
GetOversubscriptionLevel ==
  Call(<<Read("phys_domains"), Read("log_domains"), Read("log_streams")>>,
       {"phys_domains", "log_streams"}, {}, FALSE)
GetAvailable ==
  Call(<<Read("phys_domains"), Read("log_domains"), Read("log_streams")>>,
       {"phys_domains", "log_streams"}, {}, FALSE)
GetNumLogDomains ==
  Call(<<Read("phys_domains"), Read("log_domains")>>,
       {"phys_domains", "log_domains"}, {}, FALSE)
GetLogDomainIDList ==
  Call(<<Read("phys_domains"), Read("log_domains")>>,
       {"phys_domains", "log_domains"}, {}, FALSE)
GetLogDomainDetails ==
  Call(<<Read("phys_domains"), Read("log_domains")>>,
       {"phys_domains", "log_domains"}, {}, FALSE)
GetNumLogStreams ==
  Call(<<Read("phys_domains"), Read("log_domains"), Read("log_streams")>>,
       {"log_domains", "log_streams"}, {}, FALSE)
GetLogStreamIDList ==
  Call(<<Read("phys_domains"), Read("log_domains"), Read("log_streams")>>,
       {"log_domains", "log_streams"}, {}, FALSE)
GetLogStreamDetails ==
  Call(<<Read("phys_domains"), Read("log_domains"), Read("log_streams")>>,
       {"log_streams"}, {}, FALSE)
AddLogDomain ==
  Call(<<Read("phys_domains"), Write("log_domains"), Read("log_streams"), Write("log_buffers")>>,
       {"phys_domains", "log_buffers"}, {"log_domains", "instances"}, FALSE)

RmLogDomains ==
  Call(<<Read("phys_domains"), Write("log_domains"), Write("log_streams"), Read("log_buffers")>>,
       {"log_buffers"}, {"log_domains", "log_streams", "instances"}, FALSE)

\* Mutant: the streams' lock is taken for reading.
StreamCreate_shared ==
  Call(<<Read("phys_domains"), Read("log_domains"), Read("log_streams")>>,
       {"phys_domains", "log_domains"}, {"log_streams"}, TRUE)

StreamCreate ==
  Call(<<Read("phys_domains"), Read("log_domains"), Write("log_streams")>>,
       {"phys_domains", "log_domains"}, {"log_streams"}, TRUE)
StreamDestroy ==
  Call(<<Read("phys_domains"), Read("log_domains"), Write("log_streams")>>,
       {"log_domains"}, {"log_streams"}, FALSE)
EnqueueCompute ==
  Call(<<Read("phys_domains"), Read("log_domains"), Read("log_streams"), Read("log_buffers")>>,
       {"phys_domains", "log_domains", "log_streams", "log_buffers", "instances"}, {}, TRUE)
EnqueueData1D ==
  Call(<<Read("phys_domains"), Read("log_domains"), Read("log_streams"), Read("log_buffers")>>,
       {"log_domains", "log_streams", "log_buffers", "instances"}, {}, TRUE)
EnqueueDataXDomain1D ==
  Call(<<Read("phys_domains"), Read("log_domains"), Read("log_streams"), Read("log_buffers")>>,
       {"log_domains", "log_streams", "log_buffers", "instances"}, {}, TRUE)
EventStreamWait ==
  Call(<<Read("phys_domains"), Read("log_domains"), Read("log_streams"), Read("log_buffers")>>,
       {"log_domains", "log_streams", "log_buffers", "instances"}, {}, TRUE)
StreamSynchronize ==
  Call(<<Read("phys_domains"), Read("log_domains"), Write("log_streams"), Read("log_buffers")>>,
       {"log_streams"}, {}, TRUE)
ThreadSynchronize ==
  Call(<<Read("phys_domains"), Read("log_domains"), Write("log_streams"), Read("log_buffers")>>,
       {"log_streams"}, {}, TRUE)
EventWait ==
  Call(<<>>, {}, {}, TRUE)
Alloc1DEx ==
  Call(<<Read("phys_domains"), Read("log_domains"), Read("log_streams"), Write("log_buffers")>>,
       {"log_domains"}, {"log_buffers", "instances"}, FALSE)

\* Mutant: the buffers' lock is taken before the domains'.
AddBufferLogDomains_swapped ==
  Call(<<Read("phys_domains"), Read("log_streams"), Write("log_buffers"), Read("log_domains")>>,
       {"log_domains", "log_buffers"}, {"instances"}, FALSE)

AddBufferLogDomains ==
  Call(<<Read("phys_domains"), Read("log_domains"), Read("log_streams"), Write("log_buffers")>>,
       {"log_domains", "log_buffers"}, {"instances"}, FALSE)
RmBufferLogDomains ==
  Call(<<Read("phys_domains"), Read("log_domains"), Read("log_streams"), Write("log_buffers")>>,
       {"log_domains", "log_buffers"}, {"instances"}, FALSE)
DeAlloc ==
  Call(<<Read("phys_domains"), Read("log_domains"), Read("log_streams"), Write("log_buffers")>>,
       {}, {"log_buffers", "instances"}, FALSE)
GetBufferNumLogDomains ==
  Call(<<Read("phys_domains"), Read("log_domains"), Read("log_streams"), Read("log_buffers")>>,
       {"log_buffers", "instances"}, {}, FALSE)
GetBufferLogDomains ==
  Call(<<Read("phys_domains"), Read("log_domains"), Read("log_streams"), Read("log_buffers")>>,
       {"log_domains", "log_buffers", "instances"}, {}, FALSE)
GetBufferProps ==
  Call(<<Read("phys_domains"), Read("log_domains"), Read("log_streams"), Read("log_buffers")>>,
       {"log_buffers"}, {}, FALSE)
GetCurrentOptions ==
  Call(<<Read("options")>>, {"options"}, {}, FALSE)
SetOptions ==
  Call(<<Write("options"), Write("libraries_to_load")>>,
       {}, {"options", "libraries_to_load"}, FALSE)
SetLibrariesToLoad ==
  Call(<<Write("libraries_to_load")>>, {}, {"libraries_to_load"}, FALSE)

ApiCalls ==
  {GetNumPhysDomains, GetPhysDomainDetails, GetOversubscriptionLevel,
   GetAvailable, GetNumLogDomains, GetLogDomainIDList, GetLogDomainDetails,
   GetNumLogStreams, GetLogStreamIDList, GetLogStreamDetails, AddLogDomain,
   RmLogDomains, StreamCreate, StreamDestroy, EnqueueCompute, EnqueueData1D,
   EnqueueDataXDomain1D, EventStreamWait, StreamSynchronize,
   ThreadSynchronize, EventWait, Alloc1DEx, AddBufferLogDomains,
   RmBufferLogDomains, DeAlloc, GetBufferNumLogDomains, GetBufferLogDomains,
   GetBufferProps, GetCurrentOptions, SetOptions, SetLibrariesToLoad}

-----------------------------------------------------------------------------
CONSTANTS
  Callers,   \* threads of the application
  Calls,     \* the calls they make
  MaxCalls   \* bound on the calls each makes

ASSUME CallsAssumption == Calls \subseteq ApiCalls
ASSUME MaxCallsAssumption == MaxCalls \in Nat

VARIABLES
  call,         \* the call each caller is in
  pc,           \* where in it the caller is
  held,         \* how many of its locks it holds
  made,         \* how many calls it has made
  writersFirst  \* whether a waiting writer keeps new readers out

vars == <<call, pc, held, made, writersFirst>>

TypeOK ==
  /\ pc \in [Callers -> {"idle", "locking", "working", "asking", "told"}]
  /\ held \in [Callers -> Nat]
  /\ made \in [Callers -> 0..MaxCalls]
  /\ writersFirst \in BOOLEAN
  /\ call \in [Callers -> Calls \cup {NoCall}]
  /\ \A c \in Callers :
       /\ IF pc[c] = "idle" THEN call[c] = NoCall ELSE call[c] \in Calls
       /\ held[c] \in 0..Len(call[c].locks)
       /\ pc[c] \in {"working", "asking", "told"} => held[c] = Len(call[c].locks)
       /\ pc[c] \in {"asking", "told"} => call[c].asks

Holds(c) == {call[c].locks[i] : i \in 1..held[c]}

\* The lock a caller asks for next.
WaitsFor(c) ==
  IF pc[c] = "locking" /\ held[c] < Len(call[c].locks) THEN {call[c].locks[held[c] + 1]}
  ELSE IF pc[c] = "asking" THEN {Read("options")} ELSE {}

\* pthread_rwlock_t lets a reader pass waiting writers, SRWLOCK need not: the
\* model has both.
Granted(c, want) ==
  \A d \in Callers \ {c} :
    /\ Write(want.lock) \notin Holds(d)
    /\ want.mode = "WRITE" => Read(want.lock) \notin Holds(d)
    /\ writersFirst /\ want.mode = "READ" => Write(want.lock) \notin WaitsFor(d)

Goto(c, from, to) == pc[c] = from /\ pc' = [pc EXCEPT ![c] = to]

Enter(c, a) ==
  /\ made[c] < MaxCalls
  /\ Goto(c, "idle", "locking")
  /\ call' = [call EXCEPT ![c] = a]
  /\ made' = [made EXCEPT ![c] = @ + 1]
  /\ UNCHANGED <<held, writersFirst>>

Lock(c) ==
  /\ pc[c] = "locking"
  /\ \E want \in WaitsFor(c) : Granted(c, want)
  /\ held' = [held EXCEPT ![c] = @ + 1]
  /\ UNCHANGED <<call, pc, made, writersFirst>>

Work(c) ==
  /\ held[c] = Len(call[c].locks)
  /\ Goto(c, "locking", "working")
  /\ UNCHANGED <<call, held, made, writersFirst>>

\* hStreams_GetOptions_*: the options' lock is held for the one read.
AskOptions(c) ==
  /\ call[c].asks
  /\ Goto(c, "working", "asking")
  /\ UNCHANGED <<call, held, made, writersFirst>>

TellOptions(c) ==
  /\ Granted(c, Read("options"))
  /\ Goto(c, "asking", "told")
  /\ UNCHANGED <<call, held, made, writersFirst>>

\* The body ends, by its last statement or before by an exception, and the scoped
\* lockers unlock.  Letting go hinders nobody, so this is one step.
Return(c) ==
  /\ pc[c] \in {"working", "told"}
  /\ pc' = [pc EXCEPT ![c] = "idle"]
  /\ held' = [held EXCEPT ![c] = 0]
  /\ call' = [call EXCEPT ![c] = NoCall]
  /\ UNCHANGED <<made, writersFirst>>

Init ==
  /\ call = [c \in Callers |-> NoCall]
  /\ pc = [c \in Callers |-> "idle"]
  /\ held = [c \in Callers |-> 0]
  /\ made = [c \in Callers |-> 0]
  /\ writersFirst \in BOOLEAN

Step(c) ==
  \/ Lock(c) \/ Work(c) \/ AskOptions(c) \/ TellOptions(c) \/ Return(c)

Next == \E c \in Callers : Step(c) \/ \E a \in Calls : Enter(c, a)

Spec == Init /\ [][Next]_vars

-----------------------------------------------------------------------------
(* Properties.                                                             *)

InBody(c) == pc[c] \in {"working", "asking", "told"}

\* While one caller's body changes a structure no other caller's body touches it,
\* with or without a lock in the structure's name: RmLogDomains changes the
\* buffers' instances under the buffers' read lock.
NoConflictingAccess ==
  \A c, d \in Callers : c # d /\ InBody(c) /\ InBody(d) =>
    call[c].writes \cap (call[d].reads \cup call[d].writes) = {}

\* Not everyone inside the library waits for a lock that somebody else inside has,
\* or, where writers go first, that a writer waits for.
NobodyStuck ==
  (\E c \in Callers : pc[c] # "idle") =>
    \E c \in Callers : pc[c] # "idle" /\ \A want \in WaitsFor(c) : Granted(c, want)
=============================================================================
