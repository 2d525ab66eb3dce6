----------------------------- MODULE PhysStream -----------------------------
(***************************************************************************)
(* hStreams_PhysStream: how the library turns "enqueue into a stream" into *)
(* COI actions with explicit dependences, and the calls that act on a      *)
(* stream: EnqueueCompute, EnqueueData1D, EventStreamWait,                 *)
(* StreamSynchronize, ThreadSynchronize, StreamDestroy, Alloc1D, DeAlloc.  *)
(*                                                                         *)
(* A stream remembers the completion event of its last compute or barrier  *)
(* and, per physical buffer, of the last action that updated it.  Nothing  *)
(* else orders its actions: COI runs an action as soon as the events it    *)
(* was submitted with have been signalled.                                 *)
(*                                                                         *)
(* A call is split where another thread can get in between.  The enqueues  *)
(* hold the stream's lock_ from the first look at the dependences to their *)
(* update, and tell the buffers about the new action after releasing it.   *)
(* EventStreamWait reads and updates the same state without that lock.     *)
(***************************************************************************)
EXTENDS Integers, FiniteSets

CONSTANTS
  Threads,        \* application threads
  Streams,        \* physical streams
  LogStreams,     \* the logical streams there are at first
  getPhysStream,  \* for each logical stream, the physical one, perhaps shared
  Buffers,        \* physical buffers, identified by their address
  DomainBuffers,  \* for each stream, the buffers of its own logical domain
  AliasedBuffers, \* buffers with HSTR_BUF_PROP_ALIASED
  Events,         \* completion events, numbers; bounds the number of actions
  Policy,         \* HSTR_OPTIONS.dep_policy
  Users,          \* for each stream, the threads that enqueue into it
  WaitUsers,      \* for each stream, the threads that call EventStreamWait
  Destroyable,    \* the logical streams the application may destroy
  Freeable,       \* the buffers the application may deallocate
  MaxUserEvents,  \* bound on in_NumEvents of EventStreamWait
  FiniteTimeOut,  \* whether HSTR_OPTIONS.time_out_ms_val is not -1
  CountWidth,     \* bits of the event count handed to COIEventWait, 16
  None            \* absent event, no thread, no buffer

ASSUME PolicyAssumption ==
  Policy \in {"CONSERVATIVE", "BUFFERS", "NONE"}
ASSUME StreamsAssumption ==
  getPhysStream \in [LogStreams -> Streams]
ASSUME EventsAssumption ==
  Events \subseteq Nat
ASSUME NoneAssumption ==
  None \notin Events /\ None \notin Threads /\ None \notin Buffers
ASSUME DomainAssumption ==
  DomainBuffers \in [Streams -> SUBSET Buffers]
ASSUME UsersAssumption ==
  /\ Users \in [Streams -> SUBSET Threads]
  /\ WaitUsers \in [Streams -> SUBSET Threads]
ASSUME TimeOutAssumption ==
  FiniteTimeOut \in BOOLEAN
ASSUME CountAssumption ==
  CountWidth \in Nat

VARIABLES
  lastAction_,        \* [Streams -> Events or None]: last compute or barrier
  pendingBufUpdates_, \* per stream and buffer, the last update, or None
  lock_,              \* per stream, the thread inside its critical section
  call,               \* per thread, the library call it is in
  log_streams,        \* the logical streams not destroyed yet
  live,               \* the physical buffers that exist
  pending_actions_,   \* per buffer, the actions it must outlive
  action,             \* COI: what each event is the completion of
  deps,               \* COI: the events each action was submitted with
  done,               \* COI: the events that have been signalled
  prior,              \* history: earlier actions of the same stream
  after               \* history: the events that precede an event

stream == <<lastAction_, pendingBufUpdates_, lock_>>
buffers == <<live, pending_actions_>>
coi == <<action, deps, prior, after>>
vars == <<stream, call, log_streams, buffers, coi, done>>

-----------------------------------------------------------------------------
(* Actions and calls.                                                      *)

Promise ==
  INSTANCE StreamPromise WITH
    scope <- [t \in Threads |->
                IF call[t].pc = "waiting" THEN call[t].scope ELSE {}]

Unused == Promise!Unused
Enqueued == Promise!Enqueued
Tracked(a) == Promise!Tracked(a)

NoCall == [pc |-> "idle", act |-> Unused, deps |-> {}, event |-> None,
           scope |-> {}, buffer |-> {}]

Call == [pc : {"idle", "locked", "gathered", "submitted", "waiting",
               "destroying", "freeing"},
         act : Promise!ActionRecord \cup {Unused},
         deps : SUBSET Events, event : Events \cup {None},
         scope : SUBSET Streams, buffer : SUBSET Buffers]

\* A call has an action in hand until it is submitted, and its event after that.
WellTyped(c) ==
  /\ c.pc \in {"locked", "gathered"} => c.act # Unused
  /\ c.pc = "submitted" => c.event # None

TypeOK ==
  /\ lastAction_ \in [Streams -> Events \cup {None}]
  /\ pendingBufUpdates_ \in [Streams -> [Buffers -> Events \cup {None}]]
  /\ lock_ \in [Streams -> Threads \cup {None}]
  /\ call \in [Threads -> Call]
  /\ \A t \in Threads : WellTyped(call[t])
  /\ log_streams \subseteq LogStreams
  /\ live \subseteq Buffers
  /\ pending_actions_ \in [Buffers -> SUBSET Events]
  /\ action \in [Events -> Promise!ActionRecord \cup {Unused}]
  /\ deps \in [Events -> SUBSET Events]
  /\ done \subseteq Events
  /\ prior \in [Events -> SUBSET Events]
  /\ after \in [Events -> SUBSET Events]

PhysStreams(L) == {getPhysStream[l] : l \in L}

\* A physical stream exists as long as a logical one uses it.
alive == PhysStreams(log_streams)

-----------------------------------------------------------------------------
(* The dependence state of a stream.                                       *)

getInputDeps(s, depType, bufs) ==
  CASE Policy = "CONSERVATIVE" -> {lastAction_[s]} \ {None}
    [] Policy = "BUFFERS" ->
         ( (IF depType = "IS_XFER" THEN {} ELSE {lastAction_[s]})
           \cup {pendingBufUpdates_[s][b] :
                   b \in IF depType = "IS_BARRIER" THEN Buffers ELSE bufs} )
         \ {None}
    [] OTHER -> {}

\* Mutant: the transfers are forgotten.
getAllEvents_computesOnly(L) == IF Policy = "NONE" THEN {} ELSE L \X {None}

\* The places of the vector that is filled for a barrier on the logical streams
\* of L: for each of them one for lastAction_, the initial handle included, and
\* under the buffer policy one for each buffer that its physical stream has ever
\* updated.  What two logical streams share comes twice.
getAllEvents(L) ==
  CASE Policy = "CONSERVATIVE" -> L \X {None}
    [] Policy = "BUFFERS" ->
         {p \in L \X (Buffers \cup {None}) :
            p[2] # None => pendingBufUpdates_[getPhysStream[p[1]]][p[2]] # None}
    [] OTHER -> {}

EventAt(p) ==
  IF p[2] = None THEN lastAction_[getPhysStream[p[1]]]
                 ELSE pendingBufUpdates_[getPhysStream[p[1]]][p[2]]

\* COI looks at as many places as the count it is given says.  The length does
\* not always fit that count; which places come first is a matter of addresses.
EventCount(L) == Cardinality(getAllEvents(L)) % 2^CountWidth
FirstPlaces(L) ==
  {P \in SUBSET getAllEvents(L) : Cardinality(P) = EventCount(L)}

\* Mutant: the initial handle is an event nobody signals.
EventsAt_initialCounts(P) == {EventAt(p) : p \in P}

\* The initial handle holds nobody up.
EventsAt(P) == {EventAt(p) : p \in P} \ {None}

setOutputDeps(s, depType, bufs, e) ==
  /\ lastAction_' =
       IF \/ Policy = "CONSERVATIVE" /\ depType # "NONE"
          \/ Policy = "BUFFERS" /\ depType \in {"IS_COMPUTE", "IS_BARRIER"}
       THEN [lastAction_ EXCEPT ![s] = e]
       ELSE lastAction_
  /\ pendingBufUpdates_' =
       IF Policy = "BUFFERS" /\ depType # "NONE"
       THEN [pendingBufUpdates_ EXCEPT ![s] =
               [b \in Buffers |-> IF b \in bufs THEN e ELSE @[b]]]
       ELSE pendingBufUpdates_

\* COI accepts an action with its dependences and hands out a fresh event,
\* here the smallest one not in use.
COISubmit(e, a, D) ==
  /\ action[e] = Unused
  /\ \A f \in Events : f < e => action[f] # Unused
  /\ action' = [action EXCEPT ![e] = a]
  /\ deps' = [deps EXCEPT ![e] = D]
  /\ prior' = [prior EXCEPT ![e] = {p \in Enqueued : action[p].stream = a.stream}]
  /\ after' = [after EXCEPT ![e] = D \cup UNION {after[d] : d \in D}]

-----------------------------------------------------------------------------
(* The reader/writer locks.  Enqueues take the stream and buffer locks for *)
(* reading; synchronisation and StreamDestroy take the stream lock, and    *)
(* allocation and deallocation the buffer lock, for writing.  All of them  *)
(* take the stream lock in one mode or the other.                          *)

SharedAccess ==
  \A u \in Threads : call[u].pc \notin {"waiting", "destroying", "freeing"}
ExclusiveAccess ==
  \A u \in Threads : call[u].pc = "idle"

-----------------------------------------------------------------------------
(* Enqueues: look up the dependences under lock_, submit, update, unlock,  *)
(* then let the buffers know.                                              *)

\* Mutant: the critical section does not exclude other enqueues.
Lock_unprotected(t, s, a) ==
  /\ t \in Users[s]
  /\ call[t].pc = "idle"
  /\ SharedAccess
  /\ s \in alive
  /\ a.ins \subseteq live
  /\ lock_' = [lock_ EXCEPT ![s] = t]
  /\ call' = [call EXCEPT ![t] =
                [NoCall EXCEPT !.pc = "locked", !.act = a,
                               !.deps = getInputDeps(s, a.in, a.ins)]]
  /\ UNCHANGED <<lastAction_, pendingBufUpdates_, log_streams, buffers, coi, done>>

Lock(t, s, a) ==
  /\ t \in Users[s]
  /\ call[t].pc = "idle"
  /\ SharedAccess
  /\ s \in alive
  /\ a.ins \subseteq live
  /\ lock_[s] = None
  /\ lock_' = [lock_ EXCEPT ![s] = t]
  /\ call' = [call EXCEPT ![t] =
                [NoCall EXCEPT !.pc = "locked", !.act = a,
                               !.deps = getInputDeps(s, a.in, a.ins)]]
  /\ UNCHANGED <<lastAction_, pendingBufUpdates_, log_streams, buffers, coi, done>>

enqueueFunction(t, s) ==
  \E bufs \in SUBSET DomainBuffers[s] :
    Lock(t, s, [op |-> "compute", stream |-> s, in |-> "IS_COMPUTE",
                out |-> "IS_COMPUTE", ins |-> bufs, outs |-> bufs, events |-> {}])

\* One end of a transfer is in the stream's domain, and the ends are in two
\* logical domains: both can be in the stream's own only for an aliased buffer,
\* whose one instance belongs to several domains.
TransferOperands(s) ==
  {p \in Buffers \X Buffers :
     /\ {p[1], p[2]} \cap DomainBuffers[s] # {}
     /\ {p[1], p[2]} \subseteq DomainBuffers[s] =>
          {p[1], p[2]} \cap AliasedBuffers # {}}

enqueueTransfer(t, s) ==
  \E p \in TransferOperands(s), sameOffset \in BOOLEAN :
    Lock(t, s,
      IF p[1] = p[2] /\ sameOffset
      THEN [op |-> "elided", stream |-> s, in |-> "IS_XFER", out |-> "NONE",
            ins |-> {p[1]}, outs |-> {}, events |-> {}]
      ELSE [op |-> "transfer", stream |-> s, in |-> "IS_XFER", out |-> "IS_XFER",
            ins |-> {p[1], p[2]}, outs |-> {p[1]}, events |-> {}])

Submit(t) ==
  /\ call[t].pc = "locked"
  /\ LET a == call[t].act IN
       \E e \in Events :
         /\ COISubmit(e, a, call[t].deps)
         /\ setOutputDeps(a.stream, a.out, a.outs, e)
         /\ lock_' = [lock_ EXCEPT ![a.stream] = None]
         /\ call' = [call EXCEPT ![t].pc = "submitted", ![t].event = e]
  /\ UNCHANGED <<log_streams, buffers, done>>

\* Mutant: the handle of an action that COI refused is remembered all the same.
SubmitFails_recorded(t) ==
  /\ call[t].pc = "locked"
  /\ LET a == call[t].act IN
       \E e \in Events :
         /\ action[e] = Unused
         /\ setOutputDeps(a.stream, a.out, a.outs, e)
         /\ lock_' = [lock_ EXCEPT ![a.stream] = None]
  /\ call' = [call EXCEPT ![t] = NoCall]
  /\ UNCHANGED <<log_streams, buffers, coi, done>>

\* The sink function is unknown, or COI refuses the action.
SubmitFails(t) ==
  /\ call[t].pc = "locked"
  /\ lock_' = [lock_ EXCEPT ![call[t].act.stream] = None]
  /\ call' = [call EXCEPT ![t] = NoCall]
  /\ UNCHANGED <<lastAction_, pendingBufUpdates_, log_streams, buffers, coi, done>>

\* Mutant: only the buffers the action updates learn of it.
addPendingActions_updatedOnly(t) ==
  /\ call[t].pc = "submitted"
  /\ pending_actions_' =
       [b \in Buffers |->
          IF b \in call[t].act.outs
          THEN (pending_actions_[b] \ done) \cup {call[t].event}
          ELSE pending_actions_[b]]
  /\ call' = [call EXCEPT ![t] = NoCall]
  /\ UNCHANGED <<stream, log_streams, live, coi, done>>

\* Each buffer learns of the action.  Buffers forget completed actions from
\* time to time; how often makes no difference here, see PhysBuffer.
addPendingActions(t) ==
  /\ call[t].pc = "submitted"
  /\ pending_actions_' =
       [b \in Buffers |->
          IF b \in call[t].act.ins
          THEN (pending_actions_[b] \ done) \cup {call[t].event}
          ELSE pending_actions_[b]]
  /\ call' = [call EXCEPT ![t] = NoCall]
  /\ UNCHANGED <<stream, log_streams, live, coi, done>>

-----------------------------------------------------------------------------
(* EventStreamWait: in_NumAddresses is WAIT_CONTROL, WAIT_NONE or the      *)
(* number of buffers named.                                                *)

Addresses(bufs) ==
  {"buffers"} \cup IF bufs = {} THEN {"WAIT_CONTROL", "WAIT_NONE"} ELSE {}

\* A number below WAIT_NONE is accepted as well and comes with no buffers; under
\* the buffer policy its action leaves as little in the stream as WAIT_NONE does.
WaitRecord(s, evs, addresses, bufs) ==
  [op |-> "wait", stream |-> s,
   in |-> IF evs = {} \/ addresses = "WAIT_CONTROL" THEN "IS_BARRIER" ELSE "IS_XFER",
   out |-> CASE addresses = "WAIT_CONTROL" -> "IS_BARRIER"
             [] addresses = "WAIT_NONE" -> "NONE"
             [] OTHER -> IF bufs = {} /\ Policy = "BUFFERS" THEN "NONE" ELSE "IS_XFER",
   ins |-> bufs,
   outs |-> IF addresses = "WAIT_CONTROL" THEN DomainBuffers[s] \cap live ELSE bufs,
   events |-> evs]

\* Mutant: the stream is all that is waited for.
EventStreamWait_streamOnly(t, s) ==
  /\ t \in WaitUsers[s]
  /\ Policy # "NONE"
  /\ call[t].pc = "idle"
  /\ SharedAccess
  /\ s \in alive
  /\ \E evs \in SUBSET Enqueued, bufs \in SUBSET (DomainBuffers[s] \cap live) :
       /\ Cardinality(evs) <= MaxUserEvents
       /\ \E addresses \in Addresses(bufs) :
            LET a == WaitRecord(s, evs, addresses, bufs) IN
              call' = [call EXCEPT ![t] =
                         [NoCall EXCEPT !.pc = "gathered", !.act = a,
                                        !.deps = getInputDeps(s, a.in, a.ins)]]
  /\ UNCHANGED <<stream, log_streams, buffers, coi, done>>

EventStreamWait(t, s) ==
  /\ t \in WaitUsers[s]
  /\ Policy # "NONE"
  /\ call[t].pc = "idle"
  /\ SharedAccess
  /\ s \in alive
  /\ \E evs \in SUBSET Enqueued, bufs \in SUBSET (DomainBuffers[s] \cap live) :
       /\ Cardinality(evs) <= MaxUserEvents
       /\ \E addresses \in Addresses(bufs) :
            LET a == WaitRecord(s, evs, addresses, bufs) IN
              call' = [call EXCEPT ![t] =
                         [NoCall EXCEPT !.pc = "gathered", !.act = a,
                                        !.deps = getInputDeps(s, a.in, a.ins) \cup evs]]
  /\ UNCHANGED <<stream, log_streams, buffers, coi, done>>

SubmitWait(t) ==
  /\ call[t].pc = "gathered"
  /\ LET a == call[t].act IN
       \E e \in Events :
         /\ COISubmit(e, a, call[t].deps)
         /\ setOutputDeps(a.stream, a.out, a.outs, e)
  /\ call' = [call EXCEPT ![t] = NoCall]
  /\ UNCHANGED <<lock_, log_streams, buffers, done>>

\* COI refuses the dummy transfer.
WaitFails(t) ==
  /\ call[t].pc = "gathered"
  /\ call' = [call EXCEPT ![t] = NoCall]
  /\ UNCHANGED <<stream, log_streams, buffers, coi, done>>

-----------------------------------------------------------------------------
(* Synchronisation: StreamSynchronize names one stream, ThreadSynchronize  *)
(* takes the events of all of them.  A count of zero for a list that is    *)
(* not empty is an error, and the call fails at once; the destructor below *)
(* makes do with a warning.                                                *)

Synchronize(t, L) ==
  /\ ExclusiveAccess
  /\ EventCount(L) = 0 => getAllEvents(L) = {}
  /\ \E P \in FirstPlaces(L) :
       call' = [call EXCEPT ![t] =
                  [NoCall EXCEPT !.pc = "waiting", !.scope = PhysStreams(L),
                                 !.deps = EventsAt(P)]]
  /\ UNCHANGED <<stream, log_streams, buffers, coi, done>>

StreamSynchronize(t, l) == l \in log_streams /\ Synchronize(t, {l})
ThreadSynchronize(t) == Synchronize(t, log_streams)

FinishSynchronize(t) ==
  /\ call[t].pc = "waiting"
  /\ call' = [call EXCEPT ![t] = NoCall]
  /\ UNCHANGED <<stream, log_streams, buffers, coi, done>>

SynchronizeReturns(t) ==
  /\ call[t].deps \subseteq done
  /\ FinishSynchronize(t)

SynchronizeTimesOut(t) ==
  /\ FiniteTimeOut
  /\ FinishSynchronize(t)

-----------------------------------------------------------------------------
(* Destruction of a stream, allocation and destruction of a buffer.        *)

IsShared(l) == \E m \in log_streams \ {l} : getPhysStream[m] = getPhysStream[l]

\* Other logical streams still use the physical one: nothing is waited for.
StreamDetach(l) ==
  /\ ExclusiveAccess
  /\ l \in log_streams \cap Destroyable
  /\ IsShared(l)
  /\ log_streams' = log_streams \ {l}
  /\ UNCHANGED <<stream, call, buffers, coi, done>>

\* The last logical stream takes the physical one with it.
StreamDestroy(t, l) ==
  /\ ExclusiveAccess
  /\ l \in log_streams \cap Destroyable
  /\ ~ IsShared(l)
  /\ \E P \in FirstPlaces({l}) :
       call' = [call EXCEPT ![t] =
                  [NoCall EXCEPT !.pc = "destroying", !.scope = PhysStreams({l}),
                                 !.deps = EventsAt(P)]]
  /\ UNCHANGED <<stream, log_streams, buffers, coi, done>>

\* Mutant: the destructor does not wait.
StreamDestroyed_waitless(t) ==
  /\ call[t].pc = "destroying"
  /\ log_streams' = {l \in log_streams : getPhysStream[l] \notin call[t].scope}
  /\ call' = [call EXCEPT ![t] = NoCall]
  /\ UNCHANGED <<stream, buffers, coi, done>>

StreamDestroyed(t) ==
  /\ call[t].pc = "destroying"
  /\ call[t].deps \subseteq done
  /\ log_streams' = {l \in log_streams : getPhysStream[l] \notin call[t].scope}
  /\ call' = [call EXCEPT ![t] = NoCall]
  /\ UNCHANGED <<stream, buffers, coi, done>>

\* An address may be handed out again: streams still hold entries for it.
Alloc1D(b) ==
  /\ ExclusiveAccess
  /\ b \notin live
  /\ live' = live \cup {b}
  /\ pending_actions_' = [pending_actions_ EXCEPT ![b] = {}]
  /\ UNCHANGED <<stream, call, log_streams, coi, done>>

DeAlloc(t, b) ==
  /\ ExclusiveAccess
  /\ b \in live \cap Freeable
  /\ call' = [call EXCEPT ![t] = [NoCall EXCEPT !.pc = "freeing", !.buffer = {b},
                                                !.deps = pending_actions_[b]]]
  /\ UNCHANGED <<stream, log_streams, buffers, coi, done>>

BufferDestroyed(t) ==
  /\ call[t].pc = "freeing"
  /\ call[t].deps \subseteq done
  /\ live' = live \ call[t].buffer
  /\ call' = [call EXCEPT ![t] = NoCall]
  /\ UNCHANGED <<stream, log_streams, pending_actions_, coi, done>>

-----------------------------------------------------------------------------
(* COI signals the completion of an action whose dependences are met.      *)
Complete(e) ==
  /\ e \in Enqueued \ done
  /\ deps[e] \subseteq done
  /\ done' = done \cup {e}
  /\ UNCHANGED <<stream, call, log_streams, buffers, coi>>

Init ==
  /\ lastAction_ = [s \in Streams |-> None]
  /\ pendingBufUpdates_ = [s \in Streams |-> [b \in Buffers |-> None]]
  /\ lock_ = [s \in Streams |-> None]
  /\ call = [t \in Threads |-> NoCall]
  /\ log_streams = LogStreams
  /\ live = Buffers
  /\ pending_actions_ = [b \in Buffers |-> {}]
  /\ action = [e \in Events |-> Unused]
  /\ deps = [e \in Events |-> {}]
  /\ done = {}
  /\ prior = [e \in Events |-> {}]
  /\ after = [e \in Events |-> {}]

ThreadStep(t) ==
  \/ \E s \in Streams : enqueueFunction(t, s) \/ enqueueTransfer(t, s)
  \/ Submit(t) \/ SubmitFails(t) \/ addPendingActions(t)
  \/ \E s \in Streams : EventStreamWait(t, s)
  \/ SubmitWait(t) \/ WaitFails(t)
  \/ \E l \in LogStreams : StreamSynchronize(t, l) \/ StreamDestroy(t, l)
  \/ ThreadSynchronize(t) \/ SynchronizeReturns(t) \/ SynchronizeTimesOut(t)
  \/ StreamDestroyed(t)
  \/ \E b \in Buffers : DeAlloc(t, b)
  \/ BufferDestroyed(t)

Next ==
  \/ \E t \in Threads : ThreadStep(t)
  \/ \E l \in LogStreams : StreamDetach(l)
  \/ \E b \in Buffers : Alloc1D(b)
  \/ \E e \in Events : Complete(e)

Spec == Init /\ [][Next]_vars

\* The steps that take a thread on once it is inside the library; where it is
\* says which of them it can take.
Continues(t) ==
  \/ Submit(t) \/ SubmitFails(t) \/ addPendingActions(t)
  \/ SubmitWait(t) \/ WaitFails(t)
  \/ SynchronizeReturns(t) \/ StreamDestroyed(t) \/ BufferDestroyed(t)

\* A thread inside the library keeps running, an error being as good an end as
\* any; COI runs every action whose dependences are met; user functions return.
Fairness ==
  /\ \A t \in Threads : WF_vars(Continues(t))
  /\ \A e \in Events : WF_vars(Complete(e))

FairSpec == Spec /\ Fairness
-----------------------------------------------------------------------------
(* Properties.                                                             *)

\* EventStreamWait is not called on a stream into which another thread
\* enqueues: the discipline under which the promises below are kept.
WaitsAreExclusive ==
  \A s \in Streams : \A t \in WaitUsers[s] : Users[s] \cup WaitUsers[s] = {t}

\* The dependences an action was submitted with make it follow, directly or
\* through other actions, every earlier action of its stream that the policy
\* orders before it: an update of a buffer it names (read or write after
\* write), an earlier compute, everything before a barrier and the barrier
\* before everything.  A call that reads the state of the stream and a later
\* one that overwrites it may both be in flight when it is enqueued.
ConflictOrder ==
  \A e \in Enqueued : \A p \in prior[e] :
    Promise!MustFollow(action[p], action[e]) => p \in after[e]

\* When all the events StreamSynchronize or ThreadSynchronize collected are
\* signalled, and it is about to return success, every action in the streams
\* it names has executed, also the ones whose own events it never looked at.
SyncCoversStreams ==
  \A t \in Threads :
    call[t].pc \in {"waiting", "destroying"} /\ call[t].deps \subseteq done =>
      Promise!Quiet(call[t].scope)

\* DeAlloc returns a buffer's memory only when no compute or transfer that
\* names the buffer is still to run, although the enqueuing thread registers
\* the action with the buffer after leaving the stream's critical section.
BufferOutlivesItsActions ==
  \A e \in Enqueued \ done :
    action[e].op \in {"compute", "transfer"} => action[e].ins \subseteq live

\* Destroying the last logical stream has waited, whatever others shared with it
\* before: nothing of a physical stream that is gone is left to run.
DestroyedStreamIsQuiet ==
  Promise!Quiet(Streams \ alive)

\* The stream does everything StreamPromise asks for.
ImplementsPromise == Promise!Spec

\* Again and again a time comes when everything enqueued so far has executed:
\* no action is left waiting for itself or for an event nobody will signal,
\* however EventStreamWait and the user's events tie the streams together, and
\* whatever COI refuses in between.
EnqueuedActionsRun == []<>(Enqueued \subseteq done)

\* No call blocks for ever, and as a blocked call is alone in the library, again
\* and again none is blocked: a synchronisation without time-out, the
\* destruction of a stream and that of a buffer come to their end without the
\* help of another call.
WaitingCallsReturn ==
  []<>(\A t \in Threads : call[t].pc \notin {"waiting", "destroying", "freeing"})
=============================================================================
