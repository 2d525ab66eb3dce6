-------------------------- MODULE PhysStreamProofs --------------------------
(***************************************************************************)
(* Proofs about PhysStream, for any number of threads, streams, buffers    *)
(* and actions.                                                            *)
(***************************************************************************)
EXTENDS PhysStreamInv, FiniteSetTheorems, TLAPS

USE StreamsAssumption, EventsAssumption, NoneAssumption, DomainAssumption, UsersAssumption

Record == Promise!ActionRecord

\* A thread outside of every call is well typed.
LEMMA NoCallType == NoCall \in Call /\ WellTyped(NoCall)
  BY DEF NoCall, Call, Unused, Promise!Unused, WellTyped

\* An event without an action is told apart from one with.
LEMMA UnusedIsNoRecord == Unused \notin Record
  BY DEF Unused, Promise!Unused, Record, Promise!ActionRecord, Promise!Ops

\* The dependences the library looks up are events.
LEMMA InputDepsType ==
  ASSUME TypeOK, NEW s \in Streams, NEW d \in Promise!DepTypes, NEW B \in SUBSET Buffers
  PROVE  getInputDeps(s, d, B) \in SUBSET Events
  BY DEF getInputDeps, TypeOK

\* The records of computes, transfers and waits are action records.
LEMMA WaitRecordType ==
  ASSUME NEW s \in Streams, NEW evs \in SUBSET Events, NEW B \in SUBSET DomainBuffers[s],
         NEW addresses \in Addresses(B)
  PROVE  LET a == WaitRecord(s, evs, addresses, B)
         IN  a \in Record /\ Shaped(a) /\ a.stream = s /\ a.op = "wait" /\ a.events = evs
  BY DEF WaitRecord, Addresses, Shaped, Record, Promise!ActionRecord, Promise!Ops,
     Promise!DepTypes

\* A thread may move on to any well-typed call.
LEMMA CallUpdateType ==
  ASSUME TypeOK, NEW t \in Threads, NEW c \in Call, call' = [call EXCEPT ![t] = c],
         WellTyped(c)
  PROVE  /\ call' \in [Threads -> Call]
         /\ \A u \in Threads : WellTyped(call'[u])
  BY DEF TypeOK

\* Taking the stream's lock preserves types.
LEMMA LockType ==
  ASSUME TypeOK, NEW t \in Threads, NEW s \in Streams, NEW a \in Record, Lock(t, s, a)
  PROVE  TypeOK'
<1> DEFINE c == [NoCall EXCEPT !.pc = "locked", !.act = a,
                              !.deps = getInputDeps(s, a.in, a.ins)]
<1>1. getInputDeps(s, a.in, a.ins) \in SUBSET Events
  BY InputDepsType DEF Record, Promise!ActionRecord
<1>2. c \in Call
  BY <1>1 DEF NoCall, Call, Record
<1>3. WellTyped(c)
  BY UnusedIsNoRecord DEF NoCall, WellTyped
<1>4. call' = [call EXCEPT ![t] = c]
  BY DEF Lock
<1> HIDE DEF c
<1> QED
  BY <1>2, <1>3, <1>4, CallUpdateType DEF Lock, TypeOK, buffers, coi

\* Submitting an action preserves types.
LEMMA SubmitType ==
  ASSUME TypeOK, NEW e \in Events, NEW a \in Record, NEW D \in SUBSET Events,
         COISubmit(e, a, D), setOutputDeps(a.stream, a.out, a.outs, e)
  PROVE  /\ lastAction_' \in [Streams -> Events \cup {None}]
         /\ pendingBufUpdates_' \in [Streams -> [Buffers -> Events \cup {None}]]
         /\ action' \in [Events -> Record \cup {Unused}]
         /\ deps' \in [Events -> SUBSET Events]
         /\ prior' \in [Events -> SUBSET Events]
         /\ after' \in [Events -> SUBSET Events]
<1>0. a.stream \in Streams /\ a.outs \in SUBSET Buffers
  BY DEF Record, Promise!ActionRecord
<1>1. lastAction_' \in [Streams -> Events \cup {None}]
  BY <1>0 DEF setOutputDeps, TypeOK
<1>2. pendingBufUpdates_' \in [Streams -> [Buffers -> Events \cup {None}]]
  <2> DEFINE row == [b \in Buffers |-> IF b \in a.outs THEN e
                                      ELSE pendingBufUpdates_[a.stream][b]]
  <2>1. row \in [Buffers -> Events \cup {None}]
    BY <1>0 DEF TypeOK
  <2>2. \/ pendingBufUpdates_' = [pendingBufUpdates_ EXCEPT ![a.stream] = row]
        \/ pendingBufUpdates_' = pendingBufUpdates_
    BY <1>0 DEF setOutputDeps, TypeOK
  <2> HIDE DEF row
  <2> QED
    BY <1>0, <2>1, <2>2 DEF TypeOK
<1>3. action' \in [Events -> Record \cup {Unused}] /\ deps' \in [Events -> SUBSET Events]
  BY DEF COISubmit, TypeOK, Record
<1>4. {p \in Enqueued : action[p].stream = a.stream} \in SUBSET Events
  BY DEF Enqueued, Promise!Enqueued
<1>5. prior' \in [Events -> SUBSET Events]
  BY <1>4 DEF COISubmit, TypeOK
<1>6. D \cup UNION {after[d] : d \in D} \in SUBSET Events
  <2> SUFFICES ASSUME NEW d \in D  PROVE after[d] \in SUBSET Events
    OBVIOUS
  <2> QED
    BY DEF TypeOK
<1>7. after' \in [Events -> SUBSET Events]
  BY <1>6 DEF COISubmit, TypeOK
<1> QED
  BY <1>1, <1>2, <1>3, <1>5, <1>7

\* What an enqueue brings to the stream.
LEMMA EnqueueRecords ==
  ASSUME TypeOK, NEW t \in Threads, NEW s \in Streams,
         enqueueFunction(t, s) \/ enqueueTransfer(t, s)
  PROVE  \E a \in Record : Lock(t, s, a) /\ a.stream = s /\ Shaped(a) /\ a.events = {}
<1>1. CASE enqueueFunction(t, s)
  <2>1. PICK bufs \in SUBSET DomainBuffers[s] :
          Lock(t, s, [op |-> "compute", stream |-> s, in |-> "IS_COMPUTE",
                      out |-> "IS_COMPUTE", ins |-> bufs, outs |-> bufs, events |-> {}])
    BY <1>1 DEF enqueueFunction
  <2>2. [op |-> "compute", stream |-> s, in |-> "IS_COMPUTE",
         out |-> "IS_COMPUTE", ins |-> bufs, outs |-> bufs, events |-> {}] \in Record
    BY DEF Record, Promise!ActionRecord, Promise!Ops, Promise!DepTypes
  <2> QED
    BY <2>1, <2>2 DEF Shaped
<1>2. CASE enqueueTransfer(t, s)
  <2> DEFINE A(p, same) ==
        IF p[1] = p[2] /\ same
        THEN [op |-> "elided", stream |-> s, in |-> "IS_XFER", out |-> "NONE",
              ins |-> {p[1]}, outs |-> {}, events |-> {}]
        ELSE [op |-> "transfer", stream |-> s, in |-> "IS_XFER", out |-> "IS_XFER",
              ins |-> {p[1], p[2]}, outs |-> {p[1]}, events |-> {}]
  <2>1. PICK p \in TransferOperands(s), same \in BOOLEAN : Lock(t, s, A(p, same))
    BY <1>2 DEF enqueueTransfer
  <2>2. p \in Buffers \X Buffers
    BY DEF TransferOperands
  <2>3. A(p, same) \in Record
    BY <2>2 DEF Record, Promise!ActionRecord, Promise!Ops, Promise!DepTypes
  <2> QED
    BY <2>1, <2>3 DEF Shaped
<1> QED
  BY <1>1, <1>2

\* What EventStreamWait brings to the stream.
Gathers(t, s, a, evs) ==
  /\ Shaped(a) /\ a.stream = s /\ a.op = "wait" /\ a.events = evs
  /\ call' = [call EXCEPT ![t] =
                [NoCall EXCEPT !.pc = "gathered", !.act = a,
                               !.deps = getInputDeps(s, a.in, a.ins) \cup evs]]

\* An EventStreamWait gathers the events of an action record.
LEMMA WaitStep ==
  ASSUME NEW t \in Threads, NEW s \in Streams, EventStreamWait(t, s)
  PROVE  \E a \in Record, evs \in SUBSET Enqueued : Gathers(t, s, a, evs)
<1> DEFINE Enters(a, evs) ==
      call' = [call EXCEPT ![t] =
                 [NoCall EXCEPT !.pc = "gathered", !.act = a,
                                !.deps = getInputDeps(s, a.in, a.ins) \cup evs]]
<1>1. PICK evs \in SUBSET Enqueued, bufs \in SUBSET (DomainBuffers[s] \cap live) :
        \E addresses \in Addresses(bufs) :
          Enters(WaitRecord(s, evs, addresses, bufs), evs)
  BY DEF EventStreamWait
<1>2. PICK addresses \in Addresses(bufs) :
        Enters(WaitRecord(s, evs, addresses, bufs), evs)
  BY <1>1
<1>3. LET a == WaitRecord(s, evs, addresses, bufs)
      IN  a \in Record /\ Shaped(a) /\ a.stream = s /\ a.op = "wait" /\ a.events = evs
  <2>1. evs \in SUBSET Events /\ bufs \in SUBSET DomainBuffers[s]
    BY DEF Enqueued, Promise!Enqueued
  <2> QED
    BY <2>1, WaitRecordType
<1> HIDE DEF Enters
<1>4. \E a \in Record, x \in SUBSET Enqueued :
        Shaped(a) /\ a.stream = s /\ a.op = "wait" /\ a.events = x /\ Enters(a, x)
  BY <1>2, <1>3
<1> QED
  BY <1>4 DEF Enters, Gathers

\* What must be the case for EventStreamWait to begin.
LEMMA WaitGuard ==
  ASSUME NEW t \in Threads, NEW s \in Streams, EventStreamWait(t, s)
  PROVE  /\ t \in WaitUsers[s]
         /\ Policy # "NONE"
         /\ call[t].pc = "idle"
         /\ SharedAccess
         /\ s \in alive
         /\ UNCHANGED <<stream, log_streams, buffers, coi, done>>
  BY DEF EventStreamWait

\* What the type invariant says of one thread's call.
LEMMA CallType ==
  ASSUME TypeOK, NEW t \in Threads
  PROVE  /\ call[t].act \in Record \cup {Unused}
         /\ call[t].deps \in SUBSET Events
         /\ call[t].scope \in SUBSET Streams
         /\ call[t].buffer \in SUBSET Buffers
         /\ call[t].event \in Events \cup {None}
         /\ call[t] \in Call
  BY DEF TypeOK, Call, Record

\* Logical streams use physical ones.
LEMMA PhysStreamsType ==
  ASSUME NEW L \in SUBSET LogStreams  PROVE PhysStreams(L) \in SUBSET Streams
  BY DEF PhysStreams

\* The physical streams there are depend on the logical ones alone.
LEMMA AliveSteps ==
  /\ UNCHANGED log_streams => alive' = alive
  /\ \A l \in LogStreams : StreamDetach(l) => alive' = alive
  /\ \A t \in Threads : StreamDestroyed(t) => alive' = alive \ call[t].scope
<1>1. UNCHANGED log_streams => alive' = alive
  BY DEF alive, PhysStreams
<1>2. ASSUME NEW l \in LogStreams, StreamDetach(l)  PROVE alive' = alive
  BY <1>2 DEF StreamDetach, IsShared, alive, PhysStreams
<1>3. ASSUME NEW t \in Threads, StreamDestroyed(t)  PROVE alive' = alive \ call[t].scope
  BY <1>3 DEF StreamDestroyed, alive, PhysStreams
<1> QED
  BY <1>1, <1>2, <1>3

\* Every place belongs to a logical stream and is for the last action or a buffer.
LEMMA PlacesType ==
  ASSUME NEW L \in SUBSET LogStreams
  PROVE  getAllEvents(L) \subseteq LogStreams \X (Buffers \cup {None})
  BY DEF getAllEvents

\* The events a synchronisation collects are events.
LEMMA AllEventsType ==
  ASSUME TypeOK, NEW L \in SUBSET LogStreams, NEW P \in FirstPlaces(L)
  PROVE  EventsAt(P) \in SUBSET Events
<1> SUFFICES ASSUME NEW p \in LogStreams \X (Buffers \cup {None}), EventAt(p) # None
             PROVE  EventAt(p) \in Events
  BY PlacesType DEF FirstPlaces, EventsAt
<1>1. getPhysStream[p[1]] \in Streams
  OBVIOUS
<1> QED
  BY <1>1 DEF EventAt, TypeOK

\* When the count has room, a call looks at every place.
LEMMA EveryPlace ==
  ASSUME CountsFit, NEW L \in SUBSET LogStreams, NEW P \in FirstPlaces(L)
  PROVE  P = getAllEvents(L)
<1> DEFINE All == LogStreams \X (Buffers \cup {None})
           n == Cardinality(getAllEvents(L))
<1>1. IsFiniteSet(Buffers \cup {None})
  BY FS_AddElement DEF CountsFit
<1>2. IsFiniteSet(All)
  BY <1>1, FS_Product DEF CountsFit
<1>3. IsFiniteSet(getAllEvents(L)) /\ n <= Cardinality(All)
  BY <1>2, PlacesType, FS_Subset
<1>4. n \in Nat /\ Cardinality(All) \in Nat
  BY <1>2, <1>3, FS_CardinalityType
<1>5. 2^CountWidth \in Int
  BY CountAssumption
<1>6. n < 2^CountWidth
  BY <1>3, <1>4, <1>5 DEF CountsFit
<1>7. \A k \in Nat, m \in Int : k < m => k % m = k
  OBVIOUS
<1>8. EventCount(L) = n
  BY <1>4, <1>5, <1>6, <1>7 DEF EventCount
<1>9. P \in SUBSET getAllEvents(L) /\ Cardinality(P) = n
  BY <1>8 DEF FirstPlaces
<1> QED
  BY <1>3, <1>9, FS_Subset

\* A thread t that is blocked, in a call of kind pc, knows the streams of the
\* call and the events at some places.
Blocks(t, pc, L) ==
  /\ call'[t].pc = pc
  /\ call'[t].scope = PhysStreams(L)
  /\ \E P \in FirstPlaces(L) : call'[t].deps = EventsAt(P)
  /\ \A u \in Threads \ {t} : call'[u] = call[u]

\* That is where a synchronisation takes its thread.
LEMMA SynchronizeBlocks ==
  ASSUME TypeOK, NEW t \in Threads, NEW L, Synchronize(t, L)
  PROVE  Blocks(t, "waiting", L)
<1>1. PICK P \in FirstPlaces(L) :
        call' = [call EXCEPT ![t] =
                   [NoCall EXCEPT !.pc = "waiting", !.scope = PhysStreams(L),
                                  !.deps = EventsAt(P)]]
  BY DEF Synchronize
<1> QED
  BY <1>1 DEF Blocks, TypeOK, NoCall

\* And the destruction of a stream.
LEMMA DestroyBlocks ==
  ASSUME TypeOK, NEW t \in Threads, NEW l \in LogStreams, StreamDestroy(t, l)
  PROVE  Blocks(t, "destroying", {l})
<1>1. PICK P \in FirstPlaces({l}) :
        call' = [call EXCEPT ![t] =
                   [NoCall EXCEPT !.pc = "destroying", !.scope = PhysStreams({l}),
                                  !.deps = EventsAt(P)]]
  BY DEF StreamDestroy
<1> QED
  BY <1>1 DEF Blocks, TypeOK, NoCall

-----------------------------------------------------------------------------
(* Type correctness.                                                       *)

\* Types are right initially.
LEMMA InitTypeOK == Init => TypeOK
  BY NoCallType DEF Init, TypeOK, Unused

\* Steps preserve types.
LEMMA NextTypeOK == TypeOK /\ [Next]_vars => TypeOK'
<1> SUFFICES ASSUME TypeOK, [Next]_vars  PROVE TypeOK'
  OBVIOUS
<1> USE NoCallType
<1>1. ASSUME NEW t \in Threads, NEW s \in Streams,
             enqueueFunction(t, s) \/ enqueueTransfer(t, s)
      PROVE  TypeOK'
  BY <1>1, EnqueueRecords, LockType
<1>2. ASSUME NEW t \in Threads, Submit(t)  PROVE TypeOK'
  <2>1. PICK e \in Events :
          /\ COISubmit(e, call[t].act, call[t].deps)
          /\ setOutputDeps(call[t].act.stream, call[t].act.out, call[t].act.outs, e)
          /\ lock_' = [lock_ EXCEPT ![call[t].act.stream] = None]
          /\ call' = [call EXCEPT ![t].pc = "submitted", ![t].event = e]
    BY <1>2 DEF Submit
  <2>2. call[t].act \in Record
    BY <1>2, CallType DEF Submit, TypeOK, WellTyped
  <2>3. call' = [call EXCEPT ![t] = [call[t] EXCEPT !.pc = "submitted", !.event = e]]
    BY <2>1 DEF TypeOK
  <2>4. /\ [call[t] EXCEPT !.pc = "submitted", !.event = e] \in Call
        /\ WellTyped([call[t] EXCEPT !.pc = "submitted", !.event = e])
    BY CallType DEF Call, WellTyped
  <2>5. lock_' \in [Streams -> Threads \cup {None}]
    BY <2>1 DEF TypeOK
  <2> QED
    BY <1>2, <2>1, <2>2, <2>3, <2>4, <2>5, SubmitType, CallType, CallUpdateType
    DEF Submit, TypeOK, Record, buffers
<1>3. ASSUME NEW t \in Threads, SubmitFails(t)  PROVE TypeOK'
  <2>1. lock_' \in [Streams -> Threads \cup {None}]
    BY <1>3 DEF SubmitFails, TypeOK
  <2> QED
    BY <1>3, <2>1, CallUpdateType DEF SubmitFails, TypeOK, NoCall, buffers, coi
<1>4. ASSUME NEW t \in Threads, addPendingActions(t)  PROVE TypeOK'
  <2>1. pending_actions_' \in [Buffers -> SUBSET Events]
    BY <1>4, CallType DEF addPendingActions, TypeOK, WellTyped
  <2> QED
    BY <1>4, <2>1, CallUpdateType DEF addPendingActions, TypeOK, NoCall, stream, coi
<1>5. ASSUME NEW t \in Threads, NEW s \in Streams, EventStreamWait(t, s)  PROVE TypeOK'
  <2>1. PICK a \in Record, evs \in SUBSET Enqueued : Gathers(t, s, a, evs)
    BY <1>5, WaitStep
  <2> DEFINE c == [NoCall EXCEPT !.pc = "gathered", !.act = a,
                                 !.deps = getInputDeps(s, a.in, a.ins) \cup evs]
  <2>2. evs \subseteq Events
    BY DEF Enqueued, Promise!Enqueued
  <2>3. getInputDeps(s, a.in, a.ins) \in SUBSET Events
    BY InputDepsType DEF Record, Promise!ActionRecord
  <2>4. c \in Call /\ WellTyped(c)
    BY <2>2, <2>3, UnusedIsNoRecord DEF NoCall, Call, WellTyped, Record
  <2>5. call' = [call EXCEPT ![t] = c]
    BY <2>1 DEF Gathers
  <2> HIDE DEF c
  <2> QED
    BY <1>5, <2>4, <2>5, CallUpdateType
    DEF EventStreamWait, TypeOK, stream, buffers, coi
<1>6. ASSUME NEW t \in Threads, SubmitWait(t)  PROVE TypeOK'
  <2>1. PICK e \in Events :
          /\ COISubmit(e, call[t].act, call[t].deps)
          /\ setOutputDeps(call[t].act.stream, call[t].act.out, call[t].act.outs, e)
    BY <1>6 DEF SubmitWait
  <2>2. call[t].act \in Record
    BY <1>6, CallType DEF SubmitWait, TypeOK, WellTyped
  <2>3. call[t].deps \in SUBSET Events
    BY CallType DEF Call
  <2>4. /\ lastAction_' \in [Streams -> Events \cup {None}]
        /\ pendingBufUpdates_' \in [Streams -> [Buffers -> Events \cup {None}]]
        /\ action' \in [Events -> Record \cup {Unused}]
        /\ deps' \in [Events -> SUBSET Events]
        /\ prior' \in [Events -> SUBSET Events]
        /\ after' \in [Events -> SUBSET Events]
    BY <2>1, <2>2, <2>3, SubmitType
  <2>5. NoCall \in Call /\ WellTyped(NoCall)
    BY DEF NoCall, Call, WellTyped
  <2>6. /\ call' \in [Threads -> Call]
        /\ \A u \in Threads : WellTyped(call'[u])
    BY <1>6, <2>5, CallUpdateType DEF SubmitWait
  <2>7. UNCHANGED <<lock_, log_streams, live, pending_actions_, done>>
    BY <1>6 DEF SubmitWait, buffers
  <2> QED
    BY <2>4, <2>6, <2>7 DEF TypeOK, Record
<1>7. ASSUME NEW t \in Threads,
             \/ WaitFails(t) \/ SynchronizeReturns(t) \/ SynchronizeTimesOut(t)
             \/ StreamDestroyed(t) \/ BufferDestroyed(t)
      PROVE  TypeOK'
  BY <1>7, CallUpdateType
  DEF WaitFails, SynchronizeReturns, SynchronizeTimesOut, FinishSynchronize,
      StreamDestroyed, BufferDestroyed, TypeOK, stream, buffers, coi
<1>8. ASSUME NEW t \in Threads, NEW L \in SUBSET LogStreams, Synchronize(t, L)
      PROVE  TypeOK'
  <2>1. PICK P \in FirstPlaces(L) :
          call' = [call EXCEPT ![t] =
                     [NoCall EXCEPT !.pc = "waiting", !.scope = PhysStreams(L),
                                    !.deps = EventsAt(P)]]
    BY <1>8 DEF Synchronize
  <2> DEFINE c == [NoCall EXCEPT !.pc = "waiting", !.scope = PhysStreams(L),
                                 !.deps = EventsAt(P)]
  <2>2. c \in Call /\ WellTyped(c)
    BY AllEventsType, PhysStreamsType DEF NoCall, Call, WellTyped
  <2>3. call' = [call EXCEPT ![t] = c]
    BY <2>1
  <2> HIDE DEF c
  <2> QED
    BY <1>8, <2>2, <2>3, CallUpdateType DEF Synchronize, TypeOK, stream, buffers, coi
<1>9. ASSUME NEW t \in Threads, NEW l \in LogStreams, StreamDestroy(t, l)  PROVE TypeOK'
  <2>1. PICK P \in FirstPlaces({l}) :
          call' = [call EXCEPT ![t] =
                     [NoCall EXCEPT !.pc = "destroying", !.scope = PhysStreams({l}),
                                    !.deps = EventsAt(P)]]
    BY <1>9 DEF StreamDestroy
  <2> DEFINE c == [NoCall EXCEPT !.pc = "destroying", !.scope = PhysStreams({l}),
                                 !.deps = EventsAt(P)]
  <2>2. c \in Call /\ WellTyped(c)
    BY AllEventsType, PhysStreamsType DEF NoCall, Call, WellTyped
  <2>3. call' = [call EXCEPT ![t] = c]
    BY <2>1
  <2> HIDE DEF c
  <2> QED
    BY <1>9, <2>2, <2>3, CallUpdateType DEF StreamDestroy, TypeOK, stream, buffers, coi
<1>10. ASSUME NEW t \in Threads, NEW b \in Buffers, DeAlloc(t, b)  PROVE TypeOK'
  <2> DEFINE c == [NoCall EXCEPT !.pc = "freeing", !.buffer = {b},
                                 !.deps = pending_actions_[b]]
  <2>1. pending_actions_[b] \in SUBSET Events
    BY DEF TypeOK
  <2>2. c \in Call /\ WellTyped(c)
    BY <2>1 DEF NoCall, Call, WellTyped
  <2>3. call' = [call EXCEPT ![t] = c]
    BY <1>10 DEF DeAlloc
  <2> HIDE DEF c
  <2> QED
    BY <1>10, <2>2, <2>3, CallUpdateType DEF DeAlloc, TypeOK, stream, buffers, coi
<1>11. ASSUME NEW b \in Buffers, Alloc1D(b)  PROVE TypeOK'
  BY <1>11 DEF Alloc1D, TypeOK, stream, coi
<1>12. ASSUME NEW e \in Events, Complete(e)  PROVE TypeOK'
  BY <1>12 DEF Complete, TypeOK, stream, buffers, coi
<1>13. CASE UNCHANGED vars
  BY <1>13 DEF vars, TypeOK, stream, buffers, coi
<1>14. ASSUME NEW t \in Threads, ThreadSynchronize(t)  PROVE TypeOK'
  BY <1>8, <1>14 DEF ThreadSynchronize, TypeOK
<1>15. ASSUME NEW l \in LogStreams, StreamDetach(l)  PROVE TypeOK'
  BY <1>15 DEF StreamDetach, TypeOK, stream, buffers, coi
<1> QED
  BY <1>1, <1>2, <1>3, <1>4, <1>5, <1>6, <1>7, <1>8, <1>9, <1>10, <1>11, <1>12,
     <1>13, <1>14, <1>15
  DEF Next, ThreadStep, StreamSynchronize

\* The variables of PhysStream only ever hold what they are meant to hold; in
\* particular an action that is registered with its buffers has an event.
THEOREM TypeCorrect == Spec => []TypeOK
  BY InitTypeOK, NextTypeOK, PTL DEF Spec

-----------------------------------------------------------------------------
(* What a step does to the actions and to the stream's memory of them.     *)

Submits(t, e) ==
  /\ Preparing(t)
  /\ COISubmit(e, call[t].act, call[t].deps)
  /\ setOutputDeps(call[t].act.stream, call[t].act.out, call[t].act.outs, e)
  /\ call'[t].pc \notin {"locked", "gathered"}
  /\ call[t].pc = "locked" => call'[t].pc = "submitted" /\ call'[t].event = e
  /\ UNCHANGED <<done, log_streams, live>>

Steady == UNCHANGED <<lastAction_, pendingBufUpdates_, coi, done>>

\* A step submits an action, completes one, or leaves them all as they are.
LEMMA StepKinds ==
  ASSUME TypeOK, [Next]_vars
  PROVE  \/ \E t \in Threads, e \in Events : Submits(t, e)
         \/ \E e \in Events : Complete(e)
         \/ Steady
<1>1. ASSUME NEW t \in Threads, Submit(t)  PROVE \E e \in Events : Submits(t, e)
  BY <1>1 DEF Submit, Submits, Preparing, buffers, TypeOK
<1>2. ASSUME NEW t \in Threads, SubmitWait(t)  PROVE \E e \in Events : Submits(t, e)
  BY <1>2 DEF SubmitWait, Submits, Preparing, buffers, NoCall, TypeOK
<1>3. ASSUME NEW t \in Threads, NEW s \in Streams,
             enqueueFunction(t, s) \/ enqueueTransfer(t, s)
      PROVE  Steady
  BY <1>3, EnqueueRecords DEF Lock, Steady
<1>4. ASSUME NEW t \in Threads, NEW s \in Streams, EventStreamWait(t, s)  PROVE Steady
  BY <1>4 DEF EventStreamWait, Steady, stream
<1>5. ASSUME NEW t \in Threads,
             \/ SubmitFails(t) \/ addPendingActions(t) \/ WaitFails(t)
             \/ SynchronizeReturns(t) \/ SynchronizeTimesOut(t)
             \/ StreamDestroyed(t) \/ BufferDestroyed(t)
      PROVE  Steady
  BY <1>5 DEF SubmitFails, addPendingActions, WaitFails, SynchronizeReturns,
     SynchronizeTimesOut, FinishSynchronize, StreamDestroyed, BufferDestroyed,
     Steady, stream
<1>6. ASSUME NEW t \in Threads, NEW L, Synchronize(t, L)  PROVE Steady
  BY <1>6 DEF Synchronize, Steady, stream
<1>7. ASSUME NEW t \in Threads, NEW l \in LogStreams, StreamDestroy(t, l)  PROVE Steady
  BY <1>7 DEF StreamDestroy, Steady, stream
<1>8. ASSUME NEW t \in Threads, NEW b \in Buffers, DeAlloc(t, b)  PROVE Steady
  BY <1>8 DEF DeAlloc, Steady, stream
<1>9. ASSUME NEW b \in Buffers, Alloc1D(b)  PROVE Steady
  BY <1>9 DEF Alloc1D, Steady, stream
<1>10. CASE UNCHANGED vars
  BY <1>10 DEF vars, Steady, stream
<1>11. ASSUME NEW l, StreamDetach(l)  PROVE Steady
  BY <1>11 DEF StreamDetach, Steady, stream
<1> QED
  BY <1>1, <1>2, <1>3, <1>4, <1>5, <1>6, <1>7, <1>8, <1>9, <1>10, <1>11
  DEF Next, ThreadStep, StreamSynchronize, ThreadSynchronize

\* A submission adds one action and leaves the others alone.
LEMMA SubmitEffects ==
  ASSUME TypeOK, NEW t \in Threads, NEW e \in Events, Submits(t, e)
  PROVE  /\ call[t].act \in Record
         /\ call[t].deps \in SUBSET Events
         /\ e \notin Enqueued
         /\ Enqueued' = Enqueued \cup {e}
         /\ \A f \in Enqueued : /\ action'[f] = action[f]
                                /\ deps'[f] = deps[f]
                                /\ prior'[f] = prior[f]
                                /\ after'[f] = after[f]
         /\ action'[e] = call[t].act
         /\ deps'[e] = call[t].deps
         /\ prior'[e] = {p \in Enqueued : action[p].stream = call[t].act.stream}
         /\ after'[e] = call[t].deps \cup UNION {after[d] : d \in call[t].deps}
<1>1. call[t].act \in Record /\ call[t].deps \in SUBSET Events
  BY CallType DEF Submits, Preparing, TypeOK, WellTyped
<1>2. e \notin Enqueued
  BY DEF Submits, COISubmit, Enqueued, Promise!Enqueued, Unused
<1>3. action' = [action EXCEPT ![e] = call[t].act]
  BY DEF Submits, COISubmit
<1>4. Enqueued' = Enqueued \cup {e}
  BY <1>1, <1>3, UnusedIsNoRecord DEF TypeOK, Enqueued, Promise!Enqueued, Unused
<1>5. \A f \in Enqueued : f \in Events /\ f # e
  BY <1>2 DEF Enqueued, Promise!Enqueued
<1> QED
  BY <1>1, <1>2, <1>3, <1>4, <1>5 DEF Submits, COISubmit, TypeOK

\* The actions a stream remembers after a submission.
LEMMA OutputEffects ==
  ASSUME TypeOK, NEW t \in Threads, NEW e \in Events, Submits(t, e), NEW s \in Streams
  PROVE  /\ lastAction_'[s] =
              IF /\ s = call[t].act.stream
                 /\ \/ Policy = "CONSERVATIVE" /\ call[t].act.out # "NONE"
                    \/ Policy = "BUFFERS" /\ call[t].act.out \in {"IS_COMPUTE", "IS_BARRIER"}
              THEN e ELSE lastAction_[s]
         /\ \A b \in Buffers :
              pendingBufUpdates_'[s][b] =
                IF /\ s = call[t].act.stream
                   /\ Policy = "BUFFERS" /\ call[t].act.out # "NONE" /\ b \in call[t].act.outs
                THEN e ELSE pendingBufUpdates_[s][b]
<1>1. call[t].act \in Record
  BY SubmitEffects
<1> QED
  BY <1>1 DEF Submits, setOutputDeps, TypeOK, Record, Promise!ActionRecord

\* What a stream remembers stays or becomes the new action.
LEMMA OldOrNew ==
  ASSUME TypeOK, NEW t \in Threads, NEW e \in Events, Submits(t, e), NEW s \in Streams
  PROVE  /\ lastAction_'[s] \in {e, lastAction_[s]}
         /\ \A b \in Buffers : pendingBufUpdates_'[s][b] \in {e, pendingBufUpdates_[s][b]}
<1>1. call[t].act \in Record
  BY SubmitEffects
<1>2. setOutputDeps(call[t].act.stream, call[t].act.out, call[t].act.outs, e)
  BY DEF Submits
<1>3. call[t].act.stream \in Streams
  BY <1>1 DEF Record, Promise!ActionRecord
<1> QED
  BY <1>2, <1>3 DEF setOutputDeps, TypeOK

\* Other steps enqueue nothing.
LEMMA SteadyEnqueued == Steady => Enqueued' = Enqueued
  BY DEF Steady, coi, Enqueued, Promise!Enqueued

\* A completion enqueues nothing.
LEMMA CompleteEnqueued ==
  ASSUME NEW e, Complete(e)  PROVE Enqueued' = Enqueued
  BY DEF Complete, coi, Enqueued, Promise!Enqueued

-----------------------------------------------------------------------------
(* The order of actions.                                                   *)

\* Steps preserve the stream's lock and the write locks.
LEMMA LocksHoldNext ==
  ASSUME TypeOK, LocksHold, [Next]_vars
  PROVE  LocksHold'
<1>1. ASSUME NEW t \in Threads, NEW s \in Streams,
             enqueueFunction(t, s) \/ enqueueTransfer(t, s)
      PROVE  LocksHold'
  <2>1. PICK a \in Record : Lock(t, s, a) /\ a.stream = s
    BY <1>1, EnqueueRecords
  <2> QED
    BY <2>1 DEF Lock, SharedAccess, NoCall, TypeOK, LocksHold, Exclusive
<1>2. ASSUME NEW t \in Threads, Submit(t)  PROVE LocksHold'
  BY <1>2 DEF Submit, TypeOK, LocksHold, Exclusive
<1>3. ASSUME NEW t \in Threads, SubmitFails(t)  PROVE LocksHold'
  BY <1>3 DEF SubmitFails, NoCall, TypeOK, LocksHold, Exclusive
<1>4. ASSUME NEW t \in Threads, addPendingActions(t)  PROVE LocksHold'
  BY <1>4 DEF addPendingActions, stream, NoCall, TypeOK, LocksHold, Exclusive
<1>5. ASSUME NEW t \in Threads, NEW s \in Streams, EventStreamWait(t, s)  PROVE LocksHold'
  <2>1. PICK a \in Record, evs \in SUBSET Enqueued : Gathers(t, s, a, evs)
    BY <1>5, WaitStep
  <2>2. SharedAccess /\ call[t].pc = "idle" /\ lock_' = lock_
    BY <1>5, WaitGuard DEF stream
  <2>3. /\ call'[t].pc = "gathered"
        /\ \A u \in Threads \ {t} : call'[u] = call[u]
    BY <2>1 DEF Gathers, NoCall, TypeOK, LocksHold, Exclusive
  <2> QED
    BY <2>2, <2>3 DEF SharedAccess, LocksHold, Exclusive
<1>6. ASSUME NEW t \in Threads, SubmitWait(t)  PROVE LocksHold'
  BY <1>6 DEF SubmitWait, NoCall, TypeOK, LocksHold, Exclusive
<1>7. ASSUME NEW t \in Threads,
             \/ WaitFails(t) \/ SynchronizeReturns(t) \/ SynchronizeTimesOut(t)
             \/ StreamDestroyed(t) \/ BufferDestroyed(t)
      PROVE  LocksHold'
  <2>1. call' = [call EXCEPT ![t] = NoCall] /\ lock_' = lock_
    BY <1>7 DEF WaitFails, SynchronizeReturns, SynchronizeTimesOut, FinishSynchronize,
       StreamDestroyed, BufferDestroyed, stream
  <2> QED
    BY <2>1 DEF NoCall, TypeOK, LocksHold, Exclusive
<1>8. ASSUME NEW t \in Threads, NEW L, Synchronize(t, L)  PROVE LocksHold'
  BY <1>8 DEF Synchronize, ExclusiveAccess, stream, NoCall, TypeOK, LocksHold, Exclusive
<1>9. ASSUME NEW t \in Threads, NEW l \in LogStreams, StreamDestroy(t, l)  PROVE LocksHold'
  BY <1>9 DEF StreamDestroy, ExclusiveAccess, stream, NoCall, TypeOK, LocksHold, Exclusive
<1>10. ASSUME NEW t \in Threads, NEW b \in Buffers, DeAlloc(t, b)  PROVE LocksHold'
  BY <1>10 DEF DeAlloc, ExclusiveAccess, stream, NoCall, TypeOK, LocksHold, Exclusive
<1>11. ASSUME \/ \E b \in Buffers : Alloc1D(b)
              \/ \E l \in LogStreams : StreamDetach(l)
              \/ \E e \in Events : Complete(e)
              \/ UNCHANGED vars
       PROVE  LocksHold'
  BY <1>11 DEF Alloc1D, StreamDetach, Complete, vars, stream, LocksHold, Exclusive
<1> QED
  BY <1>1, <1>2, <1>3, <1>4, <1>5, <1>6, <1>7, <1>8, <1>9, <1>10, <1>11
  DEF Next, ThreadStep, StreamSynchronize, ThreadSynchronize

-----------------------------------------------------------------------------
(* What a step does to a call, and to the streams and buffers in existence. *)

\* The steps at the end of which a thread has left the library.
Ends(t) ==
  \/ SubmitFails(t) \/ addPendingActions(t) \/ SubmitWait(t) \/ WaitFails(t)
  \/ SynchronizeReturns(t) \/ SynchronizeTimesOut(t)
  \/ StreamDestroyed(t) \/ BufferDestroyed(t)

\* A call that ends leaves its thread outside of every call.
LEMMA EndIsNoCall ==
  ASSUME NEW t \in Threads, Ends(t)  PROVE call' = [call EXCEPT ![t] = NoCall]
  BY DEF Ends, SubmitFails, addPendingActions, SubmitWait, WaitFails, SynchronizeReturns,
     SynchronizeTimesOut, FinishSynchronize, StreamDestroyed, BufferDestroyed

\* Where a thread is after it entered a call, or submitted an action.
LEMMA EntryPc ==
  ASSUME TypeOK, NEW t \in Threads, NEW s \in Streams
  PROVE  /\ enqueueFunction(t, s) \/ enqueueTransfer(t, s) => call'[t].pc = "locked"
         /\ EventStreamWait(t, s) => call'[t].pc = "gathered"
<1>1. ASSUME enqueueFunction(t, s) \/ enqueueTransfer(t, s)  PROVE call'[t].pc = "locked"
  <2>1. PICK a \in Record : Lock(t, s, a)
    BY <1>1, EnqueueRecords
  <2> QED
    BY <2>1 DEF Lock, TypeOK, NoCall
<1>2. ASSUME EventStreamWait(t, s)  PROVE call'[t].pc = "gathered"
  <2>1. PICK a \in Record, evs \in SUBSET Enqueued : Gathers(t, s, a, evs)
    BY <1>2, WaitStep
  <2> QED
    BY <2>1 DEF Gathers, TypeOK, NoCall
<1> QED
  BY <1>1, <1>2

\* Where a thread is after it has submitted an action.
LEMMA SubmitPc ==
  ASSUME TypeOK, NEW t \in Threads, Submit(t)  PROVE call'[t].pc = "submitted"
  BY DEF Submit, TypeOK

\* The ways in which a call of thread u can change.
LEMMA CallSteps ==
  ASSUME TypeOK, [Next]_vars, NEW u \in Threads, call'[u] # call[u]
  PROVE  \/ \E s \in Streams : enqueueFunction(u, s) \/ enqueueTransfer(u, s)
         \/ Submit(u)
         \/ \E s \in Streams : EventStreamWait(u, s)
         \/ Ends(u)
         \/ \E L \in SUBSET LogStreams : Synchronize(u, L)
         \/ \E l \in LogStreams : StreamDestroy(u, l)
         \/ \E b \in Buffers : DeAlloc(u, b)
<1>1. ASSUME NEW t \in Threads, NEW s \in Streams,
             enqueueFunction(t, s) \/ enqueueTransfer(t, s)
      PROVE  t = u
  <2>1. PICK a \in Record : Lock(t, s, a)
    BY <1>1, EnqueueRecords
  <2> QED
    BY <2>1 DEF Lock, TypeOK
<1>2. ASSUME NEW t \in Threads, Submit(t)  PROVE t = u
  BY <1>2 DEF Submit, TypeOK
<1>3. ASSUME NEW t \in Threads, NEW s \in Streams, EventStreamWait(t, s)  PROVE t = u
  <2>1. PICK c : call' = [call EXCEPT ![t] = c]
    BY <1>3 DEF EventStreamWait
  <2> QED
    BY <2>1 DEF TypeOK
<1>4. ASSUME NEW t \in Threads, Ends(t)  PROVE t = u
  BY <1>4, EndIsNoCall DEF TypeOK
<1>5. ASSUME NEW t \in Threads, NEW L, Synchronize(t, L)  PROVE t = u
  BY <1>5 DEF Synchronize, TypeOK
<1>6. ASSUME NEW t \in Threads, NEW l \in LogStreams, StreamDestroy(t, l)  PROVE t = u
  BY <1>6 DEF StreamDestroy, TypeOK
<1>7. ASSUME NEW t \in Threads, NEW b \in Buffers, DeAlloc(t, b)  PROVE t = u
  BY <1>7 DEF DeAlloc, TypeOK
<1>8. ASSUME \/ \E b \in Buffers : Alloc1D(b)
             \/ \E l \in LogStreams : StreamDetach(l)
             \/ \E e \in Events : Complete(e)
             \/ UNCHANGED vars
      PROVE  FALSE
  BY <1>8 DEF Alloc1D, StreamDetach, Complete, vars
<1>9. log_streams \in SUBSET LogStreams
  BY DEF TypeOK
<1> QED
  BY <1>1, <1>2, <1>3, <1>4, <1>5, <1>6, <1>7, <1>8, <1>9
  DEF Next, ThreadStep, Ends, StreamSynchronize, ThreadSynchronize

\* Where a thread is after the end of a call or the start of one that waits.
LEMMA EndsOrBlocks ==
  ASSUME TypeOK, NEW u \in Threads,
         \/ Ends(u)
         \/ \E L \in SUBSET LogStreams : Synchronize(u, L)
         \/ \E l \in LogStreams : StreamDestroy(u, l)
         \/ \E b \in Buffers : DeAlloc(u, b)
  PROVE  call'[u].pc \in {"idle", "waiting", "destroying", "freeing"}
<1>1. CASE Ends(u)
  BY <1>1, EndIsNoCall DEF TypeOK, NoCall
<1>2. ASSUME NEW L, Synchronize(u, L)  PROVE call'[u].pc = "waiting"
  BY <1>2, SynchronizeBlocks DEF Blocks
<1>3. ASSUME NEW l \in LogStreams, StreamDestroy(u, l)  PROVE call'[u].pc = "destroying"
  BY <1>3, DestroyBlocks DEF Blocks
<1>4. ASSUME NEW b \in Buffers, DeAlloc(u, b)  PROVE call'[u].pc = "freeing"
  BY <1>4 DEF DeAlloc, TypeOK, NoCall
<1> QED
  BY <1>1, <1>2, <1>3, <1>4

\* An enqueued event has a well-typed action.
LEMMA EnqueuedRecord ==
  ASSUME TypeOK, NEW f \in Enqueued
  PROVE  /\ action[f] \in Record
         /\ action[f].stream \in Streams
         /\ action[f].ins \subseteq Buffers /\ action[f].outs \subseteq Buffers
<1>1. action[f] \in Record
  BY DEF TypeOK, Enqueued, Promise!Enqueued, Unused, Record
<1> QED
  BY <1>1 DEF Record, Promise!ActionRecord

\* What is known of an action never changes.
LEMMA KnownActions ==
  ASSUME TypeOK, [Next]_vars
  PROVE  /\ Enqueued \subseteq Enqueued'
         /\ \A f \in Enqueued : /\ action'[f] = action[f]
                                /\ deps'[f] = deps[f]
                                /\ prior'[f] = prior[f]
                                /\ after'[f] = after[f]
         /\ done \subseteq done'
<1>1. CASE \E t \in Threads, e \in Events : Submits(t, e)
  <2>1. PICK t \in Threads, e \in Events : Submits(t, e)
    BY <1>1
  <2> QED
    BY <2>1, SubmitEffects DEF Submits
<1>2. CASE \E e \in Events : Complete(e)
  BY <1>2, CompleteEnqueued DEF Complete, coi
<1>3. CASE Steady
  BY <1>3, SteadyEnqueued DEF Steady, coi
<1> QED
  BY <1>1, <1>2, <1>3, StepKinds

\* Streams disappear, and buffers too, only at the end of the call that
\* destroys them.
LEMMA Lifetimes ==
  ASSUME TypeOK, [Next]_vars
  PROVE  /\ alive' = alive \/ \E t \in Threads : StreamDestroyed(t)
         /\ live \subseteq live' \/ \E t \in Threads : BufferDestroyed(t)
<1>1. ASSUME NEW t \in Threads, NEW s \in Streams,
             enqueueFunction(t, s) \/ enqueueTransfer(t, s)
      PROVE  UNCHANGED <<log_streams, live>>
  BY <1>1, EnqueueRecords DEF Lock, buffers
<1>2. ASSUME NEW t \in Threads, NEW s \in Streams, EventStreamWait(t, s)
      PROVE  UNCHANGED <<log_streams, live>>
  BY <1>2, WaitGuard DEF buffers
<1>3. ASSUME NEW t \in Threads,
             \/ Submit(t) \/ SubmitFails(t) \/ addPendingActions(t)
             \/ SubmitWait(t) \/ WaitFails(t)
             \/ SynchronizeReturns(t) \/ SynchronizeTimesOut(t)
      PROVE  UNCHANGED <<log_streams, live>>
  BY <1>3 DEF Submit, SubmitFails, addPendingActions, SubmitWait, WaitFails,
     SynchronizeReturns, SynchronizeTimesOut, FinishSynchronize, buffers
<1>4. ASSUME NEW t \in Threads, NEW L, Synchronize(t, L)  PROVE UNCHANGED <<log_streams, live>>
  BY <1>4 DEF Synchronize, buffers
<1>5. ASSUME NEW t \in Threads, NEW l \in LogStreams, StreamDestroy(t, l)
      PROVE  UNCHANGED <<log_streams, live>>
  BY <1>5 DEF StreamDestroy, buffers
<1>6. ASSUME NEW t \in Threads, NEW b \in Buffers, DeAlloc(t, b)
      PROVE  UNCHANGED <<log_streams, live>>
  BY <1>6 DEF DeAlloc, buffers
<1>7. ASSUME NEW b \in Buffers, Alloc1D(b)  PROVE UNCHANGED log_streams /\ live \subseteq live'
  BY <1>7 DEF Alloc1D
<1>8. ASSUME NEW e \in Events, Complete(e)
      PROVE  UNCHANGED <<log_streams, live>>
  BY <1>8 DEF Complete, buffers
<1>9. ASSUME NEW t \in Threads, StreamDestroyed(t)  PROVE UNCHANGED live
  BY <1>9 DEF StreamDestroyed, buffers
<1>10. ASSUME NEW t \in Threads, BufferDestroyed(t)  PROVE UNCHANGED log_streams
  BY <1>10 DEF BufferDestroyed
<1>11. ASSUME UNCHANGED vars  PROVE UNCHANGED <<log_streams, live>>
  BY <1>11 DEF vars, buffers
<1>12. ASSUME NEW l, StreamDetach(l)  PROVE UNCHANGED live
  BY <1>12 DEF StreamDetach, buffers
<1> QED
  BY <1>1, <1>2, <1>3, <1>4, <1>5, <1>6, <1>7, <1>8, <1>9, <1>10, <1>11, <1>12,
     AliveSteps
  DEF Next, ThreadStep, StreamSynchronize, ThreadSynchronize

\* Nothing disappears under a thread that is in a call it does not finish.
LEMMA NothingDisappears ==
  ASSUME TypeOK, LocksHold, [Next]_vars, NEW u \in Threads,
         call[u].pc # "idle", call'[u] = call[u]
  PROVE  alive' = alive /\ live \subseteq live'
<1>1. ASSUME NEW t \in Threads, StreamDestroyed(t) \/ BufferDestroyed(t)  PROVE FALSE
  <2>1. Exclusive(t) /\ call' = [call EXCEPT ![t] = NoCall]
    BY <1>1 DEF StreamDestroyed, BufferDestroyed, Exclusive
  <2>2. t = u
    BY <2>1 DEF LocksHold
  <2> QED
    BY <2>1, <2>2 DEF TypeOK, NoCall, Exclusive
<1> QED
  BY <1>1, Lifetimes

-----------------------------------------------------------------------------
(* The parts of the invariant that speak of calls.                         *)

\* Steps preserve what is known of the calls under way.
LEMMA CallsAreSoundNext ==
  ASSUME TypeOK, LocksHold, CallsAreSound, EventsAreEnqueued, [Next]_vars
  PROVE  CallsAreSound'
<1> SUFFICES ASSUME NEW u \in Threads  PROVE SoundCall(u)'
  BY DEF CallsAreSound
<1>0. SoundCall(u)
  BY DEF CallsAreSound
<1>1. CASE call'[u] = call[u]
  <2>1. CASE call[u].pc = "idle"
    BY <1>1, <2>1 DEF SoundCall, Preparing
  <2>2. CASE call[u].pc # "idle"
    BY <1>0, <1>1, <2>2, NothingDisappears, KnownActions DEF SoundCall, Preparing
  <2> QED
    BY <2>1, <2>2
<1>2. ASSUME NEW s \in Streams, enqueueFunction(u, s) \/ enqueueTransfer(u, s)
      PROVE  SoundCall(u)'
  <2>1. PICK a \in Record : Lock(u, s, a) /\ a.stream = s /\ Shaped(a) /\ a.events = {}
    BY <1>2, EnqueueRecords
  <2>2. /\ call'[u].pc = "locked" /\ call'[u].act = a
        /\ call'[u].deps = getInputDeps(s, a.in, a.ins)
    BY <2>1 DEF Lock, TypeOK, NoCall
  <2>3. getInputDeps(s, a.in, a.ins) \subseteq Enqueued
    BY DEF getInputDeps, EventsAreEnqueued, Record, Promise!ActionRecord
  <2> QED
    BY <2>1, <2>2, <2>3, KnownActions, AliveSteps DEF SoundCall, Preparing, Lock, buffers
<1>3. CASE Submit(u)
  <2>1. PICK e \in Events :
          /\ COISubmit(e, call[u].act, call[u].deps)
          /\ setOutputDeps(call[u].act.stream, call[u].act.out, call[u].act.outs, e)
          /\ call' = [call EXCEPT ![u].pc = "submitted", ![u].event = e]
    BY <1>3 DEF Submit
  <2>2. call'[u].pc = "submitted" /\ call'[u].act = call[u].act /\ call'[u].event = e
    <3>1. call[u] \in Call /\ call \in [Threads -> Call]
      BY DEF TypeOK
    <3>2. call'[u] = [call[u] EXCEPT !.pc = "submitted", !.event = e]
      BY <2>1, <3>1
    <3> QED
      BY <3>1, <3>2 DEF Call
  <2>3. Submits(u, e)
    BY <1>3, <2>1, <2>2 DEF Submit, Submits, Preparing, buffers
  <2> QED
    BY <2>2, <2>3, SubmitEffects DEF SoundCall, Preparing
<1>4. ASSUME NEW s \in Streams, EventStreamWait(u, s)  PROVE SoundCall(u)'
  <2>1. PICK a \in Record, evs \in SUBSET Enqueued : Gathers(u, s, a, evs)
    BY <1>4, WaitStep
  <2>2. /\ call'[u].pc = "gathered" /\ call'[u].act = a
        /\ call'[u].deps = getInputDeps(s, a.in, a.ins) \cup evs
    BY <2>1 DEF Gathers, TypeOK, NoCall
  <2>3. getInputDeps(s, a.in, a.ins) \subseteq Enqueued
    BY DEF getInputDeps, EventsAreEnqueued, Record, Promise!ActionRecord
  <2>4. s \in alive' /\ u \in WaitUsers[s]
    BY <1>4, WaitGuard, AliveSteps
  <2> QED
    BY <2>1, <2>2, <2>3, <2>4, KnownActions DEF Gathers, SoundCall, Preparing
<1>5. CASE \/ Ends(u)
           \/ \E L \in SUBSET LogStreams : Synchronize(u, L)
           \/ \E l \in LogStreams : StreamDestroy(u, l)
           \/ \E b \in Buffers : DeAlloc(u, b)
  <2>1. call'[u].pc \notin {"locked", "gathered", "submitted"}
    BY <1>5, EndsOrBlocks
  <2> QED
    BY <2>1 DEF SoundCall, Preparing
<1> QED
  BY <1>1, <1>2, <1>3, <1>4, <1>5, CallSteps

\* No other thread is between look-up and update of the same stream.
LEMMA OneAtATime ==
  ASSUME TypeOK, LocksHold, CallsAreSound, WaitsAreExclusive,
         NEW t \in Threads, NEW u \in Threads, Preparing(t), Preparing(u),
         call[t].act.stream = call[u].act.stream
  PROVE  t = u
<1>1. call[t].act.stream \in Streams
  BY CallType DEF Preparing, TypeOK, WellTyped, Record, Promise!ActionRecord
<1> QED
  BY <1>1 DEF LocksHold, CallsAreSound, SoundCall, WaitsAreExclusive, Preparing

\* Steps preserve that a call's dependences are those of the stream.
LEMMA DepsStillCurrentNext ==
  ASSUME TypeOK, LocksHold, CallsAreSound, WaitsAreExclusive, DepsStillCurrent, [Next]_vars
  PROVE  DepsStillCurrent'
<1> DEFINE Current(u) ==
      getInputDeps(call[u].act.stream, call[u].act.in, call[u].act.ins) \subseteq call[u].deps
<1> SUFFICES ASSUME NEW u \in Threads, Preparing(u)'  PROVE Current(u)'
  BY DEF DepsStillCurrent
<1>1. CASE call'[u] = call[u]
  <2>1. Preparing(u) /\ Current(u)
    BY <1>1 DEF Preparing, DepsStillCurrent
  <2>2. call[u].act \in Record
    BY <2>1, CallType DEF Preparing, TypeOK, WellTyped
  <2>3. /\ lastAction_'[call[u].act.stream] = lastAction_[call[u].act.stream]
        /\ \A b \in Buffers : pendingBufUpdates_'[call[u].act.stream][b]
                              = pendingBufUpdates_[call[u].act.stream][b]
    <3>1. ASSUME NEW t \in Threads, NEW e \in Events, Submits(t, e)
          PROVE  <2>3!:
      <4>1. t # u
        BY <1>1, <2>1, <3>1 DEF Submits, Preparing
      <4>2. call[t].act.stream # call[u].act.stream
        BY <2>1, <3>1, <4>1, OneAtATime DEF Submits
      <4> QED
        BY <2>2, <3>1, <4>2, OutputEffects DEF Record, Promise!ActionRecord
    <3>2. CASE \E e \in Events : Complete(e)
      BY <3>2 DEF Complete, stream
    <3>3. CASE Steady
      BY <3>3 DEF Steady
    <3> QED
      BY <3>1, <3>2, <3>3, StepKinds
  <2> DEFINE a == call[u].act
  <2>4. a.stream \in Streams /\ a.ins \subseteq Buffers
    BY <2>2 DEF Record, Promise!ActionRecord
  <2>5. getInputDeps(a.stream, a.in, a.ins)' = getInputDeps(a.stream, a.in, a.ins)
    BY <1>1, <2>3, <2>4 DEF getInputDeps
  <2> QED
    BY <1>1, <2>1, <2>5
<1>2. CASE call'[u] # call[u]
  <2>1. call'[u].pc \in {"locked", "gathered"}
    BY DEF Preparing
  <2>2. PICK a \in Record, s \in Streams :
          /\ call'[u].act = a /\ a.stream = s
          /\ getInputDeps(s, a.in, a.ins) \subseteq call'[u].deps
          /\ UNCHANGED <<lastAction_, pendingBufUpdates_>>
    <3>1. ASSUME NEW s \in Streams, enqueueFunction(u, s) \/ enqueueTransfer(u, s)
          PROVE  \E a \in Record :
                   /\ call'[u].act = a /\ a.stream = s
                   /\ getInputDeps(s, a.in, a.ins) \subseteq call'[u].deps
                   /\ UNCHANGED <<lastAction_, pendingBufUpdates_>>
      <4>1. PICK a \in Record : Lock(u, s, a) /\ a.stream = s
        BY <3>1, EnqueueRecords
      <4> QED
        BY <4>1 DEF Lock, TypeOK, NoCall
    <3>2. ASSUME NEW s \in Streams, EventStreamWait(u, s)
          PROVE  \E a \in Record :
                   /\ call'[u].act = a /\ a.stream = s
                   /\ getInputDeps(s, a.in, a.ins) \subseteq call'[u].deps
                   /\ UNCHANGED <<lastAction_, pendingBufUpdates_>>
      <4>1. PICK a \in Record, evs \in SUBSET Enqueued : Gathers(u, s, a, evs)
        BY <3>2, WaitStep
      <4>2. /\ call'[u].act = a
            /\ getInputDeps(s, a.in, a.ins) \subseteq call'[u].deps
        BY <4>1 DEF Gathers, TypeOK, NoCall
      <4> QED
        BY <3>2, <4>1, <4>2, WaitGuard DEF Gathers, stream
    <3>3. ASSUME \/ Submit(u) \/ Ends(u)
                 \/ \E L \in SUBSET LogStreams : Synchronize(u, L)
                 \/ \E l \in LogStreams : StreamDestroy(u, l)
                 \/ \E b \in Buffers : DeAlloc(u, b)
          PROVE  FALSE
      <4>1. CASE Submit(u)
        BY <2>1, <4>1 DEF Submit, TypeOK
      <4>2. CASE ~ Submit(u)
        BY <2>1, <3>3, <4>2, EndsOrBlocks
      <4> QED
        BY <4>1, <4>2
    <3> QED
      BY <1>2, <3>1, <3>2, <3>3, CallSteps
  <2> QED
    BY <2>2 DEF getInputDeps
<1> QED
  BY <1>1, <1>2

-----------------------------------------------------------------------------
(* The parts of the invariant that speak of actions.                       *)

\* Steps preserve that remembered events belong to actions.
LEMMA EventsAreEnqueuedNext ==
  ASSUME TypeOK, CallsAreSound, EventsAreEnqueued, [Next]_vars
  PROVE  EventsAreEnqueued'
<1>1. ASSUME NEW t \in Threads, NEW e \in Events, Submits(t, e)
      PROVE  EventsAreEnqueued'
  <2>1. call[t].act.events \subseteq call[t].deps /\ call[t].deps \subseteq Enqueued
    BY <1>1 DEF CallsAreSound, SoundCall, Submits
  <2>0. Enqueued' = Enqueued \cup {e}
    BY <1>1, SubmitEffects
  <2>2. \A f \in Enqueued' : /\ action'[f].events \subseteq deps'[f]
                            /\ deps'[f] \subseteq Enqueued' /\ prior'[f] \subseteq Enqueued'
    <3> SUFFICES ASSUME NEW f \in Enqueued'
                 PROVE  /\ action'[f].events \subseteq deps'[f]
                        /\ deps'[f] \subseteq Enqueued' /\ prior'[f] \subseteq Enqueued'
      OBVIOUS
    <3>1. CASE f = e
      BY <1>1, <2>1, <3>1, SubmitEffects
    <3>2. CASE f \in Enqueued
      <4>1. /\ action'[f] = action[f] /\ deps'[f] = deps[f] /\ prior'[f] = prior[f]
            /\ Enqueued \subseteq Enqueued'
        BY <3>2, KnownActions
      <4> QED
        BY <3>2, <4>1 DEF EventsAreEnqueued
    <3> QED
      BY <2>0, <3>1, <3>2
  <2>3. ASSUME NEW s \in Streams
        PROVE  /\ lastAction_'[s] \in Enqueued' \cup {None}
               /\ \A b \in Buffers : pendingBufUpdates_'[s][b] \in Enqueued' \cup {None}
    <3>1. lastAction_'[s] \in {e, lastAction_[s]}
      BY <1>1, OldOrNew
    <3>2. ASSUME NEW b \in Buffers
          PROVE  pendingBufUpdates_'[s][b] \in Enqueued' \cup {None}
      <4>1. pendingBufUpdates_'[s][b] \in {e, pendingBufUpdates_[s][b]}
        BY <1>1, OldOrNew
      <4> QED
        BY <2>0, <4>1 DEF EventsAreEnqueued
    <3>3. lastAction_[s] \in Enqueued \cup {None}
      BY DEF EventsAreEnqueued
    <3> QED
      BY <2>0, <3>1, <3>2, <3>3
  <2>4. done' \subseteq Enqueued'
    BY <1>1, <2>0 DEF EventsAreEnqueued, Submits
  <2> QED
    BY <2>2, <2>3, <2>4 DEF EventsAreEnqueued
<1>2. ASSUME NEW e \in Events, Complete(e)  PROVE EventsAreEnqueued'
  BY <1>2, CompleteEnqueued DEF Complete, EventsAreEnqueued, stream, coi
<1>3. CASE Steady
  BY <1>3, SteadyEnqueued DEF Steady, EventsAreEnqueued, coi
<1> QED
  BY <1>1, <1>2, <1>3, StepKinds

\* Steps preserve that a signalled event has all it came after behind it.
LEMMA HistoryIsExactNext ==
  ASSUME TypeOK, CallsAreSound, EventsAreEnqueued, HistoryIsExact, [Next]_vars
  PROVE  HistoryIsExact'
<1>1. ASSUME NEW t \in Threads, NEW e \in Events, Submits(t, e)  PROVE HistoryIsExact'
  <2>1. call[t].deps \subseteq Enqueued
    BY <1>1 DEF CallsAreSound, SoundCall, Submits
  <2>2. after'[e] = deps'[e] \cup UNION {after'[d] : d \in deps'[e]}
    BY <1>1, <2>1, SubmitEffects
  <2>3. ASSUME NEW f \in Enqueued
        PROVE  after'[f] = deps'[f] \cup UNION {after'[d] : d \in deps'[f]}
    <3>1. deps[f] \subseteq Enqueued
      BY DEF EventsAreEnqueued
    <3> QED
      BY <1>1, <3>1, SubmitEffects DEF HistoryIsExact
  <2>4. \A f \in done' : after'[f] \subseteq done'
    BY <1>1, SubmitEffects DEF HistoryIsExact, EventsAreEnqueued, Submits
  <2> QED
    BY <1>1, <2>2, <2>3, <2>4, SubmitEffects DEF HistoryIsExact
<1>2. ASSUME NEW e \in Events, Complete(e)  PROVE HistoryIsExact'
  <2>1. after[e] \subseteq done
    BY <1>2 DEF Complete, HistoryIsExact
  <2>2. done' = done \cup {e} /\ after' = after /\ deps' = deps /\ Enqueued' = Enqueued
    BY <1>2, CompleteEnqueued DEF Complete, coi
  <2> QED
    BY <2>1, <2>2 DEF HistoryIsExact
<1>3. CASE Steady
  BY <1>3, SteadyEnqueued DEF Steady, HistoryIsExact, coi
<1> QED
  BY <1>1, <1>2, <1>3, StepKinds

\* Everything a submission must follow is covered by a dependence it takes.
LEMMA DepsCover ==
  ASSUME TypeOK, Covered, NEW a \in Record, NEW p \in Enqueued,
         action[p].stream = a.stream, Promise!MustFollow(action[p], a)
  PROVE  \E x \in getInputDeps(a.stream, a.in, a.ins) : Covers(x, p)
<1> DEFINE s == a.stream
           q == action[p]
<1>1. /\ q.outs \subseteq Buffers /\ a.ins \subseteq Buffers
      /\ q.out \in {"IS_COMPUTE", "IS_XFER", "IS_BARRIER", "NONE"}
      /\ q.out # "NONE"
  BY DEF TypeOK, Enqueued, Promise!Enqueued, Unused, Record, Promise!ActionRecord,
     Promise!DepTypes, Promise!MustFollow, Promise!Tracked
<1>2. CASE Policy = "CONSERVATIVE"
  <2>1. Covers(lastAction_[s], p)
    BY <1>1, <1>2 DEF Covered, Tracked, Promise!Tracked
  <2> QED
    BY <1>2, <2>1 DEF getInputDeps, Covers
<1>3. CASE Policy = "BUFFERS"
  <2>1. /\ q.out = "IS_XFER" => q.outs # {}
        /\ q.out # "IS_XFER" => Covers(lastAction_[s], p)
        /\ \A b \in q.outs : Covers(pendingBufUpdates_[s][b], p)
    BY <1>1, <1>3 DEF Covered, Tracked, Promise!Tracked, Shaped
  <2>2. CASE q.out # "IS_XFER" /\ a.in # "IS_XFER"
    BY <1>3, <2>1, <2>2 DEF getInputDeps, Covers
  <2>3. ASSUME NEW b \in q.outs, a.in = "IS_BARRIER" \/ b \in a.ins
        PROVE  \E x \in getInputDeps(a.stream, a.in, a.ins) : Covers(x, p)
    BY <1>1, <1>3, <2>1, <2>3 DEF getInputDeps, Covers
  <2>4. \/ q.out # "IS_XFER" /\ a.in # "IS_XFER"
        \/ a.in = "IS_BARRIER" /\ q.out = "IS_XFER"
        \/ q.outs \cap a.ins # {}
    BY <1>3 DEF Promise!MustFollow
  <2> QED
    BY <2>1, <2>2, <2>3, <2>4
<1> QED
  BY <1>2, <1>3 DEF Promise!MustFollow

\* Steps preserve the order of conflicting actions.
LEMMA ConflictOrderNext ==
  ASSUME TypeOK, EventsAreEnqueued, Covered, DepsStillCurrent, ConflictOrder, [Next]_vars
  PROVE  ConflictOrder'
<1>1. ASSUME NEW t \in Threads, NEW e \in Events, Submits(t, e)  PROVE ConflictOrder'
  <2>1. ASSUME NEW p \in prior'[e], Promise!MustFollow(action'[p], action'[e])
        PROVE  p \in after'[e]
    <3>1. /\ p \in Enqueued /\ action[p].stream = call[t].act.stream
          /\ action'[p] = action[p] /\ action'[e] = call[t].act
      BY <1>1, SubmitEffects
    <3>2. PICK x \in getInputDeps(call[t].act.stream, call[t].act.in, call[t].act.ins) :
            Covers(x, p)
      BY <1>1, <2>1, <3>1, DepsCover, SubmitEffects
    <3>3. x \in call[t].deps
      BY <1>1, <3>2 DEF DepsStillCurrent, Submits
    <3>4. after'[e] = call[t].deps \cup UNION {after[d] : d \in call[t].deps}
      BY <1>1, SubmitEffects
    <3> QED
      BY <3>2, <3>3, <3>4 DEF Covers
  <2>2. ASSUME NEW f \in Enqueued, NEW p \in prior'[f],
               Promise!MustFollow(action'[p], action'[f])
        PROVE  p \in after'[f]
    <3>1. p \in Enqueued
      BY <1>1, SubmitEffects DEF EventsAreEnqueued
    <3> QED
      BY <1>1, <2>2, <3>1, SubmitEffects DEF ConflictOrder
  <2> QED
    BY <1>1, <2>1, <2>2, SubmitEffects DEF ConflictOrder
<1>2. ASSUME NEW e \in Events, Complete(e)  PROVE ConflictOrder'
  BY <1>2, CompleteEnqueued DEF Complete, ConflictOrder, coi
<1>3. CASE Steady
  BY <1>3, SteadyEnqueued DEF Steady, ConflictOrder, coi
<1> QED
  BY <1>1, <1>2, <1>3, StepKinds

\* Steps preserve that a few remembered events stand for all earlier actions.
LEMMA CoveredNext ==
  ASSUME TypeOK, CallsAreSound, EventsAreEnqueued, Covered, DepsStillCurrent, [Next]_vars
  PROVE  Covered'
<1>1. ASSUME NEW t \in Threads, NEW e \in Events, Submits(t, e)  PROVE Covered'
  <2> DEFINE a == call[t].act
             s == a.stream
  <2>1. /\ a \in Record /\ s \in Streams /\ a.outs \subseteq Buffers /\ a.ins \subseteq Buffers
        /\ a.out \in {"IS_COMPUTE", "IS_XFER", "IS_BARRIER", "NONE"}
    BY <1>1, SubmitEffects DEF Record, Promise!ActionRecord, Promise!DepTypes
  <2>2. Shaped(a) /\ getInputDeps(s, a.in, a.ins) \subseteq call[t].deps
    BY <1>1 DEF CallsAreSound, SoundCall, DepsStillCurrent, Submits
  <2>3. ASSUME NEW f \in Enqueued, NEW x \in Enqueued, Covers(x, f)  PROVE Covers(x, f)'
    BY <1>1, <2>3, SubmitEffects DEF Covers
  <2>4. ASSUME NEW f \in Enqueued, NEW x \in call[t].deps, Covers(x, f)  PROVE Covers(e, f)'
    <3>1. after'[e] = call[t].deps \cup UNION {after[d] : d \in call[t].deps}
      BY <1>1, SubmitEffects
    <3> QED
      BY <2>4, <3>1 DEF Covers
  <2>5. Covers(e, e)'
    BY DEF Covers
  <2>6. ASSUME NEW f \in Enqueued, Tracked(action[f]), Policy = "CONSERVATIVE"
        PROVE  Covers(lastAction_[action[f].stream], f)'
    <3> DEFINE r == action[f].stream
    <3>1. r \in Streams /\ Covers(lastAction_[r], f) /\ action'[f] = action[f]
      <4>1. action'[f] = action[f]
        BY <1>1, <2>6, SubmitEffects
      <4> QED
        BY <2>6, <4>1, EnqueuedRecord DEF Covered
    <3>2. lastAction_[r] \in Enqueued
      BY <3>1 DEF EventsAreEnqueued, Covers
    <3>3. CASE lastAction_'[r] = lastAction_[r]
      BY <2>3, <3>1, <3>2, <3>3
    <3>4. CASE lastAction_'[r] # lastAction_[r]
      <4>1. r = s /\ lastAction_'[r] = e
        BY <1>1, <3>1, <3>4, OutputEffects
      <4>2. lastAction_[r] \in call[t].deps
        BY <2>2, <2>6, <3>1, <4>1 DEF getInputDeps, Covers
      <4> QED
        BY <2>4, <3>1, <4>1, <4>2
    <3> QED
      BY <3>3, <3>4
  <2>7. ASSUME NEW f \in Enqueued, Tracked(action[f]), Policy = "BUFFERS",
               action[f].out # "IS_XFER"
        PROVE  Covers(lastAction_[action[f].stream], f)'
    <3> DEFINE r == action[f].stream
    <3>1. r \in Streams /\ Covers(lastAction_[r], f) /\ action'[f] = action[f]
      <4>1. action'[f] = action[f]
        BY <1>1, <2>7, SubmitEffects
      <4> QED
        BY <2>7, <4>1, EnqueuedRecord DEF Covered
    <3>2. lastAction_[r] \in Enqueued
      BY <3>1 DEF EventsAreEnqueued, Covers
    <3>3. CASE lastAction_'[r] = lastAction_[r]
      BY <2>3, <3>1, <3>2, <3>3
    <3>4. CASE lastAction_'[r] # lastAction_[r]
      <4>1. r = s /\ lastAction_'[r] = e /\ a.out \in {"IS_COMPUTE", "IS_BARRIER"}
        <5>1. Policy # "CONSERVATIVE"
          BY <2>7
        <5> QED
          BY <1>1, <3>1, <3>4, <5>1, OutputEffects
      <4>2. lastAction_[r] \in call[t].deps
        BY <2>2, <2>7, <3>1, <4>1 DEF getInputDeps, Covers, Shaped
      <4> QED
        BY <2>4, <3>1, <4>1, <4>2
    <3> QED
      BY <3>3, <3>4
  <2>8. ASSUME NEW f \in Enqueued, Tracked(action[f]), Policy = "BUFFERS",
               NEW b \in action[f].outs
        PROVE  Covers(pendingBufUpdates_[action[f].stream][b], f)'
    <3> DEFINE r == action[f].stream
               x == pendingBufUpdates_[r][b]
    <3>1. /\ r \in Streams /\ b \in Buffers /\ Covers(x, f) /\ action'[f] = action[f]
      <4>1. action'[f] = action[f]
        BY <1>1, <2>8, SubmitEffects
      <4> QED
        BY <2>8, <4>1, EnqueuedRecord DEF Covered
    <3>2. x \in Enqueued
      BY <3>1 DEF EventsAreEnqueued, Covers
    <3>3. CASE pendingBufUpdates_'[r][b] = x
      BY <2>3, <3>1, <3>2, <3>3
    <3>4. CASE pendingBufUpdates_'[r][b] # x
      <4>1. r = s /\ pendingBufUpdates_'[r][b] = e /\ b \in a.outs
        BY <1>1, <3>1, <3>4, OutputEffects
      <4>2. x \in call[t].deps
        BY <2>2, <2>8, <3>1, <4>1 DEF getInputDeps, Covers, Shaped
      <4> QED
        BY <2>4, <3>1, <4>1, <4>2
    <3> QED
      BY <3>3, <3>4
  <2>9. ASSUME a.out # "NONE"
        PROVE  /\ Policy = "CONSERVATIVE" => Covers(lastAction_[action[e].stream], e)'
               /\ Policy = "BUFFERS" =>
                    /\ a.out # "IS_XFER" => Covers(lastAction_[action[e].stream], e)'
                    /\ \A b \in a.outs :
                         Covers(pendingBufUpdates_[action[e].stream][b], e)'
    <3>1. action'[e] = a
      BY <1>1, SubmitEffects
    <3>2. Policy = "CONSERVATIVE" => lastAction_'[s] = e
      BY <1>1, <2>1, <2>9, OutputEffects
    <3>3. Policy = "BUFFERS" /\ a.out # "IS_XFER" => lastAction_'[s] = e
      BY <1>1, <2>1, <2>9, OutputEffects
    <3>4. Policy = "BUFFERS" => \A b \in a.outs : pendingBufUpdates_'[s][b] = e
      BY <1>1, <2>1, <2>9, OutputEffects
    <3> QED
      BY <2>5, <3>1, <3>2, <3>3, <3>4 DEF Covers
  <2> SUFFICES ASSUME NEW f \in Enqueued', Tracked(action'[f])
               PROVE  /\ Policy = "CONSERVATIVE" => Covers(lastAction_[action[f].stream], f)'
                      /\ Policy = "BUFFERS" =>
                           /\ Shaped(action'[f])
                           /\ action'[f].out # "IS_XFER" =>
                                Covers(lastAction_[action[f].stream], f)'
                           /\ \A b \in action'[f].outs :
                                Covers(pendingBufUpdates_[action[f].stream][b], f)'
    BY DEF Covered, Tracked, Promise!Tracked, Shaped
  <2>10. CASE f = e
    <3>1. action'[e] = a
      BY <1>1, SubmitEffects
    <3> QED
      BY <2>2, <2>9, <2>10, <3>1 DEF Tracked, Promise!Tracked
  <2>11. CASE f \in Enqueued
    <3>1. action'[f] = action[f] /\ Tracked(action[f])
      BY <1>1, <2>11, SubmitEffects
    <3>2. Policy = "BUFFERS" => Shaped(action[f])
      BY <2>11, <3>1 DEF Covered
    <3> QED
      BY <2>6, <2>7, <2>8, <2>11, <3>1, <3>2
  <2> QED
    BY <1>1, <2>10, <2>11, SubmitEffects
<1>2. ASSUME NEW e \in Events, Complete(e)  PROVE Covered'
  BY <1>2, CompleteEnqueued DEF Complete, Covered, Covers, stream, coi, Tracked,
     Promise!Tracked, Shaped
<1>3. CASE Steady
  BY <1>3, SteadyEnqueued DEF Steady, Covered, Covers, coi, Tracked, Promise!Tracked, Shaped
<1> QED
  BY <1>1, <1>2, <1>3, StepKinds

\* The events at all places of some logical streams stand for every tracked
\* action of the physical streams they use.
LEMMA AllEventsCover ==
  ASSUME TypeOK, Covered, Policy # "NONE", NEW L \in SUBSET LogStreams,
         NEW p \in Enqueued, Tracked(action[p]), action[p].stream \in PhysStreams(L)
  PROVE  \E x \in EventsAt(getAllEvents(L)) : Covers(x, p)
<1> DEFINE q == action[p]
<1>1. q.outs \subseteq Buffers
  BY EnqueuedRecord
<1>0. PICK l \in L : getPhysStream[l] = q.stream
  BY DEF PhysStreams
<1>2. CASE Policy = "CONSERVATIVE" \/ q.out # "IS_XFER"
  <2>1. Covers(lastAction_[q.stream], p)
    BY <1>2, PolicyAssumption DEF Covered
  <2>2. <<l, None>> \in getAllEvents(L)
    BY PolicyAssumption DEF getAllEvents
  <2>3. EventAt(<<l, None>>) = lastAction_[q.stream]
    BY <1>0 DEF EventAt
  <2> QED
    BY <2>1, <2>2, <2>3 DEF Covers, EventsAt
<1>3. CASE Policy = "BUFFERS" /\ q.out = "IS_XFER"
  <2>1. PICK b \in q.outs : Covers(pendingBufUpdates_[q.stream][b], p)
    BY <1>3 DEF Covered, Shaped
  <2>2. b # None
    BY <1>1
  <2>3. <<l, b>> \in getAllEvents(L)
    BY <1>0, <1>1, <1>3, <2>1 DEF getAllEvents, Covers
  <2>4. EventAt(<<l, b>>) = pendingBufUpdates_[q.stream][b]
    BY <1>0, <2>2 DEF EventAt
  <2> QED
    BY <2>1, <2>3, <2>4 DEF Covers, EventsAt
<1> QED
  BY <1>2, <1>3, PolicyAssumption

\* Steps preserve that what a synchronisation collected is enough.
LEMMA WaitIsSufficientNext ==
  ASSUME TypeOK, LocksHold, Covered, WaitIsSufficient, CountsFit, Policy # "NONE",
         [Next]_vars
  PROVE  WaitIsSufficient'
<1> SUFFICES ASSUME NEW u \in Threads, call'[u].pc \in {"waiting", "destroying"},
                    NEW f \in Enqueued', Tracked(action'[f]),
                    action'[f].stream \in call'[u].scope
             PROVE  \E x \in call'[u].deps : Covers(x, f)'
  BY DEF WaitIsSufficient, Tracked, Promise!Tracked
<1>1. CASE call'[u] = call[u]
  <2>1. ASSUME NEW t \in Threads, NEW e \in Events, Submits(t, e)  PROVE FALSE
    BY <1>1, <2>1 DEF Submits, LocksHold, Exclusive, Preparing
  <2>2. (\E e \in Events : Complete(e)) \/ Steady
    BY <2>1, StepKinds
  <2>3. Enqueued' = Enqueued /\ action' = action /\ after' = after
    BY <2>2, CompleteEnqueued, SteadyEnqueued DEF Complete, Steady, coi
  <2>4. PICK x \in call[u].deps : Covers(x, f)
    BY <1>1, <2>3 DEF WaitIsSufficient
  <2> QED
    BY <1>1, <2>3, <2>4 DEF Covers
<1>2. CASE call'[u] # call[u]
  <2> DEFINE LooksAtAll(L) ==
        /\ call'[u].scope = PhysStreams(L)
        /\ call'[u].deps = EventsAt(getAllEvents(L))
        /\ UNCHANGED <<coi, done>>
  <2>1. PICK L \in SUBSET LogStreams : LooksAtAll(L)
    <3>1. ASSUME NEW L \in SUBSET LogStreams, Synchronize(u, L)  PROVE LooksAtAll(L)
      <4>1. Blocks(u, "waiting", L)
        BY <3>1, SynchronizeBlocks
      <4> QED
        BY <3>1, <4>1, EveryPlace DEF Blocks, Synchronize
    <3>2. ASSUME NEW l \in LogStreams, StreamDestroy(u, l)  PROVE LooksAtAll({l})
      <4>1. Blocks(u, "destroying", {l})
        BY <3>2, DestroyBlocks
      <4> QED
        BY <3>2, <4>1, EveryPlace DEF Blocks, StreamDestroy
    <3>3. ASSUME NEW s \in Streams, enqueueFunction(u, s) \/ enqueueTransfer(u, s)
          PROVE  FALSE
      BY <3>3, EntryPc
    <3>4. ASSUME NEW s \in Streams, EventStreamWait(u, s)  PROVE FALSE
      BY <3>4, EntryPc
    <3>5. ASSUME Submit(u)  PROVE FALSE
      BY <3>5, SubmitPc
    <3>6. ASSUME Ends(u)  PROVE FALSE
      BY <3>6, EndIsNoCall DEF TypeOK, NoCall
    <3>7. ASSUME NEW b \in Buffers, DeAlloc(u, b)  PROVE FALSE
      BY <3>7 DEF DeAlloc, TypeOK, NoCall
    <3>8. \A l \in LogStreams : {l} \in SUBSET LogStreams
      OBVIOUS
    <3> HIDE DEF LooksAtAll
    <3> QED
      BY <1>2, <3>1, <3>2, <3>3, <3>4, <3>5, <3>6, <3>7, <3>8, CallSteps
  <2>2. f \in Enqueued /\ action'[f] = action[f] /\ Tracked(action[f])
    BY <2>1 DEF coi, Enqueued, Promise!Enqueued
  <2>3. PICK x \in EventsAt(getAllEvents(L)) : Covers(x, f)
    BY <2>1, <2>2, AllEventsCover
  <2> QED
    BY <2>1, <2>2, <2>3 DEF Covers, coi
<1> QED
  BY <1>1, <1>2

\* When the events a blocked call waits for are signalled, its streams are
\* quiet.
LEMMA WaitedForIsQuiet ==
  ASSUME HistoryIsExact, WaitIsSufficient, NEW t \in Threads,
         call[t].pc \in {"waiting", "destroying"}, call[t].deps \subseteq done
  PROVE  Promise!Quiet(call[t].scope)
<1> SUFFICES ASSUME NEW e \in Enqueued, action[e].stream \in call[t].scope,
                    Tracked(action[e])
             PROVE  e \in done
  BY DEF Promise!Quiet, Enqueued, Tracked
<1>1. PICK x \in call[t].deps : Covers(x, e)
  BY DEF WaitIsSufficient
<1> QED
  BY <1>1 DEF Covers, HistoryIsExact

\* Steps preserve that destroyed streams have no unfinished actions.
LEMMA DestroyedStreamIsQuietNext ==
  ASSUME TypeOK, CallsAreSound, HistoryIsExact, WaitIsSufficient,
         DestroyedStreamIsQuiet, [Next]_vars
  PROVE  DestroyedStreamIsQuiet'
<1> SUFFICES ASSUME NEW f \in Enqueued', action'[f].stream \in Streams \ alive',
                    Tracked(action'[f])
             PROVE  f \in done'
  BY DEF DestroyedStreamIsQuiet, Promise!Quiet, Enqueued, Tracked, Promise!Tracked
<1>1. ASSUME NEW e \in Enqueued, action[e].stream \in Streams \ alive, Tracked(action[e])
      PROVE  e \in done
  BY <1>1 DEF DestroyedStreamIsQuiet, Promise!Quiet, Enqueued, Tracked
<1>2. ASSUME NEW t \in Threads, StreamDestroyed(t)  PROVE f \in done'
  <2>1. /\ UNCHANGED <<coi, done>>
        /\ alive' = alive \ call[t].scope
        /\ call[t].pc \in {"waiting", "destroying"}
        /\ call[t].deps \subseteq done
    BY <1>2, AliveSteps DEF StreamDestroyed
  <2>2. f \in Enqueued /\ action'[f] = action[f]
    BY <2>1 DEF coi, Enqueued, Promise!Enqueued
  <2>3. CASE action[f].stream \in call[t].scope
    BY <2>1, <2>2, <2>3, WaitedForIsQuiet DEF Promise!Quiet, Enqueued, Tracked
  <2>4. CASE action[f].stream \notin call[t].scope
    BY <1>1, <2>1, <2>2, <2>4
  <2> QED
    BY <2>3, <2>4
<1>3. CASE alive' = alive
  <2>1. CASE f \in Enqueued
    BY <1>1, <1>3, <2>1, KnownActions
  <2>2. CASE f \notin Enqueued
    <3>1. PICK t \in Threads, e \in Events : Submits(t, e)
      BY <2>2, StepKinds, CompleteEnqueued, SteadyEnqueued
    <3>2. f = e /\ action'[f].stream = call[t].act.stream
      BY <2>2, <3>1, SubmitEffects
    <3> QED
      BY <1>3, <3>1, <3>2 DEF CallsAreSound, SoundCall, Submits
  <2> QED
    BY <2>1, <2>2
<1> QED
  BY <1>2, <1>3, Lifetimes

-----------------------------------------------------------------------------
(* The order of actions: theorems.                                         *)

\* The invariant holds initially.
LEMMA InitOrderInv == Init => OrderInv
<1> SUFFICES ASSUME Init  PROVE OrderInv
  OBVIOUS
<1>1. TypeOK
  BY InitTypeOK
<1>2. Enqueued = {}
  BY DEF Init, Enqueued, Promise!Enqueued, Unused
<1>3. \A t \in Threads : call[t].pc = "idle"
  BY DEF Init, NoCall
<1> QED
  BY <1>1, <1>2, <1>3
  DEF OrderInv, LocksHold, Exclusive, CallsAreSound, SoundCall, Preparing,
      EventsAreEnqueued, HistoryIsExact, Covered, DepsStillCurrent, WaitIsSufficient,
      ConflictOrder, DestroyedStreamIsQuiet, Promise!Quiet, Enqueued, Init

\* Every step preserves the invariant.
LEMMA NextOrderInv ==
  ASSUME WaitsAreExclusive, Policy # "NONE"
  PROVE  OrderInv /\ [Next]_vars => OrderInv'
  BY NextTypeOK, LocksHoldNext, CallsAreSoundNext, EventsAreEnqueuedNext,
     HistoryIsExactNext, CoveredNext, DepsStillCurrentNext, WaitIsSufficientNext,
     ConflictOrderNext, DestroyedStreamIsQuietNext
  DEF OrderInv

\* The stream keeps the order it promises: when EventStreamWait is not used on
\* a stream other threads enqueue into, every action comes to depend, through
\* the few events the stream remembers, on all the earlier ones it must follow.
THEOREM Ordered ==
  ASSUME WaitsAreExclusive, Policy # "NONE"
  PROVE  Spec => []ConflictOrder
<1>1. OrderInv => ConflictOrder
  BY DEF OrderInv
<1> QED
  BY <1>1, InitOrderInv, NextOrderInv, PTL DEF Spec

\* A synchronisation that has seen its events signalled finds its streams
\* quiet, although it looked at a few events only; as long as there is room in
\* the count for all of those.
THEOREM Synchronized ==
  ASSUME WaitsAreExclusive, Policy # "NONE", CountsFit
  PROVE  Spec => []SyncCoversStreams
<1>1. OrderInv => SyncCoversStreams
  BY WaitedForIsQuiet DEF OrderInv, SyncCoversStreams
<1> QED
  BY <1>1, InitOrderInv, NextOrderInv, PTL DEF Spec

\* No action of a destroyed stream is left to run, under the same conditions.
THEOREM QuietAfterDestruction ==
  ASSUME WaitsAreExclusive, Policy # "NONE", CountsFit
  PROVE  Spec => []DestroyedStreamIsQuiet
<1>1. OrderInv => DestroyedStreamIsQuiet
  BY DEF OrderInv
<1> QED
  BY <1>1, InitOrderInv, NextOrderInv, PTL DEF Spec

-----------------------------------------------------------------------------
(* PhysStream implements StreamPromise.                                    *)

\* A thread leaves a synchronisation only by returning or giving up.
LEMMA EndOfWait ==
  ASSUME TypeOK, [Next]_vars, NEW u \in Threads, call[u].pc = "waiting", call'[u] # call[u]
  PROVE  SynchronizeReturns(u) \/ SynchronizeTimesOut(u)
<1>1. ASSUME NEW s \in Streams, enqueueFunction(u, s) \/ enqueueTransfer(u, s)  PROVE FALSE
  BY <1>1, EnqueueRecords DEF Lock
<1>2. ASSUME NEW s \in Streams, EventStreamWait(u, s)  PROVE FALSE
  BY <1>2, WaitGuard
<1>3. ASSUME \/ Submit(u)
             \/ \E L \in SUBSET LogStreams : Synchronize(u, L)
             \/ \E l \in LogStreams : StreamDestroy(u, l)
             \/ \E b \in Buffers : DeAlloc(u, b)
      PROVE  FALSE
  BY <1>3 DEF Submit, Synchronize, StreamDestroy, DeAlloc, ExclusiveAccess
<1> QED
  BY <1>1, <1>2, <1>3, CallSteps
  DEF Ends, SubmitFails, addPendingActions, SubmitWait, WaitFails, StreamDestroyed,
      BufferDestroyed

\* The streams each thread is blocked on, as StreamPromise sees them.
scopes == [t \in Threads |-> IF call[t].pc = "waiting" THEN call[t].scope ELSE {}]

\* Only synchronisations change what the threads wait for.
LEMMA ScopeSteps ==
  ASSUME TypeOK, [Next]_vars
  PROVE  \/ scopes' = scopes
         \/ \E t \in Threads : \/ \E L \in SUBSET LogStreams : Synchronize(t, L)
                               \/ SynchronizeReturns(t) \/ SynchronizeTimesOut(t)
<1> SUFFICES ASSUME NEW u \in Threads, scopes'[u] # scopes[u]
             PROVE  \/ \E L \in SUBSET LogStreams : Synchronize(u, L)
                    \/ SynchronizeReturns(u) \/ SynchronizeTimesOut(u)
  BY DEF scopes
<1>1. call'[u] # call[u]
  BY DEF scopes
<1>2. CASE call[u].pc = "waiting"
  BY <1>1, <1>2, EndOfWait
<1>3. CASE call[u].pc # "waiting"
  <2>1. call'[u].pc = "waiting"
    BY <1>3 DEF scopes
  <2>2. ASSUME NEW s \in Streams, enqueueFunction(u, s) \/ enqueueTransfer(u, s)
        PROVE  FALSE
    BY <2>1, <2>2, EntryPc
  <2>3. ASSUME NEW s \in Streams, EventStreamWait(u, s)  PROVE FALSE
    BY <2>1, <2>3, EntryPc
  <2>4. ~ Submit(u)
    BY <2>1, SubmitPc
  <2>5. ASSUME NEW l \in LogStreams, StreamDestroy(u, l)  PROVE FALSE
    BY <2>1, <2>5, DestroyBlocks DEF Blocks
  <2>6. ASSUME NEW b \in Buffers, DeAlloc(u, b)  PROVE FALSE
    BY <2>1, <2>6 DEF DeAlloc, TypeOK, NoCall
  <2>7. ~ Ends(u)
    BY <2>1, EndIsNoCall DEF TypeOK, NoCall
  <2> QED
    BY <1>1, <2>2, <2>3, <2>4, <2>5, <2>6, <2>7, CallSteps
<1> QED
  BY <1>2, <1>3

\* Whatever precedes an action that may run has run.
LEMMA RunnableAfter ==
  ASSUME HistoryIsExact, NEW e \in Enqueued, deps[e] \subseteq done
  PROVE  after[e] \subseteq done
<1>1. \A d \in done : after[d] \subseteq done
  BY DEF HistoryIsExact
<1>2. after[e] = deps[e] \cup UNION {after[d] : d \in deps[e]}
  BY DEF HistoryIsExact
<1> QED
  BY <1>1, <1>2

\* Initial states are initial states of the promise.
LEMMA InitPromise == Init => Promise!Init
  BY DEF Init, Promise!Init, NoCall, Unused, Promise!Unused

\* Every step is one of the promise or none.
LEMMA NextPromise ==
  ASSUME OrderInv, OrderInv', CountsFit, Policy # "NONE", [Next]_vars
  PROVE  [Promise!Next]_Promise!vars
<1> USE DEF OrderInv
<1>1. ASSUME NEW t \in Threads, NEW e \in Events, Submits(t, e), scopes' = scopes
      PROVE  Promise!Enqueue(e)
  <2> DEFINE a == call[t].act
  <2>1. a \in Record /\ action[e] = Unused /\ action' = [action EXCEPT ![e] = a]
    BY <1>1, SubmitEffects DEF Submits, COISubmit
  <2>2. action'[e] = a
    BY <2>1 DEF TypeOK
  <2>3. prior' = [prior EXCEPT ![e] = {p \in Enqueued : action[p].stream = a.stream}]
    BY <1>1 DEF Submits, COISubmit
  <2>4. done' = done /\ a.events \subseteq Enqueued
    BY <1>1 DEF Submits, CallsAreSound, SoundCall
  <2> QED
    BY <1>1, <2>1, <2>2, <2>3, <2>4 DEF Promise!Enqueue, Record, Enqueued, Unused, scopes
<1>2. ASSUME NEW e \in Events, Complete(e), scopes' = scopes  PROVE Promise!Execute(e)
  <2>1. after[e] \subseteq done /\ action[e].events \subseteq done
    BY <1>2, RunnableAfter DEF Complete, EventsAreEnqueued
  <2> QED
    BY <1>2, <2>1 DEF Complete, Promise!Execute, ConflictOrder, Enqueued, coi, scopes
<1>3. ASSUME Steady, scopes' = scopes  PROVE UNCHANGED Promise!vars
  BY <1>3 DEF Steady, coi, Promise!vars, scopes
<1>4. ASSUME NEW t \in Threads, NEW L \in SUBSET LogStreams, Synchronize(t, L)
      PROVE  PhysStreams(L) \in SUBSET Streams /\ Promise!Synchronize(t, PhysStreams(L))
  <2>1. /\ call'[t].pc = "waiting" /\ call'[t].scope = PhysStreams(L)
        /\ \A u \in Threads \ {t} : call'[u] = call[u]
    BY <1>4, SynchronizeBlocks DEF Blocks
  <2>2. scopes' = [scopes EXCEPT ![t] = PhysStreams(L)] /\ scopes[t] = {}
    BY <1>4, <2>1 DEF Synchronize, ExclusiveAccess, scopes
  <2> QED
    BY <1>4, <2>2, PhysStreamsType DEF Synchronize, Promise!Synchronize, scopes, coi
<1>5. ASSUME NEW t \in Threads, SynchronizeReturns(t) \/ SynchronizeTimesOut(t)
      PROVE  Promise!Return(t)
  <2>1. /\ call[t].pc = "waiting" /\ call' = [call EXCEPT ![t] = NoCall]
        /\ UNCHANGED <<coi, done>>
    BY <1>5 DEF SynchronizeReturns, SynchronizeTimesOut, FinishSynchronize
  <2>2. scopes' = [scopes EXCEPT ![t] = {}] /\ scopes[t] = call[t].scope
    BY <2>1 DEF scopes, TypeOK, NoCall
  <2>3. Promise!Quiet(scopes[t]) \/ FiniteTimeOut
    BY <1>5, <2>1, <2>2, WaitedForIsQuiet
    DEF SynchronizeReturns, SynchronizeTimesOut, FinishSynchronize
  <2> QED
    BY <2>1, <2>3, <2>2 DEF Promise!Return, scopes, coi
<1> QED
  BY <1>1, <1>2, <1>3, <1>4, <1>5, StepKinds, ScopeSteps DEF Promise!Next

\* A physical stream keeps the promise of StreamPromise: whatever is submitted
\* executes in the order promised, and a synchronisation that returns without
\* giving up leaves its streams quiet.
THEOREM Refinement ==
  ASSUME WaitsAreExclusive, Policy # "NONE", CountsFit
  PROVE  Spec => ImplementsPromise
<1>1. OrderInv /\ OrderInv' /\ [Next]_vars => [Promise!Next]_Promise!vars
  BY NextPromise
<1> QED
  BY <1>1, InitOrderInv, NextOrderInv, InitPromise, PTL DEF Spec, ImplementsPromise, Promise!Spec

-----------------------------------------------------------------------------
(* The life of buffers.                                                    *)

\* A submitted action is registered with its buffers before its thread does
\* anything else.
LEMMA EndOfSubmitted ==
  ASSUME TypeOK, [Next]_vars, NEW u \in Threads, call[u].pc = "submitted", call'[u] # call[u]
  PROVE  addPendingActions(u)
<1>1. ASSUME NEW s \in Streams, enqueueFunction(u, s) \/ enqueueTransfer(u, s)  PROVE FALSE
  BY <1>1, EnqueueRecords DEF Lock
<1>2. ASSUME NEW s \in Streams, EventStreamWait(u, s)  PROVE FALSE
  BY <1>2, WaitGuard
<1>3. ASSUME \/ Submit(u)
             \/ \E L \in SUBSET LogStreams : Synchronize(u, L)
             \/ \E l \in LogStreams : StreamDestroy(u, l)
             \/ \E b \in Buffers : DeAlloc(u, b)
      PROVE  FALSE
  BY <1>3 DEF Submit, Synchronize, StreamDestroy, DeAlloc, ExclusiveAccess
<1> QED
  BY <1>1, <1>2, <1>3, CallSteps
  DEF Ends, SubmitFails, SubmitWait, WaitFails, SynchronizeReturns, SynchronizeTimesOut,
      FinishSynchronize, StreamDestroyed, BufferDestroyed

\* A buffer forgets completed actions only, and everything when it is created.
LEMMA PendingSteps ==
  ASSUME TypeOK, [Next]_vars, NEW b \in live
  PROVE  pending_actions_[b] \ done \subseteq pending_actions_'[b]
<1>1. b \in Buffers
  BY DEF TypeOK
<1>2. ASSUME NEW t \in Threads, addPendingActions(t)
      PROVE  pending_actions_[b] \ done \subseteq pending_actions_'[b]
  BY <1>1, <1>2 DEF addPendingActions
<1>3. ASSUME NEW c \in Buffers, Alloc1D(c)  PROVE pending_actions_'[b] = pending_actions_[b]
  BY <1>1, <1>3 DEF Alloc1D, TypeOK
<1>4. ASSUME NEW t \in Threads, NEW s \in Streams,
             enqueueFunction(t, s) \/ enqueueTransfer(t, s)
      PROVE  pending_actions_' = pending_actions_
  BY <1>4, EnqueueRecords DEF Lock, buffers
<1>5. ASSUME NEW t \in Threads, NEW s \in Streams, EventStreamWait(t, s)
      PROVE  pending_actions_' = pending_actions_
  BY <1>5, WaitGuard DEF buffers
<1>6. ASSUME NEW t \in Threads,
             \/ Submit(t) \/ SubmitFails(t) \/ SubmitWait(t) \/ WaitFails(t)
             \/ SynchronizeReturns(t) \/ SynchronizeTimesOut(t)
             \/ StreamDestroyed(t) \/ BufferDestroyed(t)
      PROVE  pending_actions_' = pending_actions_
  BY <1>6 DEF Submit, SubmitFails, SubmitWait, WaitFails, SynchronizeReturns,
     SynchronizeTimesOut, FinishSynchronize, StreamDestroyed, BufferDestroyed, buffers
<1>7. ASSUME NEW t \in Threads, NEW L, Synchronize(t, L)
      PROVE  pending_actions_' = pending_actions_
  BY <1>7 DEF Synchronize, buffers
<1>8. ASSUME NEW t \in Threads, NEW l \in LogStreams, StreamDestroy(t, l)
      PROVE  pending_actions_' = pending_actions_
  BY <1>8 DEF StreamDestroy, buffers
<1>9. ASSUME NEW t \in Threads, NEW c \in Buffers, DeAlloc(t, c)
      PROVE  pending_actions_' = pending_actions_
  BY <1>9 DEF DeAlloc, buffers
<1>10. ASSUME NEW e \in Events, Complete(e)  PROVE pending_actions_' = pending_actions_
  BY <1>10 DEF Complete, buffers
<1>11. CASE UNCHANGED vars
  BY <1>11 DEF vars, buffers
<1>12. ASSUME NEW l, StreamDetach(l)  PROVE pending_actions_' = pending_actions_
  BY <1>12 DEF StreamDetach, buffers
<1> QED
  BY <1>2, <1>3, <1>4, <1>5, <1>6, <1>7, <1>8, <1>9, <1>10, <1>11, <1>12
  DEF Next, ThreadStep, StreamSynchronize, ThreadSynchronize

\* Steps preserve that a buffer, or a thread about to tell it, knows its unfinished uses.
LEMMA UsesAreRememberedNext ==
  ASSUME TypeOK, CallsAreSound, EventsAreEnqueued, UsesAreRemembered, FreeingIsSufficient,
         [Next]_vars
  PROVE  UsesAreRemembered'
<1> SUFFICES ASSUME NEW f \in Enqueued', f \notin done',
                    action'[f].op \in {"compute", "transfer"}, NEW b \in action'[f].ins
             PROVE  /\ b \in live'
                    /\ \/ f \in pending_actions_'[b]
                       \/ \E t \in Threads : call'[t].pc = "submitted" /\ call'[t].event = f
  BY DEF UsesAreRemembered
<1>1. CASE f \notin Enqueued
  <2>1. PICK t \in Threads, e \in Events : Submits(t, e)
    BY <1>1, StepKinds, CompleteEnqueued, SteadyEnqueued
  <2>2. f = e /\ action'[f] = call[t].act
    <3>1. Enqueued' = Enqueued \cup {e} /\ action'[e] = call[t].act
      BY <2>1, SubmitEffects
    <3> QED
      BY <1>1, <3>1
  <2>3. call[t].pc = "locked"
    BY <2>1, <2>2 DEF Submits, Preparing, CallsAreSound, SoundCall
  <2>4. call[t].act.ins \subseteq live
    BY <2>3 DEF CallsAreSound, SoundCall
  <2> QED
    BY <2>1, <2>2, <2>3, <2>4 DEF Submits
<1>2. CASE f \in Enqueued
  <2>1. action'[f] = action[f] /\ f \notin done
    BY <1>2, KnownActions
  <2>2. /\ b \in live
        /\ \/ f \in pending_actions_[b]
           \/ \E t \in Threads : call[t].pc = "submitted" /\ call[t].event = f
    BY <1>2, <2>1 DEF UsesAreRemembered
  <2>3. b \in live'
    <3>1. ASSUME NEW t \in Threads, BufferDestroyed(t)  PROVE b \notin call[t].buffer
      <4>1. f \notin call[t].deps
        BY <2>1, <3>1 DEF BufferDestroyed
      <4> QED
        BY <1>2, <2>1, <3>1, <4>1 DEF FreeingIsSufficient, BufferDestroyed
    <3> QED
      BY <2>2, <3>1, Lifetimes DEF BufferDestroyed
  <2>4. CASE f \in pending_actions_[b]
    BY <2>1, <2>2, <2>3, <2>4, PendingSteps
  <2>5. ASSUME NEW t \in Threads, call[t].pc = "submitted", call[t].event = f
        PROVE  \/ f \in pending_actions_'[b]
               \/ \E u \in Threads : call'[u].pc = "submitted" /\ call'[u].event = f
    <3>1. CASE call'[t] = call[t]
      BY <2>5, <3>1
    <3>2. CASE call'[t] # call[t]
      <4>1. addPendingActions(t)
        BY <2>5, <3>2, EndOfSubmitted
      <4>2. b \in call[t].act.ins
        BY <2>1, <2>5 DEF CallsAreSound, SoundCall
      <4> QED
        BY <2>2, <2>5, <4>1, <4>2 DEF addPendingActions, TypeOK
    <3> QED
      BY <3>1, <3>2
  <2> QED
    BY <2>2, <2>3, <2>4, <2>5
<1> QED
  BY <1>1, <1>2

\* Steps preserve that DeAlloc waits for every use.
LEMMA FreeingIsSufficientNext ==
  ASSUME TypeOK, LocksHold, UsesAreRemembered, FreeingIsSufficient, [Next]_vars
  PROVE  FreeingIsSufficient'
<1> SUFFICES ASSUME NEW u \in Threads, call'[u].pc = "freeing",
                    NEW f \in Enqueued', f \notin done',
                    action'[f].op \in {"compute", "transfer"},
                    action'[f].ins \cap call'[u].buffer # {}
             PROVE  f \in call'[u].deps
  BY DEF FreeingIsSufficient
<1>1. CASE call'[u] = call[u]
  <2>1. ASSUME NEW t \in Threads, NEW e \in Events, Submits(t, e)  PROVE FALSE
    BY <1>1, <2>1 DEF Submits, LocksHold, Exclusive, Preparing
  <2>2. Enqueued' = Enqueued
    BY <2>1, StepKinds, CompleteEnqueued, SteadyEnqueued
  <2> QED
    BY <1>1, <2>2, KnownActions DEF FreeingIsSufficient
<1>2. CASE call'[u] # call[u]
  <2>1. PICK b \in Buffers : DeAlloc(u, b)
    <3>1. ASSUME NEW s \in Streams, enqueueFunction(u, s) \/ enqueueTransfer(u, s)
          PROVE  FALSE
      BY <3>1, EntryPc
    <3>2. ASSUME NEW s \in Streams, EventStreamWait(u, s)  PROVE FALSE
      BY <3>2, EntryPc
    <3>3. ~ Submit(u)
      BY SubmitPc
    <3>4. ~ Ends(u)
      BY EndIsNoCall DEF TypeOK, NoCall
    <3>5. ASSUME NEW L \in SUBSET LogStreams, Synchronize(u, L)  PROVE FALSE
      BY <3>5, SynchronizeBlocks DEF Blocks
    <3>6. ASSUME NEW l \in LogStreams, StreamDestroy(u, l)  PROVE FALSE
      BY <3>6, DestroyBlocks DEF Blocks
    <3> QED
      BY <1>2, <3>1, <3>2, <3>3, <3>4, <3>5, <3>6, CallSteps
  <2>2. /\ call'[u].buffer = {b} /\ call'[u].deps = pending_actions_[b]
        /\ UNCHANGED <<coi, done>>
        /\ ExclusiveAccess
    BY <2>1 DEF DeAlloc, TypeOK, NoCall
  <2>3. f \in Enqueued /\ action'[f] = action[f] /\ b \in action[f].ins /\ f \notin done
    BY <2>2 DEF coi, Enqueued, Promise!Enqueued
  <2> QED
    BY <2>2, <2>3 DEF UsesAreRemembered, ExclusiveAccess
<1> QED
  BY <1>1, <1>2

\* The invariant of the buffers holds initially.
LEMMA InitBufferInv == Init => BufferInv
  BY InitOrderInv
  DEF BufferInv, OrderInv, UsesAreRemembered, FreeingIsSufficient, Init, NoCall,
      Enqueued, Promise!Enqueued, Unused

\* Every step preserves the invariant of the buffers.
LEMMA NextBufferInv == BufferInv /\ [Next]_vars => BufferInv'
  BY NextTypeOK, LocksHoldNext, CallsAreSoundNext, EventsAreEnqueuedNext,
     UsesAreRememberedNext, FreeingIsSufficientNext
  DEF BufferInv

\* No buffer disappears before the computes and transfers that use it have run,
\* for any policy and whoever enqueues what where.
THEOREM BuffersOutlive == Spec => []BufferOutlivesItsActions
<1>1. BufferInv => BufferOutlivesItsActions
  BY DEF BufferInv, UsesAreRemembered, BufferOutlivesItsActions
<1> QED
  BY <1>1, InitBufferInv, NextBufferInv, PTL DEF Spec
=============================================================================
