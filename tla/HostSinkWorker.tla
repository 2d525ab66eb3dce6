--------------------------- MODULE HostSinkWorker ---------------------------
(***************************************************************************)
(* hStreams_PhysStreamHost and its hStreams_HostSideSinkWorker: computes   *)
(* on the host are put on a queue and executed by a thread of the stream,  *)
(* which waits for their input events and signals a user event when done.  *)
(*                                                                         *)
(* The enqueuing side is one process, the producer: PhysStream's lock_ and *)
(* the write lock of StreamDestroy serialise the threads that play it.     *)
(* Transfers of the same stream do not pass through the worker; COI runs   *)
(* them.  The queue's add and popFront run under its mutex_, which the     *)
(* condition variable gives up in the instant the worker goes to sleep, so *)
(* each is one step.  worker_status_ is read and written without any lock, *)
(* in steps of their own.                                                  *)
(***************************************************************************)
EXTENDS Integers, Sequences, FiniteSets

CONSTANTS
  MaxActions,  \* bound on the actions enqueued
  Failures     \* what may fail: "affinity", "exception", "wait", "signal"

ASSUME MaxActionsAssumption == MaxActions \in Nat

Actions == 1..MaxActions
STOP == 0

VARIABLES
  queue_,         \* the actions not yet taken by the worker
  worker,         \* where the worker thread is
  current,        \* the action it has taken
  worker_status_, \* HSTR_RESULT_SUCCESS or an error
  producer,       \* where the enqueuing thread is
  hand,           \* the action it is about to add, or STOP
  submitted,      \* the actions accepted, computes and transfers
  computes,       \* those that are computes
  deps,           \* the events each was submitted with
  signalled,      \* the completion events signalled so far
  executed,       \* history: the computes executed, in order
  faults          \* history: the failures that have occurred

workerVars == <<worker, current, worker_status_>>
vars == <<queue_, workerVars, producer, hand, submitted, computes, deps,
          signalled, executed, faults>>

TypeOK ==
  /\ queue_ \in Seq(Actions \cup {STOP})
  /\ worker \in {"starting", "awake", "asleep", "holding", "ready", "ran", "exited"}
  /\ current \in Actions \cup {STOP}
  /\ worker_status_ \in {"SUCCESS", "ERROR"}
  /\ producer \in {"idle", "adding", "stopping", "joining", "waiting", "destroyed"}
  /\ hand \in Actions \cup {STOP}
  /\ submitted \subseteq Actions /\ computes \subseteq submitted
  /\ deps \in [Actions -> SUBSET Actions]
  /\ signalled \subseteq Actions
  /\ executed \in Seq(Actions)
  /\ faults \subseteq Failures

-----------------------------------------------------------------------------
(* The producer.                                                           *)

\* Actions are numbered in the order in which they are enqueued; an action
\* depends on events of actions enqueued before it.
NextAction == Cardinality(submitted) + 1

Accept(a) ==
  /\ submitted' = submitted \cup {a}
  /\ \E D \in SUBSET submitted : deps' = [deps EXCEPT ![a] = D]

\* impl_enqueueFunction: register an event and check the worker's status.
enqueueFunction ==
  /\ producer = "idle"
  /\ NextAction \in Actions
  /\ worker_status_ = "SUCCESS"
  /\ Accept(NextAction)
  /\ computes' = computes \cup {NextAction}
  /\ hand' = NextAction
  /\ producer' = "adding"
  /\ UNCHANGED <<queue_, workerVars, signalled, executed, faults>>

enqueueTransfer ==
  /\ producer = "idle"
  /\ NextAction \in Actions
  /\ Accept(NextAction)
  /\ UNCHANGED <<queue_, workerVars, producer, hand, computes, signalled, executed, faults>>

\* Mutant: the condition variable is not signalled.
add_unsignalled ==
  /\ producer \in {"adding", "stopping"}
  /\ queue_' = Append(queue_, hand)
  /\ producer' = IF producer = "stopping" THEN "joining" ELSE "idle"
  /\ UNCHANGED <<workerVars, hand, submitted, computes, deps, signalled, executed, faults>>

add ==
  /\ producer \in {"adding", "stopping"}
  /\ queue_' = Append(queue_, hand)
  /\ worker' = IF worker = "asleep" THEN "awake" ELSE worker
  /\ producer' = IF producer = "stopping" THEN "joining" ELSE "idle"
  /\ UNCHANGED <<current, worker_status_, hand, submitted, computes, deps, signalled, executed, faults>>

\* ~HostSideSinkWorker puts the stop action, unless the worker has failed.
Destroy ==
  /\ producer = "idle"
  /\ hand' = STOP
  /\ producer' = IF worker_status_ = "SUCCESS" THEN "stopping" ELSE "joining"
  /\ UNCHANGED <<queue_, workerVars, submitted, computes, deps, signalled, executed, faults>>

\* Mutant: the thread is left to itself.
join_detaches ==
  /\ producer = "joining"
  /\ producer' = "waiting"
  /\ UNCHANGED <<queue_, workerVars, hand, submitted, computes, deps, signalled, executed, faults>>

join ==
  /\ producer = "joining"
  /\ worker = "exited"
  /\ producer' = "waiting"
  /\ UNCHANGED <<queue_, workerVars, hand, submitted, computes, deps, signalled, executed, faults>>

\* ~PhysStream waits for the stream's events.
Destroyed ==
  /\ producer = "waiting"
  /\ submitted \subseteq signalled
  /\ producer' = "destroyed"
  /\ UNCHANGED <<queue_, workerVars, hand, submitted, computes, deps, signalled, executed, faults>>

-----------------------------------------------------------------------------
(* The worker thread.                                                      *)

set_affinity ==
  /\ worker = "starting"
  /\ worker' = "awake"
  /\ UNCHANGED <<queue_, current, worker_status_, producer, hand, submitted, computes,
                 deps, signalled, executed, faults>>

\* popFront, and the choice by the action's type.
popFront ==
  /\ worker = "awake"
  /\ queue_ # <<>>
  /\ queue_' = Tail(queue_)
  /\ current' = Head(queue_)
  /\ worker' = IF Head(queue_) = STOP THEN "exited" ELSE "holding"
  /\ UNCHANGED <<worker_status_, producer, hand, submitted, computes, deps, signalled, executed, faults>>

\* hStreams_CondVar::wait.
wait ==
  /\ worker = "awake"
  /\ queue_ = <<>>
  /\ worker' = "asleep"
  /\ UNCHANGED <<queue_, current, worker_status_, producer, hand, submitted, computes,
                 deps, signalled, executed, faults>>

\* A condition variable may wake up for no reason; the loop looks again.
SpuriousWakeUp ==
  /\ worker = "asleep"
  /\ worker' = "awake"
  /\ UNCHANGED <<queue_, current, worker_status_, producer, hand, submitted, computes,
                 deps, signalled, executed, faults>>

\* Mutant: the worker waits for any of the events instead of all of them.
EventWait_any ==
  /\ worker = "holding"
  /\ deps[current] = {} \/ deps[current] \cap signalled # {}
  /\ worker' = "ready"
  /\ UNCHANGED <<queue_, current, worker_status_, producer, hand, submitted, computes,
                 deps, signalled, executed, faults>>

EventWait ==
  /\ worker = "holding"
  /\ deps[current] \subseteq signalled
  /\ worker' = "ready"
  /\ UNCHANGED <<queue_, current, worker_status_, producer, hand, submitted, computes,
                 deps, signalled, executed, faults>>

\* COIEventWait reports an error: the action is skipped, its event never signalled.
EventWaitFails ==
  /\ "wait" \in Failures
  /\ worker = "holding"
  /\ worker' = "awake"
  /\ faults' = faults \cup {"wait"}
  /\ UNCHANGED <<queue_, current, worker_status_, producer, hand, submitted, computes,
                 deps, signalled, executed>>

hStreamsThunk ==
  /\ worker = "ready"
  /\ worker' = "ran"
  /\ executed' = Append(executed, current)
  /\ UNCHANGED <<queue_, current, worker_status_, producer, hand, submitted, computes,
                 deps, signalled, faults>>

\* Mutant: the event is signalled before the function has run.
SignalUserEvent_early ==
  /\ worker \in {"ready", "ran"}
  /\ worker' = IF worker = "ready" THEN "ready" ELSE "awake"
  /\ signalled' = signalled \cup {current}
  /\ UNCHANGED <<queue_, current, worker_status_, producer, hand, submitted, computes,
                 deps, executed, faults>>

SignalUserEvent ==
  /\ worker = "ran"
  /\ worker' = "awake"
  /\ signalled' = signalled \cup {current}
  /\ UNCHANGED <<queue_, current, worker_status_, producer, hand, submitted, computes,
                 deps, executed, faults>>

SignalFails ==
  /\ "signal" \in Failures
  /\ worker = "ran"
  /\ worker' = "awake"
  /\ faults' = faults \cup {"signal"}
  /\ UNCHANGED <<queue_, current, worker_status_, producer, hand, submitted, computes,
                 deps, signalled, executed>>

-----------------------------------------------------------------------------
(* The end of the thread by an error.                                      *)

\* The affinity cannot be set; the exception is caught outside the loop.
WorkerFails ==
  /\ "affinity" \in Failures
  /\ worker = "starting"
  /\ worker' = "exited"
  /\ worker_status_' = "ERROR"
  /\ faults' = faults \cup {"affinity"}
  /\ UNCHANGED <<queue_, current, producer, hand, submitted, computes, deps, signalled, executed>>

\* An exception in the loop, from popFront or from the user's function, ends it
\* in the same handler.  The queue stays as it is, and so does the event of the
\* action in hand.
LoopThrows ==
  /\ "exception" \in Failures
  /\ worker \in {"awake", "ready"}
  /\ worker' = "exited"
  /\ worker_status_' = "ERROR"
  /\ faults' = faults \cup {"exception"}
  /\ UNCHANGED <<queue_, current, producer, hand, submitted, computes, deps, signalled, executed>>

-----------------------------------------------------------------------------
\* COI executes a transfer when its dependences are met.
CompleteTransfer(a) ==
  /\ a \in (submitted \ computes) \ signalled
  /\ deps[a] \subseteq signalled
  /\ signalled' = signalled \cup {a}
  /\ UNCHANGED <<queue_, workerVars, producer, hand, submitted, computes, deps, executed, faults>>

Init ==
  /\ queue_ = <<>>
  /\ worker = "starting"
  /\ current = STOP
  /\ worker_status_ = "SUCCESS"
  /\ producer = "idle"
  /\ hand = STOP
  /\ submitted = {}
  /\ computes = {}
  /\ deps = [a \in Actions |-> {}]
  /\ signalled = {}
  /\ executed = <<>>
  /\ faults = {}

ProducerReturns == add \/ join \/ Destroyed
WorkerProceeds ==
  set_affinity \/ popFront \/ wait \/ EventWait \/ hStreamsThunk \/ SignalUserEvent
WorkerErrs == WorkerFails \/ LoopThrows \/ EventWaitFails \/ SignalFails

Next ==
  \/ enqueueFunction \/ enqueueTransfer \/ Destroy \/ ProducerReturns
  \/ WorkerProceeds \/ WorkerErrs \/ SpuriousWakeUp
  \/ \E a \in Actions : CompleteTransfer(a)

Spec == Init /\ [][Next]_vars

\* A thread inside the library runs on, the user's function returns, and COI
\* executes transfers whose dependences are met.  Nothing has to fail.
Fairness ==
  /\ WF_vars(ProducerReturns)
  /\ WF_vars(WorkerProceeds)
  /\ \A a \in Actions : WF_vars(CompleteTransfer(a))

FairSpec == Spec /\ Fairness
-----------------------------------------------------------------------------
(* Properties.                                                             *)

EventSource == INSTANCE EventPromise

\* The stream with its worker is as good an executor of actions as COI: it
\* signals every event once and after the events it depends on, whatever fails,
\* and every event of an accepted action eventually as long as nothing fails.
ImplementsEventPromise ==
  /\ EventSource!Spec
  /\ [](faults = {}) => \A a \in Actions : EventSource!Fair(a)

\* A compute is executed once, in the order of enqueuing and after everything
\* it depends on, and no event is signalled before its action has executed;
\* a failed wait or signal breaks none of this.
ExecutedOnceInOrder ==
  /\ \A i, j \in 1..Len(executed) : i < j => executed[i] < executed[j]
  /\ \A i \in 1..Len(executed) : deps[executed[i]] \subseteq signalled
  /\ \A a \in computes \cap signalled : \E i \in 1..Len(executed) : executed[i] = a

\* When the destructor has joined the worker, the thread is gone.  If it went
\* because it was told to stop, nothing is left on the queue.  If it went with an
\* error, at its start, in popFront or in a user's function, what it leaves is
\* what is still queued and the action it had in hand: apart from actions skipped
\* because their wait failed, every other compute accepted has been executed.
JoinedMeansDrained ==
  producer \in {"waiting", "destroyed"} =>
    /\ worker = "exited"
    /\ worker_status_ = "SUCCESS" => queue_ = <<>>
    /\ "wait" \notin faults =>
         \A a \in computes :
           \/ \E i \in 1..Len(executed) : executed[i] = a
           \/ /\ worker_status_ = "ERROR"
              /\ a = current \/ \E i \in 1..Len(queue_) : queue_[i] = a

\* The stop action gets through and the stream's destruction comes to an end,
\* unless a failure has left an event unsignalled for ever.
DestructionEnds ==
  producer \in {"stopping", "joining", "waiting"} ~> producer = "destroyed" \/ faults # {}
=============================================================================
