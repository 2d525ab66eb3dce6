----------------------------- MODULE Lifecycle -----------------------------
(***************************************************************************)
(* Bringing the library up and down: hStreams_Init, hStreams_Fini and what *)
(* any other call does around them.                                        *)
(*                                                                         *)
(* Most API wrappers count the call for as long as it lasts, and the call  *)
(* then asks whether the library is initialised.  Fini announces           *)
(* itself by leaving the state INITIALIZED, waits for the count to drop to *)
(* zero, and takes the collections apart.  Init and Fini each have a lock  *)
(* of their own; neither takes the other's.                                *)
(*                                                                         *)
(* Every read and write of hStreamsState is one step, as are the counter's *)
(* atomic additions.  What Init builds is abstracted to the helper buffer  *)
(* of EventStreamWait and to the set of initialisations whose domains are  *)
(* in the collections; lookups find the oldest of those.  The nested call  *)
(* of hStreams_IsInitialized in Init only adds to a count that is already  *)
(* positive and is left out.                                               *)
(***************************************************************************)
EXTENDS Integers, FiniteSets

CONSTANTS
  Threads,       \* application threads
  Initializers,  \* the threads that call hStreams_Init
  Finalizers,    \* the threads that call hStreams_Fini
  Failures,      \* what may fail: "init", "fini"
  MaxCalls,      \* bound on the calls made
  None           \* no thread

ASSUME ThreadsAssumption == IsFiniteSet(Threads) /\ None \notin Threads

VARIABLES
  hStreamsState,  \* globals::hStreamsState
  callCounter,    \* hstr_proc.callCounter
  initLock,       \* holder of hstr_proc.hStreamsInitLock, or None
  finiLock,       \* holder of hstr_proc.hStreamsFiniLock, or None
  pc,             \* where each thread is
  domains,        \* the initialisations whose domains are in the collections
  dummy_buf,      \* whether the helper buffer exists
  inits,          \* initialisations attempted so far
  calls,          \* calls made so far
  failed          \* history: whether an Init or a Fini has failed

locks == <<initLock, finiLock>>
resources == <<domains, dummy_buf>>
bounds == <<inits, calls, failed>>
vars == <<hStreamsState, callCounter, locks, pc, resources, bounds>>

\* The places where a thread is inside a counted call.
\* Fini is not one of them.
InOperation == {"entered", "operating", "leaving"}
InInit == {"initEntered", "initLocked", "initChecked", "initGuarded",
           "initBuilt", "initReady"}
InFini == {"finiLocked", "finiChecked", "finiWaiting", "finiDrained",
           "finiBufferless", "finiEmptied"}
Counted == {t \in Threads : pc[t] \in InOperation \cup InInit}

TypeOK ==
  /\ hStreamsState \in {"UNINITIALIZED", "INITIALIZING", "INITIALIZED", "FINALIZING"}
  /\ callCounter \in Nat
  /\ initLock \in Threads \cup {None}
  /\ finiLock \in Threads \cup {None}
  /\ pc \in [Threads -> {"idle"} \cup InOperation \cup InInit \cup InFini]
  /\ domains \subseteq Nat
  /\ dummy_buf \in BOOLEAN
  /\ inits \in Nat
  /\ calls \in Nat
  /\ failed \in BOOLEAN

Goto(t, from, to) == pc[t] = from /\ pc' = [pc EXCEPT ![t] = to]

-----------------------------------------------------------------------------
(* Any other call of the library.                                          *)

\* HSTR_CORE_API_CALLCOUNTER: the scoped counter.
Count(t, to) ==
  /\ calls < MaxCalls
  /\ calls' = calls + 1
  /\ Goto(t, "idle", to)
  /\ callCounter' = callCounter + 1
  /\ UNCHANGED <<hStreamsState, locks, resources, inits, failed>>

Enter(t) == Count(t, "entered")

\* Mutant: the call does not ask.
IsInitialized_unasked(t) ==
  /\ Goto(t, "entered", "operating")
  /\ UNCHANGED <<hStreamsState, callCounter, locks, resources, bounds>>

IsInitialized(t) ==
  /\ hStreamsState = "INITIALIZED"
  /\ Goto(t, "entered", "operating")
  /\ UNCHANGED <<hStreamsState, callCounter, locks, resources, bounds>>

NotInitialized(t) ==
  /\ hStreamsState # "INITIALIZED"
  /\ Goto(t, "entered", "leaving")
  /\ UNCHANGED <<hStreamsState, callCounter, locks, resources, bounds>>

\* A call that needs no library, or that is for before it is initialised.
Indifferent(t) ==
  /\ Goto(t, "entered", "leaving")
  /\ UNCHANGED <<hStreamsState, callCounter, locks, resources, bounds>>

\* The work of the call, on the collections and through them on COI.
OperationDone(t) ==
  /\ Goto(t, "operating", "leaving")
  /\ UNCHANGED <<hStreamsState, callCounter, locks, resources, bounds>>

Leave(t) ==
  /\ Goto(t, "leaving", "idle")
  /\ callCounter' = callCounter - 1
  /\ UNCHANGED <<hStreamsState, locks, resources, bounds>>

-----------------------------------------------------------------------------
(* hStreams_Init.                                                          *)

InitEnter(t) == t \in Initializers /\ Count(t, "initEntered")

LockInit(t) ==
  /\ initLock = None
  /\ Goto(t, "initEntered", "initLocked")
  /\ initLock' = t
  /\ UNCHANGED <<hStreamsState, callCounter, finiLock, resources, bounds>>

\* Already initialised: a redundant call.
InitRedundant(t) ==
  /\ hStreamsState = "INITIALIZED"
  /\ Goto(t, "initLocked", "leaving")
  /\ initLock' = None
  /\ UNCHANGED <<hStreamsState, callCounter, finiLock, resources, bounds>>

InitNeeded(t) ==
  /\ hStreamsState # "INITIALIZED"
  /\ Goto(t, "initLocked", "initChecked")
  /\ UNCHANGED <<hStreamsState, callCounter, locks, resources, bounds>>

\* hStreamsStateGuard's constructor.
StateGuard(t) ==
  /\ inits' = inits + 1
  /\ Goto(t, "initChecked", "initGuarded")
  /\ hStreamsState' = "INITIALIZING"
  /\ UNCHANGED <<callCounter, locks, resources, calls, failed>>

BuildDomains(t) ==
  /\ Goto(t, "initGuarded", "initBuilt")
  /\ domains' = domains \cup {inits}
  /\ UNCHANGED <<hStreamsState, callCounter, locks, dummy_buf, bounds>>

CreateDummyBuffer(t) ==
  /\ Goto(t, "initBuilt", "initReady")
  /\ dummy_buf' = TRUE
  /\ UNCHANGED <<hStreamsState, callCounter, locks, domains, bounds>>

\* The guard's destructor runs first, then the lock's.
InitSucceeds(t) ==
  /\ Goto(t, "initReady", "leaving")
  /\ hStreamsState' = "INITIALIZED"
  /\ initLock' = None
  /\ UNCHANGED <<callCounter, finiLock, resources, bounds>>

\* An exception leaves what has been added to the collections where it is.
InitFails(t) ==
  /\ "init" \in Failures
  /\ pc[t] \in {"initGuarded", "initBuilt"}
  /\ pc' = [pc EXCEPT ![t] = "leaving"]
  /\ hStreamsState' = "UNINITIALIZED"
  /\ initLock' = None
  /\ failed' = TRUE
  /\ UNCHANGED <<callCounter, finiLock, resources, inits, calls>>

-----------------------------------------------------------------------------
(* hStreams_Fini, the one call that is not counted.                        *)

\* Mutant: it is counted like the others.
FiniEnter_counted(t) ==
  /\ t \in Finalizers
  /\ calls < MaxCalls
  /\ calls' = calls + 1
  /\ finiLock = None
  /\ Goto(t, "idle", "finiLocked")
  /\ finiLock' = t
  /\ callCounter' = callCounter + 1
  /\ UNCHANGED <<hStreamsState, initLock, resources, inits, failed>>

FiniEnter(t) ==
  /\ t \in Finalizers
  /\ calls < MaxCalls
  /\ calls' = calls + 1
  /\ finiLock = None
  /\ Goto(t, "idle", "finiLocked")
  /\ finiLock' = t
  /\ UNCHANGED <<hStreamsState, callCounter, initLock, resources, inits, failed>>

FiniRefused(t) ==
  /\ hStreamsState # "INITIALIZED"
  /\ Goto(t, "finiLocked", "idle")
  /\ finiLock' = None
  /\ UNCHANGED <<hStreamsState, callCounter, initLock, resources, bounds>>

FiniAccepted(t) ==
  /\ hStreamsState = "INITIALIZED"
  /\ Goto(t, "finiLocked", "finiChecked")
  /\ UNCHANGED <<hStreamsState, callCounter, locks, resources, bounds>>

SetFinalizing(t) ==
  /\ Goto(t, "finiChecked", "finiWaiting")
  /\ hStreamsState' = "FINALIZING"
  /\ UNCHANGED <<callCounter, locks, resources, bounds>>

\* Mutant: one call may still be inside.
CallsDrained_butOne(t) ==
  /\ callCounter <= 1
  /\ Goto(t, "finiWaiting", "finiDrained")
  /\ UNCHANGED <<hStreamsState, callCounter, locks, resources, bounds>>

CallsDrained(t) ==
  /\ callCounter <= 0
  /\ Goto(t, "finiWaiting", "finiDrained")
  /\ UNCHANGED <<hStreamsState, callCounter, locks, resources, bounds>>

DestroyDummyBuffer(t) ==
  /\ Goto(t, "finiDrained", "finiBufferless")
  /\ dummy_buf' = FALSE
  /\ UNCHANGED <<hStreamsState, callCounter, locks, domains, bounds>>

\* COIBufferDestroy fails: the exception leaves the state FINALIZING.
FiniFails(t) ==
  /\ "fini" \in Failures
  /\ Goto(t, "finiDrained", "idle")
  /\ finiLock' = None
  /\ failed' = TRUE
  /\ UNCHANGED <<hStreamsState, callCounter, initLock, resources, inits, calls>>

\* Mutant: the physical domains stay.
DestroyCollections_partly(t) ==
  /\ Goto(t, "finiBufferless", "finiEmptied")
  /\ UNCHANGED <<hStreamsState, callCounter, locks, resources, bounds>>

\* Buffers, streams, logical and physical domains, the options.
DestroyCollections(t) ==
  /\ Goto(t, "finiBufferless", "finiEmptied")
  /\ domains' = {}
  /\ UNCHANGED <<hStreamsState, callCounter, locks, dummy_buf, bounds>>

FiniDone(t) ==
  /\ Goto(t, "finiEmptied", "idle")
  /\ hStreamsState' = "UNINITIALIZED"
  /\ finiLock' = None
  /\ UNCHANGED <<callCounter, initLock, resources, bounds>>

-----------------------------------------------------------------------------
Init ==
  /\ hStreamsState = "UNINITIALIZED"
  /\ callCounter = 0
  /\ initLock = None
  /\ finiLock = None
  /\ pc = [t \in Threads |-> "idle"]
  /\ domains = {}
  /\ dummy_buf = FALSE
  /\ inits = 0
  /\ calls = 0
  /\ failed = FALSE

OperationStep(t) ==
  \/ IsInitialized(t) \/ NotInitialized(t) \/ Indifferent(t)
  \/ OperationDone(t) \/ Leave(t)
InitStep(t) ==
  \/ LockInit(t) \/ InitRedundant(t) \/ InitNeeded(t) \/ StateGuard(t)
  \/ BuildDomains(t) \/ CreateDummyBuffer(t) \/ InitSucceeds(t) \/ InitFails(t)
FiniStep(t) ==
  \/ FiniRefused(t) \/ FiniAccepted(t) \/ SetFinalizing(t) \/ CallsDrained(t)
  \/ DestroyDummyBuffer(t) \/ FiniFails(t) \/ DestroyCollections(t) \/ FiniDone(t)

Next ==
  \E t \in Threads :
    \/ Enter(t) \/ InitEnter(t) \/ FiniEnter(t)
    \/ OperationStep(t) \/ InitStep(t) \/ FiniStep(t)

Spec == Init /\ [][Next]_vars

\* A thread inside the library keeps running; the work of a call ends.
Fairness ==
  \A t \in Threads : WF_vars(OperationStep(t) \/ InitStep(t) \/ FiniStep(t))

FairSpec == Spec /\ Fairness
-----------------------------------------------------------------------------
(* The discipline under which Init and Fini keep out of each other's way,  *)
(* and the invariants that show that it is enough.                         *)

\* At most one thread brings the library up and down.
SoleController ==
  \A t, u \in Initializers \cup Finalizers : t = u

LifeInv ==
  /\ callCounter = Cardinality(Counted)
  /\ \A t \in Threads :
       /\ pc[t] \in InInit => t \in Initializers
       /\ pc[t] \in InFini => t \in Finalizers
       /\ pc[t] = "initChecked" => hStreamsState # "INITIALIZED"
       /\ pc[t] \in {"initGuarded", "initBuilt", "initReady"} => hStreamsState = "INITIALIZING"
       /\ pc[t] = "initBuilt" => domains # {}
       /\ pc[t] = "initReady" => dummy_buf /\ domains # {}
       /\ pc[t] = "finiChecked" => hStreamsState = "INITIALIZED"
       /\ pc[t] \in InFini \ {"finiLocked", "finiChecked"} => hStreamsState = "FINALIZING"
       /\ pc[t] = "finiWaiting" => dummy_buf /\ domains # {}
       /\ pc[t] = "operating" =>
            \/ hStreamsState = "INITIALIZED"
            \/ \E u \in Threads : pc[u] = "finiWaiting"
  /\ hStreamsState = "INITIALIZED" => dummy_buf /\ domains # {}

\* Before any failure the collections are empty whenever an initialisation starts.
FreshInv ==
  ~failed =>
    /\ \A t \in Threads :
         /\ pc[t] = "initGuarded" => domains = {}
         /\ pc[t] \in {"initBuilt", "initReady", "finiWaiting"} => domains = {inits}
         /\ pc[t] = "finiEmptied" => domains = {}
    /\ hStreamsState = "UNINITIALIZED" => domains = {}
    /\ hStreamsState = "INITIALIZED" => domains = {inits}
    /\ hStreamsState = "INITIALIZING" =>
         \E t \in Threads : pc[t] \in {"initGuarded", "initBuilt", "initReady"}
    /\ hStreamsState = "FINALIZING" =>
         \E t \in Threads : pc[t] \in InFini \ {"finiLocked", "finiChecked"}

-----------------------------------------------------------------------------
(* Properties.                                                             *)

\* While a call works on the domains, streams and buffers they exist, and Fini
\* is not taking them down.
OperationsAreProtected ==
  (\E t \in Threads : pc[t] = "operating") =>
    /\ dummy_buf /\ domains # {}
    /\ \A t \in Threads : pc[t] \notin {"finiDrained", "finiBufferless", "finiEmptied"}

\* As long as no Init or Fini has failed, the domains a call finds are those of
\* the latest initialisation, with nothing left over from an earlier one.
OperationsFindTheirDomains ==
  ~failed /\ (\E t \in Threads : pc[t] = "operating") => domains = {inits}

\* Init, Fini and every other call come back: Fini outwaits the calls that were
\* inside and those that arrive meanwhile, as long as they do not arrive for ever.
CallsReturn ==
  \A t \in Threads : pc[t] # "idle" ~> pc[t] = "idle"
=============================================================================
