--------------------------- MODULE LifecycleProofs ---------------------------
(* Why no call of the library works on collections that are being torn     *)
(* down, for any number of threads, calls and initialisations.             *)
EXTENDS Lifecycle, FiniteSetTheorems, TLAPS

USE DEF InOperation, InInit, InFini

(* What a step does to the count: the scoped counter keeps it equal to the *)
(* number of threads inside counted calls.                                 *)

\* A thread that starts a counted call adds itself to Counted.
LEMMA CountedGrows ==
  ASSUME TypeOK, NEW t \in Threads, NEW to \in InOperation \cup InInit,
         pc[t] = "idle", pc' = [pc EXCEPT ![t] = to],
         callCounter = Cardinality(Counted), callCounter' = callCounter + 1
  PROVE callCounter' = Cardinality(Counted')
<1>1. Counted' = Counted \cup {t} /\ t \notin Counted
  BY DEF TypeOK, Counted
<1>2. IsFiniteSet(Counted)
  BY ThreadsAssumption, FS_Subset DEF Counted
<1>3. Cardinality(Counted \cup {t}) = Cardinality(Counted) + 1
  BY <1>1, <1>2, FS_AddElement
<1> QED BY <1>1, <1>3

\* A thread whose call ends removes itself.
LEMMA CountedShrinks ==
  ASSUME TypeOK, NEW t \in Threads,
         pc[t] = "leaving", pc' = [pc EXCEPT ![t] = "idle"],
         callCounter = Cardinality(Counted), callCounter' = callCounter - 1
  PROVE callCounter' = Cardinality(Counted') /\ callCounter' \in Nat
<1>1. Counted' = Counted \ {t} /\ t \in Counted
  BY DEF TypeOK, Counted
<1>2. IsFiniteSet(Counted)
  BY ThreadsAssumption, FS_Subset DEF Counted
<1>3. Cardinality(Counted \ {t}) = Cardinality(Counted) - 1
  BY <1>1, <1>2, FS_RemoveElement
<1>4. IsFiniteSet(Counted \ {t})
  BY <1>2, FS_RemoveElement
<1>5. Cardinality(Counted \ {t}) \in Nat
  BY <1>4, FS_CardinalityType
<1> QED BY <1>1, <1>3, <1>5

\* Every other step leaves Counted and the count alone.
LEMMA CountedStays ==
  ASSUME TypeOK, NEW t \in Threads, NEW to,
         pc[t] \in InOperation \cup InInit <=> to \in InOperation \cup InInit,
         pc' = [pc EXCEPT ![t] = to],
         callCounter = Cardinality(Counted), callCounter' = callCounter
  PROVE callCounter' = Cardinality(Counted')
<1>1. Counted' = Counted
  BY DEF TypeOK, Counted
<1> QED BY <1>1

-----------------------------------------------------------------------------
(* The invariant.                                                          *)

\* The invariants hold initially.
LEMMA InitEstablishes ==
  ASSUME Init PROVE TypeOK /\ LifeInv
<1>1. TypeOK BY DEF Init, TypeOK
<1>2. Counted = {} BY DEF Init, Counted
<1>3. callCounter = Cardinality(Counted) BY <1>2, FS_EmptySet DEF Init
<1> QED BY <1>1, <1>3 DEF Init, LifeInv

\* Fini passes its loop only when nobody is inside a counted call.
LEMMA DrainedMeansNobodyInside ==
  ASSUME TypeOK, callCounter = Cardinality(Counted), callCounter <= 0,
         NEW t \in Threads
  PROVE pc[t] # "operating"
<1>1. IsFiniteSet(Counted)
  BY ThreadsAssumption, FS_Subset DEF Counted
<1>2. Cardinality(Counted) = 0
  BY DEF TypeOK
<1>3. Counted = {}
  BY <1>1, <1>2, FS_EmptySet
<1> QED BY <1>3 DEF Counted

\* Every step preserves types, the count of calls and what the state says.
LEMMA StepPreserves ==
  ASSUME SoleController, TypeOK, LifeInv, Next PROVE TypeOK' /\ LifeInv'
<1>1. PICK t \in Threads :
        \/ Enter(t) \/ InitEnter(t) \/ FiniEnter(t)
        \/ OperationStep(t) \/ InitStep(t) \/ FiniStep(t)
  BY DEF Next
<1>2. callCounter = Cardinality(Counted)
  BY DEF LifeInv
<1> USE <1>2
<1> USE DEF Goto, locks, resources, bounds
<1>3. CASE Enter(t) \/ InitEnter(t)
  <2>1. PICK to \in {"entered", "initEntered"} :
          Count(t, to) /\ (to = "initEntered" => t \in Initializers)
    BY <1>3 DEF Enter, InitEnter
  <2>2. TypeOK'
    BY <2>1 DEF Count, TypeOK
  <2>3. callCounter' = Cardinality(Counted')
    BY <2>1, CountedGrows DEF Count
  <2> QED BY <2>1, <2>2, <2>3 DEF Count, TypeOK, LifeInv
<1>4. CASE FiniEnter(t)
  <2>1. TypeOK' BY <1>4 DEF FiniEnter, TypeOK
  <2>2. callCounter' = Cardinality(Counted')
    BY <1>4, CountedStays DEF FiniEnter
  <2> QED BY <1>4, <2>1, <2>2 DEF FiniEnter, TypeOK, LifeInv
<1>5. CASE OperationStep(t)
  <2>1. CASE IsInitialized(t)
    <3>1. TypeOK' BY <2>1 DEF IsInitialized, TypeOK
    <3>2. callCounter' = Cardinality(Counted')
      BY <2>1, CountedStays DEF IsInitialized
    <3> QED BY <2>1, <3>1, <3>2 DEF IsInitialized, TypeOK, LifeInv
  <2>2. CASE NotInitialized(t) \/ Indifferent(t) \/ OperationDone(t)
    <3>1. TypeOK' BY <2>2 DEF NotInitialized, Indifferent, OperationDone, TypeOK
    <3>2. callCounter' = Cardinality(Counted')
      BY <2>2, CountedStays DEF NotInitialized, Indifferent, OperationDone
    <3> QED BY <2>2, <3>1, <3>2 DEF NotInitialized, Indifferent, OperationDone, TypeOK, LifeInv
  <2>3. CASE Leave(t)
    <3>1. callCounter' = Cardinality(Counted') /\ callCounter' \in Nat
      BY <2>3, CountedShrinks DEF Leave
    <3>2. TypeOK' BY <2>3, <3>1 DEF Leave, TypeOK
    <3> QED BY <2>3, <3>1, <3>2 DEF Leave, TypeOK, LifeInv
  <2> QED BY <1>5, <2>1, <2>2, <2>3 DEF OperationStep
<1>6. CASE InitStep(t)
  <2>1. t \in Initializers
    BY <1>6 DEF InitStep, LockInit, InitRedundant, InitNeeded, StateGuard, BuildDomains,
                CreateDummyBuffer, InitSucceeds, InitFails, LifeInv
  <2>2. \A u \in Threads \ {t} : pc[u] \notin InInit \cup InFini
    BY <2>1 DEF SoleController, LifeInv
  <2>3. CASE LockInit(t) \/ InitRedundant(t) \/ InitNeeded(t)
    <3>1. TypeOK' BY <2>3 DEF LockInit, InitRedundant, InitNeeded, TypeOK
    <3>2. callCounter' = Cardinality(Counted')
      BY <2>3, CountedStays DEF LockInit, InitRedundant, InitNeeded
    <3> QED BY <2>1, <2>2, <2>3, <3>1, <3>2
            DEF LockInit, InitRedundant, InitNeeded, TypeOK, LifeInv
  <2>4. CASE StateGuard(t)
    <3>1. TypeOK' BY <2>4 DEF StateGuard, TypeOK
    <3>2. callCounter' = Cardinality(Counted')
      BY <2>4, CountedStays DEF StateGuard
    <3> QED BY <2>1, <2>2, <2>4, <3>1, <3>2 DEF StateGuard, TypeOK, LifeInv
  <2>5. CASE BuildDomains(t) \/ CreateDummyBuffer(t)
    <3>1. TypeOK' BY <2>5 DEF BuildDomains, CreateDummyBuffer, TypeOK
    <3>2. callCounter' = Cardinality(Counted')
      BY <2>5, CountedStays DEF BuildDomains, CreateDummyBuffer
    <3> QED BY <2>1, <2>2, <2>5, <3>1, <3>2
            DEF BuildDomains, CreateDummyBuffer, TypeOK, LifeInv
  <2>6. CASE InitSucceeds(t) \/ InitFails(t)
    <3>1. TypeOK' BY <2>6 DEF InitSucceeds, InitFails, TypeOK
    <3>2. callCounter' = Cardinality(Counted')
      BY <2>6, CountedStays DEF InitSucceeds, InitFails
    <3> QED BY <2>1, <2>2, <2>6, <3>1, <3>2 DEF InitSucceeds, InitFails, TypeOK, LifeInv
  <2> QED BY <1>6, <2>3, <2>4, <2>5, <2>6 DEF InitStep
<1>7. CASE FiniStep(t)
  <2>1. t \in Finalizers
    BY <1>7 DEF FiniStep, FiniRefused, FiniAccepted, SetFinalizing, CallsDrained,
                DestroyDummyBuffer, FiniFails, DestroyCollections, FiniDone, LifeInv
  <2>2. \A u \in Threads \ {t} : pc[u] \notin InInit \cup InFini
    BY <2>1 DEF SoleController, LifeInv
  <2>3. CASE FiniRefused(t) \/ FiniAccepted(t)
    <3>1. TypeOK' BY <2>3 DEF FiniRefused, FiniAccepted, TypeOK
    <3>2. callCounter' = Cardinality(Counted')
      BY <2>3, CountedStays DEF FiniRefused, FiniAccepted
    <3> QED BY <2>1, <2>2, <2>3, <3>1, <3>2 DEF FiniRefused, FiniAccepted, TypeOK, LifeInv
  <2>4. CASE SetFinalizing(t)
    <3>1. TypeOK' BY <2>4 DEF SetFinalizing, TypeOK
    <3>2. callCounter' = Cardinality(Counted')
      BY <2>4, CountedStays DEF SetFinalizing
    <3> QED BY <2>1, <2>2, <2>4, <3>1, <3>2 DEF SetFinalizing, TypeOK, LifeInv
  <2>5. CASE CallsDrained(t)
    <3>1. TypeOK' BY <2>5 DEF CallsDrained, TypeOK
    <3>2. callCounter' = Cardinality(Counted')
      BY <2>5, CountedStays DEF CallsDrained
    <3>3. \A u \in Threads : pc[u] # "operating"
      BY <2>5, DrainedMeansNobodyInside DEF CallsDrained
    <3> QED BY <2>1, <2>2, <2>5, <3>1, <3>2, <3>3 DEF CallsDrained, TypeOK, LifeInv
  <2>6. CASE DestroyDummyBuffer(t) \/ FiniFails(t)
    <3>1. TypeOK' BY <2>6 DEF DestroyDummyBuffer, FiniFails, TypeOK
    <3>2. callCounter' = Cardinality(Counted')
      BY <2>6, CountedStays DEF DestroyDummyBuffer, FiniFails
    <3> QED BY <2>1, <2>2, <2>6, <3>1, <3>2 DEF DestroyDummyBuffer, FiniFails, TypeOK, LifeInv
  <2>7. CASE DestroyCollections(t) \/ FiniDone(t)
    <3>1. TypeOK' BY <2>7 DEF DestroyCollections, FiniDone, TypeOK
    <3>2. callCounter' = Cardinality(Counted')
      BY <2>7, CountedStays DEF DestroyCollections, FiniDone
    <3> QED BY <2>1, <2>2, <2>7, <3>1, <3>2 DEF DestroyCollections, FiniDone, TypeOK, LifeInv
  <2> QED BY <1>7, <2>3, <2>4, <2>5, <2>6, <2>7 DEF FiniStep
<1> QED BY <1>1, <1>3, <1>4, <1>5, <1>6, <1>7

-----------------------------------------------------------------------------
\* One thread that calls Init and Fini, any number that use the library: the
\* counter never runs negative and always tells how many calls are inside.
THEOREM LifeInvariant ==
  ASSUME SoleController PROVE Spec => [](TypeOK /\ LifeInv)
<1>1. Init => TypeOK /\ LifeInv
  BY InitEstablishes
<1>2. TypeOK /\ LifeInv /\ [Next]_vars => TypeOK' /\ LifeInv'
  <2>1. ASSUME TypeOK, LifeInv, UNCHANGED vars PROVE TypeOK' /\ LifeInv'
    BY <2>1 DEF vars, locks, resources, bounds, TypeOK, LifeInv, Counted
  <2> QED BY <2>1, StepPreserves
<1> QED BY <1>1, <1>2, PTL DEF Spec

\* Every call of the library finds what it works on in place, and Fini starts
\* to take it down only after the last such call.
THEOREM ProtectedFromFini ==
  ASSUME SoleController PROVE Spec => []OperationsAreProtected
<1>1. TypeOK /\ LifeInv => OperationsAreProtected
  BY DEF TypeOK, LifeInv, OperationsAreProtected, SoleController
<1> QED BY <1>1, LifeInvariant, PTL
-----------------------------------------------------------------------------
(* Before a failure nothing is left over from one life to the next.        *)

\* Every step preserves that calls find the domains of the latest Init.
LEMMA FreshPreserved ==
  ASSUME SoleController, TypeOK, LifeInv, FreshInv, Next
  PROVE FreshInv'
<1> SUFFICES ASSUME ~failed' PROVE FreshInv'
  BY DEF FreshInv
<1>1. PICK t \in Threads :
        \/ Enter(t) \/ InitEnter(t) \/ FiniEnter(t)
        \/ OperationStep(t) \/ InitStep(t) \/ FiniStep(t)
  BY DEF Next
<1> USE DEF Goto, locks, resources, bounds
<1>2. CASE Enter(t) \/ InitEnter(t) \/ FiniEnter(t)
  BY <1>2 DEF Enter, InitEnter, FiniEnter, Count, TypeOK, FreshInv
<1>3. CASE OperationStep(t)
  BY <1>3 DEF OperationStep, IsInitialized, NotInitialized, Indifferent, OperationDone, Leave,
              TypeOK, FreshInv
<1>4. CASE InitStep(t)
  <2>1. t \in Initializers
    BY <1>4 DEF InitStep, LockInit, InitRedundant, InitNeeded, StateGuard, BuildDomains,
                CreateDummyBuffer, InitSucceeds, InitFails, LifeInv
  <2>2. \A u \in Threads \ {t} : pc[u] \notin InInit \cup InFini
    BY <2>1 DEF SoleController, LifeInv
  <2>3. CASE LockInit(t) \/ InitRedundant(t) \/ InitNeeded(t)
    BY <2>2, <2>3 DEF LockInit, InitRedundant, InitNeeded, TypeOK, FreshInv
  <2>4. CASE StateGuard(t)
    <3>1. hStreamsState = "UNINITIALIZED"
      BY <2>2, <2>4 DEF StateGuard, TypeOK, LifeInv, FreshInv
    <3> QED BY <2>2, <2>4, <3>1 DEF StateGuard, TypeOK, FreshInv
  <2>5. CASE BuildDomains(t) \/ CreateDummyBuffer(t)
    BY <2>2, <2>5 DEF BuildDomains, CreateDummyBuffer, TypeOK, LifeInv, FreshInv
  <2>6. CASE InitSucceeds(t) \/ InitFails(t)
    BY <2>2, <2>6 DEF InitSucceeds, InitFails, TypeOK, LifeInv, FreshInv
  <2> QED BY <1>4, <2>3, <2>4, <2>5, <2>6 DEF InitStep
<1>5. CASE FiniStep(t)
  <2>1. t \in Finalizers
    BY <1>5 DEF FiniStep, FiniRefused, FiniAccepted, SetFinalizing, CallsDrained,
                DestroyDummyBuffer, FiniFails, DestroyCollections, FiniDone, LifeInv
  <2>2. \A u \in Threads \ {t} : pc[u] \notin InInit \cup InFini
    BY <2>1 DEF SoleController, LifeInv
  <2>3. CASE FiniRefused(t) \/ FiniAccepted(t) \/ SetFinalizing(t)
    BY <2>2, <2>3 DEF FiniRefused, FiniAccepted, SetFinalizing, TypeOK, LifeInv, FreshInv
  <2>4. CASE CallsDrained(t) \/ DestroyDummyBuffer(t) \/ FiniFails(t)
    BY <2>2, <2>4 DEF CallsDrained, DestroyDummyBuffer, FiniFails, TypeOK, LifeInv, FreshInv
  <2>5. CASE DestroyCollections(t) \/ FiniDone(t)
    BY <2>2, <2>5 DEF DestroyCollections, FiniDone, TypeOK, LifeInv, FreshInv
  <2> QED BY <1>5, <2>3, <2>4, <2>5 DEF FiniStep
<1> QED BY <1>1, <1>2, <1>3, <1>4, <1>5

\* As long as neither Init nor Fini has failed, every initialisation starts from
\* empty collections, and calls find the domains of the latest one only.
THEOREM FreshDomains ==
  ASSUME SoleController
  PROVE Spec => []OperationsFindTheirDomains
<1>1. Init => FreshInv
  BY DEF Init, FreshInv
<1>2. TypeOK /\ LifeInv /\ FreshInv /\ [Next]_vars => FreshInv'
  <2>1. ASSUME FreshInv, UNCHANGED vars PROVE FreshInv'
    BY <2>1 DEF vars, locks, resources, bounds, FreshInv
  <2> QED BY <2>1, FreshPreserved
<1>3. LifeInv /\ FreshInv => OperationsFindTheirDomains
  BY DEF LifeInv, FreshInv, OperationsFindTheirDomains
<1> QED BY <1>1, <1>2, <1>3, LifeInvariant, PTL DEF Spec
=============================================================================
