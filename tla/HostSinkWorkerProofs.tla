------------------------ MODULE HostSinkWorkerProofs ------------------------
(***************************************************************************)
(* Theorems about the host-side worker, for any number of actions and with *)
(* every failure: it executes each compute once and in order, what it      *)
(* leaves behind when it is joined is on its queue or in its hands, and it *)
(* implements the safety part of EventPromise.                             *)
(***************************************************************************)
EXTENDS HostSinkWorker, FiniteSetTheorems, TLAPS

-----------------------------------------------------------------------------
(* The inductive invariant: a compute moves from the producer's hand over   *)
(* the queue to the worker and ends among the executed ones, and those that *)
(* are ahead have smaller numbers.                                          *)

Executed(a) == \E i \in 1..Len(executed) : executed[i] = a
Queued(a) == \E i \in 1..Len(queue_) : queue_[i] = a
Taken == worker \in {"holding", "ready"}
InHand == producer = "adding"
Failed == worker_status_ = "ERROR"

\* Actions are numbered without a gap.
Consecutive == \E n \in 0..MaxActions : submitted = 1..n

\* What is executed, taken, queued and in hand are computes, in ascending order.
ExecutedAscend ==
  /\ \A i \in 1..Len(executed) : executed[i] \in computes
  /\ \A i, j \in 1..Len(executed) : i < j => executed[i] < executed[j]
TakenFollows ==
  Taken => current \in computes /\ \A i \in 1..Len(executed) : executed[i] < current
QueueFollows ==
  \A i \in 1..Len(queue_) : queue_[i] # STOP =>
    /\ queue_[i] \in computes
    /\ \A j \in 1..Len(executed) : executed[j] < queue_[i]
    /\ Taken => current < queue_[i]
    /\ \A j \in 1..Len(queue_) : j < i => queue_[j] < queue_[i]
HandFollows ==
  InHand =>
    /\ hand \in computes
    /\ \A i \in 1..Len(executed) : executed[i] < hand
    /\ Taken => current < hand
    /\ \A i \in 1..Len(queue_) : queue_[i] < hand

\* The stop action is the last one, and the worker goes after it or with an error.
StopIsLast ==
  /\ \A i \in 1..Len(queue_) : queue_[i] = STOP =>
       i = Len(queue_) /\ producer \in {"joining", "waiting", "destroyed"}
  /\ producer = "stopping" => hand = STOP
  /\ worker = "exited" /\ ~Failed =>
       queue_ = <<>> /\ producer \in {"joining", "waiting", "destroyed"}
  /\ Failed => worker = "exited"
  /\ producer \in {"waiting", "destroyed"} => worker = "exited"

\* What the worker has established about the action it has taken.
WorkIsSound ==
  /\ worker = "ready" => deps[current] \subseteq signalled
  /\ worker = "ran" => executed # <<>> /\ executed[Len(executed)] = current
  /\ worker \in {"holding", "ready", "ran"} => current \in computes \ signalled

\* Events signalled are those of actions done.
SignalsAreSound ==
  /\ signalled \subseteq submitted
  /\ \A a \in computes \cap signalled : Executed(a)
  /\ \A i \in 1..Len(executed) : deps[executed[i]] \subseteq signalled

\* Nothing is skipped unless a wait has failed.  A thread that ends with an error
\* keeps in hand what it had taken.
NothingIsLost ==
  "wait" \notin faults =>
    \A a \in computes :
      \/ Executed(a) \/ Queued(a)
      \/ (Taken \/ Failed) /\ a = current
      \/ InHand /\ a = hand

Inv ==
  /\ TypeOK
  /\ Consecutive
  /\ ExecutedAscend
  /\ TakenFollows
  /\ QueueFollows
  /\ HandFollows
  /\ StopIsLast
  /\ WorkIsSound
  /\ SignalsAreSound
  /\ NothingIsLost

-----------------------------------------------------------------------------
(* Steps.                                                                  *)

\* The next action has the next number.
LEMMA NextNumber ==
  ASSUME Consecutive
  PROVE  /\ NextAction \in Nat /\ NextAction \notin submitted
         /\ \A a \in submitted : a \in Nat /\ a < NextAction
         /\ NextAction \in Actions =>
              \E n \in 0..MaxActions : submitted \cup {NextAction} = 1..n
<1>1. PICK n \in 0..MaxActions : submitted = 1..n
  BY DEF Consecutive
<1>2. n \in Nat
  BY MaxActionsAssumption
<1>3. Cardinality(submitted) = n
  <2>1. Cardinality(1..n) = IF 1 > n THEN 0 ELSE n - 1 + 1
    BY <1>2, FS_Interval
  <2> QED BY <1>1, <1>2, <2>1
<1>4. NextAction = n + 1
  BY <1>3 DEF NextAction
<1>5. (1..n) \cup {n + 1} = 1..(n + 1)
  BY <1>2
<1>6. n + 1 \in Actions => n + 1 \in 0..MaxActions
  BY <1>2, MaxActionsAssumption DEF Actions
<1> QED BY <1>1, <1>2, <1>4, <1>5, <1>6

\* The invariant holds initially.
LEMMA InitInv == Init => Inv
<1> SUFFICES ASSUME Init PROVE Inv
  OBVIOUS
<1> USE DEF Init
<1>1. TypeOK BY DEF TypeOK
<1>2. Consecutive
  <2>1. 0 \in 0..MaxActions /\ {} = 1..0 BY MaxActionsAssumption
  <2> QED BY <2>1 DEF Consecutive
<1>3. ExecutedAscend /\ TakenFollows /\ QueueFollows /\ HandFollows
  BY DEF ExecutedAscend, TakenFollows, QueueFollows, HandFollows, Taken, InHand
<1>4. StopIsLast /\ WorkIsSound BY DEF StopIsLast, WorkIsSound, Failed
<1>5. SignalsAreSound /\ NothingIsLost BY DEF SignalsAreSound, NothingIsLost
<1> QED BY <1>1, <1>2, <1>3, <1>4, <1>5 DEF Inv

\* Accepting an action changes nothing for those accepted before.
LEMMA AcceptKeeps ==
  ASSUME TypeOK, Consecutive, NextAction \in Actions, Accept(NextAction)
  PROVE  /\ submitted' = submitted \cup {NextAction} /\ submitted' \subseteq Actions
         /\ deps' \in [Actions -> SUBSET Actions]
         /\ \A a \in submitted : deps'[a] = deps[a]
         /\ Consecutive'
<1>1. PICK D \in SUBSET submitted : deps' = [deps EXCEPT ![NextAction] = D]
  BY DEF Accept
<1>2. NextAction \notin submitted
  BY NextNumber
<1>3. submitted' = submitted \cup {NextAction}
  BY DEF Accept
<1>4. Consecutive'
  BY <1>3, NextNumber DEF Consecutive
<1> QED BY <1>1, <1>2, <1>3, <1>4 DEF TypeOK

\* A compute is accepted and in the producer's hand, ahead of nothing.
LEMMA EnqueueFunctionKeeps ==
  ASSUME Inv, enqueueFunction
  PROVE  Inv'
<1> USE DEF enqueueFunction, workerVars
<1>1. /\ submitted' = submitted \cup {NextAction} /\ submitted' \subseteq Actions
      /\ deps' \in [Actions -> SUBSET Actions]
      /\ \A a \in submitted : deps'[a] = deps[a]
      /\ Consecutive'
  BY AcceptKeeps DEF Inv
<1>2. /\ NextAction \in Nat /\ NextAction \notin submitted
      /\ \A a \in submitted : a \in Nat /\ a < NextAction
  BY NextNumber DEF Inv
<1>3. computes \subseteq submitted /\ NextAction \in Actions /\ NextAction # STOP
  BY <1>2 DEF Inv, TypeOK, Actions, STOP
<1>4. TypeOK'
  BY <1>1, <1>3 DEF Inv, TypeOK
<1>5. ExecutedAscend'
  BY DEF Inv, ExecutedAscend
<1>6. TakenFollows'
  BY DEF Inv, TakenFollows, Taken
<1>7. QueueFollows'
  BY DEF Inv, QueueFollows, Taken
<1>8. HandFollows'
  <2>1. \A i \in 1..Len(executed) : executed[i] < NextAction
    BY <1>2, <1>3 DEF Inv, ExecutedAscend
  <2>2. Taken => current < NextAction
    BY <1>2, <1>3 DEF Inv, TakenFollows
  <2>3. \A i \in 1..Len(queue_) : queue_[i] < NextAction
    BY <1>2, <1>3 DEF Inv, QueueFollows, StopIsLast
  <2> QED BY <2>1, <2>2, <2>3 DEF HandFollows, Taken
<1>9. StopIsLast'
  BY DEF Inv, StopIsLast, Failed
<1>10. WorkIsSound'
  BY <1>1, <1>3 DEF Inv, WorkIsSound
<1>11. SignalsAreSound'
  <2>1. \A i \in 1..Len(executed) : deps'[executed[i]] = deps[executed[i]]
    BY <1>1, <1>3 DEF Inv, ExecutedAscend
  <2>2. computes' \cap signalled' = computes \cap signalled
    BY <1>2 DEF Inv, SignalsAreSound
  <2> QED BY <1>1, <2>1, <2>2 DEF Inv, SignalsAreSound, Executed
<1>12. NothingIsLost'
  BY DEF Inv, NothingIsLost, Executed, Queued, Taken, InHand, Failed
<1> QED BY <1>1, <1>4, <1>5, <1>6, <1>7, <1>8, <1>9, <1>10, <1>11, <1>12 DEF Inv

\* A transfer passes the worker by.
LEMMA EnqueueTransferKeeps ==
  ASSUME Inv, enqueueTransfer
  PROVE  Inv'
<1> USE DEF enqueueTransfer, workerVars
<1>1. /\ submitted' = submitted \cup {NextAction} /\ submitted' \subseteq Actions
      /\ deps' \in [Actions -> SUBSET Actions]
      /\ \A a \in submitted : deps'[a] = deps[a]
      /\ Consecutive'
  BY AcceptKeeps DEF Inv
<1>2. computes \subseteq submitted
  BY DEF Inv, TypeOK
<1>3. TypeOK'
  BY <1>1, <1>2 DEF Inv, TypeOK
<1>4. ExecutedAscend' /\ TakenFollows' /\ QueueFollows' /\ HandFollows'
  BY DEF Inv, ExecutedAscend, TakenFollows, QueueFollows, HandFollows, Taken, InHand
<1>5. StopIsLast' /\ NothingIsLost'
  BY DEF Inv, StopIsLast, NothingIsLost, Executed, Queued, Taken, InHand, Failed
<1>6. WorkIsSound'
  BY <1>1, <1>2 DEF Inv, WorkIsSound
<1>7. SignalsAreSound'
  <2>1. \A i \in 1..Len(executed) : deps'[executed[i]] = deps[executed[i]]
    BY <1>1, <1>2 DEF Inv, ExecutedAscend
  <2> QED BY <1>1, <2>1 DEF Inv, SignalsAreSound, Executed
<1> QED BY <1>1, <1>3, <1>4, <1>5, <1>6, <1>7 DEF Inv

\* What the producer holds, a compute or the stop action, ends the queue.
LEMMA AddKeeps ==
  ASSUME Inv, add
  PROVE  Inv'
<1> USE DEF add
<1> DEFINE n == Len(queue_)
<1>1. /\ queue_ \in Seq(Actions \cup {STOP}) /\ hand \in Actions \cup {STOP}
      /\ n \in Nat /\ queue_' \in Seq(Actions \cup {STOP})
      /\ Len(queue_') = n + 1 /\ queue_'[n + 1] = hand
      /\ \A i \in 1..n : queue_'[i] = queue_[i]
  BY DEF Inv, TypeOK
<1>2. Taken' = Taken /\ ~InHand' /\ \A i \in 1..Len(queue_') : i \in 1..n \/ i = n + 1
  BY <1>1 DEF Taken, InHand
<1>3. TypeOK'
  BY <1>1 DEF Inv, TypeOK
<1>4. Consecutive' /\ ExecutedAscend'
  BY DEF Inv, Consecutive, ExecutedAscend
<1>5. TakenFollows' /\ HandFollows'
  BY <1>2 DEF Inv, TakenFollows, HandFollows
<1>6. InHand \/ hand = STOP
  BY DEF Inv, StopIsLast, InHand
<1>7. \A i \in 1..n : queue_[i] # STOP
  BY DEF Inv, StopIsLast, Failed
<1>8. QueueFollows'
  <2> SUFFICES ASSUME NEW i \in 1..Len(queue_'), queue_'[i] # STOP
               PROVE  /\ queue_'[i] \in computes
                      /\ \A j \in 1..Len(executed) : executed[j] < queue_'[i]
                      /\ Taken => current < queue_'[i]
                      /\ \A j \in 1..Len(queue_') : j < i => queue_'[j] < queue_'[i]
    BY <1>2 DEF QueueFollows
  <2>1. CASE i \in 1..n
    <3>1. \A j \in 1..Len(queue_') : j < i => j \in 1..n
      BY <1>1, <2>1
    <3> QED BY <1>1, <2>1, <3>1 DEF Inv, QueueFollows
  <2>2. CASE i = n + 1
    <3>1. InHand /\ queue_'[i] = hand
      BY <1>1, <1>6, <2>2
    <3> QED BY <1>1, <1>2, <2>2, <3>1 DEF Inv, HandFollows
  <2> QED BY <1>2, <2>1, <2>2
<1>9. StopIsLast'
  <2>1. \A i \in 1..Len(queue_') : queue_'[i] = STOP =>
          i = Len(queue_') /\ producer' = "joining"
    <3> SUFFICES ASSUME NEW i \in 1..Len(queue_'), queue_'[i] = STOP
                 PROVE  i = n + 1 /\ producer = "stopping"
      BY <1>1
    <3>1. i = n + 1
      BY <1>1, <1>2, <1>7
    <3>2. hand = STOP
      BY <1>1, <3>1
    <3>3. InHand => hand \in Actions
      BY DEF Inv, TypeOK, HandFollows
    <3>4. STOP \notin Actions
      BY DEF STOP, Actions
    <3> QED BY <3>1, <3>2, <3>3, <3>4 DEF InHand
  <2>2. producer \in {"adding", "stopping"} /\ producer' # "stopping"
        /\ producer' \notin {"waiting", "destroyed"}
    OBVIOUS
  <2>3. worker' = "exited" => worker = "exited"
    OBVIOUS
  <2> QED BY <2>1, <2>2, <2>3 DEF Inv, StopIsLast, Failed
<1>10. WorkIsSound' /\ SignalsAreSound'
  BY DEF Inv, WorkIsSound, SignalsAreSound, Executed
<1>11. NothingIsLost'
  <2>1. \A a : Queued(a) => Queued(a)'
    BY <1>1 DEF Queued
  <2>2. Queued(hand)'
    BY <1>1 DEF Queued
  <2> QED BY <1>2, <2>1, <2>2 DEF Inv, NothingIsLost, Executed, Failed
<1> QED BY <1>3, <1>4, <1>5, <1>8, <1>9, <1>10, <1>11 DEF Inv

\* The producer takes a step towards the end of the stream.
LEMMA DestructionKeeps ==
  ASSUME Inv, Destroy \/ join \/ Destroyed
  PROVE  Inv'
<1> USE DEF Destroy, join, Destroyed, workerVars
<1>1. TypeOK'
  BY DEF Inv, TypeOK
<1>2. Consecutive' /\ ExecutedAscend' /\ TakenFollows' /\ QueueFollows' /\ HandFollows'
  BY DEF Inv, Consecutive, ExecutedAscend, TakenFollows, QueueFollows, HandFollows, Taken, InHand
<1>3. StopIsLast'
  BY DEF Inv, StopIsLast, Failed
<1>4. WorkIsSound' /\ SignalsAreSound' /\ NothingIsLost'
  BY DEF Inv, WorkIsSound, SignalsAreSound, NothingIsLost, Executed, Queued, Taken, InHand, Failed
<1> QED BY <1>1, <1>2, <1>3, <1>4 DEF Inv

\* The worker takes the first of the queue, a compute or the stop action.
LEMMA PopFrontKeeps ==
  ASSUME Inv, popFront
  PROVE  Inv'
<1> USE DEF popFront
<1> DEFINE n == Len(queue_)
<1>1. /\ queue_ \in Seq(Actions \cup {STOP}) /\ n \in Nat \ {0}
      /\ queue_' \in Seq(Actions \cup {STOP})
      /\ Len(queue_') = n - 1 /\ current' = queue_[1]
      /\ \A i \in 1..(n - 1) : queue_'[i] = queue_[i + 1]
  BY DEF Inv, TypeOK
<1>2. 1 \in 1..n /\ current' \in Actions \cup {STOP} /\ ~Taken
      /\ \A i \in 1..(n - 1) : i + 1 \in 1..n /\ i + 1 # 1
  BY <1>1 DEF Taken
<1>3. TypeOK'
  BY <1>1, <1>2 DEF Inv, TypeOK
<1>4. Consecutive' /\ ExecutedAscend'
  BY DEF Inv, Consecutive, ExecutedAscend
<1>5. Taken' => current' # STOP
  BY <1>1 DEF Taken
<1>6. TakenFollows'
  BY <1>1, <1>2, <1>5 DEF Inv, TakenFollows, QueueFollows
<1>7. QueueFollows'
  <2> SUFFICES ASSUME NEW i \in 1..(n - 1), queue_'[i] # STOP
               PROVE  /\ queue_'[i] \in computes
                      /\ \A j \in 1..Len(executed) : executed[j] < queue_'[i]
                      /\ current' < queue_'[i]
                      /\ \A j \in 1..(n - 1) : j < i => queue_'[j] < queue_'[i]
    BY <1>1 DEF QueueFollows
  <2>1. queue_'[i] = queue_[i + 1] /\ i + 1 \in 1..n /\ 1 < i + 1
    BY <1>1
  <2>2. \A j \in 1..(n - 1) : j < i => queue_'[j] = queue_[j + 1] /\ j + 1 \in 1..n /\ j + 1 < i + 1
    BY <1>1
  <2> QED BY <1>1, <1>2, <2>1, <2>2 DEF Inv, QueueFollows
<1>8. HandFollows'
  <2>1. InHand' = InHand
    BY DEF InHand
  <2> QED BY <1>1, <1>2, <2>1 DEF Inv, HandFollows
<1>9. StopIsLast'
  <2>1. \A i \in 1..(n - 1) : queue_'[i] = STOP =>
          i = n - 1 /\ producer \in {"joining", "waiting", "destroyed"}
    <3> SUFFICES ASSUME NEW i \in 1..(n - 1), queue_'[i] = STOP
                 PROVE  i = n - 1 /\ producer \in {"joining", "waiting", "destroyed"}
      OBVIOUS
    <3>1. i + 1 \in 1..n /\ queue_[i + 1] = STOP
      BY <1>1
    <3>2. i + 1 = n /\ producer \in {"joining", "waiting", "destroyed"}
      BY <3>1 DEF Inv, StopIsLast
    <3>3. n \in Int /\ i \in Int
      BY <1>1
    <3>4. i = n - 1
      <4> HIDE DEF n, popFront
      <4> QED BY <3>2, <3>3
    <3> QED BY <3>2, <3>4
  <2>2. worker' = "exited" => n = 1 /\ producer \in {"joining", "waiting", "destroyed"}
    BY <1>1, <1>2 DEF Inv, StopIsLast, Failed
  <2>3. n = 1 => queue_' = <<>>
    BY <1>1
  <2>4. producer \notin {"waiting", "destroyed"}
    BY DEF Inv, StopIsLast, Failed
  <2> QED BY <1>1, <2>1, <2>2, <2>3, <2>4 DEF Inv, StopIsLast, Failed
<1>10. WorkIsSound'
  <2>1. Taken' => current' \in computes
    BY <1>6 DEF TakenFollows
  <2>2. Taken' => ~Executed(current')
    <3>1. executed \in Seq(Actions) /\ \A a \in Actions : a \in Int
      BY MaxActionsAssumption DEF Inv, TypeOK, Actions
    <3>2. \A i \in 1..Len(executed) : executed[i] \in Int
      BY <3>1
    <3> QED BY <1>6, <3>2 DEF TakenFollows, Executed
  <2> QED BY <2>1, <2>2 DEF Inv, WorkIsSound, SignalsAreSound, Taken
<1>11. SignalsAreSound'
  BY DEF Inv, SignalsAreSound, Executed
<1>12. NothingIsLost'
  <2>1. \A a \in computes : a # STOP
    BY DEF Inv, TypeOK, Actions, STOP
  <2>2. \A a \in computes : Queued(a) => Queued(a)' \/ (Taken' /\ a = current')
    <3> SUFFICES ASSUME NEW a \in computes, NEW i \in 1..n, queue_[i] = a
                 PROVE  Queued(a)' \/ (Taken' /\ a = current')
      BY DEF Queued
    <3>1. CASE i = 1
      BY <1>1, <2>1, <3>1 DEF Taken
    <3>2. CASE i # 1
      <4>1. i - 1 \in 1..(n - 1) /\ queue_'[i - 1] = a
        BY <1>1, <3>2
      <4> QED BY <1>1, <4>1 DEF Queued
    <3> QED BY <3>1, <3>2
  <2> QED BY <1>2, <2>2 DEF Inv, NothingIsLost, Executed, InHand, StopIsLast, Failed
<1> QED BY <1>3, <1>4, <1>6, <1>7, <1>8, <1>9, <1>10, <1>11, <1>12 DEF Inv

\* Steps of the worker that leave its actions where they are.
LEMMA WorkerKeeps ==
  ASSUME Inv, set_affinity \/ WorkerFails \/ wait \/ SpuriousWakeUp \/ EventWait
  PROVE  Inv'
<1> USE DEF set_affinity, WorkerFails, wait, SpuriousWakeUp, EventWait
<1>1. TypeOK'
  BY DEF Inv, TypeOK
<1>2. Taken' = Taken /\ InHand' = InHand
  BY DEF Taken, InHand
<1>3. Consecutive' /\ ExecutedAscend' /\ TakenFollows' /\ QueueFollows' /\ HandFollows'
  BY <1>2 DEF Inv, Consecutive, ExecutedAscend, TakenFollows, QueueFollows, HandFollows
<1>4. StopIsLast'
  BY DEF Inv, StopIsLast, Failed
<1>5. WorkIsSound' /\ SignalsAreSound'
  BY DEF Inv, WorkIsSound, SignalsAreSound, Executed
<1>6. NothingIsLost'
  BY <1>2 DEF Inv, NothingIsLost, Executed, Queued, Failed
<1> QED BY <1>1, <1>3, <1>4, <1>5, <1>6 DEF Inv

\* An exception ends the thread: what it had taken stays in its hands.
LEMMA LoopThrowsKeeps ==
  ASSUME Inv, LoopThrows
  PROVE  Inv'
<1> USE DEF LoopThrows
<1>1. TypeOK'
  BY DEF Inv, TypeOK
<1>2. ~Taken' /\ Failed' /\ InHand' = InHand
  BY DEF Taken, InHand, Failed
<1>3. Consecutive' /\ ExecutedAscend' /\ TakenFollows' /\ QueueFollows' /\ HandFollows'
  BY <1>2 DEF Inv, Consecutive, ExecutedAscend, TakenFollows, QueueFollows, HandFollows
<1>4. StopIsLast'
  BY <1>2 DEF Inv, StopIsLast
<1>5. ~Failed
  BY DEF Inv, StopIsLast
<1>6. WorkIsSound' /\ SignalsAreSound'
  BY DEF Inv, WorkIsSound, SignalsAreSound, Executed
<1>7. NothingIsLost'
  BY <1>2, <1>5 DEF Inv, NothingIsLost, Executed, Queued
<1> QED BY <1>1, <1>3, <1>4, <1>6, <1>7 DEF Inv

\* An action whose inputs cannot be waited for is skipped.
LEMMA EventWaitFailsKeeps ==
  ASSUME Inv, EventWaitFails
  PROVE  Inv'
<1> USE DEF EventWaitFails
<1>1. TypeOK'
  BY DEF Inv, TypeOK
<1>2. ~Taken' /\ InHand' = InHand /\ "wait" \in faults'
  BY DEF Taken, InHand
<1>3. Consecutive' /\ ExecutedAscend' /\ TakenFollows' /\ QueueFollows' /\ HandFollows'
  BY <1>2 DEF Inv, Consecutive, ExecutedAscend, TakenFollows, QueueFollows, HandFollows
<1>4. StopIsLast'
  BY DEF Inv, StopIsLast, Failed
<1>5. WorkIsSound' /\ SignalsAreSound'
  BY DEF Inv, WorkIsSound, SignalsAreSound, Executed
<1>6. NothingIsLost'
  BY <1>2 DEF NothingIsLost
<1> QED BY <1>1, <1>3, <1>4, <1>5, <1>6 DEF Inv

\* The action taken is executed, after all executed before.
LEMMA ThunkKeeps ==
  ASSUME Inv, hStreamsThunk
  PROVE  Inv'
<1> USE DEF hStreamsThunk
<1> DEFINE n == Len(executed)
<1>1. /\ executed \in Seq(Actions) /\ current \in Actions /\ n \in Nat
      /\ executed' \in Seq(Actions) /\ Len(executed') = n + 1 /\ executed'[n + 1] = current
      /\ \A i \in 1..n : executed'[i] = executed[i]
  BY DEF Inv, TypeOK, WorkIsSound
<1>2. Taken /\ ~Taken' /\ InHand' = InHand /\ \A i \in 1..(n + 1) : i \in 1..n \/ i = n + 1
  BY <1>1 DEF Taken, InHand
<1>3. TypeOK'
  BY <1>1 DEF Inv, TypeOK
<1>4. ExecutedAscend'
  BY <1>1, <1>2 DEF Inv, ExecutedAscend, TakenFollows
<1>5. Consecutive' /\ TakenFollows'
  BY <1>2 DEF Inv, Consecutive, TakenFollows
<1>6. QueueFollows'
  BY <1>1, <1>2 DEF Inv, QueueFollows
<1>7. HandFollows'
  BY <1>1, <1>2 DEF Inv, HandFollows
<1>8. StopIsLast'
  BY DEF Inv, StopIsLast, Failed
<1>9. WorkIsSound'
  BY <1>1 DEF Inv, WorkIsSound
<1>10. \A a : Executed(a) => Executed(a)'
  BY <1>1 DEF Executed
<1>11. SignalsAreSound'
  BY <1>1, <1>2, <1>10 DEF Inv, SignalsAreSound, WorkIsSound
<1>12. NothingIsLost'
  <2>1. Executed(current)'
    BY <1>1 DEF Executed
  <2> QED BY <1>2, <1>10, <2>1 DEF Inv, NothingIsLost, Queued, StopIsLast, Failed
<1> QED BY <1>3, <1>4, <1>5, <1>6, <1>7, <1>8, <1>9, <1>11, <1>12 DEF Inv

\* The event of the action executed last is signalled, or cannot be.
LEMMA SignalKeeps ==
  ASSUME Inv, SignalUserEvent \/ SignalFails
  PROVE  Inv'
<1> USE DEF SignalUserEvent, SignalFails
<1>1. ~Taken /\ ~Taken' /\ InHand' = InHand /\ current \in computes /\ Executed(current)
  <2>1. Len(executed) \in 1..Len(executed)
    BY DEF Inv, TypeOK, WorkIsSound
  <2> QED BY <2>1 DEF Inv, WorkIsSound, Taken, InHand, Executed
<1>2. TypeOK'
  BY <1>1 DEF Inv, TypeOK
<1>3. Consecutive' /\ ExecutedAscend' /\ TakenFollows' /\ QueueFollows' /\ HandFollows'
  BY <1>1 DEF Inv, Consecutive, ExecutedAscend, TakenFollows, QueueFollows, HandFollows
<1>4. StopIsLast' /\ WorkIsSound'
  BY DEF Inv, StopIsLast, WorkIsSound, Failed
<1>5. SignalsAreSound'
  BY <1>1 DEF Inv, TypeOK, SignalsAreSound, Executed
<1>6. NothingIsLost'
  BY <1>1 DEF Inv, NothingIsLost, Executed, Queued, Failed
<1> QED BY <1>2, <1>3, <1>4, <1>5, <1>6 DEF Inv

\* COI finishes a transfer.
LEMMA CompleteTransferKeeps ==
  ASSUME Inv, NEW a \in Actions, CompleteTransfer(a)
  PROVE  Inv'
<1> USE DEF CompleteTransfer, workerVars
<1>1. TypeOK'
  BY DEF Inv, TypeOK
<1>2. Consecutive' /\ ExecutedAscend' /\ TakenFollows' /\ QueueFollows' /\ HandFollows'
  BY DEF Inv, Consecutive, ExecutedAscend, TakenFollows, QueueFollows, HandFollows, Taken, InHand
<1>3. StopIsLast' /\ WorkIsSound'
  BY DEF Inv, StopIsLast, WorkIsSound, Failed
<1>4. SignalsAreSound'
  BY DEF Inv, SignalsAreSound, Executed
<1>5. NothingIsLost'
  BY DEF Inv, NothingIsLost, Executed, Queued, Taken, InHand, Failed
<1> QED BY <1>1, <1>2, <1>3, <1>4, <1>5 DEF Inv

\* Every step preserves the invariant.
LEMMA NextInv == Inv /\ [Next]_vars => Inv'
<1> SUFFICES ASSUME Inv, [Next]_vars PROVE Inv'
  OBVIOUS
<1>1. CASE UNCHANGED vars
  <2> USE <1>1 DEF vars, workerVars
  <2>1. TypeOK' /\ Consecutive'
    BY DEF Inv, TypeOK, Consecutive
  <2>2. ExecutedAscend' /\ TakenFollows' /\ QueueFollows' /\ HandFollows'
    BY DEF Inv, ExecutedAscend, TakenFollows, QueueFollows, HandFollows, Taken, InHand
  <2>3. StopIsLast' /\ WorkIsSound' /\ SignalsAreSound' /\ NothingIsLost'
    BY DEF Inv, StopIsLast, WorkIsSound, SignalsAreSound, NothingIsLost, Executed, Queued,
           Taken, InHand, Failed
  <2> QED BY <2>1, <2>2, <2>3 DEF Inv
<1>2. CASE Next
  BY <1>2, EnqueueFunctionKeeps, EnqueueTransferKeeps, AddKeeps, DestructionKeeps,
     PopFrontKeeps, WorkerKeeps, LoopThrowsKeeps, EventWaitFailsKeeps, ThunkKeeps, SignalKeeps,
     CompleteTransferKeeps
  DEF Next, ProducerReturns, WorkerProceeds, WorkerErrs
<1> QED BY <1>1, <1>2

\* The invariant holds throughout.
LEMMA Invariance == Spec => []Inv
BY InitInv, NextInv, PTL DEF Spec

-----------------------------------------------------------------------------
(* What follows.                                                           *)

\* Types are right: the queue holds actions and the stop action only, and every
\* accepted compute is among the actions.
THEOREM WorkerTyped == Spec => []TypeOK
<1>1. Inv => TypeOK
  BY DEF Inv
<1> QED BY <1>1, Invariance, PTL

\* The worker's thread executes each compute once, in the order of enqueuing and
\* after its inputs, and nothing is signalled before it has been executed.
THEOREM ExecutesOnceInOrder == Spec => []ExecutedOnceInOrder
<1>1. Inv => ExecutedOnceInOrder
  BY DEF Inv, ExecutedOnceInOrder, ExecutedAscend, SignalsAreSound, Executed
<1> QED BY <1>1, Invariance, PTL

\* When ~HostSideSinkWorker has joined the thread, nothing accepted has got lost:
\* after an orderly stop the queue is empty, and after an error, whether at the
\* start or in the loop, what has not been executed is on the queue or was in the
\* worker's hands, but for actions skipped because their wait failed.
THEOREM JoinDrains == Spec => []JoinedMeansDrained
<1>1. Inv => JoinedMeansDrained
  <2> SUFFICES ASSUME Inv, producer \in {"waiting", "destroyed"}
               PROVE  /\ worker = "exited"
                      /\ worker_status_ = "SUCCESS" => queue_ = <<>>
                      /\ "wait" \notin faults =>
                           \A a \in computes : Executed(a) \/ (Failed /\ (a = current \/ Queued(a)))
    BY DEF JoinedMeansDrained, Executed, Queued, Failed
  <2>1. worker = "exited" /\ (~Failed => queue_ = <<>>)
    BY DEF Inv, StopIsLast
  <2>2. ~Taken /\ ~InHand
    BY <2>1 DEF Taken, InHand
  <2>3. ~Failed => \A a : ~Queued(a)
    BY <2>1 DEF Queued
  <2>4. worker_status_ = "SUCCESS" => ~Failed
    BY DEF Failed
  <2> QED BY <2>1, <2>2, <2>3, <2>4 DEF Inv, NothingIsLost
<1> QED BY <1>1, Invariance, PTL

\* The stream with its worker never signals an event twice, before its action was
\* accepted, or before the events the action depends on: it is as safe an executor
\* as COI, which is what PhysStream takes for granted.
THEOREM SafeExecutor == Spec => EventSource!Spec
<1>1. Init => EventSource!Init
  BY DEF Init, EventSource!Init
<1>2. Inv /\ [Next]_vars => [EventSource!Next]_(EventSource!vars)
  <2> SUFFICES ASSUME Inv, [Next]_vars
               PROVE  EventSource!Next \/ UNCHANGED <<submitted, deps, signalled>>
    BY DEF EventSource!vars
  <2>1. CASE enqueueFunction \/ enqueueTransfer
    <3>1. NextAction \in Actions \ submitted
      BY <2>1, NextNumber DEF Inv, enqueueFunction, enqueueTransfer
    <3>2. EventSource!Submit(NextAction)
      BY <2>1, <3>1 DEF EventSource!Submit, enqueueFunction, enqueueTransfer, Accept
    <3> QED BY <3>1, <3>2 DEF EventSource!Next
  <2>2. CASE SignalUserEvent
    <3>1. current \in computes \ signalled /\ computes \subseteq submitted
          /\ submitted \subseteq Actions
      BY <2>2 DEF Inv, WorkIsSound, TypeOK, SignalUserEvent
    <3>2. deps[current] \subseteq signalled
      <4>1. Len(executed) \in 1..Len(executed) /\ executed[Len(executed)] = current
        BY <2>2 DEF Inv, TypeOK, WorkIsSound, SignalUserEvent
      <4> QED BY <4>1 DEF Inv, SignalsAreSound
    <3>3. EventSource!Complete(current)
      BY <2>2, <3>1, <3>2 DEF EventSource!Complete, SignalUserEvent
    <3> QED BY <3>1, <3>3 DEF EventSource!Next
  <2>3. CASE \E a \in Actions : CompleteTransfer(a)
    BY <2>3 DEF EventSource!Next, EventSource!Complete, CompleteTransfer
  <2>4. CASE \/ add \/ Destroy \/ join \/ Destroyed \/ popFront \/ set_affinity \/ wait
             \/ EventWait \/ hStreamsThunk \/ WorkerErrs \/ SpuriousWakeUp
    BY <2>4 DEF add, Destroy, join, Destroyed, popFront, set_affinity, wait, EventWait,
       hStreamsThunk, WorkerErrs, WorkerFails, LoopThrows, EventWaitFails, SignalFails, SpuriousWakeUp
  <2>5. CASE UNCHANGED vars
    BY <2>5 DEF vars
  <2> QED BY <2>1, <2>2, <2>3, <2>4, <2>5 DEF Next, ProducerReturns, WorkerProceeds
<1> QED BY <1>1, <1>2, Invariance, PTL DEF Spec, EventSource!Spec
=============================================================================
