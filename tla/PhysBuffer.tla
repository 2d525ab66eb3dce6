----------------------------- MODULE PhysBuffer -----------------------------
(***************************************************************************)
(* hStreams_PhysBuffer: the list of actions a buffer must outlive, its     *)
(* lazy clean-up, and the wait in the destructor.                          *)
(*                                                                         *)
(* addPendingAction runs under the buffer's lock_, so that it is one step  *)
(* here; actions complete at any moment, also before the buffer has heard  *)
(* of them.  PhysStream keeps only the set of the actions, and relies on   *)
(* PendingIsUnfinished below for that.                                     *)
(***************************************************************************)
EXTENDS Integers, FiniteSets, SequencesExt

CONSTANTS
  Events,        \* completion events
  CleanupValue,  \* fixed_buffer_actions_cleanup_value
  CountWidth,    \* bits of the event count handed to COIEventWait, 16
  MaxAdds        \* bound on the calls of addPendingAction

ASSUME PBAssumption == CleanupValue \in Nat \ {0} /\ CountWidth \in Nat /\ MaxAdds \in Nat

VARIABLES
  pending_actions_,         \* the events, in the order of their registration
  action_cleanup_counter_,  \* registrations since the last clean-up
  done,                     \* COI: the events that have been signalled
  added,                    \* history: the events registered
  adds,                     \* history: how many registrations
  destroyed                 \* whether the destructor has run

pbVars == <<pending_actions_, action_cleanup_counter_, done, added, adds, destroyed>>

PBTypeOK ==
  /\ pending_actions_ \in Seq(Events)
  /\ action_cleanup_counter_ \in 0..(CleanupValue - 1)
  /\ done \subseteq Events
  /\ added \subseteq Events
  /\ adds \in 0..MaxAdds
  /\ destroyed \in BOOLEAN

-----------------------------------------------------------------------------
\* The cast of pending_actions_.size().
EventCount == Len(pending_actions_) % 2^CountWidth

\* COIEventWait looks at the first EventCount events; an empty list is an error.
Completed == {i \in 1..EventCount : pending_actions_[i] \in done}
AllCompleted == EventCount > 0 /\ Completed = 1..EventCount

\* Mutant: the index is a member of the functor, whose copy inside remove_if
\* counts up to the first match and is thrown away.
functorIndex_copied(i) ==
  LET before == {j \in Completed : j < i} IN
    IF before = {} THEN i ELSE i - Min(before)

\* The index the functor compares with when remove_if asks about position i.
functorIndex(i) == i

\* std::remove_if and erase: the k-th event left is the k-th of those kept.
Kept == {i \in 1..Len(pending_actions_) : functorIndex(i) \notin Completed}
keptBefore(i) == {j \in Kept : j <= i}
Remaining ==
  [k \in 1..Cardinality(Kept) |->
     pending_actions_[CHOOSE i \in Kept : Cardinality(keptBefore(i)) = k]]

\* Mutant: a poll that times out has found nothing completed.
removeCompletedActions_allOrNothing ==
  IF AllCompleted THEN <<>> ELSE pending_actions_

\* The events left after a clean-up.
removeCompletedActions ==
  CASE AllCompleted -> <<>>
    [] EventCount = 0 -> pending_actions_
    [] OTHER -> Remaining

addPendingAction(e) ==
  LET cleanup == action_cleanup_counter_ + 1 >= CleanupValue IN
    /\ ~destroyed
    /\ adds < MaxAdds
    /\ adds' = adds + 1
    /\ added' = added \cup {e}
    /\ action_cleanup_counter_' = IF cleanup THEN 0 ELSE action_cleanup_counter_ + 1
    /\ pending_actions_' =
         Append(IF cleanup THEN removeCompletedActions ELSE pending_actions_, e)
    /\ UNCHANGED <<done, destroyed>>

\* Mutant: the destructor polls instead of waiting.
Destroy_polls ==
  /\ ~destroyed
  /\ destroyed' = TRUE
  /\ UNCHANGED <<pending_actions_, action_cleanup_counter_, done, added, adds>>

Destroy ==
  /\ ~destroyed
  /\ pending_actions_ = <<>> \/ Completed = 1..EventCount
  /\ destroyed' = TRUE
  /\ UNCHANGED <<pending_actions_, action_cleanup_counter_, done, added, adds>>

\* COI signals an event.
Complete(e) ==
  /\ e \notin done
  /\ done' = done \cup {e}
  /\ UNCHANGED <<pending_actions_, action_cleanup_counter_, added, adds, destroyed>>

PBInit ==
  /\ pending_actions_ = <<>>
  /\ action_cleanup_counter_ = 0
  /\ done = {}
  /\ added = {}
  /\ adds = 0
  /\ destroyed = FALSE

PBNext ==
  \/ \E e \in Events : addPendingAction(e) \/ Complete(e)
  \/ Destroy

PBSpec == PBInit /\ [][PBNext]_pbVars
-----------------------------------------------------------------------------
(* Properties.                                                             *)

\* Clean-up forgets completed actions and no others: the unfinished actions on
\* the list are exactly the unfinished ones among those registered.
PendingIsUnfinished ==
  ToSet(pending_actions_) \ done = added \ done

\* The destructor gives the memory back only when every action is finished.
DestroyedMeansFinished == destroyed => added \subseteq done

\* A clean-up leaves no completed action behind, so that the list does not grow
\* with the number of actions ever enqueued.
CleanupForgetsCompleted ==
  [][action_cleanup_counter_' < action_cleanup_counter_ =>
       \A i \in 1..(Len(pending_actions_') - 1) : pending_actions_'[i] \notin done]_pbVars
=============================================================================
