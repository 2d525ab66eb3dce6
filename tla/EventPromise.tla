---------------------------- MODULE EventPromise ----------------------------
(***************************************************************************)
(* What a stream expects of whoever executes its actions, be it COI on a   *)
(* card or the host side's worker thread: an accepted action's completion  *)
(* event is signalled once, after the events the action was submitted with *)
(* and sooner or later.  PhysStream takes this for granted in Complete.    *)
(***************************************************************************)
CONSTANT Actions    \* an action and its completion event have one name

VARIABLES
  submitted,  \* the accepted actions
  deps,       \* per action, the events it was submitted with
  signalled   \* the events that have been signalled

vars == <<submitted, deps, signalled>>

Init ==
  /\ submitted = {}
  /\ deps = [a \in Actions |-> {}]
  /\ signalled = {}

Submit(a) ==
  /\ a \in Actions \ submitted
  /\ submitted' = submitted \cup {a}
  /\ \E D \in SUBSET submitted : deps' = [deps EXCEPT ![a] = D]
  /\ UNCHANGED signalled

Complete(a) ==
  /\ a \in submitted \ signalled
  /\ deps[a] \subseteq signalled
  /\ signalled' = signalled \cup {a}
  /\ UNCHANGED <<submitted, deps>>

Next == \E a \in Actions : Submit(a) \/ Complete(a)

Spec == Init /\ [][Next]_vars
Fair(a) == WF_vars(Complete(a))
FairSpec == Spec /\ \A a \in Actions : Fair(a)
=============================================================================
