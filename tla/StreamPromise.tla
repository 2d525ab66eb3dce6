--------------------------- MODULE StreamPromise ---------------------------
(***************************************************************************)
(* What a hetero-streams physical stream promises the application, with no *)
(* word on how the promise is kept.  Actions are enqueued; the library may *)
(* let an action execute only after the earlier actions of the same stream *)
(* it must follow, and after the actions of any stream whose events it was *)
(* told to wait for; a synchronisation call returns only when everything   *)
(* enqueued in the streams it names has executed.                          *)
(*                                                                         *)
(* PhysStream implements this module: there an action is handed to COI     *)
(* with a finite list of completion events, and nothing but those events   *)
(* holds it back.                                                          *)
(***************************************************************************)
EXTENDS FiniteSets

CONSTANTS
  Threads,  \* application threads calling the library
  Streams,  \* physical streams
  Buffers,  \* physical buffers
  Events,   \* completion events, one per action; bounds the model
  Policy,   \* HSTR_OPTIONS.dep_policy
  FiniteTimeOut \* whether a synchronisation may give up

VARIABLES
  action,   \* what each completion event stands for
  prior,    \* for each event, the earlier actions of the same stream
  done,     \* the events that have been signalled
  scope     \* for each thread, the streams it is blocked synchronising

vars == <<action, prior, done, scope>>

Ops       == {"compute", "transfer", "elided", "wait"}
DepTypes  == {"IS_COMPUTE", "IS_XFER", "IS_BARRIER", "NONE"}

\* in, out: the kind of dependence the action takes from, and leaves in, the
\* stream.  ins, outs: the buffers those dependences are about.  events: those
\* named in an EventStreamWait.
ActionRecord == [op : Ops, stream : Streams, in : DepTypes, out : DepTypes,
                 ins : SUBSET Buffers, outs : SUBSET Buffers, events : SUBSET Events]

Unused == [op |-> "unused"]
Enqueued == {e \in Events : action[e] # Unused}

\* An action with out = "NONE" leaves no trace in the stream: a transfer within
\* an aliased buffer, which moves nothing, or an EventStreamWait that was asked
\* for an event handle only.
Tracked(a) == a.out # "NONE"

(***************************************************************************)
(* The order promised between an earlier action p and a later action e of  *)
(* one stream.  The conservative policy orders everything.  The buffer     *)
(* policy orders computes among themselves and with barriers, and e after  *)
(* every p that updates a buffer e names; a transfer updates only its      *)
(* destination, a compute every buffer it is passed.                       *)
(***************************************************************************)
MustFollow(p, e) ==
  /\ Tracked(p)
  /\ \/ Policy = "CONSERVATIVE"
     \/ /\ Policy = "BUFFERS"
        /\ \/ e.in = "IS_BARRIER"
           \/ p.out # "IS_XFER" /\ e.in # "IS_XFER"
           \/ p.outs \cap e.ins # {}

Init ==
  /\ action = [e \in Events |-> Unused]
  /\ prior = [e \in Events |-> {}]
  /\ done = {}
  /\ scope = [t \in Threads |-> {}]

Enqueue(e) ==
  /\ action[e] = Unused
  /\ action'[e] \in ActionRecord
  /\ action'[e].events \subseteq Enqueued
  /\ action' = [action EXCEPT ![e] = action'[e]]
  /\ prior' = [prior EXCEPT ![e] = {p \in Enqueued : action[p].stream = action'[e].stream}]
  /\ UNCHANGED <<done, scope>>

Execute(e) ==
  /\ e \in Enqueued \ done
  /\ action[e].events \subseteq done
  /\ {p \in prior[e] : MustFollow(action[p], action[e])} \subseteq done
  /\ done' = done \cup {e}
  /\ UNCHANGED <<action, prior, scope>>

Synchronize(t, S) ==
  /\ scope[t] = {}
  /\ scope' = [scope EXCEPT ![t] = S]
  /\ UNCHANGED <<action, prior, done>>

\* Everything tracked in the streams of S has executed.
Quiet(S) ==
  \A e \in Enqueued : action[e].stream \in S /\ Tracked(action[e]) => e \in done

\* A call returns when its streams are quiet, or with an error saying that it
\* gave up.
Return(t) ==
  /\ Quiet(scope[t]) \/ FiniteTimeOut
  /\ scope' = [scope EXCEPT ![t] = {}]
  /\ UNCHANGED <<action, prior, done>>

Next ==
  \/ \E e \in Events : Enqueue(e) \/ Execute(e)
  \/ \E t \in Threads, S \in SUBSET Streams : Synchronize(t, S)
  \/ \E t \in Threads : Return(t)

Spec == Init /\ [][Next]_vars
=============================================================================
