--------------------------- MODULE PhysStreamInv ---------------------------
(***************************************************************************)
(* The inductive invariant behind the safety properties of PhysStream.     *)
(* ConflictOrder and SyncCoversStreams speak of actions; the stream keeps  *)
(* only the last event per buffer.  What makes them true is that the few   *)
(* events kept stand for all the others (Covered), and that nobody changes *)
(* them between a call's look at the dependences and its update            *)
(* (DepsStillCurrent).                                                     *)
(***************************************************************************)
EXTENDS PhysStream

\* How the dependences an action takes relate to those it leaves behind.
Shaped(a) ==
  /\ a.out = "IS_XFER" /\ Policy = "BUFFERS" => a.outs # {}
  /\ a.out \in {"IS_COMPUTE", "IS_BARRIER"} => a.in # "IS_XFER"
  /\ a.in = "IS_BARRIER" \/ a.outs \subseteq a.ins

Preparing(t) == call[t].pc \in {"locked", "gathered"}
Exclusive(t) == call[t].pc \in {"waiting", "destroying", "freeing"}

\* A call that holds a lock for writing is alone in the library.
LocksHold ==
  /\ \A t \in Threads : Exclusive(t) =>
       \A u \in Threads \ {t} : call[u].pc = "idle"
  /\ \A t \in Threads : call[t].pc = "locked" => lock_[call[t].act.stream] = t

\* What a call that is about to submit an action, or just did, knows of it.
SoundCall(t) ==
  /\ Preparing(t) =>
       /\ Shaped(call[t].act)
       /\ call[t].act.stream \in alive
       /\ call[t].act.events \subseteq call[t].deps
       /\ call[t].deps \subseteq Enqueued
  /\ call[t].pc = "locked" =>
       /\ t \in Users[call[t].act.stream]
       /\ call[t].act.ins \subseteq live
  /\ call[t].pc = "gathered" =>
       /\ t \in WaitUsers[call[t].act.stream]
       /\ call[t].act.op = "wait"
  /\ call[t].pc = "submitted" =>
       /\ call[t].event \in Enqueued
       /\ call[t].act = action[call[t].event]

CallsAreSound == \A t \in Threads : SoundCall(t)

\* Only events of submitted actions are around.
EventsAreEnqueued ==
  /\ \A s \in Streams :
       /\ lastAction_[s] \in Enqueued \cup {None}
       /\ \A b \in Buffers : pendingBufUpdates_[s][b] \in Enqueued \cup {None}
  /\ done \subseteq Enqueued
  /\ \A e \in Enqueued :
       /\ action[e].events \subseteq deps[e]
       /\ deps[e] \subseteq Enqueued
       /\ prior[e] \subseteq Enqueued

\* "after" is the transitive closure of "deps", and COI respects it.
HistoryIsExact ==
  /\ \A e \in Enqueued : after[e] = deps[e] \cup UNION {after[d] : d \in deps[e]}
  /\ \A e \in done : after[e] \subseteq done

\* The completion of x implies that of e.
Covers(x, e) == x # None /\ (x = e \/ e \in after[x])

\* The events a stream remembers stand for every tracked action in it.
Covered ==
  \A e \in Enqueued :
    LET a == action[e]
        s == a.stream
    IN  Tracked(a) =>
          /\ Policy = "CONSERVATIVE" => Covers(lastAction_[s], e)
          /\ Policy = "BUFFERS" =>
               /\ Shaped(a)
               /\ a.out # "IS_XFER" => Covers(lastAction_[s], e)
               /\ \A b \in a.outs : Covers(pendingBufUpdates_[s][b], e)

\* A call that is about to submit still holds the latest dependences.
DepsStillCurrent ==
  \A t \in Threads : Preparing(t) =>
    LET a == call[t].act IN getInputDeps(a.stream, a.in, a.ins) \subseteq call[t].deps

\* The events a blocked call waits for stand for all actions in its streams.
WaitIsSufficient ==
  \A t \in Threads : call[t].pc \in {"waiting", "destroying"} =>
    \A e \in Enqueued :
      Tracked(action[e]) /\ action[e].stream \in call[t].scope =>
        \E x \in call[t].deps : Covers(x, e)

\* The count of events has room for every place there can be: at most 65535 with
\* the 16 bits of the code, for each logical stream one and one for each buffer.
CountsFit ==
  /\ IsFiniteSet(LogStreams) /\ IsFiniteSet(Buffers)
  /\ Cardinality(LogStreams \X (Buffers \cup {None})) < 2^CountWidth

\* The inductive invariant of the order of actions.
OrderInv ==
  /\ TypeOK
  /\ LocksHold
  /\ CallsAreSound
  /\ EventsAreEnqueued
  /\ HistoryIsExact
  /\ Covered
  /\ DepsStillCurrent
  /\ ConflictOrder
  /\ CountsFit => WaitIsSufficient /\ DestroyedStreamIsQuiet

\* A buffer in use exists, and somebody remembers the action that uses it: the
\* buffer itself or the call that is about to tell it.
UsesAreRemembered ==
  \A e \in Enqueued \ done : action[e].op \in {"compute", "transfer"} =>
    \A b \in action[e].ins :
      /\ b \in live
      /\ \/ e \in pending_actions_[b]
         \/ \E t \in Threads : call[t].pc = "submitted" /\ call[t].event = e

\* The events DeAlloc waits for stand for all the uses of its buffer.
FreeingIsSufficient ==
  \A t \in Threads : call[t].pc = "freeing" =>
    \A e \in Enqueued \ done :
      /\ action[e].op \in {"compute", "transfer"}
      /\ action[e].ins \cap call[t].buffer # {}
      => e \in call[t].deps

\* The inductive invariant of the life of buffers.
BufferInv ==
  /\ TypeOK
  /\ LocksHold
  /\ CallsAreSound
  /\ EventsAreEnqueued
  /\ UsesAreRemembered
  /\ FreeingIsSufficient
=============================================================================
