---------------------------- MODULE StreamClient ----------------------------
(***************************************************************************)
(* A program on top of the promise itself: the host thread makes the calls *)
(* of its text one by one, and whatever StreamPromise lets the library do  *)
(* happens in between.  Nothing has been worked out beforehand of what     *)
(* waits for what; every action has its event, the waits in a stream and   *)
(* the transfers that move nothing included.                               *)
(*                                                                         *)
(* StreamProgram, which runs compiled programs, is what this implements:   *)
(* its commands know the actions that hold them back, and what does no     *)
(* work has been left out.                                                 *)
(***************************************************************************)
EXTENDS StreamProgram

VARIABLES
  action,    \* what the library has been told of each action
  prior,     \* for each, the earlier actions of its stream
  signalled, \* the events, one per action, that have been signalled
  scope      \* the streams the host is blocked synchronising

library == <<action, prior, signalled, scope>>

text == program.text
Host == "host"

AllStreams == UNION {DOMAIN p.place : p \in Range(Texts)}
AllEvents == UNION {DOMAIN p.commands : p \in Range(Texts)}
AllBuffers == UNION {(Range(p.place) \cup {Source}) \X Range(p.bufferOf) : p \in Range(Texts)}

Library ==
  INSTANCE StreamPromise WITH
    Threads <- {Host}, Streams <- AllStreams, Buffers <- AllBuffers, Events <- AllEvents,
    Policy <- "BUFFERS", FiniteTimeOut <- FALSE, done <- signalled

-----------------------------------------------------------------------------
(* The calls.                                                              *)

InitClient == Init /\ Library!Init

\* The command of the text the host is at is one of these.
At(ops) == pc \in DOMAIN text.commands /\ text.commands[pc].op \in ops

CallDone == pc' = pc + 1 /\ UNCHANGED chosen

Enqueue ==
  /\ At(Transfers \cup {"compute", "wait"})
  /\ action' = [action EXCEPT ![pc] =
                  [ActionRecord(text, text.commands[pc]) EXCEPT !.events = Named(text, pc)]]
  /\ Library!Enqueue(pc)
  /\ CallDone
  /\ UNCHANGED <<done, mem>>

EventWait ==
  /\ At({"event wait"})
  /\ Named(text, pc) \subseteq signalled
  /\ CallDone
  /\ UNCHANGED <<done, mem, library>>

\* The streams a synchronisation is about.
\* Mutant: always one of them, stream 0 in a synchronisation of all.
Synchronized_one == {text.commands[pc].stream}

Synchronized ==
  IF At({"sync"}) THEN {text.commands[pc].stream} ELSE DOMAIN text.place

Synchronize ==
  /\ At({"sync", "thread sync"})
  /\ Library!Synchronize(Host, Synchronized)
  /\ UNCHANGED <<vars, signalled>>

SyncReturns ==
  /\ At({"sync", "thread sync"})
  /\ scope[Host] = Synchronized
  /\ Library!Return(Host)
  /\ CallDone
  /\ UNCHANGED <<done, mem, signalled>>

HostTaskRuns == Task /\ UNCHANGED library

-----------------------------------------------------------------------------
(* The library and the sinks.                                              *)

\* An action runs and its event is signalled.  Only computes and transfers that
\* move something do anything.
Complete(i) ==
  /\ Library!Execute(i)
  /\ IF Works(text, i)
     THEN done' = done \cup {i} /\ Run(Commands[i])
     ELSE UNCHANGED <<done, mem>>
  /\ UNCHANGED <<chosen, pc>>

ClientEnded ==
  /\ pc > Len(text.commands)
  /\ Library!Enqueued \subseteq signalled
  /\ UNCHANGED <<vars, library>>

NextClient ==
  \/ Enqueue
  \/ EventWait
  \/ Synchronize
  \/ SyncReturns
  \/ HostTaskRuns
  \/ \E i \in DOMAIN Commands : Complete(i)
  \/ ClientEnded

SpecClient == InitClient /\ [][NextClient]_<<vars, library>>

-----------------------------------------------------------------------------
(* Properties.                                                             *)

\* What the host and the library do together is a run of the compiled program:
\* the promise, call by call, amounts to each command waiting for the actions that
\* Compile lists for it and for nothing else.
ImplementsProgram == Spec
=============================================================================
