---------------------------- MODULE StreamProgram ----------------------------
(***************************************************************************)
(* Programs that use the library: one host thread that goes through a list *)
(* of commands (enqueue a transfer or a compute, wait for events,          *)
(* synchronise streams, run a task of its own), while the actions it has   *)
(* enqueued run in any order that StreamPromise allows.                    *)
(*                                                                         *)
(* A text, what the program says, is compiled: of each command it is       *)
(* worked out what memory it touches and which actions hold it back.  The  *)
(* specification runs compiled programs; StreamClient, where the host and  *)
(* the promise take their steps without any such knowledge, implements it. *)
(*                                                                         *)
(* What is asked of a program is whether the promise is enough for it:     *)
(* whether its events and synchronisations order every two actions that    *)
(* touch the same memory, and whether it computes what it should.          *)
(* RefPrograms, MulticardPrograms and TutorialPrograms are the programs.   *)
(*                                                                         *)
(* Memory is divided into tiles, named by the proxy address the program    *)
(* uses, with an instance of each at the source and at every sink.  What a *)
(* tile holds is a term: the kernel that made it, of what, and the         *)
(* products added since.                                                   *)
(***************************************************************************)
EXTENDS Integers, SequencesExt

CONSTANT
  Texts  \* the programs, by name: their commands and what these are about

VARIABLES
  chosen, \* the name of the program that runs
  pc,     \* the command the host thread is at
  done,   \* the actions that have completed, by their place in the list
  mem     \* what each instance of each tile holds

vars == <<chosen, pc, done, mem>>

-----------------------------------------------------------------------------
(* Commands.                                                               *)

NoEvent == <<>>

Command == [op |-> "sync", stream |-> 0, f |-> "none", tiles |-> <<>>,
            return |-> <<>>, events |-> {}, event |-> NoEvent]

app_invoke(s, f, tiles, event) ==
  [Command EXCEPT !.op = "compute", !.stream = s, !.f = f, !.tiles = tiles,
                  !.event = event]

app_xfer_memory(s, to, from, direction, event) ==
  [Command EXCEPT !.op = direction, !.stream = s, !.f = "move",
                  !.tiles = <<to, from>>, !.event = event]

app_event_wait(events) == [Command EXCEPT !.op = "event wait", !.events = events]

\* No tiles: the wait is a barrier for its stream.
app_event_wait_in_stream(s, events, tiles) ==
  [Command EXCEPT !.op = "wait", !.stream = s, !.events = events, !.tiles = tiles]

app_stream_sync(s) == [Command EXCEPT !.op = "sync", !.stream = s]
app_thread_sync == [Command EXCEPT !.op = "thread sync"]

HostTask(f, tiles) == [Command EXCEPT !.op = "task", !.f = f, !.tiles = tiles]

Transfers == {"SRC_TO_SINK", "SINK_TO_SRC"}
Enqueues(c) == c.op \in Transfers \cup {"compute", "wait"}

\* The body for each number of a range, one after the other.
For(low, high, Body(_)) == FlattenSeq([i \in 1 .. high - low + 1 |-> Body(low + i - 1)])
If(condition, commands) == IF condition THEN commands ELSE <<>>

\* Kernels that leave their operands alone: what they make is returned or printed.
OnlyReads ==
  {"read", "none", "hello_hStreams_world_sink_1", "average_sink_1",
   "average_min_max_sink_1", "a3_sink_1"}

\* Which of its n operands a kernel writes.
Written(f, n) ==
  CASE f \in {"move", "memset"} -> {1}
    [] f \in OnlyReads -> {}
    [] f = "compute" -> 1 .. n
    [] OTHER -> {n}

\* What a text may say: streams and tiles it declares, as many tiles as the kernel
\* needs, and events of actions only.
Sane(p) ==
  /\ Len(p.commands) \in Nat /\ DOMAIN p.commands = 1 .. Len(p.commands)
  /\ DOMAIN p.expected \subseteq DOMAIN p.bufferOf
  /\ \A i \in DOMAIN p.commands :
       LET c == p.commands[i] IN
         /\ c.op \in Transfers \cup {"compute", "wait", "event wait", "sync", "thread sync", "task"}
         /\ c.tiles \in Seq(DOMAIN p.bufferOf) /\ c.return \in Seq(DOMAIN p.bufferOf)
         /\ Enqueues(c) \/ c.op = "sync" => c.stream \in DOMAIN p.place
         /\ c.op \in Transfers => c.f = "move" /\ Len(c.tiles) = 2
         /\ c.op \in {"compute", "task"} => Written(c.f, Len(c.tiles)) \subseteq DOMAIN c.tiles
         /\ c.event # NoEvent => Enqueues(c)
         /\ NoEvent \notin c.events

-----------------------------------------------------------------------------
(* What a command touches: operands are instances, <<place, tile>>.        *)

\* A place is the source, a card, or, when buffers are not aliased, the instances
\* that the host has of them as a sink.
Source == <<"source">>
HostSink == <<"host sink">>
Card(d) == <<"card", d>>

Operands(c, place) ==
  CASE c.op = "compute" -> [i \in DOMAIN c.tiles |-> <<place[c.stream], c.tiles[i]>>]
    [] c.op = "SRC_TO_SINK" -> <<<<place[c.stream], c.tiles[1]>>, <<Source, c.tiles[2]>>>>
    [] c.op = "SINK_TO_SRC" -> <<<<Source, c.tiles[1]>>, <<place[c.stream], c.tiles[2]>>>>
    [] c.op = "task" -> [i \in DOMAIN c.tiles |-> <<Source, c.tiles[i]>>]
    [] OTHER -> <<>>

\* A transfer whose ends are one instance moves nothing: the stream's domain is
\* the host's and the buffer is aliased.
Elided(c, place) ==
  c.op \in Transfers /\ Operands(c, place)[1] = Operands(c, place)[2]

Made(f, from) == [of |-> f, from |-> from, plus |-> {}]
Unset == Made(<<"unset">>, <<>>)

\* The i-th operand of f after it ran on operands that held v.  An update by a
\* product, dgemm or dsyrk, is remembered as such: the order of updates is not
\* part of the result.
After(f, v, i) ==
  CASE f = "move" -> v[2]
    [] f = "memset" -> Made(<<"zero">>, <<>>)
    [] f = "copy" -> v[1]
    [] f = "compute_E" -> Made(<<f>>, Front(v))
    [] f \in {"dgemm", "dsyrk"} ->
         LET product == <<v[1], v[Len(v) - 1]>>
             into == v[Len(v)]
         IN IF product \in into.plus THEN Made(<<"twice">>, v)
            ELSE [into EXCEPT !.plus = @ \cup {product}]
    [] OTHER -> Made(<<f, i>>, v)

\* A memory in which some locations have new contents.
Overwritten(memory, new) ==
  [l \in DOMAIN memory \cup DOMAIN new |-> IF l \in DOMAIN new THEN new[l] ELSE memory[l]]

\* What f makes of the memory it is called on.
Apply(f, operands, memory) ==
  LET v == [i \in DOMAIN operands |-> memory[operands[i]]]
      written == Written(f, Len(operands))
  IN Overwritten(memory, [l \in {operands[i] : i \in written} |->
                            After(f, v, CHOOSE i \in written : operands[i] = l)])

\* What a kernel returns, or prints, is made of what it leaves in its operands.
Returned(f, operands, memory) ==
  Made(<<"returned", f>>, [i \in DOMAIN operands |-> Apply(f, operands, memory)[operands[i]]])

\* What a list of kernel calls, <<kernel, tiles>>, computes one after the other.
Sequentially(calls, memory) ==
  FoldLeft(LAMBDA m, call : Apply(call[1], call[2], m), memory, calls)

-----------------------------------------------------------------------------
(* What holds a command back.                                              *)

Promise ==
  INSTANCE StreamPromise WITH
    Threads <- {}, Streams <- {}, Buffers <- {}, Events <- {},
    Policy <- "BUFFERS", FiniteTimeOut <- FALSE,
    action <- <<>>, prior <- <<>>, done <- {}, scope <- <<>>

\* The dependences of an action as the library sees it.  BufferOf names the
\* buffer a tile is part of.
ActionRecord(p, c) ==
  LET buffers(tiles) == {<<p.place[c.stream], p.bufferOf[t]>> : t \in tiles}
      operands == Operands(c, p.place)
      bufs == {<<o[1], p.bufferOf[o[2]]>> : o \in Range(operands)}
      record(op, in, out, ins, outs) ==
        [op |-> op, stream |-> c.stream, in |-> in, out |-> out,
         ins |-> ins, outs |-> outs, events |-> {}]
  IN CASE c.op = "compute" -> record("compute", "IS_COMPUTE", "IS_COMPUTE", bufs, bufs)
       [] Elided(c, p.place) -> record("elided", "IS_XFER", "NONE", bufs, {})
       [] c.op \in Transfers /\ ~Elided(c, p.place) ->
            record("transfer", "IS_XFER", "IS_XFER", bufs,
                   {<<operands[1][1], p.bufferOf[operands[1][2]]>>})
       [] c.op = "wait" /\ c.tiles = <<>> ->
            record("wait", "IS_BARRIER", "IS_BARRIER", {}, buffers(DOMAIN p.bufferOf))
       [] c.op = "wait" /\ c.tiles # <<>> ->
            record("wait", "IS_XFER", "IS_XFER", buffers(Range(c.tiles)), buffers(Range(c.tiles)))

\* The action whose completion an event variable stands for when command i waits
\* for it: the last one enqueued with it.  A variable never set holds nothing.
Signalled(commands, i, event) ==
  LET setters == {j \in 1 .. i - 1 : commands[j].event = event}
  IN IF setters = {} THEN {} ELSE {CHOOSE j \in setters : \A k \in setters : k <= j}

Named(p, i) == UNION {Signalled(p.commands, i, e) : e \in p.commands[i].events}

Directly(p, i) ==
  LET c == p.commands[i]
      earlier == {j \in 1 .. i - 1 : Enqueues(p.commands[j])}
      named == Named(p, i)
  IN CASE Enqueues(c) ->
            named \cup {j \in earlier : p.commands[j].stream = c.stream /\
                          Promise!MustFollow(ActionRecord(p, p.commands[j]), ActionRecord(p, c))}
       [] c.op = "event wait" -> named
       [] c.op = "sync" -> {j \in earlier : p.commands[j].stream = c.stream /\
                                            ~Elided(p.commands[j], p.place)}
       [] c.op = "thread sync" -> {j \in earlier : ~Elided(p.commands[j], p.place)}
       [] c.op = "task" -> {}

\* Waits in a stream and elided transfers do nothing themselves and are over as
\* soon as they may start: they pass on what holds them back.
Works(p, i) ==
  p.commands[i].op \in Transfers \cup {"compute"} /\ ~Elided(p.commands[i], p.place)

\* One command, given those compiled before it.
CompileNext(p, compiled) ==
  LET i == Len(compiled) + 1
      c == p.commands[i]
      operands == Operands(c, p.place)
      returned == {<<Source, t>> : t \in Range(c.return)}
  IN [kind     |-> IF Works(p, i) THEN "action"
                   ELSE IF c.op = "task" THEN "task"
                   ELSE IF Enqueues(c) THEN "passes" ELSE "waits",
      f        |-> c.f,
      operands |-> operands,
      before   |-> UNION {IF Works(p, j) THEN {j} ELSE compiled[j].before : j \in Directly(p, i)},
      returned |-> returned,
      writes   |-> {operands[j] : j \in Written(c.f, Len(operands))} \cup returned,
      touches  |-> Range(operands) \cup returned]

\* The first commands of a program, for each number of them.
CompiledUpto(p) ==
  LET compiled[i \in 0 .. Len(p.commands)] ==
        IF i = 0 THEN <<>>
        ELSE LET earlier == compiled[i - 1] IN Append(earlier, CompileNext(p, earlier))
  IN compiled

Compile(p) ==
  [text     |-> p,
   commands |-> CompiledUpto(p)[Len(p.commands)],
   places   |-> Range(p.place) \cup {Source},
   expected |-> p.expected,
   tiles    |-> DOMAIN p.bufferOf]

-----------------------------------------------------------------------------
(* The run.                                                                *)

Compiled(texts) == [n \in DOMAIN texts |-> Compile(texts[n])]
Programs == Compiled(Texts)
program == Programs[chosen]

Locations(p) == p.places \X p.tiles

\* The source holds the program's data, the sinks nothing yet.
InitialMemory(p) ==
  [l \in Locations(p) |-> IF l[1] = Source THEN Made(l[2], <<>>) ELSE Unset]

\* Returned values are written to the source's memory like an operand.
RunOn(c, memory) ==
  Overwritten(Apply(c.f, c.operands, memory),
              [l \in c.returned |-> Returned(c.f, c.operands, memory)])

Commands == program.commands
Issued == 1 .. pc - 1

Init ==
  /\ chosen \in DOMAIN Texts
  /\ pc = 1
  /\ done = {}
  /\ mem = InitialMemory(program)

Run(c) == mem' = RunOn(c, mem)

\* The host thread gets past its next command: it enqueues, or waits no longer.
Issue ==
  /\ pc \in DOMAIN Commands
  /\ Commands[pc].kind # "task"
  /\ Commands[pc].kind = "waits" => Commands[pc].before \subseteq done
  /\ pc' = pc + 1
  /\ UNCHANGED <<chosen, done, mem>>

Task ==
  /\ pc \in DOMAIN Commands
  /\ Commands[pc].kind = "task"
  /\ Run(Commands[pc])
  /\ pc' = pc + 1
  /\ UNCHANGED <<chosen, done>>

\* The actions that may be running: nothing holds them back.
Running ==
  {i \in Issued \ done : Commands[i].kind = "action" /\ Commands[i].before \subseteq done}

Execute(i) ==
  /\ i \in Running
  /\ Run(Commands[i])
  /\ done' = done \cup {i}
  /\ UNCHANGED <<chosen, pc>>

Ended == pc > Len(Commands) /\ Running = {} /\ UNCHANGED vars

Next == Issue \/ Task \/ (\E i \in DOMAIN Commands : Execute(i)) \/ Ended

Spec == Init /\ [][Next]_vars

-----------------------------------------------------------------------------
(* What can be told of a program without running it, from what holds each  *)
(* of its commands back.  AppProofs shows that it is enough.               *)

Executes(c) == c.kind \in {"action", "task"}

\* What is over when the host comes to command i, as far as can be seen from what
\* the host has done: its waits and its tasks.
HostKnows(p, i) ==
  (UNION {p.commands[w].before : w \in {v \in 1 .. i - 1 : p.commands[v].kind = "waits"}})
    \cup {t \in 1 .. i - 1 : p.commands[t].kind = "task"}

\* What is over when command i runs, as far as can be seen from i besides.
Awaited(p, i) ==
  HostKnows(p, i) \cup IF p.commands[i].kind = "action" THEN p.commands[i].before ELSE {}

\* And what was over before that was.
WithPast(over, known) == known \cup UNION {over[k] : k \in known}

PrecedingUpto(p) ==
  LET over[i \in 0 .. Len(p.commands)] ==
        IF i = 0 THEN <<>>
        ELSE LET earlier == over[i - 1] IN Append(earlier, WithPast(earlier, Awaited(p, i)))
  IN over

Preceding(p) == PrecedingUpto(p)[Len(p.commands)]

\* Two commands that may not run at a time.
Conflict(c, d) == c.writes \cap d.touches # {} \/ c.touches \cap d.writes # {}

\* Where the host is when it has the results: at its last command if that looks at
\* them, after it if that waits for them.
ResultsAt(p) ==
  LET n == Len(p.commands) IN IF p.commands[n].kind = "task" THEN n ELSE n + 1

\* Of two commands that conflict the first is over before the second runs, and
\* what writes the results is over when the host has them.
Ordered(p) ==
  LET n == Len(p.commands)
      over == Preceding(p)
      Runs == {i \in 1 .. n : Executes(p.commands[i])}
  IN /\ \A i, j \in Runs :
          i < j /\ Conflict(p.commands[i], p.commands[j]) => i \in over[j]
     /\ \A i \in Runs, t \in DOMAIN p.expected :
          i < ResultsAt(p) /\ <<Source, t>> \in p.commands[i].writes
            => i \in WithPast(over, HostKnows(p, ResultsAt(p)))

\* The memory before each command, and at the end, when the commands run one after
\* the other as they are listed.
SequentiallyNext(c, memory) == IF Executes(c) THEN RunOn(c, memory) ELSE memory

SequentialRunUpto(p) ==
  LET run[i \in 0 .. Len(p.commands)] ==
        IF i = 0 THEN <<InitialMemory(p)>>
        ELSE LET earlier == run[i - 1]
             IN Append(earlier, SequentiallyNext(p.commands[i], earlier[i]))
  IN run

SequentialRun(p) == SequentialRunUpto(p)[Len(p.commands)]

\* That run has the expected results.
SequentiallyRight(p) ==
  LET memory == SequentialRun(p)[ResultsAt(p)]
  IN \A t \in DOMAIN p.expected : memory[<<Source, t>>] = p.expected[t]

\* The events and synchronisations a text names, with what the library promises of
\* one stream, order any two commands that conflict; and one after the other the
\* commands compute what the program should.
StaticallyRight(p) ==
  LET compiled == Compile(p) IN Sane(p) /\ Ordered(compiled) /\ SequentiallyRight(compiled)

-----------------------------------------------------------------------------
(* Properties.                                                             *)

\* No two things that may run at one time, actions or the host's own task,
\* touch the same memory with one of them writing it.  It is also what makes it
\* right to take actions for atomic here.
NoRace ==
  LET now == Running \cup {i \in {pc} \cap DOMAIN Commands : Commands[i].kind = "task"}
  IN \A i, j \in now :
       i # j => Commands[i].writes \cap Commands[j].touches = {}

\* When the host has the results, they are what the sequential algorithm computes.
RightResult ==
  pc = ResultsAt(program) =>
    \A t \in DOMAIN program.expected :
      mem[<<Source, t>>] = program.expected[t]
=============================================================================
