-------------------------- MODULE TutorialPrograms --------------------------
(***************************************************************************)
(* The tutorials on remote invocation (A), on streams (B.2 to B.4) and on  *)
(* tiling (C.0 to C.6), in their solutions, the program hello_world and    *)
(* the benchmarks basic_perf and io_perf.  B and C start with the program  *)
(* for the host alone, which says what the others compute.                 *)
(*                                                                         *)
(* Tiles are ranges of memory that are written as a whole; several may be  *)
(* part of one buffer.                                                     *)
(***************************************************************************)
EXTENDS MulticardPrograms

\* A program of which only some of the tiles are results.
Tutorial(commands, place, bufferOf, expected) ==
  [commands |-> commands, place |-> place, bufferOf |-> bufferOf, expected |-> expected]

OneCard(streams) == custom_init(<<[at |-> Card(0), places |-> streams]>>)

Itself(tiles) == [t \in tiles |-> t]

-----------------------------------------------------------------------------
(* A: a function is invoked on the only stream of a card.  Scalars go with *)
(* the invocation; what it prints comes out at the source, like a result.  *)

console == <<"console">>
Into(tile, invocation) == [invocation EXCEPT !.return = <<tile>>]

\* Nothing waits for the function: hStreams_app_fini follows.  The tutorial
\* simple_make is the same program.
hello_hStreams_world ==
  Tutorial(
    <<Into(console, app_invoke(0, "hello_hStreams_world_sink_1", <<>>, NoEvent))>>,
    OneCard(1), Itself({console}), <<>>)

\* The result is awaited through the event of the invocation.
GetResult(f, result) ==
  Tutorial(
    <<Into(result, app_invoke(0, f, <<>>, <<"out_Event">>)),
      app_event_wait({<<"out_Event">>}),
      HostTask("read", <<result>>)>>,
    OneCard(1), Itself({result}), result :> Made(<<"returned", f>>, <<>>))

pass_scalar_args_get_result == GetResult("average_sink_1", <<"avg">>)
return_multiple_args == GetResult("average_min_max_sink_1", <<"ret_val">>)

\* Its function prints where its operands are, not what they hold.
pass_pointer ==
  Tutorial(
    <<ToSink(0, <<"A">>, NoEvent),
      ToSink(0, <<"B">>, NoEvent),
      Into(console, app_invoke(0, "a3_sink_1", <<<<"A">>, <<"B">>>>, NoEvent))>>,
    OneCard(1), Itself({<<"A">>, <<"B">>, console}), <<>>)

\* The program hello_world prints from an array that was sent; no event says so,
\* the two actions share the array and its stream keeps their order.
hello_world ==
  LET array == <<"array_to_pass_to_sink">>
      print == "hello_hStreams_world_sink_1"
  IN Tutorial(
       <<ToSink(0, array, NoEvent),
         Into(console, app_invoke(0, print, <<array>>, <<"completion">>)),
         app_event_wait({<<"completion">>}),
         HostTask("read", <<console>>)>>,
       OneCard(1), Itself({array, console}),
       console :> Made(<<"returned", print>>, <<Made(array, <<>>)>>))

-----------------------------------------------------------------------------
(* B: two copies, and a sum of what is computed from all four vectors.     *)

A == <<"A">>
B == <<"B">>
C == <<"C">>
D == <<"D">>
E == <<"E">>
sum == <<"sum">>

Vectors == {A, B, C, D, E, sum}
compute_args == <<A, B, C, D, E>>

task_code_host ==
  LET memory == Sequentially(<<<<"copy", <<A, B>>>>, <<"copy", <<C, D>>>>>>,
                             [t \in Vectors |-> Made(t, <<>>)])
  IN sum :> Returned("compute_E", compute_args, memory)

\* Stream 1 computes, when B is there, and returns the sum.
ComputeE ==
  <<[app_invoke(1, "compute_E", compute_args, <<"completionE">>) EXCEPT !.return = <<sum>>],
    app_stream_sync(1),
    HostTask("read", <<sum>>)>>

\* Mutant: the wait is left out.
WaitForB_forgotten == <<>>

WaitForB == <<app_event_wait_in_stream(1, {<<"completionB">>}, <<B>>)>>

task_code_sink_buffer_sync ==
  Tutorial(
    <<ToSink(0, A, <<"completionA">>),
      ToSink(1, C, <<"completionC">>),
      app_invoke(0, "copy", <<A, B>>, <<"completionB">>),
      app_invoke(1, "copy", <<C, D>>, <<"completionD">>)>>
    \o WaitForB \o ComputeE,
    OneCard(2), Itself(Vectors), task_code_host)

\* D is filled by a transfer from another buffer.
cross_buffer_xfer ==
  Tutorial(
    <<ToSink(0, A, <<"completionA">>),
      ToSink(1, C, <<"completionC">>),
      app_xfer_memory(1, D, C, "SRC_TO_SINK", <<"completionD">>),
      app_invoke(0, "copy", <<A, B>>, <<"completionB">>)>>
    \o WaitForB \o ComputeE,
    OneCard(2), Itself(Vectors), task_code_host)

-----------------------------------------------------------------------------
(* C: out1 and out2, the halves of one buffer, are set and computed slice  *)
(* by slice; the slice of index ii is of no concern to the others.         *)

out == <<"out">>
out1(ii) == <<"out1", ii>>
out2(ii) == <<"out2", ii>>
Slices(dimX) == {out1(ii) : ii \in 0 .. dimX - 1} \cup {out2(ii) : ii \in 0 .. dimX - 1}

\* NUM_TESTS_ITERS is 4: the host synchronises after each, so two show as much.
TestIters == 2

\* The program that is not tiled: one range, one call.
compute_math_not_tiled_host ==
  Sequentially(<<<<"memset", <<out>>>>, <<"compute", <<out>>>>>>, out :> Made(out, <<>>))

compute_math_tiled_host(dimX) ==
  Sequentially(
    For(0, dimX - 1, LAMBDA ii :
      <<<<"memset", <<out1(ii)>>>>, <<"memset", <<out2(ii)>>>>,
        <<"compute", <<out1(ii), out2(ii)>>>>>>),
    [t \in Slices(dimX) |-> Made(t, <<>>)])

\* Everything in stream 0, without events.
compute_math_hstreams_naive ==
  Tutorial(
    For(1, TestIters, LAMBDA i :
      <<app_invoke(0, "memset", <<out>>, NoEvent),
        app_invoke(0, "compute", <<out>>, NoEvent),
        ToSource(0, out, NoEvent),
        app_thread_sync,
        HostTask("read", <<out>>)>>),
    OneCard(1), out :> out, compute_math_not_tiled_host)

\* Slice ii goes through stream ii modulo their number; events are not used.
\* Mutant: the halves are set in two streams.
EnqueueSlices_apart(dimX, streams) ==
  For(0, dimX - 1, LAMBDA ii :
    LET stream == ii % streams
    IN <<app_invoke(stream, "memset", <<out1(ii)>>, NoEvent),
         app_invoke((ii + 1) % streams, "memset", <<out2(ii)>>, NoEvent),
         app_invoke(stream, "compute", <<out1(ii), out2(ii)>>, NoEvent),
         ToSource(stream, out1(ii), NoEvent),
         ToSource(stream, out2(ii), NoEvent)>>)

EnqueueSlices(dimX, streams) ==
  For(0, dimX - 1, LAMBDA ii :
    LET stream == ii % streams
    IN <<app_invoke(stream, "memset", <<out1(ii)>>, NoEvent),
         app_invoke(stream, "memset", <<out2(ii)>>, NoEvent),
         app_invoke(stream, "compute", <<out1(ii), out2(ii)>>, NoEvent),
         ToSource(stream, out1(ii), NoEvent),
         ToSource(stream, out2(ii), NoEvent)>>)

Sliced(dimX, place) ==
  Tutorial(
    For(1, TestIters, LAMBDA i :
      EnqueueSlices(dimX, Cardinality(DOMAIN place))
      \o <<app_thread_sync, HostTask("read", <<out1(0), out2(0)>>)>>),
    place, [t \in Slices(dimX) |-> out], compute_math_tiled_host(dimX))

compute_math_streaming(dimX, streams) == Sliced(dimX, OneCard(streams))

\* total_streams is the number of streams of all cards.
compute_math_multicard(dimX, streams, cards) ==
  Sliced(dimX, custom_init([d \in 1 .. cards |-> [at |-> Card(d - 1), places |-> streams]]))

\* One stream on the host, which is a sink with memory of its own, two on a card.
host_and_card == custom_init(<<[at |-> HostSink, places |-> 1], [at |-> Card(0), places |-> 2]>>)

compute_math_host_multicard(dimX) == Sliced(dimX, host_and_card)

-----------------------------------------------------------------------------
(* basic_perf: in each stream, matrices to the card, back, and multiplied; *)
(* the host synchronises once after all the repetitions of each.           *)

basic_perf(streams, iterations) ==
  LET matrix(name, s) == <<name, s>>
      each(Body(_)) ==
        For(1, iterations, LAMBDA i : For(0, streams - 1, Body)) \o <<app_thread_sync>>
      sources == {matrix(name, s) : name \in {"A", "B"}, s \in 0 .. streams - 1}
      products == {matrix("C", s) : s \in 0 .. streams - 1}
  IN Tutorial(
       each(LAMBDA s : <<ToSink(s, matrix("A", s), NoEvent), ToSink(s, matrix("B", s), NoEvent)>>)
       \o each(LAMBDA s : <<ToSource(s, matrix("A", s), NoEvent), ToSource(s, matrix("B", s), NoEvent)>>)
       \o each(LAMBDA s :
            <<app_invoke(s, "dgemm", <<matrix("A", s), matrix("B", s), matrix("C", s)>>, NoEvent)>>),
       OneCard(streams), Itself(sources \cup products),
       [t \in sources |-> Made(t, <<>>)])

-----------------------------------------------------------------------------
(* io_perf: each stream moves its buffer in one direction, once to warm up *)
(* and then again and again, with one synchronisation after each part.     *)

io_perf(nstreams, iterations, xfer_direction) ==
  LET A_(stream) == <<"A", stream>>
      buffers == {A_(stream) : stream \in 0 .. nstreams - 1}
      transfers ==
        For(0, nstreams - 1, LAMBDA stream :
          <<app_xfer_memory(stream, A_(stream), A_(stream), xfer_direction, NoEvent)>>)
  IN Tutorial(
       transfers \o <<app_thread_sync>>
       \o For(1, iterations, LAMBDA iters : transfers) \o <<app_thread_sync>>,
       OneCard(nstreams), Itself(buffers),
       [t \in buffers |-> IF xfer_direction = "SRC_TO_SINK" THEN Made(t, <<>>) ELSE Unset])
=============================================================================
