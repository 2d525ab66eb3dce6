---------------------------- MODULE MCRefPrograms ----------------------------
(***************************************************************************)
(* Instances of the reference programs and tutorials for TLC: names of the *)
(* programs with their sizes.                                              *)
(***************************************************************************)
EXTENDS TutorialPrograms, StreamClient

Config(size, streams, use_host, mics, balance) ==
  [size |-> size, streams |-> streams, use_host |-> use_host, mics |-> mics,
   balance |-> balance]

RefInstances ==
  [cholesky         |-> cholesky_tiled(3, 2),
   lu               |-> lu_tiled(3, 2),
   matMult          |-> matrixMultiply(2, 2, 2, 2),
   choleskyHost     |-> cholesky_tiled_multicard(Config(2, 2, TRUE, 1, FALSE)),
   choleskyCards    |-> cholesky_tiled_multicard(Config(3, 1, FALSE, 2, FALSE)),
   matMultCards     |-> matrixMultiply_multicard(Config(2, 1, FALSE, 2, FALSE)),
   hello            |-> hello_hStreams_world,
   scalarArgs       |-> pass_scalar_args_get_result,
   returnArgs       |-> return_multiple_args,
   passPointer      |-> pass_pointer,
   helloWorld       |-> hello_world,
   bufferSync       |-> task_code_sink_buffer_sync,
   crossBuffer      |-> cross_buffer_xfer,
   naive            |-> compute_math_hstreams_naive,
   streaming        |-> compute_math_streaming(3, 2),
   multicard        |-> compute_math_multicard(3, 1, 2),
   hostMulticard    |-> compute_math_host_multicard(4),
   basicPerf        |-> basic_perf(2, 2),
   ioPerfToSink     |-> io_perf(2, 2, "SRC_TO_SINK"),
   ioPerfToSource   |-> io_perf(2, 2, "SINK_TO_SRC")]

\* What ProgramImplemented asks of each: it says nothing outside its streams,
\* tiles and events.
ASSUME InstancesAreSane == \A n \in DOMAIN RefInstances : Sane(RefInstances[n])

\* Instances too large to run, and what is asked of them: AppProofs shows
\* that whatever passes has no races and the right results.
LargerInstances ==
  {cholesky_tiled(4, 3), lu_tiled(3, 3), matrixMultiply(2, 3, 2, 3),
   cholesky_tiled_multicard(Config(3, 2, TRUE, 1, FALSE)),
   cholesky_tiled_multicard(Config(4, 2, TRUE, 2, FALSE)),
   cholesky_tiled_multicard(Config(4, 3, FALSE, 3, FALSE)),
   matrixMultiply_multicard(Config(2, 2, TRUE, 1, FALSE)),
   matrixMultiply_multicard(Config(3, 3, TRUE, 2, FALSE)),
   matrixMultiply_multicard(Config(3, 3, TRUE, 1, TRUE))}

ASSUME LargerInstancesAreRight == \A p \in LargerInstances : StaticallyRight(p)
=============================================================================
