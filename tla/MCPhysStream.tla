--------------------------- MODULE MCPhysStream ---------------------------
(* Instances of PhysStream: two threads, one or two streams of a sink      *)
(* domain, a handful of actions.                                           *)
EXTENDS PhysStreamInv, TLC

CONSTANTS t1, t2, s1, s2, host, sink

\* "sink" is a buffer's instance in the logical domain of the streams, "host"
\* an instance in the source domain, at the other end of transfers.
SinkBuffers == [s \in Streams |-> Buffers \ {host}]

\* Both threads enqueue into every stream and nobody calls EventStreamWait.
AllThreads == [s \in Streams |-> Threads]
NoThread == [s \in Streams |-> {}]

\* Each of two streams is one thread's own; t1 alone enqueues computes, into its
\* own, and both call EventStreamWait, each on its own.
FirstOnly == [s \in Streams |-> IF s = s1 THEN {t1} ELSE {}]
OwnThread == [s \in Streams |-> IF s = s1 THEN {t1} ELSE {t2}]

\* Every logical stream has a physical one to itself, or all share the first.
OwnStream == [l \in LogStreams |-> l]
OneStream == [l \in LogStreams |-> s1]
============================================================================
