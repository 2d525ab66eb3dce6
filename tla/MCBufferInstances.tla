-------------------------- MODULE MCBufferInstances --------------------------
(* Instances of BufferInstances.                                           *)
EXTENDS BufferInstances, TLC

Symmetry == Permutations(Buffers)
=============================================================================
