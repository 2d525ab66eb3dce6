----------------------------- MODULE MCRegistry -----------------------------
(* Instances of Registry: the host and a card with one and two threads.    *)
EXTENDS Registry, TLC

CONSTANTS host, card

Threads == [p \in {host, card} |-> IF p = card THEN 2 ELSE 1]
Symmetry == Permutations(PhysStreams)
=============================================================================
