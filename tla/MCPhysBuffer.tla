---------------------------- MODULE MCPhysBuffer ----------------------------
(* Instances of PhysBuffer with interchangeable events.                    *)
EXTENDS PhysBuffer, TLC

EventSymmetry == Permutations(Events)
=============================================================================
