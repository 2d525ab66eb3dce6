---------------------------- MODULE MCLogBuffers ----------------------------
(* Instances of LogBuffers with a handful of addresses.                    *)
EXTENDS LogBuffers, TLC
=============================================================================
