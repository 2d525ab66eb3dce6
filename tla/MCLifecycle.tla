---------------------------- MODULE MCLifecycle ----------------------------
(* Instances of Lifecycle: three threads, of which one calls Init and Fini.*)
EXTENDS Lifecycle, TLC

CONSTANTS t1, t2, t3
=============================================================================
