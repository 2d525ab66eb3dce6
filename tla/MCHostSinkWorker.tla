-------------------------- MODULE MCHostSinkWorker --------------------------
(* An instance of HostSinkWorker: a stream with a handful of actions.      *)
EXTENDS HostSinkWorker, TLC
=============================================================================
