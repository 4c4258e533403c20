------------------------- MODULE MCWorkerSupervisor -------------------------
(* WorkerSupervisor instantiated for TLC; the cfg gives all its constants. *)
EXTENDS WorkerSupervisor
=============================================================================
