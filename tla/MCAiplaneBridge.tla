-------------------------- MODULE MCAiplaneBridge ---------------------------
(* AiplaneBridge instantiated for TLC. *)
EXTENDS AiplaneBridge, MCAiplaneScheduler
=============================================================================
