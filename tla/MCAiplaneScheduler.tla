------------------------- MODULE MCAiplaneScheduler -------------------------
(* AiplaneScheduler's constants for TLC. *)
EXTENDS AiplaneScheduler

\* Every channel holds one request, so that a second one of its class meets
\* the policy for a full channel.
CapOne == [c \in Priorities |-> 1]
=============================================================================
