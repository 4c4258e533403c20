------------------------- MODULE MCKnowledgeDaemon -------------------------
(* KnowledgeDaemon instantiated for TLC. *)
EXTENDS KnowledgeDaemon

CONSTANTS k1, k2

\* With batches of two, the second chunk of one file is left for a batch of
\* its own.
OneAndTwo == [f \in Files |-> IF f = k1 THEN 1 ELSE 2]

\* The environment does three things in all, on which there is no fairness.
MCNext == KNext /\ (edits + calls + faults <= 3)'
=============================================================================
