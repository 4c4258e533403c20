----------------------------- MODULE MCFileOps ------------------------------
(* FileOps instantiated for TLC. *)
EXTENDS FileOps

CONSTANTS f1, f2, f3, n1, n2

\* Two sources of one name from two directories and one that is a file of the
\* destination itself.
Three == <<f1, f2, f3>>
Shared == [s \in {f1, f2, f3} |-> IF s = f3 THEN n2 ELSE n1]
=============================================================================
