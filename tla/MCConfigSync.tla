----------------------------- MODULE MCConfigSync -----------------------------
(* Instances of ConfigSync for TLC. *)
EXTENDS ConfigSync, TLC

CONSTANTS v1, v2, c1, h1, h2, n1, n2, n3, w1, w2

\* RPC handler tasks, and the names they write, are interchangeable.
Tasks == Permutations(Writer)

=============================================================================
