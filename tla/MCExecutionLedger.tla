--------------------------- MODULE MCExecutionLedger ---------------------------
(* Instances of ExecutionLedger for TLC. *)
EXTENDS ExecutionLedger, TLC

CONSTANTS r1, r2, o1, o2, s1

\* Every execution comes from one source, so that a sweep meets all of them.
MCSourceOf == [r \in Ref |-> s1]

\* Handlers are interchangeable.
Handlers == Permutations(Op)

=============================================================================
