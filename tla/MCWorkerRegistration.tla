------------------------- MODULE MCWorkerRegistration -------------------------
(* Instances of WorkerRegistration for TLC. *)
EXTENDS WorkerRegistration, TLC

CONSTANTS p1, p2

Symmetry == Permutations(Process)

=============================================================================
