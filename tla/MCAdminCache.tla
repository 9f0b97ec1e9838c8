----------------------------- MODULE MCAdminCache -----------------------------
(* Instances of AdminCache for TLC. *)
EXTENDS AdminCache

CONSTANTS r1, r2, n1, t1, t2

=============================================================================
