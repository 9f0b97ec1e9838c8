--------------------------- MODULE MCResultListener ---------------------------
(* Instances of ResultListener for TLC. *)
EXTENDS ResultListener

CONSTANTS r1, r2

=============================================================================
