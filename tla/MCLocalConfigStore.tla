--------------------------- MODULE MCLocalConfigStore ---------------------------
(* Two schedulers and a server that may share its name with one of them. *)
EXTENDS LocalConfigStore, TLC

CONSTANTS c1, c2, v1, cron, server, n1, n2, d1

MCKindOf == c1 :> cron @@ c2 :> cron @@ v1 :> server

\* Schedulers, and names, may be exchanged.
Alike == Permutations({c1, c2}) \cup Permutations({n1, n2})

===============================================================================
