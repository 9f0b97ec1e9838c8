----------------------------- MODULE LedgerPromise -----------------------------
(***************************************************************************)
(* What the execution ledger promises its readers, whatever recorders,     *)
(* handlers, crashes and lost calls do: an execution opens once, its       *)
(* verdict is the verdict of its job and is given once, a cancellation     *)
(* replaces any verdict and nothing replaces a cancellation, and what has  *)
(* gone from the ledger never comes back.  An execution that a client      *)
(* claims enters with whatever verdict the client gives; from then on only *)
(* a cancellation changes it.                                              *)
(***************************************************************************)
CONSTANT Ref

VARIABLES
    ledger,  \* ledger[r]: what the ledger says of execution r
    truth,   \* truth[r]: what became of its job
    claimed  \* executions that clients enter by themselves

vars == <<ledger, truth, claimed>>

Verdict == {"Success", "Failed", "Cancelled"}
Entry == {"absent", "open", "gone"} \cup Verdict
Truth == {"none", "live", "Discarded"} \cup Verdict

\* A discarded pending job looks like a success to whoever awaits it.
VerdictOf(t) == IF t = "Discarded" THEN "Success" ELSE t

Init ==
    /\ ledger = [r \in Ref |-> "absent"]
    /\ truth = [r \in Ref |-> "none"]
    /\ claimed \in SUBSET Ref

Open(r) ==
    /\ r \notin claimed
    /\ ledger[r] = "absent"
    /\ ledger' = [ledger EXCEPT ![r] = "open"]
    /\ UNCHANGED <<truth, claimed>>

\* The job a client claims to have run may be running.
Claim(r) ==
    /\ r \in claimed
    /\ ledger[r] = "absent"
    /\ \E e \in {"open"} \cup Verdict : ledger' = [ledger EXCEPT ![r] = e]
    /\ truth' = truth \/ (truth[r] = "none" /\ truth' = [truth EXCEPT ![r] = "live"])
    /\ UNCHANGED claimed

Close(r) ==
    /\ r \notin claimed
    /\ ledger[r] = "open"
    /\ truth[r] \in Verdict \cup {"Discarded"}
    /\ ledger' = [ledger EXCEPT ![r] = VerdictOf(truth[r])]
    /\ UNCHANGED <<truth, claimed>>

Cancel(r) ==
    /\ ledger[r] \in {"open"} \cup Verdict
    /\ truth[r] # "none"
    /\ ledger' = [ledger EXCEPT ![r] = "Cancelled"]
    /\ UNCHANGED <<truth, claimed>>

Drop(S) ==
    /\ ledger' = [r \in Ref |-> IF r \in S THEN "gone" ELSE ledger[r]]
    /\ UNCHANGED <<truth, claimed>>

JobMoves(r) ==
    /\ \/ truth[r] = "none" /\ truth' = [truth EXCEPT ![r] = "live"]
       \/ /\ truth[r] = "live"
          /\ \E t \in Verdict \cup {"Discarded"} :
                truth' = [truth EXCEPT ![r] = t]
    /\ UNCHANGED <<ledger, claimed>>

Next ==
    \/ \E r \in Ref : Open(r) \/ Claim(r) \/ Close(r) \/ Cancel(r) \/ JobMoves(r)
    \/ \E S \in SUBSET Ref : Drop(S)

Spec == Init /\ [][Next]_vars

=============================================================================
