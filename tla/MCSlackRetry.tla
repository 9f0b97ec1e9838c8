----------------------------- MODULE MCSlackRetry -----------------------------
(* Instance of SlackRetry for TLC. *)
EXTENDS SlackRetry

CONSTANTS e1, h1, o1

MCRef == Task \X (1 .. MaxRetries)
MCHandlerOf == [e \in Task |-> h1]
MCSourceOf == [r \in Ref |-> HandlerOf[r[1]]]

ASSUME AttemptsAreRefs

=============================================================================
