--------------------------- MODULE MCConfigTransfer ---------------------------
(* Instances of ConfigTransfer for TLC. *)
EXTENDS ConfigTransfer

CONSTANTS n1, n2, e1, e2, bad, u1, w1, o1, none

\* The address of e2 is written in another way than it is read back.
ReadBack == [e \in {e1, e2} |-> e1]

WorkflowColumns == [url |-> u1, channel |-> none, worker_name |-> none, using |-> o1]
EmptyColumns == [url |-> none, channel |-> none, worker_name |-> none, using |-> none]

\* Files of users: a scheduler without anything to run and an incomplete one,
\* and a listener that refers to a server the file may lack.
UserFiles ==
    {[jobworkerp |-> {[name |-> n, endpoint |-> e2] : n \in servers},
      schedulers |-> {[complete |-> b, name |-> n1, jobworkerp |-> n1, columns |-> c]},
      listeners |-> {[complete |-> TRUE, name |-> n2, listen |-> n1, jobworkerp |-> n2,
                      columns |-> WorkflowColumns]}] :
        servers \in SUBSET {n1, n2}, b \in BOOLEAN, c \in {WorkflowColumns, EmptyColumns}}

=============================================================================
