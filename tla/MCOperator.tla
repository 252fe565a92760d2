------------------------------ MODULE MCOperator ------------------------------
(* An instance of Operator for TLC. *)
EXTENDS Operator

CONSTANTS bare, b1

OpSpecs ==
    {[name |-> n, cfg |-> [body |-> b1, sendIdps |-> FALSE],
      oauth |-> [body |-> b1, public |-> FALSE, plain |-> TRUE],
      saml |-> "off", script |-> FALSE] : n \in Names}

\* Kinds of SPReconciler.
SPKinds == {"edit", "drift", "removal", "inst", "remote", "api", "crash"}

\* A WSO2SP is created, and the manager restarts once ...
OpBudget ==
    [k \in SPKinds |-> IF k \in {"edit", "crash"} THEN 1 ELSE 0]

\* ... while the instance is created, and its server goes once, or comes once
\* if it was away to begin with.
OpISBudget ==
    [k \in ISKinds |-> IF k \in {"edit", "server"} THEN 1 ELSE 0]
==============================================================================
