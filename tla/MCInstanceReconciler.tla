------------------------ MODULE MCInstanceReconciler ------------------------
(* An instance of InstanceReconciler for TLC. *)
EXTENDS InstanceReconciler

MCISBudget(edit, secretChanges, serverChanges, faults) ==
    [k \in ISKinds |-> CASE k = "edit"   -> edit
                         [] k = "creds"  -> secretChanges
                         [] k = "server" -> serverChanges
                         [] k = "fault"  -> faults]

\* Created, and edited or deleted and created again; servers and the Secret go
\* and come back; one write fails or the manager restarts.
HealthBudget == MCISBudget(3, 1, 1, 1)
==============================================================================
