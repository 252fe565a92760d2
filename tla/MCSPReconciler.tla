--------------------------- MODULE MCSPReconciler ---------------------------
(* Instances of SPReconciler for TLC. *)
EXTENDS SPReconciler

CONSTANTS bare, b1, b2

MCBudget(edit, drift, removal, instance, remoteFaults, apiFaults, crash) ==
    [k \in Kinds |-> CASE k = "edit"    -> edit
                       [] k = "drift"   -> drift
                       [] k = "removal" -> removal
                       [] k = "inst"    -> instance
                       [] k = "remote"  -> remoteFaults
                       [] k = "api"     -> apiFaults
                       [] k = "crash"   -> crash]

\* A spec without inbound protocols and one with everything.
Plain(name, body) ==
    [name |-> name, cfg |-> [body |-> body, sendIdps |-> FALSE],
     oauth |-> None, saml |-> "off", script |-> FALSE]

WithOAuth(spec, body, public) ==
    [spec EXCEPT !.oauth = [body |-> body, public |-> public, plain |-> TRUE]]

WithSaml(spec, mode) == [spec EXCEPT !.saml = mode]

\* Users create, delete and create again; one failure of every kind.
LifecycleBudget == MCBudget(3, 0, 1, 0, 1, 1, 1)
LifecycleSpecs == {Plain(n, b1) : n \in Names}

\* Both inbound protocols in one Secret, also one that a predecessor left; a
\* change made outside of the operator, and an API request that fails.
InboundBudget == MCBudget(3, 1, 0, 0, 0, 1, 0)
InboundSpecs ==
    {WithSaml(WithOAuth(Plain(n, b1), b1, FALSE), "on") : n \in Names}
    \cup {[WithOAuth(Plain(n, b1), bare, FALSE) EXCEPT !.script = TRUE] : n \in Names}

\* Applications reconfigured and Secrets deleted behind the operator, and a
\* call that fails or whose answer is lost.
ConvergeBudget == MCBudget(2, 1, 0, 0, 1, 0, 0)
ConvergeSpecs == {Plain(n, b1) : n \in Names}
                 \cup {WithOAuth(Plain(n, b1), b1, FALSE) : n \in Names}

\* Objects paused, resumed and deleted, with an instance that goes and comes
\* back, and a restart.
DeletionBudget == MCBudget(4, 0, 0, 2, 0, 0, 1)
DeletionSpecs == LifecycleSpecs

\* OAuth is added to a spec while a status patch of the application makes the
\* copy outdated, and the call that looks the OAuth application up fails.
SwallowedBudget == MCBudget(2, 0, 0, 0, 1, 0, 0)
SwallowedSpecs == ConvergeSpecs

OrphanBudget == MCBudget(2, 0, 0, 0, 0, 0, 0)
OrphanSpecs == LifecycleSpecs

PkcePlainBudget == MCBudget(1, 0, 0, 0, 0, 0, 0)
PkcePlainSpecs ==
    {[WithOAuth(Plain(n, b1), b1, FALSE) EXCEPT !.oauth.plain = FALSE] : n \in Names}

SamlUpdateBudget == MCBudget(1, 1, 0, 0, 0, 0, 0)
SamlUpdateSpecs == {WithSaml(Plain(n, b1), "on") : n \in Names}
==============================================================================
