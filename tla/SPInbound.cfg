SPECIFICATION Spec
CONSTANTS
    SPs = {s1}
    Names = {n1}
    Issuers = {n1}
    bare = bare
    b1 = b1
    b2 = b2
    AcsLists = {a1, a2}
    Bodies = {bare, b1}
    Bare = bare
    None = None
    KeepsBlank = FALSE
    MaxIssued = 3
    Skips = {{}, {"oauth"}}
    Specs <- InboundSpecs
    Budget <- InboundBudget
INVARIANTS
    FinalizerGuardsRemote
    InboundBeforeReady
PROPERTIES
    SecretKeepsEntries
CHECK_DEADLOCK FALSE
