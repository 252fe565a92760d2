SPECIFICATION FairSpec
CONSTANTS
    SPs = {s1}
    Names = {n1}
    Issuers = {i1}
    bare = bare
    b1 = b1
    b2 = b2
    AcsLists = {a1}
    Bodies = {bare, b1}
    Bare = bare
    None = None
    KeepsBlank = TRUE
    MaxIssued = 6
    Skips = {{}, {"app"}}
    Specs <- DeletionSpecs
    Budget <- DeletionBudget
INVARIANTS
    NoLostWakeup
PROPERTIES
    Convergence
    DeletionCompletes
CHECK_DEADLOCK FALSE
