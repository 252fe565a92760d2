SPECIFICATION OpFairSpec
CONSTANTS
    Instances = {i1}
    TheInstance = i1
    Urls = {u1}
    Secrets = {k1}
    Passwords = {p1}
    Times = {t1}
    ISBudget <- OpISBudget
    SPs = {s1}
    Names = {n1}
    Issuers = {x1}
    bare = bare
    b1 = b1
    AcsLists = {a1}
    Bodies = {bare, b1}
    Bare = bare
    None = None
    KeepsBlank = TRUE
    MaxIssued = 3
    Skips = {{}}
    Specs <- OpSpecs
    Budget <- OpBudget
INVARIANTS
    InstancePromises
    SPPromises
    InboundInOperator
PROPERTIES
    OwnershipInOperator
    EndToEnd
    OutageShows
CHECK_DEADLOCK FALSE
