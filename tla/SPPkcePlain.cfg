SPECIFICATION Spec
CONSTANTS
    SPs = {s1}
    Names = {n1}
    Issuers = {i1}
    bare = bare
    b1 = b1
    b2 = b2
    AcsLists = {a1}
    Bodies = {bare, b1}
    Bare = bare
    None = None
    KeepsBlank = FALSE
    MaxIssued = 4
    Skips = {{}}
    Specs <- PkcePlainSpecs
    Budget <- PkcePlainBudget
PROPERTIES
    SpecIsUsers
CHECK_DEADLOCK FALSE
