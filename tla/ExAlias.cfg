SPECIFICATION Spec
CONSTANTS
    r1 = r1
    r2 = r2
    Rests = {r1, r2}
    None = None
    KeepsBlank = FALSE
    AppSpecs <- MCAppSpecs
    OAuthSpecs <- MCOAuthSpecs
    Inbounds <- MCInbounds
    AppDrifts <- MCAppDrifts
    OAuthDrifts <- MCOAuthDrifts
    Descriptors <- MCDescriptors
    MaxChanges = 2
INVARIANTS
    AliasesDiffer
