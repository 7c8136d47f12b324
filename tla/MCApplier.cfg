SPECIFICATION Spec
CONSTANTS
    dst = dst
    src = src
    respelled = respelled
    body = body
    edited = edited
    Targets = {dst, src, respelled}
    NoTarget = none
    Contents = {body, edited}
    Nothing = nothing
    Other = other
    Before <- MCBefore
    After <- MCAfter
    Draws <- MCDraws
    Respelled = {respelled}
    Attempts = 2
    Faults = 2
    Writes = 1
CHECK_DEADLOCK FALSE
INVARIANTS
    ContentSurvives
    StoreFollowsVault
    ReportedSourcesSpent
    CleanResendApplies
    AppliedIsDurable
    ShadowsAccounted
PROPERTY ImplementsContract
