SPECIFICATION Spec
CONSTANTS
    dst = dst
    src = src
    respelled = respelled
    body = body
    edited = edited
    Targets = {dst, src, respelled}
    NoTarget = none
    Contents = {body, edited}
    Nothing = nothing
    Other = other
    Before <- MCBefore
    After <- MCAfter
    Draws <- MCDraws
    Respelled = {respelled}
    Attempts = 1
    Faults = 0
    Writes = 2
CHECK_DEADLOCK FALSE
INVARIANT PutBackIsReported
