SPECIFICATION Spec
CONSTANTS
    Workers = {w1, w2}
    Dispatcher = d
    Registrar = r
    MaxDemands = 2
    MaxEvents = 2
SYMMETRY WorkersSymmetry
CHECK_DEADLOCK FALSE
ACTION_CONSTRAINT HandOffTakesAFreeSlot
INVARIANTS CustodyAccounts ReleaseHasOneCloser GateAnswered SentOnce AssertionsHold PinsAccounted ReadySound FactsKept DueDetachIsScheduled
PROPERTIES NoDetachUnderDemand ImplementsContract
