SPECIFICATION Spec
CONSTANTS
    Workers = {w1, w2}
    Dispatcher = d
    Registrar = r
    MaxDemands = 2
    MaxEvents = 2
SYMMETRY WorkersSymmetry
CHECK_DEADLOCK FALSE
INVARIANTS EpochsIssued
