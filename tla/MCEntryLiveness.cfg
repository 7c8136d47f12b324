SPECIFICATION FairSpec
CONSTANTS
    Workers = {w1, w2}
    Dispatcher = d
    Registrar = r
    MaxDemands = 1
    MaxEvents = 2
CHECK_DEADLOCK FALSE
PROPERTIES FactsDerived WarmingEnds WindowCloses IdleDetaches GateOpens
