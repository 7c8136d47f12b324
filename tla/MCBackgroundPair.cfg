SPECIFICATION Spec
CONSTANTS
    Stores = {a, b}
    NoStore = none
    LaneThreads = {l1}
    Engines = {}
    Verified = {a}
    Maintained = {b}
    Interval = 1
    RetryAfter = 1
    HoldTicks = 1
    Steady = {b}
ACTION_CONSTRAINT SteadyStaysAtRest
INVARIANTS
    DueUpkeepIsReached
    OwedStoreIsReached
