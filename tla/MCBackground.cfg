SPECIFICATION Spec
CONSTANTS
    Stores = {a}
    NoStore = none
    LaneThreads = {l1, l2}
    Engines = {a}
    Verified = {a}
    Maintained = {}
    Interval = 1
    RetryAfter = 1
    HoldTicks = 0
    Steady = {}
SYMMETRY LaneSymmetry
ACTION_CONSTRAINT SteadyStaysAtRest
INVARIANTS
    OwedStoreIsReached
    OneTurnPerStore
    UnansweredFeedIsOwed
    OneLifetimeIsVerified
