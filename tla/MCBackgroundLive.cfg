SPECIFICATION FairSpec
CONSTANTS
    Stores = {a}
    NoStore = none
    LaneThreads = {l1}
    Engines = {a}
    Verified = {}
    Maintained = {}
    Interval = 1
    RetryAfter = 1
    HoldTicks = 0
    Steady = {}
ACTION_CONSTRAINT SteadyStaysAtRest
PROPERTY
    OwedWorkRuns
