\* Safety and liveness: three callers.
CONSTANTS
    c1 = c1
    c2 = c2
    c3 = c3
    Callers = {c1, c2, c3}
    failure_threshold = 2
    max_attempts = 2
    MaxFailures = 4
SPECIFICATION FairSpec
INVARIANTS OpenIffThreshold TrialHasOwner
PROPERTIES BreakerCloses
