\* Liveness: one request, one worker, one crash.
CONSTANTS
    m1 = m1
    k1 = k1
    k2 = k2
    q1 = q1
    q2 = q2
    w1 = w1
    Mandates = {m1}
    Keys = {k1}
    Requests = {q1}
    Workers = {w1}
    MandateOf <- MCMandateOf
    AmountOf <- MCAmountOf
    MaxTotal <- MCMaxTotal
    AutoCapture = TRUE
    max_retry_attempts = 2
    None = None
    MaxCrashes = 1
SPECIFICATION FairSpec
PROPERTIES EveryRequestEnds ReconcilerConverges
CHECK_DEADLOCK FALSE
