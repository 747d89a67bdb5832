\* Safety: one purchase, two requests and a worker, one crash.
CONSTANTS
    m1 = m1
    k1 = k1
    k2 = k2
    q1 = q1
    q2 = q2
    w1 = w1
    Mandates = {m1}
    Keys = {k1}
    Requests = {q1, q2}
    Workers = {w1}
    MandateOf <- MCMandateOf
    AmountOf <- MCAmountOf
    MaxTotal <- MCMaxTotal
    AutoCapture = TRUE
    max_retry_attempts = 2
    None = None
    MaxCrashes = 1
SPECIFICATION Spec
INVARIANTS SettledIsCharged OneRequestOrders AssertionsHold CapturedIsTrue
SYMMETRY RequestSymmetry
CHECK_DEADLOCK FALSE
