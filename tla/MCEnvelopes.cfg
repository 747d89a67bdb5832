\* Redelivery while the window is open, after the nonce has expired, and over
\* a revocation: the window is 1, the delay 1, the nonce lives 4.
CONSTANTS
    buyer = buyer  other = other
    order = order  foreign = foreign  stray = stray
    d1 = d1  d2 = d2
    Nobody = Nobody
    Envelopes = {order, foreign, stray}
    Agents = {buyer, other}
    Deliveries = {d1, d2}
    From <- MCFrom
    KeyOwner <- MCKeyOwner
    Protocol <- MCProtocol
    Alg <- MCAlg
    Valid <- MCValid
    Ts <- MCTs
    Type <- MCType
    NotBefore <- MCNotBefore
    ExpiresAt <- MCExpiresAt
    SKEW_WINDOW = 1
    NONCE_TTL = 4
    MaxDelay = 1
    MaxClock = 7
SPECIFICATION Spec
INVARIANTS AcceptedOnce
PROPERTIES RevocationTakesEffect
CHECK_DEADLOCK FALSE
