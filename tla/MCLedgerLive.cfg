\* Liveness: one reference on each of two mandates.
CONSTANTS
    m1 = m1
    m2 = m2
    r1 = r1
    r2 = r2
    r3 = r3
    t1 = t1
    t2 = t2
    Mandates = {m1, m2}
    Refs = {r1, r3}
    Txns = {t1, t2}
    None = None
    MandateOf <- MCMandateOf
    AmountOf <- MCAmountOf
    MaxTotal <- MCMaxTotal
SPECIFICATION FairSpec
INVARIANTS IndInv
PROPERTIES EveryTxnEnds
