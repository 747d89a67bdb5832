\* Safety: one mandate, three references that cannot all fit its cap.
CONSTANTS
    m1 = m1
    m2 = m2
    r1 = r1
    r2 = r2
    r3 = r3
    t1 = t1
    t2 = t2
    Mandates = {m1}
    Refs = {r1, r2, r3}
    Txns = {t1, t2}
    None = None
    MandateOf <- MCMandateOf
    AmountOf <- MCAmountOf
    MaxTotal <- MCMaxTotal
SPECIFICATION Spec
INVARIANTS BudgetCap ReservationLifecycle BooksMatchStates AnswersAreTrue
PROPERTIES ImplementsBudget
SYMMETRY TxnSymmetry
