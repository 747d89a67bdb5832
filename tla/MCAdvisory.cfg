\* Two requests, a bucket of two tokens, Groq and Redis failing at will.
CONSTANTS
    r1 = r1
    r2 = r2
    Requests = {r1, r2}
    None = None
    NotAnObject = NotAnObject
    DoesNotFit = DoesNotFit
    NonFinite = NonFinite
    Raised = Raised
    Texts <- MCTexts
    Items <- MCItems
    mandate <- MCMandate
    Claims <- MCClaims
    Orders <- MCOrders
    capacity = 2
    ttl_s = 3
    MaxDelay = 1
    MaxTime = 3
SPECIFICATION Spec
INVARIANTS BudgetIsSaid RanksTheCandidates AnswersOwnPrompt GrantsWithinRate
PROPERTIES EveryStepIsProgress
CHECK_DEADLOCK FALSE
