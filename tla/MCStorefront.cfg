\* Two sessions under one mandate and two clicks on one add-on, with price
\* changes, time, a revocation and a crash between any two of their steps.
CONSTANTS
    room = room  spa = spa
    b1 = b1  b2 = b2  a1 = a1  a2 = a2  m1 = m1
    Nothing = Nothing
    Skus = {room, spa}
    Item <- MCItem
    Prices = {20, 22, 25}
    SeedPrice = 20
    Buyers = {b1, b2}
    Requoting = {b1}
    Addons = {a1, a2}
    SkuOf <- MCSkuOf
    MandateOf <- MCMandateOf
    Base = b1
    Budget = 80
    Nights = 2
    Rooms = 1
    PageSize = 1
    MaxVersion = 2
    MaxFaults = 1
SPECIFICATION Spec
INVARIANTS WithinMandate AddonBoughtOnce AddonRowIsTrue PagesShowUntouchedOnce
PROPERTIES AdmittedAtLivePrice
SYMMETRY AddonSymmetry
CHECK_DEADLOCK FALSE
