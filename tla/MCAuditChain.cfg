\* Safety: appends, verification, an edit, a gap or a lost tail.
CONSTANTS
    s1 = s1
    s2 = s2
    a = a
    b = b
    Sessions = {s1, s2}
    Payloads = {a, b}
    checkpoint_every = 2
    None = None
    Tampering = {"edit", "deleteInside", "deleteLast"}
    MaxSeq = 4
SPECIFICATION Spec
INVARIANTS OneChain NoFalseAlarm OkCoversWhatWasRead
SYMMETRY ChainSymmetry
