\* Checks overlapping edits, switches, a failed save and a reload.
SPECIFICATION Spec
CONSTANTS
    a = a
    b = b
    n = n
    a1 = a1
    a2 = a2
    bad = bad
    b1 = b1
    n1 = n1
    Files = {a, b, n}
    Primary = a
    NotConfig = {n}
    Texts = {a1, a2, bad, b1, n1}
    TextOf <- SomeTextOf
    Parses = {a1, a2, b1, n1}
    Ruling <- SomeRuling
    None = None
    MaxChecks = 5
INVARIANTS
    StoreIsTruthful
PROPERTIES
    LeftStaleOnlyByReturning
