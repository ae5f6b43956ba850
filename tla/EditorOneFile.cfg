\* One file whose texts all parse: saving, autosave and validation.
SPECIFICATION FairSpec
CONSTANTS
    a = a
    b = b
    a1 = a1
    a2 = a2
    bad = bad
    b1 = b1
    b2 = b2
    Files = {a}
    Primary = a
    NotConfig = {}
    Texts = {a1, a2}
    TextOf <- OneFile
    Parses = {a1, a2}
    Valid = {a1}
    NoFile = NoFile
    NoText = NoText
    NoDoc = NoDoc
    Idle = Idle
    MaxHistory = 1
    PutSlots = {p1, p2}
    GetSlots = {g1}
    MaxValidations = 2
INVARIANTS
    SavedIsOnDisk
    VerdictIsOnTheText
PROPERTIES
    SaveSettles
    AutosaveSettles
CHECK_DEADLOCK FALSE
