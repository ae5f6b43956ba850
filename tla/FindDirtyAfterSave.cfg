\* An edit made while the save is in flight.
SPECIFICATION Spec
CONSTANTS
    a = a
    b = b
    a1 = a1
    a2 = a2
    bad = bad
    b1 = b1
    b2 = b2
    Files = {a}
    Primary = a
    NotConfig = {}
    Texts = {a1, a2}
    TextOf <- OneFile
    Parses = {a1, a2}
    Valid = {a1}
    NoFile = NoFile
    NoText = NoText
    NoDoc = NoDoc
    Idle = Idle
    MaxHistory = 1
    PutSlots = {p1}
    GetSlots = {g1}
    MaxValidations = 0
INVARIANT DirtyIsADifference
CHECK_DEADLOCK FALSE
