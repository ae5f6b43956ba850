\* A save answered while another file is being fetched.
SPECIFICATION Spec
CONSTANTS
    a = a
    b = b
    a1 = a1
    a2 = a2
    bad = bad
    b1 = b1
    b2 = b2
    Files = {a, b}
    Primary = a
    NotConfig = {}
    Texts = {a1, a2, b1, b2}
    TextOf <- TwoFiles
    Parses = {a1, a2, b1, b2}
    Valid = {a1, b1}
    NoFile = NoFile
    NoText = NoText
    NoDoc = NoDoc
    Idle = Idle
    MaxHistory = 1
    PutSlots = {p1}
    GetSlots = {g1}
    MaxValidations = 0
PROPERTY SwitchKeepsEdits
CHECK_DEADLOCK FALSE
