\* Two files without saves: undo, redo, typing bursts, a text that does not parse.
SPECIFICATION Spec
CONSTANTS
    a = a
    b = b
    a1 = a1
    a2 = a2
    bad = bad
    b1 = b1
    b2 = b2
    Files = {a, b}
    Primary = a
    NotConfig = {b}
    Texts = {a1, bad, b1}
    TextOf <- TwoFilesBad
    Parses = {a1, b1}
    Valid = {a1}
    NoFile = NoFile
    NoText = NoText
    NoDoc = NoDoc
    Idle = Idle
    MaxHistory = 2
    PutSlots = {}
    GetSlots = {g1}
    MaxValidations = 0
INVARIANTS
    HistoryIsBounded
    NoRedoDuringBurst
PROPERTIES
    HistoryIsATimeline
CHECK_DEADLOCK FALSE
