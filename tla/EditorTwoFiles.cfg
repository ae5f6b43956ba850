\* Two files: switching with writes, fetches and validations in flight.
SPECIFICATION ShortSession
CONSTANTS
    a = a
    b = b
    a1 = a1
    a2 = a2
    bad = bad
    b1 = b1
    b2 = b2
    Files = {a, b}
    Primary = a
    NotConfig = {b}
    Texts = {a1, a2, b1, b2}
    TextOf <- TwoFiles
    Parses = {a1, a2, b1, b2}
    Valid = {a1, a2}
    NoFile = NoFile
    NoText = NoText
    NoDoc = NoDoc
    Idle = Idle
    MaxHistory = 1
    PutSlots = {p1, p2}
    GetSlots = {g1, g2}
    MaxValidations = 1
    MaxMoves = 6
SYMMETRY Alike
INVARIANTS
    TypeOK
    TextsStayOnTheirFile
    DirtyMeansDifferent
PROPERTIES
    SavedTextStraysOnlyByLateAnswer
    SnapshotsAreKept
    UnarmedOnlyByReturning
    CheckingForeverOnlyByReturning
CHECK_DEADLOCK FALSE
