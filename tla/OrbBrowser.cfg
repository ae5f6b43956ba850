\* Searches, opened orbs and descriptions in flight together.
SPECIFICATION Spec
CONSTANTS
    q = q
    r = r
    all = all
    private = private
    x = x
    y = y
    z = z
    x1 = x1
    x2 = x2
    y1 = y1
    z1 = z1
    Queries = {q, r}
    Filters = {all, private}
    Found <- SomeFound
    Versions = {x1, x2, y1, z1}
    NameOf <- SomeNameOf
    None = None
    MaxConcurrent = 2
    PrefetchLimit = 3
    MaxSearches = 2
    MaxPicks = 2
INVARIANTS
    ListIsTheAnswer
    QueueNeverStalls
PROPERTIES
    WrongDetailOnlyByLateAnswer
