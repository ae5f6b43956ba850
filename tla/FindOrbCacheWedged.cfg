\* A full crawl that runs into its own deadline.
SPECIFICATION Spec
CONSTANTS
    Crawls = {k1, k2}
    PageLimit = 3
    PageFloor = 2
    Window = 0
    LastTime = 1
    None = None
    Certified = Certified
    Torn = Torn
INVARIANT WarmingIsACrawl
CHECK_DEADLOCK FALSE
