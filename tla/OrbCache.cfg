\* Four crawl goroutines, one step down the page sizes, one tick to staleness.
SPECIFICATION FairSpec
CONSTANTS
    Crawls = {k1, k2, k3, k4}
    PageLimit = 3
    PageFloor = 2
    Window = 0
    LastTime = 1
    None = None
    Certified = Certified
    Torn = Torn
INVARIANTS
    TypeOK
    CompleteIsOnDisk
    CrawlsAreBounded
PROPERTIES
    DiskIsWhole
    OldListingIsServed
    WarmDoneCloses
CHECK_DEADLOCK FALSE
