------------------------------ MODULE OrbCache ------------------------------
(***************************************************************************)
(* The host's copy of the CircleCI orb registry (internal/orbs/cache.go).  *)
(*                                                                         *)
(* Start runs in a goroutine of its own while the host already serves      *)
(* searches and refreshes; it serves what is on disk and leaves a full     *)
(* crawl of the registry behind, in another goroutine.  Refresh leaves     *)
(* another crawl.  A crawl saves its listing to disk, then publishes it.   *)
(* The host may die between any two steps; the file stays.                 *)
(*                                                                         *)
(* A listing is known by the time it was fetched at.  publish() sets the   *)
(* packages and Ready, Complete and FetchedAt at once, so the packages say *)
(* all three; the counts and the certified flags are left out.             *)
(***************************************************************************)
EXTENDS Naturals, FiniteSets, FiniteSetsExt

CONSTANTS
    Crawls,      \* warmFull goroutines, a bound
    PageLimit,   \* fullCrawlPageLimit
    PageFloor,   \* pageSizeFloor
    Window,      \* RefreshWindow
    LastTime,    \* bound: the last instant of the clock
    None,        \* no packages, no file
    Certified,   \* the packages of the certified stage
    Torn         \* a file no listing can be read from

ASSUME PagesAssumption ==
    /\ PageLimit \in Nat /\ PageFloor \in 1..PageLimit

ASSUME TimeAssumption == Window \in Nat /\ LastTime \in Nat

ASSUME NamesAssumption ==
    \A name \in {None, Certified, Torn} : name \notin [fetchedAt : Nat]

VARIABLES
    clock,
    disk,        \* the cache file
    start,       \* where Start is
    persisted,   \* what loadDiskCache returned to it
    packages,    \* Cache.packages
    warming,     \* Status.Warming
    failed,      \* Status.Err # nil
    crawl,       \* the warmFull goroutines
    warmDone,    \* the channel is closed
    stopping,    \* the context of every crawl is cancelled
    unsaved      \* saveDiskCache has failed since it last succeeded

status == <<packages, warming, failed>>
vars == <<clock, disk, start, persisted, status, crawl, warmDone, stopping, unsaved>>

Instants == 0..LastTime
Listing(at) == [fetchedAt |-> at]
Listings == {Listing(at) : at \in Instants}
Complete == packages \in Listings

IdleCrawl == [at |-> "returned"]
Running == {k \in Crawls : crawl[k].at # "returned"}

Init ==
    /\ clock = 0
    /\ disk \in {None, Torn, Listing(0)}
    /\ start = "reading" /\ persisted = None
    /\ packages = None /\ warming = FALSE /\ failed = FALSE
    /\ crawl = [k \in Crawls |-> IdleCrawl]
    /\ warmDone = FALSE /\ stopping = FALSE /\ unsaved = FALSE

-----------------------------------------------------------------------------
Publish(listing, complete) ==
    /\ packages' = listing
    /\ warming' = ~complete
    /\ failed' = FALSE

CloseWarmDone == warmDone' = TRUE

\* go c.warmFull(ctx)
GoWarmFull ==
    \E k \in Crawls \ Running :
        crawl' = [crawl EXCEPT ![k] = [at |-> "fetching", limit |-> PageLimit]]

Stale(listing) == clock - listing.fetchedAt > Window

\* Bug: an old listing is dropped on the floor.
LoadFreshOnly == IF disk \in Listings /\ ~Stale(disk) THEN disk ELSE None

LoadDiskCache == IF disk \in Listings THEN disk ELSE None

StartReads ==
    /\ start = "reading"
    /\ persisted' = LoadDiskCache
    /\ start' = IF persisted' = None THEN "marking" ELSE "read"
    /\ UNCHANGED <<clock, disk, status, crawl, warmDone, stopping, unsaved>>

\* Bug: the fast path forgets that nothing more will come.
StartServesFreshOpen ==
    /\ start = "read" /\ ~Stale(persisted)
    /\ Publish(persisted, TRUE)
    /\ start' = "returned"
    /\ UNCHANGED <<clock, disk, persisted, crawl, warmDone, stopping, unsaved>>

StartServesFresh ==
    /\ start = "read" /\ ~Stale(persisted)
    /\ Publish(persisted, TRUE)
    /\ CloseWarmDone
    /\ start' = "returned"
    /\ UNCHANGED <<clock, disk, persisted, crawl, stopping, unsaved>>

StartServesStale ==
    /\ start = "read" /\ Stale(persisted)
    /\ Publish(persisted, TRUE)
    /\ start' = "recrawling"
    /\ UNCHANGED <<clock, disk, persisted, crawl, warmDone, stopping, unsaved>>

StartRecrawls ==
    /\ start = "recrawling"
    /\ warming' = TRUE
    /\ GoWarmFull
    /\ start' = "returned"
    /\ UNCHANGED <<clock, disk, persisted, packages, failed, warmDone, stopping, unsaved>>

StartMarks ==
    /\ start = "marking"
    /\ warming' = TRUE
    /\ start' = "certified"
    /\ UNCHANGED <<clock, disk, persisted, packages, failed, crawl, warmDone, stopping, unsaved>>

\* warmCertified succeeds, or its error is noted; a full crawl either way.
StartWarmsCertified ==
    /\ start = "certified"
    /\ \/ Publish(Certified, FALSE)
       \/ failed' = TRUE /\ UNCHANGED <<packages, warming>>
    /\ GoWarmFull
    /\ start' = "returned"
    /\ UNCHANGED <<clock, disk, persisted, warmDone, stopping, unsaved>>

\* Bug: two refreshes can both decide to start a crawl.
RefreshAlways ==
    /\ warming' = TRUE
    /\ GoWarmFull
    /\ UNCHANGED <<clock, disk, start, persisted, packages, failed, warmDone, stopping, unsaved>>

\* A search with ?refresh=1; while a crawl is warming it does nothing.
Refresh ==
    /\ ~warming
    /\ warming' = TRUE
    /\ GoWarmFull
    /\ UNCHANGED <<clock, disk, start, persisted, packages, failed, warmDone, stopping, unsaved>>

-----------------------------------------------------------------------------
(* warmFull, one goroutine.                                                *)

Returns(k) ==
    /\ crawl' = [crawl EXCEPT ![k] = IdleCrawl]
    /\ CloseWarmDone

Fetching(k) == crawl[k].at = "fetching"

MayRetry(limit) == limit > PageFloor

\* Bug: the last halving goes below the floor.
HalvedFreely(limit) == limit \div 2

Halved(limit) == Max({limit \div 2, PageFloor})

\* listWithPageSizeFallback: the API rejects the page size.
CrawlRetries(k) ==
    /\ Fetching(k) /\ MayRetry(crawl[k].limit)
    /\ crawl' = [crawl EXCEPT ![k].limit = Halved(@)]
    /\ UNCHANGED <<clock, disk, start, persisted, status, warmDone, stopping, unsaved>>

CrawlFails(k) ==
    /\ Fetching(k) /\ ~stopping
    /\ warming' = FALSE
    /\ failed' = TRUE
    /\ Returns(k)
    /\ UNCHANGED <<clock, disk, start, persisted, packages, stopping, unsaved>>

\* ctx.Err() # nil: the host is stopping, or fullCrawlTimeout has passed.
CrawlCutShort(k) ==
    /\ Fetching(k)
    /\ Returns(k)
    /\ UNCHANGED <<clock, disk, start, persisted, status, stopping, unsaved>>

Holds(k, at) == crawl[k].at = at

\* Bug: the listing is published before it is saved.
CrawlPublishesFirst(k) ==
    /\ Fetching(k)
    /\ Publish(Listing(clock), TRUE)
    /\ crawl' = [crawl EXCEPT ![k] = [at |-> "writing", listing |-> Listing(clock)]]
    /\ UNCHANGED <<clock, disk, start, persisted, warmDone, stopping, unsaved>>

CrawlFetches(k) ==
    /\ Fetching(k)
    /\ crawl' = [crawl EXCEPT ![k] = [at |-> "writing", listing |-> Listing(clock)]]
    /\ UNCHANGED <<clock, disk, start, persisted, status, warmDone, stopping, unsaved>>

\* Bug: the cache file is written in place.
WriteInPlace == disk' = Torn

WriteTemp == disk' = disk

\* saveDiskCache writes a temporary file beside the cache file ...
SaveWrites(k) ==
    /\ Holds(k, "writing")
    /\ crawl' = [crawl EXCEPT ![k].at = "renaming"]
    /\ WriteTemp
    /\ UNCHANGED <<clock, start, persisted, status, warmDone, stopping, unsaved>>

\* ... and renames it over the cache file.
SaveRenames(k) ==
    /\ Holds(k, "renaming")
    /\ disk' = crawl[k].listing
    /\ unsaved' = FALSE
    /\ crawl' = [crawl EXCEPT ![k].at = "saved"]
    /\ UNCHANGED <<clock, start, persisted, status, warmDone, stopping>>

\* Either half fails: logged, and the crawl goes on.
SaveFails(k) ==
    /\ Holds(k, "writing") \/ Holds(k, "renaming")
    /\ unsaved' = TRUE
    /\ crawl' = [crawl EXCEPT ![k].at = "saved"]
    /\ UNCHANGED <<clock, disk, start, persisted, status, warmDone, stopping>>

CrawlPublishes(k) ==
    /\ Holds(k, "saved")
    /\ Publish(crawl[k].listing, TRUE)
    /\ Returns(k)
    /\ UNCHANGED <<clock, disk, start, persisted, stopping, unsaved>>

-----------------------------------------------------------------------------
Tick ==
    /\ clock < LastTime
    /\ clock' = clock + 1
    /\ UNCHANGED <<disk, start, persisted, status, crawl, warmDone, stopping, unsaved>>

Stop ==
    /\ ~stopping
    /\ stopping' = TRUE
    /\ UNCHANGED <<clock, disk, start, persisted, status, crawl, warmDone, unsaved>>

\* The process ends, at any step, and the next one starts from the file.
Restart ==
    /\ start' = "reading" /\ persisted' = None
    /\ packages' = None /\ warming' = FALSE /\ failed' = FALSE
    /\ crawl' = [k \in Crawls |-> IdleCrawl]
    /\ warmDone' = FALSE /\ stopping' = FALSE /\ unsaved' = FALSE
    /\ UNCHANGED <<clock, disk>>

Start == StartReads \/ StartServesFresh \/ StartServesStale \/ StartRecrawls
         \/ StartMarks \/ StartWarmsCertified

WarmFull(k) == CrawlRetries(k) \/ CrawlFails(k) \/ CrawlCutShort(k) \/ CrawlFetches(k)
               \/ SaveWrites(k) \/ SaveRenames(k) \/ SaveFails(k) \/ CrawlPublishes(k)

Next == Start \/ Refresh \/ (\E k \in Crawls : WarmFull(k)) \/ Tick \/ Stop \/ Restart

Spec == Init /\ [][Next]_vars

\* Goroutines run, and a request that is in flight ends by its timeout.
FairSpec == Spec /\ WF_vars(Start) /\ \A k \in Crawls : WF_vars(WarmFull(k))

-----------------------------------------------------------------------------
CrawlStates ==
    {IdleCrawl} \cup [at : {"fetching"}, limit : PageFloor..PageLimit]
    \cup [at : {"writing", "renaming", "saved"}, listing : Listings]

\* Every variable holds a value of its kind.
TypeOK ==
    /\ clock \in Instants
    /\ disk \in {None, Torn} \cup Listings
    /\ start \in {"reading", "read", "recrawling", "marking", "certified", "returned"}
    /\ persisted \in {None} \cup Listings
    /\ packages \in {None, Certified} \cup Listings
    /\ warming \in BOOLEAN /\ failed \in BOOLEAN
    /\ crawl \in [Crawls -> CrawlStates]
    /\ warmDone \in BOOLEAN /\ stopping \in BOOLEAN /\ unsaved \in BOOLEAN

\* A death of the host at any point of a save leaves the old listing or the
\* new one on disk ("atomically (write to a temp file in the same directory,
\* then rename over the target path)").
DiskIsWhole == [][disk' # disk => disk' \in Listings]_vars

\* "Persist before publishing, so that Status().Complete implies the result
\* is on disk": a complete listing that a restart would lose is there only
\* because a save has failed.
CompleteIsOnDisk == Complete => disk \in Listings \/ unsaved

\* Refreshes do not pile crawls up.  The bound is three and not one: Start
\* publishes, which clears Warming, and marks and starts its own crawl
\* without asking whether one is running.
CrawlsAreBounded == Cardinality(Running) <= 3

\* A listing that is on disk when the host starts gets served, however old and
\* whatever the registry answers: an old listing "used to be dropped on the
\* floor" (issue #257).
OldListingIsServed ==
    []<><<Restart>>_vars \/ (start = "reading" /\ disk \in Listings ~> Complete)

\* WarmDone closes after every start of the host that lasts.
WarmDoneCloses == []<><<Restart>>_vars \/ []<>warmDone

\* "Warming reports whether a crawl is currently in progress in the
\* background".
WarmingIsACrawl ==
    warming /\ start = "returned" /\ ~stopping => Running # {}

=============================================================================
