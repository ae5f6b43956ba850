-------------------------- MODULE OrbCacheProofs --------------------------
(***************************************************************************)
(* Proofs about OrbCache, for any page sizes, any refresh window, any      *)
(* lifetime and any supply of goroutines: what is on disk, and how many    *)
(* crawls can overlap.                                                     *)
(***************************************************************************)
EXTENDS OrbCache, FiniteSetTheorems, TLAPS

-----------------------------------------------------------------------------
(* The inductive invariants.                                               *)

\* What Start has read is still on disk, as that or as a newer listing.
PersistedIsOnDisk ==
    /\ persisted # None => disk \in Listings
    /\ start = "read" => persisted # None

\* A crawl that is about to publish has saved, or failed to.
SavedIsOnDisk ==
    \A k \in Crawls : crawl[k].at = "saved" => disk \in Listings \/ unsaved

DiskInv == TypeOK /\ CompleteIsOnDisk /\ PersistedIsOnDisk /\ SavedIsOnDisk

\* The crawl that the next Refresh would start.
Refreshable == IF warming THEN 0 ELSE 1

\* How many crawls there can be by the time Start has come this far: one
\* refresh before it publishes, another after, and its own.
Allowed ==
    CASE start = "returned" -> 3
      [] start = "recrawling" -> 2
      [] OTHER -> 1

FewCrawls ==
    /\ IsFiniteSet(Running)
    /\ Cardinality(Running) + Refreshable <= Allowed

-----------------------------------------------------------------------------
(* Types.                                                                  *)

\* The next smaller page size is a page size.
LEMMA HalvedIsAPageSize ==
    ASSUME NEW limit \in PageFloor..PageLimit
    PROVE  Halved(limit) \in PageFloor..PageLimit
<1> DEFINE half == limit \div 2
<1>1. limit \in Nat /\ half \in Nat /\ half <= limit
  BY PagesAssumption
<1> HIDE DEF half
<1>2. \E x \in {half, PageFloor} : \A y \in {half, PageFloor} : x >= y
  BY <1>1, PagesAssumption
<1>3. Max({half, PageFloor}) \in {half, PageFloor}
      /\ Max({half, PageFloor}) >= PageFloor
  BY <1>2 DEF Max
<1>4. QED
  BY <1>1, <1>3, PagesAssumption DEF Halved, half

\* The states of a crawl, by kind.
LEMMA StatesOfACrawl ==
    /\ IdleCrawl \in CrawlStates
    /\ [at |-> "fetching", limit |-> PageLimit] \in CrawlStates
    /\ \A step \in {"writing", "renaming", "saved"}, listing \in Listings :
          [at |-> step, listing |-> listing] \in CrawlStates
BY PagesAssumption DEF CrawlStates

\* A crawl that fetches with a page size can fetch with another one.
LEMMA FetchingState ==
    ASSUME NEW s \in CrawlStates, s.at = "fetching"
    PROVE  /\ s.limit \in PageFloor..PageLimit
           /\ \A limit \in PageFloor..PageLimit : [s EXCEPT !.limit = limit] \in CrawlStates
BY DEF CrawlStates, IdleCrawl

\* A crawl that has a listing keeps it until it has published.
LEMMA SavingState ==
    ASSUME NEW s \in CrawlStates, s.at \in {"writing", "renaming", "saved"}
    PROVE  /\ s.listing \in Listings
           /\ \A step \in {"writing", "renaming", "saved"} :
                 [s EXCEPT !.at = step] \in CrawlStates
BY DEF CrawlStates, IdleCrawl

\* What is fetched now is a listing.
LEMMA ListingNow == TypeOK => Listing(clock) \in Listings
BY DEF TypeOK, Listings

\* The names for what is not a listing.
LEMMA NoListings == None \notin Listings /\ Certified \notin Listings /\ Torn \notin Listings
<1>1. \A l \in Listings : l \in [fetchedAt : Nat]
  BY TimeAssumption DEF Listings, Listing, Instants
<1>2. QED
  BY <1>1, NamesAssumption

\* A new goroutine starts fetching with the largest page.
LEMMA GoWarmFullTypes ==
    ASSUME TypeOK, GoWarmFull
    PROVE  /\ crawl' \in [Crawls -> CrawlStates]
           /\ \E k \in Crawls \ Running :
                 /\ crawl'[k].at = "fetching"
                 /\ \A j \in Crawls \ {k} : crawl'[j] = crawl[j]
BY StatesOfACrawl DEF TypeOK, GoWarmFull

-----------------------------------------------------------------------------
(* What is on disk.                                                        *)

\* The host as it starts.
LEMMA InitDiskInv == Init => DiskInv
<1> SUFFICES ASSUME Init PROVE DiskInv
  OBVIOUS
<1>1. TypeOK
  <2>1. 0 \in Instants /\ Listing(0) \in Listings
    BY TimeAssumption DEF Instants, Listings
  <2>2. crawl \in [Crawls -> CrawlStates]
    BY StatesOfACrawl DEF Init
  <2>3. QED
    BY <2>1, <2>2 DEF Init, TypeOK
<1>2. CompleteIsOnDisk /\ PersistedIsOnDisk
  BY NoListings DEF Init, CompleteIsOnDisk, Complete, PersistedIsOnDisk
<1>3. SavedIsOnDisk
  BY DEF Init, SavedIsOnDisk, IdleCrawl
<1>4. QED
  BY <1>1, <1>2, <1>3 DEF DiskInv

\* Start publishes what it has read, and leaves a crawl behind.
LEMMA StartKeepsDiskInv ==
    ASSUME DiskInv, Start
    PROVE  DiskInv'
<1> USE DEF DiskInv
<1>1. crawl' \in [Crawls -> CrawlStates] /\ SavedIsOnDisk'
  <2>1. CASE GoWarmFull /\ UNCHANGED <<disk, unsaved>>
    BY <2>1, GoWarmFullTypes DEF SavedIsOnDisk
  <2>2. CASE UNCHANGED <<crawl, disk, unsaved>>
    BY <2>2 DEF SavedIsOnDisk, TypeOK
  <2>3. QED
    BY <2>1, <2>2 DEF Start, StartReads, StartServesFresh, StartServesStale, StartRecrawls,
                      StartMarks, StartWarmsCertified
<1>2. persisted' \in {None} \cup Listings /\ PersistedIsOnDisk'
  <2>1. CASE StartReads
    BY <2>1 DEF StartReads, LoadDiskCache, PersistedIsOnDisk, TypeOK
  <2>2. CASE start' # "read" /\ UNCHANGED <<persisted, disk>>
    BY <2>2 DEF PersistedIsOnDisk, TypeOK
  <2>3. QED
    BY <2>1, <2>2 DEF Start, StartServesFresh, StartServesStale, StartRecrawls,
                      StartMarks, StartWarmsCertified
<1>3. packages' \in {None, Certified} \cup Listings /\ CompleteIsOnDisk'
  <2>1. CASE StartServesFresh \/ StartServesStale
    BY <2>1 DEF StartServesFresh, StartServesStale, Publish, PersistedIsOnDisk,
                CompleteIsOnDisk, TypeOK
  <2>2. CASE StartWarmsCertified
    BY <2>2, NoListings DEF StartWarmsCertified, Publish, CompleteIsOnDisk, Complete, TypeOK
  <2>3. CASE UNCHANGED <<packages, disk, unsaved>>
    BY <2>3 DEF CompleteIsOnDisk, Complete, TypeOK
  <2>4. QED
    BY <2>1, <2>2, <2>3 DEF Start, StartReads, StartRecrawls, StartMarks, status
<1>4. TypeOK'
  BY <1>1, <1>2, <1>3 DEF TypeOK, Start, StartReads, StartServesFresh, StartServesStale,
     StartRecrawls, StartMarks, StartWarmsCertified, Publish, CloseWarmDone, status
<1>5. QED
  BY <1>1, <1>2, <1>3, <1>4

\* Refresh leaves another crawl behind.
LEMMA RefreshKeepsDiskInv ==
    ASSUME DiskInv, Refresh
    PROVE  DiskInv'
<1> USE DEF DiskInv
<1>1. crawl' \in [Crawls -> CrawlStates] /\ SavedIsOnDisk'
  BY GoWarmFullTypes DEF Refresh, SavedIsOnDisk
<1>2. TypeOK' /\ CompleteIsOnDisk' /\ PersistedIsOnDisk'
  BY <1>1 DEF Refresh, TypeOK, CompleteIsOnDisk, Complete, PersistedIsOnDisk
<1>3. QED
  BY <1>1, <1>2

\* A crawl fetches, saves, then publishes.
LEMMA CrawlKeepsDiskInv ==
    ASSUME DiskInv, NEW k \in Crawls, WarmFull(k)
    PROVE  DiskInv'
<1> USE DEF DiskInv
<1>1. crawl[k] \in CrawlStates /\ crawl \in [Crawls -> CrawlStates]
  BY DEF TypeOK
<1>2. CASE CrawlRetries(k)
  <2>1. crawl'[k] \in CrawlStates /\ crawl'[k].at = "fetching"
    BY <1>1, <1>2, FetchingState, HalvedIsAPageSize DEF CrawlRetries, Fetching, CrawlStates, IdleCrawl
  <2>2. crawl' \in [Crawls -> CrawlStates] /\ SavedIsOnDisk'
    BY <1>1, <1>2, <2>1 DEF CrawlRetries, SavedIsOnDisk
  <2>3. QED
    BY <1>2, <2>2 DEF CrawlRetries, TypeOK, CompleteIsOnDisk, Complete, PersistedIsOnDisk, status
<1>3. CASE CrawlFails(k) \/ CrawlCutShort(k)
  <2>1. crawl' \in [Crawls -> CrawlStates] /\ SavedIsOnDisk'
    BY <1>1, <1>3, StatesOfACrawl
       DEF CrawlFails, CrawlCutShort, Returns, SavedIsOnDisk, IdleCrawl
  <2>2. QED
    BY <1>3, <2>1 DEF CrawlFails, CrawlCutShort, Returns, CloseWarmDone, TypeOK,
       CompleteIsOnDisk, Complete, PersistedIsOnDisk, status
<1>4. CASE CrawlFetches(k)
  <2>1. crawl' \in [Crawls -> CrawlStates] /\ SavedIsOnDisk'
    BY <1>1, <1>4, StatesOfACrawl, ListingNow DEF CrawlFetches, SavedIsOnDisk
  <2>2. QED
    BY <1>4, <2>1 DEF CrawlFetches, TypeOK, CompleteIsOnDisk, Complete, PersistedIsOnDisk, status
<1>5. CASE SaveWrites(k)
  <2>1. crawl' \in [Crawls -> CrawlStates] /\ crawl'[k].at = "renaming"
    BY <1>1, <1>5, SavingState DEF SaveWrites, Holds, CrawlStates, IdleCrawl
  <2>2. SavedIsOnDisk'
    BY <1>1, <1>5, <2>1 DEF SaveWrites, WriteTemp, SavedIsOnDisk
  <2>3. QED
    BY <1>5, <2>1, <2>2 DEF SaveWrites, WriteTemp, TypeOK, CompleteIsOnDisk, Complete,
       PersistedIsOnDisk, status
<1>6. CASE SaveRenames(k)
  <2>1. disk' \in Listings /\ crawl' \in [Crawls -> CrawlStates]
    BY <1>1, <1>6, SavingState DEF SaveRenames, Holds
  <2>2. QED
    BY <1>6, <2>1 DEF SaveRenames, SavedIsOnDisk, TypeOK, CompleteIsOnDisk, Complete,
       PersistedIsOnDisk, status
<1>7. CASE SaveFails(k)
  <2>1. unsaved' /\ crawl' \in [Crawls -> CrawlStates]
    BY <1>1, <1>7, SavingState DEF SaveFails, Holds
  <2>2. QED
    BY <1>7, <2>1 DEF SaveFails, SavedIsOnDisk, TypeOK, CompleteIsOnDisk, Complete,
       PersistedIsOnDisk, status
<1>8. CASE CrawlPublishes(k)
  <2>1. packages' \in Listings /\ (disk \in Listings \/ unsaved)
    BY <1>1, <1>8, SavingState DEF CrawlPublishes, Holds, Publish, SavedIsOnDisk
  <2>2. crawl' \in [Crawls -> CrawlStates] /\ SavedIsOnDisk'
    BY <1>1, <1>8, StatesOfACrawl DEF CrawlPublishes, Returns, SavedIsOnDisk, IdleCrawl
  <2>3. QED
    BY <1>8, <2>1, <2>2 DEF CrawlPublishes, Publish, Returns, CloseWarmDone, TypeOK,
       CompleteIsOnDisk, Complete, PersistedIsOnDisk
<1>9. QED
  BY <1>2, <1>3, <1>4, <1>5, <1>6, <1>7, <1>8 DEF WarmFull

\* Time passes, or the host stops, or dies and starts again.
LEMMA ElseKeepsDiskInv ==
    ASSUME DiskInv, Tick \/ Stop \/ Restart \/ UNCHANGED vars
    PROVE  DiskInv'
<1> USE DEF DiskInv
<1>1. CASE Tick
  <2>1. clock' \in Instants
    BY <1>1, TimeAssumption DEF Tick, TypeOK, Instants
  <2>2. QED
    BY <1>1, <2>1 DEF Tick, TypeOK, CompleteIsOnDisk, Complete, PersistedIsOnDisk,
       SavedIsOnDisk, status
<1>2. CASE Stop \/ UNCHANGED vars
  BY <1>2 DEF Stop, vars, TypeOK, CompleteIsOnDisk, Complete, PersistedIsOnDisk,
     SavedIsOnDisk, status
<1>3. CASE Restart
  <2>1. crawl' \in [Crawls -> CrawlStates] /\ SavedIsOnDisk'
    BY <1>3, StatesOfACrawl DEF Restart, SavedIsOnDisk, IdleCrawl
  <2>2. QED
    BY <1>3, <2>1, NoListings DEF Restart, TypeOK, CompleteIsOnDisk, Complete, PersistedIsOnDisk
<1>4. QED
  BY <1>1, <1>2, <1>3

\* The invariant is inductive.
LEMMA NextDiskInv == DiskInv /\ [Next]_vars => DiskInv'
BY StartKeepsDiskInv, RefreshKeepsDiskInv, CrawlKeepsDiskInv, ElseKeepsDiskInv DEF Next

\* So it holds in every state of the cache.
LEMMA AlwaysDiskInv == Spec => []DiskInv
BY InitDiskInv, NextDiskInv, PTL DEF Spec

\* Every variable keeps holding a value of its kind; the page size never
\* leaves its range.
THEOREM TypeCorrect == Spec => []TypeOK
BY AlwaysDiskInv, PTL DEF DiskInv

\* A complete listing is on disk unless a save has failed, whatever crawls,
\* refreshes, stops and restarts overlap.
THEOREM CompleteListingsAreKept == Spec => []CompleteIsOnDisk
BY AlwaysDiskInv, PTL DEF DiskInv

\* Only a whole listing ever replaces what is on disk.
THEOREM DiskStaysWhole == Spec => DiskIsWhole
<1>1. DiskInv /\ [Next]_vars => [disk' # disk => disk' \in Listings]_vars
  <2> SUFFICES ASSUME DiskInv, Next, disk' # disk PROVE disk' \in Listings
    BY DEF vars
  <2>1. PICK k \in Crawls : SaveRenames(k)
    BY DEF Next, Start, Refresh, WarmFull, Tick, Stop, Restart, StartReads, StartServesFresh,
       StartServesStale, StartRecrawls, StartMarks, StartWarmsCertified, CrawlRetries,
       CrawlFails, CrawlCutShort, CrawlFetches, SaveWrites, WriteTemp, SaveFails, CrawlPublishes
  <2>2. crawl[k] \in CrawlStates
    BY DEF DiskInv, TypeOK
  <2>3. QED
    BY <2>1, <2>2, SavingState DEF SaveRenames, Holds
<1>2. QED
  BY <1>1, AlwaysDiskInv, PTL DEF Spec, DiskIsWhole

-----------------------------------------------------------------------------
(* How many crawls overlap.                                                *)

\* A new crawl is one more.
LEMMA GoWarmFullCounts ==
    ASSUME TypeOK, IsFiniteSet(Running), GoWarmFull
    PROVE  /\ IsFiniteSet(Running')
           /\ Cardinality(Running) \in Nat
           /\ Cardinality(Running') = Cardinality(Running) + 1
<1>1. PICK k \in Crawls \ Running : crawl'[k].at = "fetching"
                                    /\ \A j \in Crawls \ {k} : crawl'[j] = crawl[j]
  BY GoWarmFullTypes
<1>2. Running' = Running \cup {k}
  BY <1>1 DEF Running
<1>3. QED
  BY <1>1, <1>2, FS_AddElement, FS_CardinalityType

\* A crawl that returns is one less.
LEMMA ReturnsCounts ==
    ASSUME TypeOK, IsFiniteSet(Running), NEW k \in Running, Returns(k)
    PROVE  /\ IsFiniteSet(Running')
           /\ Cardinality(Running) \in Nat \ {0}
           /\ Cardinality(Running') = Cardinality(Running) - 1
<1>1. Running' = Running \ {k}
  BY DEF TypeOK, Returns, Running, IdleCrawl
<1>2. QED
  BY <1>1, FS_RemoveElement, FS_EmptySet, FS_CardinalityType

\* A crawl between its steps counts as before.
LEMMA CrawlsOnCount ==
    ASSUME TypeOK, NEW k \in Crawls,
           CrawlRetries(k) \/ CrawlFetches(k) \/ SaveWrites(k) \/ SaveRenames(k) \/ SaveFails(k)
    PROVE  Running' = Running
<1>1. crawl[k] \in CrawlStates /\ crawl \in [Crawls -> CrawlStates]
  BY DEF TypeOK
<1>2. crawl'[k].at # "returned" /\ crawl[k].at # "returned"
  BY <1>1 DEF CrawlRetries, CrawlFetches, SaveWrites, SaveRenames, SaveFails, Fetching, Holds,
     CrawlStates, IdleCrawl
<1>3. \A j \in Crawls \ {k} : crawl'[j] = crawl[j]
  BY <1>1 DEF CrawlRetries, CrawlFetches, SaveWrites, SaveRenames, SaveFails
<1>4. QED
  BY <1>2, <1>3 DEF Running

\* Before the first step nothing runs, and one refresh may come.
LEMMA InitFewCrawls == Init => FewCrawls
<1> SUFFICES ASSUME Init PROVE FewCrawls
  OBVIOUS
<1>1. Running = {}
  BY DEF Init, Running, IdleCrawl
<1>2. QED
  BY <1>1, FS_EmptySet DEF Init, FewCrawls, Refreshable, Allowed

\* Start publishes, which lets a refresh in, or starts its own crawl.
LEMMA StartKeepsFewCrawls ==
    ASSUME TypeOK, FewCrawls, Start
    PROVE  FewCrawls'
<1>1. IsFiniteSet(Running) /\ Cardinality(Running) \in Nat
  BY FS_CardinalityType DEF FewCrawls
<1>2. CASE StartReads \/ StartServesFresh \/ StartServesStale \/ StartMarks
  <2>1. Running' = Running
    BY <1>2 DEF StartReads, StartServesFresh, StartServesStale, StartMarks, Running
  <2>2. QED
    BY <1>1, <1>2, <2>1 DEF StartReads, StartServesFresh, StartServesStale, StartMarks,
       Publish, status, FewCrawls, Refreshable, Allowed
<1>3. CASE StartRecrawls \/ StartWarmsCertified
  <2>1. GoWarmFull
    BY <1>3 DEF StartRecrawls, StartWarmsCertified
  <2>2. /\ IsFiniteSet(Running')
        /\ Cardinality(Running') = Cardinality(Running) + 1
    BY <1>1, <2>1, GoWarmFullCounts
  <2>3. QED
    BY <1>1, <1>3, <2>2 DEF StartRecrawls, StartWarmsCertified, Publish, FewCrawls,
       Refreshable, Allowed
<1>4. QED
  BY <1>2, <1>3 DEF Start

\* A refresh uses up what it was allowed.
LEMMA RefreshKeepsFewCrawls ==
    ASSUME TypeOK, FewCrawls, Refresh
    PROVE  FewCrawls'
<1>1. IsFiniteSet(Running)
  BY DEF FewCrawls
<1>2. /\ IsFiniteSet(Running') /\ Cardinality(Running) \in Nat
      /\ Cardinality(Running') = Cardinality(Running) + 1
  BY <1>1, GoWarmFullCounts DEF Refresh
<1>3. QED
  BY <1>2 DEF Refresh, FewCrawls, Refreshable, Allowed

\* A crawl that ends lets at most one refresh in.
LEMMA CrawlKeepsFewCrawls ==
    ASSUME TypeOK, FewCrawls, NEW k \in Crawls, WarmFull(k)
    PROVE  FewCrawls'
<1>1. IsFiniteSet(Running) /\ Cardinality(Running) \in Nat
  BY FS_CardinalityType DEF FewCrawls
<1>2. CASE CrawlFails(k) \/ CrawlCutShort(k) \/ CrawlPublishes(k)
  <2>1. k \in Running /\ Returns(k)
    BY <1>2 DEF CrawlFails, CrawlCutShort, CrawlPublishes, Fetching, Holds, Running
  <2>2. /\ IsFiniteSet(Running')
        /\ Cardinality(Running') = Cardinality(Running) - 1
    BY <1>1, <2>1, ReturnsCounts
  <2>3. UNCHANGED start
    BY <1>2 DEF CrawlFails, CrawlCutShort, CrawlPublishes
  <2>4. UNCHANGED warming \/ warming' = FALSE
    BY <1>2 DEF CrawlFails, CrawlCutShort, CrawlPublishes, Publish, status
  <2>5. Refreshable \in 0..1 /\ Refreshable' \in 0..1
    BY DEF Refreshable
  <2>6. Refreshable' <= Refreshable + 1
    BY <2>5
  <2>7. Allowed' = Allowed /\ Allowed \in 1..3
    BY <2>3 DEF Allowed
  <2>8. QED
    BY <1>1, <2>2, <2>5, <2>6, <2>7 DEF FewCrawls
<1>3. CASE CrawlRetries(k) \/ CrawlFetches(k) \/ SaveWrites(k) \/ SaveRenames(k) \/ SaveFails(k)
  <2>1. Running' = Running
    BY <1>3, CrawlsOnCount
  <2>2. UNCHANGED <<start, warming>>
    BY <1>3 DEF CrawlRetries, CrawlFetches, SaveWrites, SaveRenames, SaveFails, status
  <2>3. QED
    BY <2>1, <2>2 DEF FewCrawls, Refreshable, Allowed
<1>4. QED
  BY <1>2, <1>3 DEF WarmFull

\* Nothing else starts or ends a crawl, but the death of the host.
LEMMA ElseKeepsFewCrawls ==
    ASSUME FewCrawls, Tick \/ Stop \/ Restart \/ UNCHANGED vars
    PROVE  FewCrawls'
<1>1. CASE Tick \/ Stop \/ UNCHANGED vars
  <2>1. UNCHANGED <<start, warming, crawl>>
    BY <1>1 DEF Tick, Stop, vars, status
  <2>2. QED
    BY <2>1 DEF FewCrawls, Running, Refreshable, Allowed
<1>2. CASE Restart
  <2>1. Running' = {}
    BY <1>2 DEF Restart, Running, IdleCrawl
  <2>2. QED
    BY <1>2, <2>1, FS_EmptySet DEF Restart, FewCrawls, Refreshable, Allowed
<1>3. QED
  BY <1>1, <1>2

\* Refreshes never pile crawls up: one before Start publishes, one after, and
\* Start's own.
THEOREM CrawlsStayFew == Spec => []CrawlsAreBounded
<1>1. DiskInv /\ FewCrawls /\ [Next]_vars => FewCrawls'
  BY StartKeepsFewCrawls, RefreshKeepsFewCrawls, CrawlKeepsFewCrawls, ElseKeepsFewCrawls
     DEF Next, DiskInv
<1>2. FewCrawls => CrawlsAreBounded
  BY FS_CardinalityType DEF FewCrawls, Refreshable, Allowed, CrawlsAreBounded
<1>3. QED
  BY <1>1, <1>2, InitFewCrawls, AlwaysDiskInv, PTL DEF Spec

-----------------------------------------------------------------------------
(* How the host gets stuck "warming".                                      *)

\* A crawl that reaches its own deadline, while the host goes on.
DeadlineOfACrawl == ~stopping /\ \E k \in Crawls : CrawlCutShort(k)

\* A crawl that starts is in progress.
LEMMA StartedIsRunning == TypeOK /\ GoWarmFull => Running' # {}
<1> SUFFICES ASSUME TypeOK, GoWarmFull PROVE Running' # {}
  OBVIOUS
<1>1. PICK k \in Crawls : crawl'[k].at = "fetching"
  BY GoWarmFullTypes
<1>2. k \in Running'
  BY <1>1 DEF Running
<1>3. QED
  BY <1>2

\* A step of a crawl that does not end it leaves it running.
LEMMA EndOfACrawl ==
    ASSUME TypeOK, NEW k \in Crawls, WarmFull(k)
    PROVE  \/ CrawlCutShort(k)
           \/ warming' = FALSE
           \/ Running' = Running /\ UNCHANGED <<warming, start, stopping>>
<1>1. CASE CrawlRetries(k) \/ CrawlFetches(k) \/ SaveWrites(k) \/ SaveRenames(k) \/ SaveFails(k)
  <2>1. Running' = Running
    BY <1>1, CrawlsOnCount
  <2>2. UNCHANGED <<warming, start, stopping>>
    BY <1>1 DEF CrawlRetries, CrawlFetches, SaveWrites, SaveRenames, SaveFails, status
  <2>3. QED
    BY <2>1, <2>2
<1>2. CASE CrawlFails(k) \/ CrawlPublishes(k)
  BY <1>2 DEF CrawlFails, CrawlPublishes, Publish
<1>3. QED
  BY <1>1, <1>2 DEF WarmFull

\* The only way to be "warming" with no crawl in progress is a crawl that its
\* own deadline cuts short: no failure, refresh or overlap of crawls leaves the
\* flag behind (cache.go:495).
THEOREM WedgedOnlyByTheDeadline ==
    Spec => [][WarmingIsACrawl => WarmingIsACrawl' \/ DeadlineOfACrawl]_vars
<1>1. ASSUME TypeOK, Next, WarmingIsACrawl, ~DeadlineOfACrawl
      PROVE  WarmingIsACrawl'
  <2>1. CASE Start
    <3>1. \/ start' # "returned"
          \/ warming' = FALSE
          \/ GoWarmFull
      BY <2>1 DEF Start, StartReads, StartServesFresh, StartServesStale, StartRecrawls,
                  StartMarks, StartWarmsCertified, Publish
    <3>2. QED
      BY <1>1, <3>1, StartedIsRunning DEF WarmingIsACrawl
  <2>2. CASE Refresh
    BY <1>1, <2>2, StartedIsRunning DEF Refresh, WarmingIsACrawl
  <2>3. ASSUME NEW k \in Crawls, WarmFull(k)
        PROVE  WarmingIsACrawl'
    <3>1. CASE CrawlCutShort(k)
      <4>1. stopping'
        BY <1>1, <3>1 DEF DeadlineOfACrawl, CrawlCutShort
      <4>2. QED
        BY <4>1 DEF WarmingIsACrawl
    <3>2. CASE ~CrawlCutShort(k)
      BY <1>1, <2>3, <3>2, EndOfACrawl DEF WarmingIsACrawl
    <3>3. QED
      BY <3>1, <3>2
  <2>4. CASE Tick
    BY <1>1, <2>4 DEF Tick, status, WarmingIsACrawl, Running
  <2>5. CASE Stop \/ Restart
    BY <2>5 DEF Stop, Restart, WarmingIsACrawl
  <2>6. QED
    BY <1>1, <2>1, <2>2, <2>3, <2>4, <2>5 DEF Next
<1>2. DiskInv /\ [Next]_vars
      => [WarmingIsACrawl => WarmingIsACrawl' \/ DeadlineOfACrawl]_vars
  BY <1>1 DEF DiskInv
<1>3. QED
  BY <1>2, AlwaysDiskInv, PTL DEF Spec

Wedged == warming /\ start = "returned" /\ Running = {}

\* And nothing but a restart of the host gets it out: Refresh does nothing
\* while the flag is up (cache.go:363-374).
THEOREM WedgedForGood == Spec => [][Wedged => Wedged' \/ Restart]_vars
<1>1. ASSUME Next, Wedged, ~Restart
      PROVE  Wedged'
  <2>1. ~Start /\ ~Refresh
    BY <1>1 DEF Wedged, Start, StartReads, StartServesFresh, StartServesStale,
                StartRecrawls, StartMarks, StartWarmsCertified, Refresh
  <2>2. \A k \in Crawls : ~WarmFull(k)
    BY <1>1 DEF Wedged, Running, WarmFull, CrawlRetries, CrawlFails, CrawlCutShort,
                CrawlFetches, SaveWrites, SaveRenames, SaveFails, CrawlPublishes,
                Fetching, Holds
  <2>3. Tick \/ Stop
    BY <1>1, <2>1, <2>2 DEF Next
  <2>4. QED
    BY <1>1, <2>3 DEF Tick, Stop, status, Wedged, Running
<1>2. [Next]_vars => [Wedged => Wedged' \/ Restart]_vars
  BY <1>1
<1>3. QED
  BY <1>2, PTL DEF Spec

=============================================================================
