----------------------------- MODULE OrbBrowser -----------------------------
(***************************************************************************)
(* The orb browser: its store (web/src/state/orbStore.ts) and the panel    *)
(* that drives it (web/src/panes/orbs/OrbBrowser.tsx).                     *)
(*                                                                         *)
(* Three kinds of request are in flight at once: searches, of which the    *)
(* latest counts; the sources of the orbs the user opens, of which each    *)
(* one lands; and the background fetches of the descriptions of the rows   *)
(* in the list, a few at a time.  All three share parsedOrbs or error.     *)
(*                                                                         *)
(* An orb version is one value, and the host's registry does not change    *)
(* while the panel is open.  Left out: ranking and counts, the list of     *)
(* versions, and loadOrb's other caller, the inspector.                    *)
(***************************************************************************)
EXTENDS Naturals, Sequences, FiniteSets, SequencesExt

CONSTANTS
    Queries, Filters,   \* what can be searched for
    Found,              \* the rows of each search: latest versions, in order
    Versions,           \* published orb versions
    NameOf,             \* the orb each is a version of
    None,
    MaxConcurrent,      \* MAX_CONCURRENT_DESCRIPTION_FETCHES
    PrefetchLimit,      \* DESCRIPTION_PREFETCH_LIMIT
    MaxSearches,        \* bound: searches sent
    MaxPicks            \* bound: sources the user asks for

ASSUME FoundAssumption == Found \in [Queries \X Filters -> Seq(Versions)]
ASSUME LimitsAssumption ==
    /\ MaxConcurrent \in Nat \ {0} /\ PrefetchLimit \in Nat
    /\ MaxSearches \in Nat /\ MaxPicks \in Nat
ASSUME NoneAssumption == None \notin Versions /\ \A v \in Versions : NameOf[v] # None

VARIABLES
    query, filter,      \* the search box and the filter bar
    timer,              \* TRUE while the search is debounced
    searchSeq,          \* the number of the latest search
    searches,           \* searches in flight
    searchState, results,
    warming,            \* status.warming of the last answer
    selectedName,       \* the orb whose detail is open (OrbBrowser's state)
    selectedOrb,        \* the version the store has for it
    loadingOrb, error,
    picks, selecting,   \* selectOrb's fetches: how many, and those in flight
    parsedOrbs,         \* versions whose source is cached
    requested,          \* descriptionRequested
    queue, active,      \* descriptionQueue, activeDescriptionFetches
    fetching            \* loadOrb's fetches in flight

search == <<query, filter, timer, searchSeq, searches, searchState, results, warming>>
detail == <<selectedName, selectedOrb, loadingOrb, picks, selecting>>
prefetch == <<requested, queue, active, fetching>>
vars == <<search, detail, error, parsedOrbs, prefetch>>

Init ==
    /\ query \in Queries /\ filter \in Filters
    /\ timer = TRUE                    \* the panel searches when it mounts
    /\ searchSeq = 0 /\ searches = {}
    /\ searchState = "idle" /\ results = <<>> /\ warming = FALSE
    /\ selectedName = None /\ selectedOrb = None
    /\ loadingOrb = FALSE /\ error = FALSE
    /\ picks = 0 /\ selecting = {}
    /\ parsedOrbs = {}
    /\ requested = {} /\ queue = <<>> /\ active = 0 /\ fetching = {}

-----------------------------------------------------------------------------
(* Descriptions.                                                           *)

\* runNextDescriptionFetch, as often as there is room.
StartFetches(waiting, running, inFlight) ==
    LET n == Min({Len(waiting), MaxConcurrent - running})
    IN  /\ queue' = SubSeq(waiting, n + 1, Len(waiting))
        /\ active' = running + n
        /\ fetching' = inFlight \cup {waiting[i] : i \in 1..n}

\* The rows prefetchDescription takes on, in the order of the list: those whose
\* source is not cached and was not asked for before, once each.
Wanted(rows) ==
    LET new == {i \in 1..Min({PrefetchLimit, Len(rows)}) :
                    /\ rows[i] \notin parsedOrbs \cup requested
                    /\ \A j \in 1..i - 1 : rows[j] # rows[i]}
        Upto(i) == {j \in new : j <= i}
    IN  [k \in 1..Cardinality(new) |-> rows[CHOOSE i \in new : Cardinality(Upto(i)) = k]]

\* useDescriptionPrefetch, run when the list mounts or its rows change.
PrefetchRows(rows) ==
    /\ requested' = requested \cup ToSet(Wanted(rows))
    /\ StartFetches(queue \o Wanted(rows), active, fetching)

\* Bug: a failed fetch does not give its place back.
FetchedUnlessFailed(v) ==
    /\ UNCHANGED <<search, detail, error, requested>>
    /\ \/ /\ parsedOrbs' = parsedOrbs \cup {v}
          /\ StartFetches(queue, active - 1, fetching \ {v})
       \/ /\ parsedOrbs' = parsedOrbs
          /\ StartFetches(queue, active, fetching \ {v})

\* loadOrb ends, well or badly, and the next one starts.
Fetched(v) ==
    /\ UNCHANGED <<search, detail, error, requested>>
    /\ parsedOrbs' \in {parsedOrbs, parsedOrbs \cup {v}}
    /\ StartFetches(queue, active - 1, fetching \ {v})

-----------------------------------------------------------------------------
(* Searching.                                                              *)

RunSearch(q, f) ==
    /\ searchSeq < MaxSearches
    /\ searchSeq' = searchSeq + 1
    /\ searches' = searches \cup {[seq |-> searchSeq', query |-> q, filter |-> f]}
    /\ searchState' = "searching"
    /\ error' = FALSE
    /\ UNCHANGED <<results, warming, detail, parsedOrbs, prefetch>>

\* search(): a keystroke, the Clear button, or Retry.
Type(q) ==
    /\ query' = q
    /\ timer' = TRUE
    /\ UNCHANGED <<filter, searchSeq, searches, searchState, results, warming,
                   detail, error, parsedOrbs, prefetch>>

Debounced ==
    /\ timer
    /\ timer' = FALSE
    /\ RunSearch(query, filter)
    /\ UNCHANGED <<query, filter>>

SetFilter(f) ==
    /\ f # filter
    /\ filter' = f
    /\ timer' = FALSE
    /\ RunSearch(query, f)
    /\ UNCHANGED query

Refresh ==
    /\ ~warming
    /\ timer' = FALSE
    /\ RunSearch(query, filter)
    /\ UNCHANGED <<query, filter>>

\* The rows change; the list prefetches them if it is on screen.
ShowRows(rows) ==
    /\ results' = rows
    /\ IF selectedName = None THEN PrefetchRows(rows) ELSE UNCHANGED prefetch

\* Bug: an answer lands whatever has been searched since.
SearchAnyAnswered(s) ==
    /\ searches' = searches \ {s}
    /\ searchState' = "ready" /\ warming' \in BOOLEAN
    /\ error' = error
    /\ ShowRows(Found[<<s.query, s.filter>>])
    /\ UNCHANGED <<query, filter, timer, searchSeq, detail, parsedOrbs>>

SearchAnswered(s) ==
    /\ searches' = searches \ {s}
    /\ \/ /\ s.seq # searchSeq
          /\ UNCHANGED <<searchState, results, warming, error, prefetch>>
       \/ /\ s.seq = searchSeq
          /\ searchState' = "ready" /\ warming' \in BOOLEAN
          /\ error' = error
          /\ ShowRows(Found[<<s.query, s.filter>>])
       \/ /\ s.seq = searchSeq
          /\ searchState' = "unavailable" /\ warming' = FALSE
          /\ error' = error
          /\ ShowRows(<<>>)
       \/ /\ s.seq = searchSeq
          /\ searchState' = "error" /\ warming' = warming
          /\ error' = TRUE
          /\ ShowRows(<<>>)
    /\ UNCHANGED <<query, filter, timer, searchSeq, detail, parsedOrbs>>

-----------------------------------------------------------------------------
(* An orb's detail.                                                        *)

\* selectOrb, up to its await.
SelectOrb(v) ==
    /\ error' = FALSE
    /\ IF v \in parsedOrbs
       THEN /\ selectedOrb' = v /\ loadingOrb' = FALSE
            /\ UNCHANGED <<picks, selecting>>
       ELSE /\ picks < MaxPicks
            /\ loadingOrb' = TRUE
            /\ picks' = picks + 1
            /\ selecting' = selecting \cup {[pick |-> picks', version |-> v]}

\* Bug: what was selected before stays until the new source is there.
PickWithoutClear(v) ==
    /\ selectedName = None /\ searchState = "ready" /\ v \in ToSet(results)
    /\ selectedName' = NameOf[v]
    /\ SelectOrb(v)
    /\ IF v \in parsedOrbs THEN TRUE ELSE selectedOrb' = selectedOrb
    /\ UNCHANGED <<search, parsedOrbs, prefetch>>

\* handleSelect, on a row: clearSelection, then selectOrb.
Pick(v) ==
    /\ selectedName = None /\ searchState = "ready" /\ v \in ToSet(results)
    /\ selectedName' = NameOf[v]
    /\ SelectOrb(v)
    /\ IF v \in parsedOrbs THEN TRUE ELSE selectedOrb' = None
    /\ UNCHANGED <<search, parsedOrbs, prefetch>>

\* VersionControl, and the Retry of a failed detail.
Reselect(v) ==
    /\ selectedName # None /\ ~loadingOrb /\ (error \/ selectedOrb # None)
    /\ NameOf[v] = selectedName \/ (error /\ v = selectedOrb)
    /\ SelectOrb(v)
    /\ IF v \in parsedOrbs THEN TRUE ELSE selectedOrb' = selectedOrb
    /\ UNCHANGED <<search, selectedName, parsedOrbs, prefetch>>

\* What follows selectOrb's await.
SelectAnswered(s) ==
    /\ selecting' = selecting \ {s}
    /\ loadingOrb' = FALSE
    /\ \/ /\ selectedOrb' = s.version
          /\ parsedOrbs' = parsedOrbs \cup {s.version}
          /\ error' = FALSE
       \/ /\ error' = TRUE
          /\ UNCHANGED <<selectedOrb, parsedOrbs>>
    /\ UNCHANGED <<search, selectedName, picks, prefetch>>

\* handleClose: clearSelection, and the list is mounted again.
Close ==
    /\ selectedName # None
    /\ selectedName' = None /\ selectedOrb' = None /\ error' = FALSE
    /\ PrefetchRows(results)
    /\ UNCHANGED <<search, loadingOrb, picks, selecting, parsedOrbs>>

-----------------------------------------------------------------------------

Next ==
    \/ \E q \in Queries : Type(q)
    \/ Debounced
    \/ \E f \in Filters : SetFilter(f)
    \/ Refresh
    \/ \E s \in searches : SearchAnswered(s)
    \/ \E v \in Versions : Pick(v) \/ Reselect(v)
    \/ \E s \in selecting : SelectAnswered(s)
    \/ Close
    \/ \E v \in fetching : Fetched(v)

Spec == Init /\ [][Next]_vars

-----------------------------------------------------------------------------

\* A list shown as the answer is the answer to what the search box and the
\* filter bar say, unless the last keystroke is still being debounced: a slow
\* answer never overwrites a later one (orbStore.ts:134-150, 308-318).
ListIsTheAnswer ==
    searchState = "ready" /\ ~timer => results = Found[<<query, filter>>]

\* At most MaxConcurrent descriptions are fetched at a time, and a row waits
\* only while that many are: a failure gives its place back, so every row's
\* request "still runs eventually" (orbStore.ts:250-257, 543-556).
QueueNeverStalls ==
    /\ active = Cardinality(fetching)
    /\ active <= MaxConcurrent
    /\ queue # <<>> => active = MaxConcurrent

\* The detail of one orb is open and the store's selection is another orb.
WrongDetail ==
    selectedName # None /\ selectedOrb # None /\ NameOf[selectedOrb] # selectedName

\* selectOrb's answers are not sequenced as searches are, so a late one can
\* replace the orb in the detail; nothing else ever puts one orb's contents
\* under another's detail (orbStore.ts:446-495, OrbBrowser.tsx:1275-1284).
WrongDetailOnlyByLateAnswer ==
    [][~WrongDetail /\ WrongDetail' =>
        \E s \in selecting \ selecting' : NameOf[s.version] # selectedName]_vars

=============================================================================
