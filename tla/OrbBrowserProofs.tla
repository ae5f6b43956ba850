-------------------------- MODULE OrbBrowserProofs --------------------------
(***************************************************************************)
(* Proofs about OrbBrowser, for any registry, any searches and any number  *)
(* of them: the list is the answer to what is asked, and an orb's detail   *)
(* holds another orb only when a late answer puts it there.                *)
(***************************************************************************)
EXTENDS OrbBrowser, FiniteSetTheorems, SequenceTheorems, TLAPS

-----------------------------------------------------------------------------
(* The list.                                                               *)

\* No search is numbered past the latest, and the latest is about what the
\* panel says unless another is being debounced.
LatestIsCurrent ==
    /\ searchSeq \in Nat
    /\ \A s \in searches : s.seq \in Nat /\ s.seq <= searchSeq
    /\ ~timer => \A s \in searches :
                    s.seq = searchSeq => s.query = query /\ s.filter = filter

ListInv == LatestIsCurrent /\ ListIsTheAnswer

\* A new search is the latest, and about what the panel says from now on.
LEMMA RunSearchKeepsList ==
    ASSUME ListInv, NEW q, NEW f, RunSearch(q, f), query' = q, filter' = f
    PROVE  ListInv'
<1> DEFINE new == [seq |-> searchSeq + 1, query |-> q, filter |-> f]
<1> USE DEF ListInv, RunSearch
<1>1. searchSeq \in Nat /\ searchSeq' = searchSeq + 1
  BY DEF LatestIsCurrent
<1>2. searches' = searches \cup {new}
  OBVIOUS
<1>3. \A s \in searches : s.seq \in Nat /\ s.seq < searchSeq'
  BY <1>1 DEF LatestIsCurrent
<1>4. new.seq = searchSeq' /\ new.query = query' /\ new.filter = filter'
  OBVIOUS
<1> HIDE DEF new
<1>5. LatestIsCurrent'
  BY <1>1, <1>2, <1>3, <1>4 DEF LatestIsCurrent
<1>6. ListIsTheAnswer'
  BY DEF ListIsTheAnswer
<1>7. QED
  BY <1>5, <1>6

\* The answer of the latest search is the one that is shown.
LEMMA AnswerKeepsList ==
    ASSUME ListInv, NEW s \in searches, SearchAnswered(s)
    PROVE  ListInv'
<1> USE DEF ListInv, SearchAnswered
<1>1. /\ searches' \subseteq searches
      /\ UNCHANGED <<query, filter, timer, searchSeq>>
  OBVIOUS
<1>2. LatestIsCurrent'
  BY <1>1 DEF LatestIsCurrent
<1>3. ASSUME searchState' = "ready", ~timer'
      PROVE  results' = Found[<<query', filter'>>]
  <2>1. CASE s.seq # searchSeq
    BY <1>1, <1>3, <2>1 DEF ListIsTheAnswer
  <2>2. CASE s.seq = searchSeq
    <3>1. results' = Found[<<s.query, s.filter>>]
      BY <1>3, <2>2 DEF ShowRows
    <3>2. s.query = query /\ s.filter = filter
      BY <1>1, <1>3, <2>2 DEF LatestIsCurrent
    <3>3. QED
      BY <1>1, <3>1, <3>2
  <2>3. QED
    BY <2>1, <2>2
<1>4. QED
  BY <1>2, <1>3 DEF ListIsTheAnswer

\* Every step of the panel and of its store.
LEMMA NextListInv == ListInv /\ [Next]_vars => ListInv'
<1> SUFFICES ASSUME ListInv, [Next]_vars PROVE ListInv'
  OBVIOUS
<1>1. ASSUME NEW q \in Queries, Type(q) PROVE ListInv'
  BY <1>1 DEF Type, ListInv, LatestIsCurrent, ListIsTheAnswer
<1>2. CASE Debounced
  BY <1>2, RunSearchKeepsList DEF Debounced
<1>3. ASSUME NEW f \in Filters, SetFilter(f) PROVE ListInv'
  BY <1>3, RunSearchKeepsList DEF SetFilter
<1>4. CASE Refresh
  BY <1>4, RunSearchKeepsList DEF Refresh
<1>5. ASSUME NEW s \in searches, SearchAnswered(s) PROVE ListInv'
  BY <1>5, AnswerKeepsList
<1>6. CASE UNCHANGED search
  BY <1>6 DEF search, ListInv, LatestIsCurrent, ListIsTheAnswer
<1>7. ASSUME NEW v \in Versions, Pick(v) \/ Reselect(v) PROVE UNCHANGED search
  BY <1>7 DEF Pick, Reselect
<1>8. ASSUME NEW s \in selecting, SelectAnswered(s) PROVE UNCHANGED search
  BY <1>8 DEF SelectAnswered
<1>9. Close => UNCHANGED search
  BY DEF Close
<1>10. ASSUME NEW v \in fetching, Fetched(v) PROVE UNCHANGED search
  BY <1>10 DEF Fetched
<1>11. UNCHANGED vars => UNCHANGED search
  BY DEF vars
<1>12. QED
  BY <1>1, <1>2, <1>3, <1>4, <1>5, <1>6, <1>7, <1>8, <1>9, <1>10, <1>11 DEF Next

\* A list shown as the answer is the answer to what the panel says, however
\* the answers are reordered (orbStore.ts:134-150, 308-318).
THEOREM ListStaysTheAnswer == Spec => []ListIsTheAnswer
<1>1. Init => ListInv
  BY DEF Init, ListInv, LatestIsCurrent, ListIsTheAnswer
<1>2. ListInv => ListIsTheAnswer
  BY DEF ListInv
<1>3. QED
  BY <1>1, <1>2, NextListInv, PTL DEF Spec

-----------------------------------------------------------------------------
(* The detail.                                                             *)

\* Opening, reselecting and closing keep the detail about its own orb.
LEMMA UserKeepsDetail ==
    ASSUME ~WrongDetail,
           (\E v \in Versions : Pick(v) \/ Reselect(v)) \/ Close
    PROVE  ~WrongDetail'
<1>1. ASSUME NEW v \in Versions, Pick(v) PROVE ~WrongDetail'
  <2>1. selectedName' = NameOf[v] /\ selectedOrb' \in {v, None}
    BY <1>1 DEF Pick, SelectOrb
  <2>2. QED
    BY <2>1 DEF WrongDetail
<1>2. ASSUME NEW v \in Versions, Reselect(v) PROVE ~WrongDetail'
  <2>1. selectedName' = selectedName /\ selectedOrb' \in {v, selectedOrb}
    BY <1>2 DEF Reselect, SelectOrb
  <2>2. NameOf[v] = selectedName \/ v = selectedOrb
    BY <1>2 DEF Reselect
  <2>3. QED
    BY <2>1, <2>2 DEF WrongDetail
<1>3. Close => ~WrongDetail'
  BY DEF Close, WrongDetail
<1>4. QED
  BY <1>1, <1>2, <1>3

\* What is in the background leaves the detail alone.
LEMMA BackgroundKeepsDetail ==
    ASSUME \/ \E q \in Queries : Type(q)
           \/ Debounced \/ Refresh
           \/ \E f \in Filters : SetFilter(f)
           \/ \E s \in searches : SearchAnswered(s)
           \/ \E v \in fetching : Fetched(v)
           \/ UNCHANGED vars
    PROVE  UNCHANGED detail
BY DEF Type, Debounced, Refresh, SetFilter, RunSearch, SearchAnswered, Fetched, vars

\* Only the late answer of a selection puts one orb's contents under another's
\* detail (orbStore.ts:446-495).
THEOREM OnlyLateAnswersMislead == Spec => WrongDetailOnlyByLateAnswer
<1>1. [Next]_vars =>
        [~WrongDetail /\ WrongDetail' =>
            \E s \in selecting \ selecting' : NameOf[s.version] # selectedName]_vars
  <2> SUFFICES ASSUME [Next]_vars, ~WrongDetail, WrongDetail'
               PROVE  \E s \in selecting \ selecting' : NameOf[s.version] # selectedName
    OBVIOUS
  <2>1. ASSUME NEW s \in selecting, SelectAnswered(s)
        PROVE  s \in selecting \ selecting' /\ NameOf[s.version] # selectedName
    BY <2>1 DEF SelectAnswered, WrongDetail
  <2>2. ~UNCHANGED detail
    BY DEF detail, WrongDetail
  <2>3. QED
    BY <2>1, <2>2, UserKeepsDetail, BackgroundKeepsDetail DEF Next
<1>2. QED
  BY <1>1, PTL DEF Spec, WrongDetailOnlyByLateAnswer

-----------------------------------------------------------------------------
(* Counting along a list.                                                  *)

Upto(S, i) == {j \in S : j <= i}

\* The first, the second, ... of a set of positions: counting them up to each
\* of them numbers them through.
LEMMA PositionsAreNumbered ==
    ASSUME NEW n \in Nat, NEW S \in SUBSET (1..n)
    PROVE  /\ IsFiniteSet(S) /\ Cardinality(S) \in Nat
           /\ \A k \in 1..Cardinality(S) : \E i \in S : Cardinality(Upto(S, i)) = k
<1> DEFINE count == [i \in S |-> Cardinality(Upto(S, i))]
           size == Cardinality(S)
<1>0. \A i \in S : i \in Int
  OBVIOUS
<1>1. IsFiniteSet(S) /\ size \in Nat
  <2>1. IsFiniteSet(1..n)
    BY FS_Interval
  <2>2. IsFiniteSet(S)
    BY <2>1, FS_Subset
  <2>3. QED
    BY <2>2, FS_CardinalityType
<1>2. ASSUME NEW i \in S
      PROVE  IsFiniteSet(Upto(S, i)) /\ count[i] \in 1..size
  <2>1. Upto(S, i) \in SUBSET S /\ i \in Upto(S, i)
    BY DEF Upto
  <2>2. IsFiniteSet(Upto(S, i)) /\ Cardinality(Upto(S, i)) <= size
    BY <1>1, <2>1, FS_Subset
  <2>3. Cardinality(Upto(S, i)) \in Nat \ {0}
    BY <2>1, <2>2, FS_EmptySet, FS_CardinalityType
  <2>4. QED
    BY <1>1, <2>2, <2>3
<1>3. ASSUME NEW i \in S, NEW k \in S, i < k
      PROVE  count[i] # count[k]
  <2>0. i \in Int /\ k \in Int /\ ~(k <= i) /\ k <= k
    BY <1>0, <1>3
  <2>1. Upto(S, i) \in SUBSET Upto(S, k) /\ k \in Upto(S, k) /\ k \notin Upto(S, i)
    <3>1. \A j \in S : j <= i => j <= k
      BY <1>0, <1>3, <2>0
    <3>2. QED
      BY <2>0, <3>1 DEF Upto
  <2>2. IsFiniteSet(Upto(S, k))
    BY <1>2
  <2>3. Cardinality(Upto(S, k)) # Cardinality(Upto(S, i))
    BY <2>1, <2>2, FS_Subset
  <2>4. QED
    BY <2>3
<1>4. count \in Injection(S, 1..size)
  <2>1. count \in [S -> 1..size]
    BY <1>2
  <2>2. \A i, k \in S : i < k \/ k < i \/ i = k
    OBVIOUS
  <2>3. \A i, k \in S : count[i] = count[k] => i = k
    BY <1>3, <2>2
  <2>4. DOMAIN count = S
    OBVIOUS
  <2> HIDE DEF count
  <2>5. QED
    BY <2>1, <2>3, <2>4 DEF Injection, IsInjective
<1>5. IsFiniteSet(1..size) /\ Cardinality(1..size) = size
  BY <1>1, FS_Interval
<1>6. count \in Surjection(S, 1..size)
  <2> HIDE DEF count
  <2>1. QED
    BY <1>4, <1>5, FS_Injection
<1>7. \A k \in 1..size : \E i \in S : count[i] = k
  BY <1>6 DEF Surjection
<1>8. QED
  BY <1>1, <1>7

NoRepeats(list) == \A i, j \in 1..Len(list) : list[i] = list[j] => i = j

\* The smaller of two numbers.
LEMMA MinOfTwo ==
    ASSUME NEW a \in Int, NEW b \in Int
    PROVE  Min({a, b}) = IF a <= b THEN a ELSE b
BY DEF Min

\* What prefetchDescription takes on is new, and each row once.
LEMMA WantedIsNew ==
    ASSUME NEW rows \in Seq(Versions)
    PROVE  /\ Wanted(rows) \in Seq(Versions)
           /\ NoRepeats(Wanted(rows))
           /\ \A k \in 1..Len(Wanted(rows)) : Wanted(rows)[k] \notin requested
<1> DEFINE limit == Min({PrefetchLimit, Len(rows)})
           new == {i \in 1..limit :
                      /\ rows[i] \notin parsedOrbs \cup requested
                      /\ \A j \in 1..i - 1 : rows[j] # rows[i]}
           size == Cardinality(new)
           At(k) == CHOOSE i \in new : Cardinality(Upto(new, i)) = k
<1>1. limit \in Nat /\ limit <= Len(rows)
  BY MinOfTwo, LimitsAssumption, LenProperties
<1>2. Wanted(rows) = [k \in 1..size |-> rows[At(k)]]
  BY DEF Wanted, Upto
<1> HIDE DEF limit
<1>3. \A i \in new : /\ i \in 1..limit /\ rows[i] \notin requested
                     /\ \A j \in 1..i - 1 : rows[j] # rows[i]
  OBVIOUS
<1>4. new \in SUBSET (1..limit)
  OBVIOUS
<1> HIDE DEF new
<1>5. /\ size \in Nat
      /\ \A k \in 1..size : \E i \in new : Cardinality(Upto(new, i)) = k
  BY <1>1, <1>4, PositionsAreNumbered
<1>6. \A k \in 1..size : At(k) \in new /\ Cardinality(Upto(new, At(k))) = k
  BY <1>5
<1> HIDE DEF size, At
<1>7. \A k \in 1..size : rows[At(k)] \in Versions
  BY <1>1, <1>3, <1>6, ElementOfSeq
<1>8. Wanted(rows) \in Seq(Versions) /\ Len(Wanted(rows)) = size
  BY <1>2, <1>5, <1>7
<1>9. ASSUME NEW k \in 1..size, NEW l \in 1..size, rows[At(k)] = rows[At(l)]
      PROVE  k = l
  <2>1. At(k) \in 1..limit /\ At(l) \in 1..limit
    BY <1>3, <1>6
  <2>2. ~(At(k) < At(l)) /\ ~(At(l) < At(k))
    BY <1>1, <1>3, <1>6, <1>9, <2>1
  <2>3. At(k) = At(l)
    BY <1>1, <2>1, <2>2
  <2>4. QED
    BY <1>6, <2>3
<1>10. QED
  BY <1>2, <1>3, <1>6, <1>8, <1>9 DEF NoRepeats

-----------------------------------------------------------------------------
(* The descriptions.                                                       *)

\* As many elements as a list without repeats is long.
LEMMA FrontIsCounted ==
    ASSUME NEW list \in Seq(Versions), NoRepeats(list), NEW n \in 0..Len(list)
    PROVE  /\ IsFiniteSet({list[i] : i \in 1..n})
           /\ Cardinality({list[i] : i \in 1..n}) = n
<1> DEFINE taken == {list[i] : i \in 1..n}
           take == [i \in 1..n |-> list[i]]
<1>1. n \in Nat /\ Len(list) \in Nat /\ n <= Len(list)
  BY LenProperties
<1>2. \A i, j \in 1..n : take[i] = take[j] => i = j
  BY <1>1 DEF NoRepeats
<1>3. take \in Bijection(1..n, taken)
  BY <1>2 DEF Bijection, Injection, Surjection, IsInjective
<1>4. ExistsBijection(1..n, taken)
  BY <1>3 DEF ExistsBijection
<1>5. IsFiniteSet(taken) /\ Cardinality(taken) = n
  BY <1>1, <1>4, FS_NatBijection, FS_CountingElements
<1>6. QED
  BY <1>5

\* The requests that wait are all different from those in flight and from one
\* another, and none waits without need.
Queued(waiting, running, inFlight) ==
    /\ waiting \in Seq(Versions) /\ NoRepeats(waiting)
    /\ IsFiniteSet(inFlight)
    /\ running = Cardinality(inFlight) /\ running <= MaxConcurrent
    /\ \A i \in 1..Len(waiting) : waiting[i] \notin inFlight

\* runNextDescriptionFetch fills the places there are.
LEMMA StartFetchesFills ==
    ASSUME NEW waiting, NEW running, NEW inFlight, Queued(waiting, running, inFlight),
           StartFetches(waiting, running, inFlight)
    PROVE  /\ Queued(queue, active, fetching)'
           /\ queue' # <<>> => active' = MaxConcurrent
           /\ \A i \in 1..Len(queue') : \E j \in 1..Len(waiting) : queue'[i] = waiting[j]
           /\ fetching' \subseteq inFlight \cup {waiting[i] : i \in 1..Len(waiting)}
<1> DEFINE n == Min({Len(waiting), MaxConcurrent - running})
           taken == {waiting[i] : i \in 1..n}
           len == Len(waiting)
<1>1. /\ waiting \in Seq(Versions) /\ NoRepeats(waiting)
      /\ len \in Nat /\ running \in Nat /\ MaxConcurrent \in Nat
      /\ running = Cardinality(inFlight) /\ running <= MaxConcurrent
      /\ IsFiniteSet(inFlight)
      /\ \A i \in 1..len : waiting[i] \notin inFlight
  BY LimitsAssumption, LenProperties, FS_CardinalityType DEF Queued
<1>2. /\ queue' = SubSeq(waiting, n + 1, len) /\ active' = running + n
      /\ fetching' = inFlight \cup taken
  BY DEF StartFetches
<1>3. n = IF len <= MaxConcurrent - running THEN len ELSE MaxConcurrent - running
  <2>1. len \in Int /\ MaxConcurrent - running \in Int
    BY <1>1
  <2>2. QED
    BY <2>1, MinOfTwo
<1> HIDE DEF n, len
<1>4. n \in 0..len /\ running + n <= MaxConcurrent /\ (n < len => running + n = MaxConcurrent)
  BY <1>1, <1>3
<1>5. IsFiniteSet(taken) /\ Cardinality(taken) = n
  BY <1>1, <1>4, FrontIsCounted DEF len
<1>6. inFlight \cap taken = {}
  BY <1>1, <1>4
<1>7. taken \subseteq {waiting[i] : i \in 1..len}
  BY <1>1, <1>4
<1>8. ASSUME NEW i \in 1..len, i > n
      PROVE  waiting[i] \notin taken
  BY <1>1, <1>4, <1>8 DEF NoRepeats, len
<1> HIDE DEF taken
<1>9. IsFiniteSet(fetching') /\ Cardinality(fetching') = active'
  <2>1. Cardinality(inFlight \cap taken) = 0
    BY <1>6, FS_EmptySet
  <2>2. /\ IsFiniteSet(inFlight \cup taken)
        /\ Cardinality(inFlight \cup taken)
             = Cardinality(inFlight) + Cardinality(taken) - Cardinality(inFlight \cap taken)
    BY <1>1, <1>5, FS_Union
  <2>3. Cardinality(inFlight \cup taken) = running + n
    BY <1>1, <1>4, <1>5, <2>1, <2>2
  <2>4. QED
    BY <1>2, <2>2, <2>3
<1>10. /\ queue' \in Seq(Versions)
       /\ Len(queue') = len - n
       /\ \A i \in 1..len - n : queue'[i] = waiting[n + i]
  <2>1. \A i \in n + 1..len : waiting[i] \in Versions
    BY <1>1, <1>4, ElementOfSeq DEF len
  <2>2. n + 1 \in Int /\ len \in Int
    BY <1>1, <1>4
  <2>3. /\ SubSeq(waiting, n + 1, len) \in Seq(Versions)
        /\ Len(SubSeq(waiting, n + 1, len)) = IF n + 1 <= len THEN len - (n + 1) + 1 ELSE 0
        /\ \A i \in 1..len - (n + 1) + 1 :
              SubSeq(waiting, n + 1, len)[i] = waiting[n + 1 + i - 1]
    BY <2>1, <2>2, SubSeqProperties
  <2>4. \A i \in 1..len - n : n + 1 + i - 1 = n + i
    BY <1>1, <1>4
  <2>5. len - (n + 1) + 1 = len - n
    BY <1>1, <1>4
  <2>6. QED
    BY <1>1, <1>2, <1>4, <2>3, <2>4, <2>5
<1>11. NoRepeats(queue)'
  <2>1. \A i, j \in 1..len - n : waiting[n + i] = waiting[n + j] => i = j
    BY <1>1, <1>4 DEF NoRepeats, len
  <2>2. QED
    BY <1>10, <2>1 DEF NoRepeats
<1>12. \A i \in 1..Len(queue') : queue'[i] \notin fetching'
  <2>1. \A i \in 1..len - n : n + i \in 1..len /\ n + i > n
    BY <1>1, <1>4
  <2>2. QED
    BY <1>1, <1>2, <1>8, <1>10, <2>1
<1>13. queue' # <<>> => active' = MaxConcurrent
  <2>1. queue' # <<>> => n < len
    BY <1>1, <1>4, <1>10, EmptySeq
  <2>2. QED
    BY <1>2, <1>4, <2>1
<1>14. \A i \in 1..Len(queue') : \E j \in 1..len : queue'[i] = waiting[j]
  <2>1. \A i \in 1..len - n : n + i \in 1..len
    BY <1>1, <1>4
  <2>2. QED
    BY <1>10, <2>1
<1>15. QED
  BY <1>2, <1>4, <1>7, <1>9, <1>10, <1>11, <1>12, <1>13, <1>14 DEF Queued, len

\* What the panel can ask for, and the rows it can be shown.
PanelTypeOK ==
    /\ query \in Queries /\ filter \in Filters
    /\ \A s \in searches : s.query \in Queries /\ s.filter \in Filters
    /\ results \in Seq(Versions)

\* Every place is taken while a request waits, and no version is asked for twice.
QueueInv ==
    /\ Queued(queue, active, fetching)
    /\ queue # <<>> => active = MaxConcurrent
    /\ fetching \subseteq requested
    /\ \A i \in 1..Len(queue) : queue[i] \in requested

FetchInv == PanelTypeOK /\ QueueInv

\* Rows are put on the list.
LEMMA PrefetchKeepsQueue ==
    ASSUME QueueInv, NEW rows \in Seq(Versions), PrefetchRows(rows)
    PROVE  QueueInv'
<1> DEFINE more == Wanted(rows)
           waiting == queue \o more
<1>1. /\ more \in Seq(Versions) /\ NoRepeats(more)
      /\ \A k \in 1..Len(more) : more[k] \notin requested
  BY WantedIsNew
<1>2. requested' = requested \cup ToSet(more) /\ StartFetches(waiting, active, fetching)
  BY DEF PrefetchRows
<1> HIDE DEF more
<1>3. /\ queue \in Seq(Versions) /\ NoRepeats(queue)
      /\ Len(queue) \in Nat /\ Len(more) \in Nat
      /\ \A i \in 1..Len(queue) : queue[i] \in requested /\ queue[i] \notin fetching
  BY <1>1, LenProperties DEF QueueInv, Queued
<1>4. /\ waiting \in Seq(Versions)
      /\ Len(waiting) = Len(queue) + Len(more)
      /\ \A i \in 1..Len(queue) + Len(more) :
            waiting[i] = IF i <= Len(queue) THEN queue[i] ELSE more[i - Len(queue)]
  BY <1>1, <1>3, ConcatProperties
<1>5. ToSet(more) = {more[k] : k \in 1..Len(more)}
  BY <1>1 DEF ToSet
<1> HIDE DEF waiting
<1>6. \A i \in 1..Len(waiting) :
          \/ i \in 1..Len(queue) /\ waiting[i] = queue[i]
          \/ /\ i > Len(queue) /\ i - Len(queue) \in 1..Len(more)
             /\ waiting[i] = more[i - Len(queue)]
  BY <1>3, <1>4
<1>7. NoRepeats(waiting)
  <2> SUFFICES ASSUME NEW i \in 1..Len(waiting), NEW j \in 1..Len(waiting),
                      waiting[i] = waiting[j]
               PROVE  i = j
    BY DEF NoRepeats
  <2>1. CASE i \in 1..Len(queue) /\ j \in 1..Len(queue)
    BY <1>3, <1>6, <2>1 DEF NoRepeats
  <2>2. CASE i \notin 1..Len(queue) /\ j \notin 1..Len(queue)
    <3>1. i - Len(queue) = j - Len(queue)
      BY <1>1, <1>6, <2>2 DEF NoRepeats
    <3>2. QED
      BY <1>3, <1>4, <3>1
  <2>3. \A k, l \in 1..Len(waiting) :
            k \in 1..Len(queue) /\ l \notin 1..Len(queue) => waiting[k] # waiting[l]
    <3>1. \A k \in 1..Len(waiting) : k \in 1..Len(queue) => waiting[k] \in requested
      BY <1>3, <1>4, <1>6
    <3>2. \A l \in 1..Len(waiting) : l \notin 1..Len(queue) => waiting[l] \notin requested
      BY <1>1, <1>6
    <3>3. QED
      BY <3>1, <3>2
  <2>4. QED
    BY <2>1, <2>2, <2>3
<1>8. \A i \in 1..Len(waiting) : waiting[i] \notin fetching /\ waiting[i] \in requested'
  BY <1>1, <1>2, <1>3, <1>5, <1>6 DEF QueueInv
<1>9. Queued(waiting, active, fetching)
  BY <1>4, <1>7, <1>8 DEF QueueInv, Queued
<1>10. /\ Queued(queue, active, fetching)'
       /\ queue' # <<>> => active' = MaxConcurrent
       /\ \A i \in 1..Len(queue') : \E j \in 1..Len(waiting) : queue'[i] = waiting[j]
       /\ fetching' \subseteq fetching \cup {waiting[i] : i \in 1..Len(waiting)}
  BY <1>2, <1>9, StartFetchesFills
<1>11. QED
  BY <1>2, <1>8, <1>10 DEF QueueInv

\* A fetch ends, however it ends: its place goes to the next.
LEMMA FetchedKeepsQueue ==
    ASSUME QueueInv, NEW v \in fetching, Fetched(v)
    PROVE  QueueInv'
<1>1. StartFetches(queue, active - 1, fetching \ {v}) /\ requested' = requested
  BY DEF Fetched
<1>2. IsFiniteSet(fetching \ {v}) /\ Cardinality(fetching \ {v}) = active - 1
  BY FS_RemoveElement DEF QueueInv, Queued
<1>3. active \in Nat /\ active - 1 <= MaxConcurrent
  BY LimitsAssumption, FS_CardinalityType DEF QueueInv, Queued
<1>4. Queued(queue, active - 1, fetching \ {v})
  BY <1>2, <1>3 DEF QueueInv, Queued
<1>5. /\ Queued(queue, active, fetching)'
      /\ queue' # <<>> => active' = MaxConcurrent
      /\ \A i \in 1..Len(queue') : \E j \in 1..Len(queue) : queue'[i] = queue[j]
      /\ fetching' \subseteq (fetching \ {v}) \cup {queue[i] : i \in 1..Len(queue)}
  BY <1>1, <1>4, StartFetchesFills
<1>6. QED
  BY <1>1, <1>5 DEF QueueInv

\* What leaves the requests for descriptions alone.
LEMMA ElsewhereKeepsQueue ==
    ASSUME QueueInv, UNCHANGED prefetch
    PROVE  QueueInv'
BY DEF QueueInv, Queued, prefetch

\* The panel before its first search.
LEMMA InitFetchInv == Init => FetchInv
<1> SUFFICES ASSUME Init PROVE FetchInv
  OBVIOUS
<1>1. Queued(<<>>, 0, {})
  BY FS_EmptySet, EmptySeq, LimitsAssumption DEF Queued, NoRepeats
<1>2. QED
  BY <1>1, EmptySeq DEF Init, FetchInv, PanelTypeOK, QueueInv

\* The list gets the rows of an answer.
LEMMA ShowRowsKeepsQueue ==
    ASSUME QueueInv, NEW rows \in Seq(Versions), ShowRows(rows)
    PROVE  QueueInv' /\ results' \in Seq(Versions)
BY PrefetchKeepsQueue, ElsewhereKeepsQueue DEF ShowRows

\* An answer to a search, in time or late.
LEMMA AnswerKeepsFetchInv ==
    ASSUME FetchInv, NEW s \in searches, SearchAnswered(s)
    PROVE  FetchInv'
<1>1. Found[<<s.query, s.filter>>] \in Seq(Versions) /\ <<>> \in Seq(Versions)
  BY FoundAssumption, EmptySeq DEF FetchInv, PanelTypeOK
<1>2. \/ UNCHANGED <<results, prefetch>>
      \/ \E rows \in Seq(Versions) : ShowRows(rows)
  BY <1>1 DEF SearchAnswered
<1>3. QueueInv' /\ results' \in Seq(Versions)
  BY <1>2, ShowRowsKeepsQueue, ElsewhereKeepsQueue DEF FetchInv, PanelTypeOK
<1>4. UNCHANGED <<query, filter>> /\ searches' \subseteq searches
  BY DEF SearchAnswered
<1>5. QED
  BY <1>3, <1>4 DEF FetchInv, PanelTypeOK

\* Every step of the panel and of its store.
LEMMA NextFetchInv == FetchInv /\ [Next]_vars => FetchInv'
<1> SUFFICES ASSUME FetchInv, [Next]_vars PROVE FetchInv'
  OBVIOUS
<1> USE DEF FetchInv
<1>1. ASSUME NEW q \in Queries, NEW f \in Filters, RunSearch(q, f),
             query' \in Queries, filter' \in Filters
      PROVE  FetchInv'
  <2>1. /\ searches' = searches \cup {[seq |-> searchSeq', query |-> q, filter |-> f]}
        /\ results' = results /\ UNCHANGED prefetch
    BY <1>1 DEF RunSearch
  <2>2. PanelTypeOK'
    BY <1>1, <2>1 DEF PanelTypeOK
  <2>3. QED
    BY <2>1, <2>2, ElsewhereKeepsQueue
<1>2. CASE Debounced \/ Refresh \/ \E f \in Filters : SetFilter(f)
  BY <1>1, <1>2 DEF Debounced, Refresh, SetFilter, PanelTypeOK
<1>3. CASE \/ \E q \in Queries : Type(q)
           \/ \E v \in Versions : Pick(v) \/ Reselect(v)
           \/ \E s \in selecting : SelectAnswered(s)
           \/ UNCHANGED vars
  <2>1. UNCHANGED <<searches, filter, results, prefetch>> /\ query' \in Queries
    BY <1>3 DEF Type, Pick, Reselect, SelectAnswered, vars, search, PanelTypeOK
  <2>2. QED
    BY <2>1, ElsewhereKeepsQueue DEF PanelTypeOK
<1>4. CASE Close
  BY <1>4, PrefetchKeepsQueue DEF Close, search, PanelTypeOK
<1>5. ASSUME NEW v \in fetching, Fetched(v) PROVE FetchInv'
  BY <1>5, FetchedKeepsQueue DEF Fetched, search, PanelTypeOK
<1>6. QED
  BY <1>2, <1>3, <1>4, <1>5, AnswerKeepsFetchInv DEF Next

\* At most MAX_CONCURRENT_DESCRIPTION_FETCHES descriptions are fetched at a
\* time, and a row waits only while that many are, for any list the registry
\* answers with and however often the list changes: a fetch that fails gives
\* its place back (orbStore.ts:250-276, 538-556).
THEOREM QueueKeepsMoving == Spec => []QueueNeverStalls
<1>1. FetchInv => QueueNeverStalls
  BY DEF FetchInv, QueueInv, Queued, QueueNeverStalls
<1>2. QED
  BY <1>1, InitFetchInv, NextFetchInv, PTL DEF Spec

=============================================================================
