------------------------- MODULE PolicyCheckProofs -------------------------
(***************************************************************************)
(* Proofs about PolicyCheck, for any files, any texts, any rulings and any *)
(* number of checks: the store says what is so, and a stale decision is    *)
(* left standing in one way only.                                          *)
(***************************************************************************)
EXTENDS PolicyCheck, TLAPS

-----------------------------------------------------------------------------
(* The inductive invariants.                                               *)

States == {"idle", "checking", "decided", "unavailable", "error"}

Types ==
    /\ configPath \in Files
    /\ text \in [Files -> Texts \cup {None}]
    /\ fetch \in Files \cup {None}
    /\ checkSeq \in Nat
    /\ policy \in [state : States,
                   decision : {None} \cup {Ruling[t] : t \in Texts},
                   checkedText : Texts \cup {None},
                   pendingText : Texts \cup {None}]
    /\ requests \subseteq [seq : Nat, text : Texts]

\* The number of a check is its own, and no later than the latest.
RequestsAreNumbered ==
    \A r \in requests :
        /\ r.seq <= checkSeq
        /\ \A s \in requests : s.seq = r.seq => s = r

StoreInv == Types /\ RequestsAreNumbered /\ StoreIsTruthful

\* The text on screen can be checked, and the debounce has run out on it.
Settled ==
    /\ configPath \notin NotConfig /\ OnScreen \in Parses
    /\ ~validateTimer

\* A check that is out is about the text on screen, unless that text is the
\* one the standing decision is on.
CheckIsOfTheScreen ==
    Settled /\ policy.state = "checking"
        => OnScreen \in {policy.checkedText, policy.pendingText}

-----------------------------------------------------------------------------
(* The steps of the store.                                                 *)

\* A new check is the one that is awaited.
LEMMA CheckKeepsStore ==
    ASSUME StoreInv, NEW t \in Texts, Check(t),
           UNCHANGED session
    PROVE  StoreInv'
<1> DEFINE q == [seq |-> checkSeq + 1, text |-> t]
<1> USE DEF StoreInv, Check, session
<1>1. Types'
  <2>1. q \in [seq : Nat, text : Texts] /\ checkSeq' \in Nat
    BY DEF Types
  <2>2. requests' \subseteq [seq : Nat, text : Texts]
    BY <2>1 DEF Types
  <2>3. policy' \in [state : States,
                    decision : {None} \cup {Ruling[u] : u \in Texts},
                    checkedText : Texts \cup {None},
                    pendingText : Texts \cup {None}]
    BY DEF Types, States
  <2>4. QED
    BY <2>1, <2>2, <2>3 DEF Types
<1>2. RequestsAreNumbered'
  <2>1. \A r \in requests : r \in [seq : Nat, text : Texts] /\ r.seq < checkSeq + 1
    BY DEF Types, RequestsAreNumbered
  <2>2. requests' = requests \cup {q} /\ q.seq = checkSeq' /\ checkSeq' = checkSeq + 1
    OBVIOUS
  <2>3. checkSeq \in Nat
    BY DEF Types
  <2>4. \A r \in requests : r.seq # q.seq
    BY <2>1, <2>2, <2>3
  <2>5. \A r \in requests' : r.seq <= checkSeq'
    BY <2>1, <2>2, <2>3
  <2>6. \A r, s \in requests' : s.seq = r.seq => s = r
    BY <2>2, <2>4 DEF RequestsAreNumbered
  <2>7. QED
    BY <2>5, <2>6 DEF RequestsAreNumbered
<1>3. {r \in requests' : r.seq = checkSeq'} = {q}
  <2>1. \A r \in requests : r \in [seq : Nat, text : Texts] /\ r.seq < checkSeq + 1
    BY DEF Types, RequestsAreNumbered
  <2>2. requests' = requests \cup {q} /\ q.seq = checkSeq' /\ checkSeq' = checkSeq + 1
    OBVIOUS
  <2>3. checkSeq \in Nat
    BY DEF Types
  <2>4. \A r \in requests : r.seq # q.seq
    BY <2>1, <2>2, <2>3
  <2>5. QED
    BY <2>2, <2>4
<1>4. /\ policy'.state = "checking" /\ policy'.pendingText = t
      /\ policy'.decision = policy.decision
      /\ policy'.checkedText = policy.checkedText
  BY DEF Types
<1>5. LatestIsAwaited'
  <2>1. t # None /\ q.text = t
    BY TextsAssumption
  <2>2. {r \in requests' : r.seq = checkSeq'} # {}
    BY <1>3
  <2>3. \A r \in {r \in requests' : r.seq = checkSeq'} : policy'.pendingText = r.text
    BY <1>3, <1>4, <2>1
  <2>4. QED
    BY <1>4, <2>1, <2>2, <2>3 DEF LatestIsAwaited
<1>6. DecisionIsOfItsText'
  BY <1>4 DEF StoreIsTruthful, DecisionIsOfItsText
<1>7. QED
  BY <1>1, <1>2, <1>5, <1>6 DEF StoreIsTruthful

\* An answer that was awaited leaves nothing to await, and another one
\* changes nothing.
LEMMA AnswerKeepsStore ==
    ASSUME StoreInv, NEW r \in requests, Answer(r)
    PROVE  StoreInv'
<1> USE DEF StoreInv, Answer, session
<1>1. RequestsAreNumbered'
  BY DEF RequestsAreNumbered
<1>2. CASE r.seq = checkSeq
  <2>1. {s \in requests' : s.seq = checkSeq'} = {}
    BY <1>2 DEF RequestsAreNumbered
  <2>2. r.text \in Texts
    BY DEF Types
  <2>3. policy' \in {Decided(r), Reset("unavailable"), Reset("error")}
    BY <1>2
  <2>4. Types'
    BY <2>2, <2>3 DEF Types, States, Decided, Reset
  <2>5. DecisionIsOfItsText'
    BY <2>3 DEF DecisionIsOfItsText, Decided, Reset
  <2>6. policy'.state # "checking" /\ policy'.pendingText = None
    BY <2>3 DEF Decided, Reset
  <2>7. LatestIsAwaited'
    BY <2>1, <2>6 DEF LatestIsAwaited
  <2>8. QED
    BY <1>1, <2>4, <2>5, <2>7 DEF StoreIsTruthful
<1>3. CASE r.seq # checkSeq
  <2>1. {s \in requests' : s.seq = checkSeq'} = {s \in requests : s.seq = checkSeq}
    BY <1>3
  <2>2. policy' = policy
    BY <1>3
  <2>3. LatestIsAwaited'
    BY <2>1, <2>2 DEF StoreIsTruthful, LatestIsAwaited
  <2>4. QED
    BY <1>1, <2>2, <2>3 DEF Types, StoreIsTruthful, DecisionIsOfItsText
<1>4. QED
  BY <1>2, <1>3

\* Once the store is reset, nothing in flight is awaited.
LEMMA ForgetKeepsStore ==
    ASSUME StoreInv, Forget,
           configPath' \in Files, text' = text, fetch' \in Files \cup {None}
    PROVE  StoreInv'
<1> USE DEF StoreInv, Forget
<1>1. Types'
  BY DEF Types, States, Reset
<1>2. \A r \in requests : r \in [seq : Nat, text : Texts] /\ r.seq < checkSeq + 1
  BY DEF Types, RequestsAreNumbered
<1>3. RequestsAreNumbered'
  BY <1>2 DEF RequestsAreNumbered, Types
<1>4. {r \in requests' : r.seq = checkSeq'} = {}
  BY <1>2 DEF Types
<1>5. policy'.state = "idle" /\ policy'.pendingText = None /\ policy'.decision = None
  BY DEF Reset
<1>6. StoreIsTruthful'
  BY <1>4, <1>5 DEF StoreIsTruthful, DecisionIsOfItsText, LatestIsAwaited
<1>7. QED
  BY <1>1, <1>3, <1>6

\* What the session does without the store leaves the store as it is.
LEMMA SessionKeepsStore ==
    ASSUME StoreInv, UNCHANGED <<checkSeq, policy, requests>>,
           configPath' \in Files, text' \in [Files -> Texts \cup {None}],
           fetch' \in Files \cup {None}
    PROVE  StoreInv'
<1>1. Types' /\ RequestsAreNumbered'
  BY DEF StoreInv, Types, RequestsAreNumbered
<1>2. DecisionIsOfItsText' /\ LatestIsAwaited'
  BY DEF StoreInv, StoreIsTruthful, DecisionIsOfItsText, LatestIsAwaited
<1>3. QED
  BY <1>1, <1>2 DEF StoreInv, StoreIsTruthful

-----------------------------------------------------------------------------
(* The store is truthful.                                                  *)

\* A session as load() leaves it, with no check asked for yet.
LEMMA InitStoreInv == Init => StoreInv
<1> SUFFICES ASSUME Init PROVE StoreInv
  OBVIOUS
<1>1. Primary \in Files
  BY FilesAssumption
<1>2. text \in [Files -> Texts \cup {None}]
  BY <1>1 DEF Init, Only, TextsOf
<1>3. Types
  BY <1>1, <1>2 DEF Init, Types, Reset, States
<1>4. RequestsAreNumbered /\ StoreIsTruthful
  BY DEF Init, RequestsAreNumbered, StoreIsTruthful, DecisionIsOfItsText,
         LatestIsAwaited, Reset
<1>5. QED
  BY <1>3, <1>4 DEF StoreInv

\* The debounce asks about the text on screen, or about nothing.
LEMMA FireKeepsStore ==
    ASSUME StoreInv, Fire
    PROVE  StoreInv'
<1>1. UNCHANGED session
  BY DEF Fire
<1>2. CASE OnScreen \notin Parses \/ Skips(OnScreen)
  BY <1>1, <1>2, SessionKeepsStore DEF Fire, session, StoreInv, Types
<1>3. CASE ~(OnScreen \notin Parses \/ Skips(OnScreen))
  <2>1. OnScreen \in Texts /\ Check(OnScreen)
    BY <1>3, TextsAssumption DEF Fire
  <2>2. QED
    BY <1>1, <2>1, CheckKeepsStore
<1>4. QED
  BY <1>2, <1>3

\* Every step of the session and of the store.
LEMMA NextStoreInv == StoreInv /\ [Next]_vars => StoreInv'
<1> SUFFICES ASSUME StoreInv, [Next]_vars PROVE StoreInv'
  OBVIOUS
<1>1. /\ configPath \in Files /\ fetch \in Files \cup {None}
      /\ text \in [Files -> Texts \cup {None}]
  BY DEF StoreInv, Types
<1>2. CASE Fire
  BY <1>2, FireKeepsStore
<1>3. ASSUME NEW r \in requests, Answer(r) PROVE StoreInv'
  BY <1>3, AnswerKeepsStore
<1>4. ASSUME NEW t \in Texts, Edit(t) PROVE StoreInv'
  BY <1>1, <1>4, SessionKeepsStore DEF Edit
<1>5. ASSUME NEW t \in Texts, Fetched(t) PROVE StoreInv'
  <2>1. Only(fetch, t) \in [Files -> Texts \cup {None}]
    BY DEF Only
  <2>2. /\ text' \in [Files -> Texts \cup {None}]
        /\ configPath' \in Files /\ fetch' \in Files \cup {None}
    BY <1>1, <1>5, <2>1 DEF Fetched
  <2>3. QED
    BY <1>5, <2>2, SessionKeepsStore DEF Fetched
<1>6. ASSUME NEW f \in Files, SwitchBack(f) \/ SwitchTo(f) PROVE StoreInv'
  BY <1>1, <1>6, ForgetKeepsStore DEF SwitchBack, SwitchTo
<1>7. CASE SaveFails \/ Retry \/ FetchFails
  BY <1>1, <1>7, FilesAssumption, SessionKeepsStore DEF SaveFails, Retry, FetchFails
<1>8. CASE UNCHANGED vars
  BY <1>1, <1>8, SessionKeepsStore DEF vars, session
<1>9. QED
  BY <1>2, <1>3, <1>4, <1>5, <1>6, <1>7, <1>8 DEF Next

\* A decision is CircleCI's on the text it is filed under, and the badge says
\* checking exactly while that check can be answered (policyStore.ts).
THEOREM TruthfulStore == Spec => []StoreIsTruthful
<1>1. StoreInv => StoreIsTruthful
  BY DEF StoreInv
<1>2. QED
  BY InitStoreInv, NextStoreInv, <1>1, PTL DEF Spec

-----------------------------------------------------------------------------
(* Which decisions are left stale.                                         *)

\* Edits and fetches arm the debounce again wherever there is something to
\* check, so no session is settled by one.
LEMMA RevalidateUnsettles ==
    ASSUME Types, NEW t \in Texts, Edit(t) \/ Fetched(t)
    PROVE  ~Settled'
<1>1. CASE Edit(t)
  <2>1. OnScreen' = t /\ configPath' = configPath
    BY <1>1 DEF Edit, OnScreen, Types
  <2>2. QED
    BY <1>1, <2>1 DEF Edit, Revalidate, Settled
<1>2. CASE Fetched(t)
  <2>1. fetch \in Files
    BY <1>2 DEF Fetched, Types
  <2>2. text'[fetch] = t
    BY <1>2, <2>1 DEF Fetched, Only, Types
  <2>3. OnScreen' = t /\ configPath' = fetch
    BY <1>2, <2>2 DEF Fetched, OnScreen
  <2>4. QED
    BY <1>2, <2>3 DEF Fetched, Revalidate, Settled
<1>3. QED
  BY <1>1, <1>2

\* When the debounce asks nothing about a text that parses, the text is the
\* one decided on or the one being checked.
LEMMA FireSettles ==
    ASSUME StoreInv, Fire, Settled'
    PROVE  /\ policy'.state = "checking" \/ OnScreen' = policy'.checkedText
           /\ OnScreen' \in {policy'.checkedText, policy'.pendingText}
<1>1. OnScreen' = OnScreen /\ OnScreen \in Parses /\ OnScreen \in Texts
  BY TextsAssumption DEF Fire, session, Settled, OnScreen
<1>2. CASE Skips(OnScreen)
  <2>1. policy' = policy /\ OnScreen \in {policy.checkedText, policy.pendingText}
    BY <1>2 DEF Fire, Skips
  <2>2. policy.pendingText # None => policy.state = "checking"
    BY DEF StoreInv, StoreIsTruthful, LatestIsAwaited
  <2>3. QED
    BY <1>1, <2>1, <2>2, TextsAssumption
<1>3. CASE ~Skips(OnScreen)
  BY <1>1, <1>3 DEF Fire, Check, StoreInv, Types
<1>4. QED
  BY <1>2, <1>3

\* Nothing else settles a session.
LEMMA OthersDoNotSettle ==
    ASSUME SaveFails \/ Retry \/ FetchFails \/ UNCHANGED vars
    PROVE  UNCHANGED <<policy, configPath, text, validateTimer>>
BY DEF SaveFails, Retry, FetchFails, vars, session

\* A check that is out is about the text on screen, or that text is decided on.
LEMMA NextCheckIsOfTheScreen ==
    StoreInv /\ CheckIsOfTheScreen /\ [Next]_vars => CheckIsOfTheScreen'
<1> SUFFICES ASSUME StoreInv, CheckIsOfTheScreen, [Next]_vars
             PROVE  CheckIsOfTheScreen'
  OBVIOUS
<1>1. CASE Fire
  BY <1>1, FireSettles DEF CheckIsOfTheScreen
<1>2. ASSUME NEW r \in requests, Answer(r) PROVE CheckIsOfTheScreen'
  <2>1. policy'.state = "checking" => policy' = policy
    BY <1>2 DEF Answer, Decided, Reset
  <2>2. QED
    BY <1>2, <2>1 DEF Answer, CheckIsOfTheScreen, Settled, OnScreen, session
<1>3. ASSUME NEW t \in Texts, Edit(t) \/ Fetched(t) PROVE CheckIsOfTheScreen'
  BY <1>3, RevalidateUnsettles DEF StoreInv, CheckIsOfTheScreen
<1>4. ASSUME NEW f \in Files, SwitchBack(f) \/ SwitchTo(f) PROVE CheckIsOfTheScreen'
  BY <1>4 DEF SwitchBack, SwitchTo, Forget, Reset, CheckIsOfTheScreen
<1>5. CASE SaveFails \/ Retry \/ FetchFails \/ UNCHANGED vars
  BY <1>5, OthersDoNotSettle DEF CheckIsOfTheScreen, Settled, OnScreen
<1>6. QED
  BY <1>1, <1>2, <1>3, <1>4, <1>5 DEF Next

\* A step that leaves a stale decision standing is the answer of a check on a
\* text that has been left for the one decided on.
LEMMA StaleStep ==
    ASSUME StoreInv, CheckIsOfTheScreen, [Next]_vars, ~LeftStale, LeftStale'
    PROVE  /\ OnScreen = policy.checkedText
           /\ policy.state = "checking" /\ policy.pendingText # OnScreen
<1>1. Settled' /\ policy'.decision # None /\ policy'.state # "checking"
      /\ policy'.checkedText # OnScreen'
  BY DEF LeftStale, Settled
<1>2. CASE Fire
  BY <1>1, <1>2, FireSettles
<1>3. ASSUME NEW r \in requests, Answer(r)
      PROVE  /\ OnScreen = policy.checkedText
             /\ policy.state = "checking" /\ policy.pendingText # OnScreen
  <2>1. UNCHANGED <<configPath, text, validateTimer>>
    BY <1>3 DEF Answer, session
  <2>2. r.seq = checkSeq
    BY <1>3, <2>1 DEF Answer, LeftStale, OnScreen
  <2>3. policy' = Decided(r)
    BY <1>1, <1>3, <2>2 DEF Answer, Reset
  <2>4. policy.state = "checking" /\ policy.pendingText = r.text
    BY <2>2 DEF StoreInv, StoreIsTruthful, LatestIsAwaited
  <2>5. Settled /\ OnScreen # r.text
    BY <1>1, <2>1, <2>3 DEF Settled, OnScreen, Decided
  <2>6. QED
    BY <2>4, <2>5 DEF CheckIsOfTheScreen
<1>4. ASSUME NEW t \in Texts, Edit(t) \/ Fetched(t) PROVE FALSE
  BY <1>1, <1>4, RevalidateUnsettles DEF StoreInv
<1>5. ASSUME NEW f \in Files, SwitchBack(f) \/ SwitchTo(f) PROVE FALSE
  BY <1>1, <1>5 DEF SwitchBack, SwitchTo, Forget, Reset
<1>6. CASE SaveFails \/ Retry \/ FetchFails \/ UNCHANGED vars
  BY <1>6, OthersDoNotSettle DEF LeftStale, OnScreen
<1>7. QED
  BY <1>2, <1>3, <1>4, <1>5, <1>6 DEF Next

\* The promise of PolicyBadge.tsx, a fresh check a moment after the typing
\* stops, is broken in one way only: by returning to the text decided on while
\* another is being checked.
THEOREM StaleOnlyByReturning == Spec => LeftStaleOnlyByReturning
<1>1. Init => CheckIsOfTheScreen
  BY DEF Init, Reset, CheckIsOfTheScreen
<1>2. StoreInv /\ CheckIsOfTheScreen /\ [Next]_vars
        => [~LeftStale /\ LeftStale' =>
              /\ OnScreen = policy.checkedText
              /\ policy.state = "checking" /\ policy.pendingText # OnScreen]_vars
  BY StaleStep
<1>3. QED
  BY InitStoreInv, NextStoreInv, NextCheckIsOfTheScreen, <1>1, <1>2, PTL
  DEF Spec, LeftStaleOnlyByReturning

=============================================================================
