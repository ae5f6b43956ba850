---------------------------- MODULE PolicyCheck ----------------------------
(***************************************************************************)
(* The background config-policy check (web/src/state/policyStore.ts) and   *)
(* what drives it in the editing session (web/src/state/appStore.ts): the  *)
(* debounce of revalidate() and the switches from one file to another.     *)
(*                                                                         *)
(* EditorSession has the whole session without this store; here the        *)
(* session is only the text on screen.  setText, mutate, undo and redo are *)
(* one action, since each ends in revalidate() on another text of the open *)
(* file, and a fetch may find any text on disk.  Left out: the host's side *)
(* of the check, the reasons the badge words, and saves, except that one   *)
(* may fail and so put Retry on screen.                                    *)
(***************************************************************************)
EXTENDS Naturals

CONSTANTS
    Files,        \* files the switcher lists
    Primary,      \* the file load() opens
    NotConfig,    \* files the host says are not a CircleCI config
    Texts,        \* contents of a file
    TextOf,       \* the file each text is a content of
    Parses,       \* texts that are well-formed YAML
    Ruling,       \* CircleCI's decision on each text
    None,
    MaxChecks     \* bound: checks one session starts

ASSUME FilesAssumption == Primary \in Files \ NotConfig

ASSUME TextsAssumption ==
    /\ TextOf \in [Texts -> Files]
    /\ Parses \subseteq Texts
    /\ None \notin Texts
    /\ \A t \in Texts : Ruling[t] # None

ASSUME ChecksAssumption == MaxChecks \in Nat

VARIABLES
    configPath,     \* the open file
    text,           \* contents of the files with a document or a snapshot
    status,         \* the session's status
    fetch,          \* the file being fetched
    validateTimer,  \* TRUE while the debounce of revalidate is armed
    checkSeq,       \* the number of the latest check
    policy,         \* the store: state, decision, checkedText, pendingText
    requests        \* POST /api/policy/decide in flight

session == <<configPath, text, status, fetch>>
vars == <<session, validateTimer, checkSeq, policy, requests>>

TextsOf(f) == {t \in Texts : TextOf[t] = f}
OnScreen == text[configPath]
Cached(f) == f # configPath /\ text[f] # None
Only(f, t) == [g \in Files |-> IF g = f THEN t ELSE None]

Reset(state) ==
    [state |-> state, decision |-> None, checkedText |-> None, pendingText |-> None]

Init ==
    /\ configPath = Primary
    /\ text \in {Only(Primary, t) : t \in TextsOf(Primary)}
    /\ status = "ready" /\ fetch = None
    /\ validateTimer = (OnScreen \in Parses)
    /\ checkSeq = 0
    /\ policy = Reset("idle")
    /\ requests = {}

-----------------------------------------------------------------------------
(* The store.                                                              *)

\* Bug: nothing is asked while any check is out.
SkipsWhileAsking(t) ==
    t = policy.checkedText \/ policy.pendingText # None

\* evaluateInBackground's two early returns.
Skips(t) == t = policy.checkedText \/ t = policy.pendingText

\* check(), up to its await.
Check(t) ==
    /\ checkSeq < MaxChecks
    /\ checkSeq' = checkSeq + 1
    /\ policy' = [policy EXCEPT !.state = "checking", !.pendingText = t]
    /\ requests' = requests \cup {[seq |-> checkSeq', text |-> t]}

Decided(r) ==
    [state |-> "decided", decision |-> Ruling[r.text],
     checkedText |-> r.text, pendingText |-> None]

\* Bug: an answer lands whatever has been asked since.
AnswerAny(r) ==
    /\ requests' = requests \ {r}
    /\ policy' \in {Decided(r), Reset("unavailable"), Reset("error")}
    /\ UNCHANGED <<session, validateTimer, checkSeq>>

\* What follows check()'s await: a decision, a host that could not check, or
\* a failed request.  A superseded answer is dropped.
Answer(r) ==
    /\ requests' = requests \ {r}
    /\ IF r.seq = checkSeq
       THEN policy' \in {Decided(r), Reset("unavailable"), Reset("error")}
       ELSE policy' = policy
    /\ UNCHANGED <<session, validateTimer, checkSeq>>

\* reset(): the number moves on, so nothing in flight can land.
Forget ==
    /\ checkSeq' = checkSeq + 1
    /\ policy' = Reset("idle")
    /\ UNCHANGED requests

-----------------------------------------------------------------------------
(* The session.                                                            *)

\* revalidate() on text t of file f: the debounce starts over, or is cleared.
Revalidate(f, t) == validateTimer' = (f \notin NotConfig /\ t \in Parses)

\* The debounce fires.  It was armed on the text on screen, or load() has put
\* the session in loading since and the text is still there.
Fire ==
    /\ validateTimer
    /\ validateTimer' = FALSE
    /\ IF OnScreen \notin Parses \/ Skips(OnScreen)
       THEN UNCHANGED <<checkSeq, policy, requests>>
       ELSE Check(OnScreen)
    /\ UNCHANGED session

\* setText, mutate, undo, redo; the panes are gone while loading or in error.
Edit(t) ==
    /\ status = "ready"
    /\ t \in TextsOf(configPath) \ {OnScreen}
    /\ text' = [text EXCEPT ![configPath] = t]
    /\ Revalidate(configPath, t)
    /\ UNCHANGED <<configPath, status, fetch, checkSeq, policy, requests>>

\* switchFile, which restores a snapshot without revalidating it ...
SwitchBack(f) ==
    /\ status # "loading" /\ Cached(f)
    /\ checkSeq < MaxChecks
    /\ Forget
    /\ validateTimer' = FALSE
    /\ configPath' = f
    /\ status' = "ready"
    /\ UNCHANGED <<text, fetch>>

\* ... and fetches a file it has no snapshot of.
SwitchTo(f) ==
    /\ status # "loading" /\ f # configPath /\ ~Cached(f)
    /\ checkSeq < MaxChecks
    /\ Forget
    /\ validateTimer' = FALSE
    /\ status' = "loading" /\ fetch' = f
    /\ UNCHANGED <<configPath, text>>

\* A save fails: App replaces the panes by an error with a Retry.
SaveFails ==
    /\ status = "ready"
    /\ status' = "error"
    /\ UNCHANGED <<configPath, text, fetch, validateTimer,
                   checkSeq, policy, requests>>

\* Retry is load(), which leaves this store and the debounce alone ...
Retry ==
    /\ status = "error"
    /\ status' = "loading" /\ fetch' = Primary
    /\ UNCHANGED <<configPath, text, validateTimer,
                   checkSeq, policy, requests>>

\* ... and starts a session without snapshots when it is answered.  switchFile
\* never fetches the primary file: it is open or has a snapshot.
Fetched(t) ==
    /\ fetch # None /\ t \in TextsOf(fetch)
    /\ configPath' = fetch
    /\ text' = IF fetch = Primary THEN Only(fetch, t) ELSE [text EXCEPT ![fetch] = t]
    /\ status' = "ready" /\ fetch' = None
    /\ Revalidate(fetch, t)
    /\ UNCHANGED <<checkSeq, policy, requests>>

FetchFails ==
    /\ fetch # None
    /\ status' = "error" /\ fetch' = None
    /\ UNCHANGED <<configPath, text, validateTimer,
                   checkSeq, policy, requests>>

Next ==
    \/ Fire
    \/ \E r \in requests : Answer(r)
    \/ \E t \in Texts : Edit(t) \/ Fetched(t)
    \/ \E f \in Files : SwitchBack(f) \/ SwitchTo(f)
    \/ SaveFails \/ Retry \/ FetchFails

Spec == Init /\ [][Next]_vars

-----------------------------------------------------------------------------

\* First part.  A decision is CircleCI's on the text it is filed under, however
\* checks, edits and switches overlap: this is what lets the badge, the
\* diagnostics and the AI context tell a stale verdict by comparing texts
\* (policyStore.ts:137-142, 291-305).
DecisionIsOfItsText ==
    policy.decision # None => policy.decision = Ruling[policy.checkedText]

\* Second part.  The badge says checking exactly while the check it is about can
\* still be answered, and pendingText, which keeps the same question from being
\* asked twice, is what that check asked (policyStore.ts:143-151, 184-249).
LatestIsAwaited ==
    LET latest == {r \in requests : r.seq = checkSeq}
    IN  /\ policy.state = "checking" <=> latest # {}
        /\ policy.pendingText # None <=> latest # {}
        /\ \A r \in latest : policy.pendingText = r.text

\* What the store says it knows, and what it says it awaits: both parts.
StoreIsTruthful == DecisionIsOfItsText /\ LatestIsAwaited

\* "Policy check out of date", with nothing under way to replace it.
LeftStale ==
    /\ configPath \notin NotConfig /\ OnScreen \in Parses
    /\ policy.decision # None /\ policy.checkedText # OnScreen
    /\ policy.state # "checking" /\ ~validateTimer

\* PolicyBadge.tsx:132-135 promises a fresh check a moment after the typing
\* stops.  There is one way to be left without: return, while another text is
\* being checked, to the text of the standing decision, which is not asked
\* about again and is replaced when the other's answer lands.
LeftStaleOnlyByReturning ==
    [][~LeftStale /\ LeftStale' =>
        /\ OnScreen = policy.checkedText
        /\ policy.state = "checking" /\ policy.pendingText # OnScreen]_vars

=============================================================================
