# Verification of CircleCI Editor

CircleCI Editor is a Go host process that serves one single-page app to a browser and gives it
access to a repository's `.circleci` directory, to CircleCI's API, to the orb registry and to an
AI model. This directory holds TLA+ models of the parts of it that are hard to test, TLC
configurations that check them on small instances, and TLAPS proofs of their main properties for
every size. Paths below are relative to the repository.

## 1. Inventory

### How the parts interact

The browser side is one JavaScript thread. Its state is in zustand stores (`web/src/state`); a
store operation is atomic up to its first `await`, and what follows the `await` runs later, as a
step of its own, on whatever the store holds by then. The stores call the host by HTTP; requests
can be answered in any order, late, or not at all. Debounce timers fire between any two events.

The host side (`internal/host`) runs a goroutine per request plus background goroutines: the
waiter for the last client, the orb, usage and guides warmers, an OAuth callback waiter. They
share state under mutexes and signal each other by channels and contexts.

The two sides meet at the config endpoints (the only writes to the user's files), at the
heartbeat stream (each learns from it that the other is there), and at the proxied APIs.

### Components

| Component | State | Operations | What is hard | What makes it correct |
|---|---|---|---|---|
| Editing session, `web/src/state/appStore.ts` | open document, snapshots of other files, undo and redo stacks, status, badge, three timers, a validation number | setText, mutate, undo, redo, save, toggleAutosave, load, loadFiles, switchFile, revalidate | answers that arrive after an edit or a switch; timers against user actions; history at its limit | texts stay on their file; history is a timeline; dirty means different; unsaved work gets saved or stays visible; the badge is about the text shown |
| Config endpoints, `internal/host/api.go`, `configfile.go` | files on disk | GET, PUT, list | lost answers, failed writes, the default path | a write goes to the file it was made for, whole or not at all |
| Client tracking, `internal/host/clients.go`, `heartbeat.go` | attached pages, holds, idle since, a wake-up channel | join/leave, hold/release, waitForLastClient | state changed under a lock and signalled after it; a page reloading as the grace period ends | the host leaves when everybody is gone, and not before |
| Run and shutdown, `internal/host/server.go` | serving context, reason for stopping | Run, gracefulShutdown | streams that never end by themselves; a shutdown timeout | it stops, and cleanly unless a request outlasts the timeout |
| Orb cache, `internal/orbs/cache.go` | packages, status, cache file, WarmDone | Start, Refresh, two crawls, save, publish | background crawls that overlap, fail, run out of time; death during a save | the file is always whole; a complete listing is on disk; an old listing is served; Warming says what happens |
| OAuth sign-in, `internal/host/mcpoauth.go` | the one flow in progress, its listener, context and hold | start, delete; the goroutine that waits, exchanges, stores and settles | a cancelled flow racing its successor; two pages starting at once | no hold and no listener outlives its flow; a new sign-in supersedes the one before |
| Policy check, `web/src/state/policyStore.ts` | decision, checked and pending text, a number | check, evaluateInBackground, reset | late decisions; a check in flight when the file changes | a decision shown is about the text it names |
| Orb browser, `web/src/state/orbStore.ts`, `panes/orbs/OrbBrowser.tsx` | results, selection, parsed orbs, prefetch queue | search, selectOrb, loadOrb, prefetch | unsequenced selections; the queue's limit | the last thing asked for is shown; the queue drains |
| AI chat, `web/src/state/aiStore.ts`, `internal/host/ai.go` | messages, pending actions | send, approve, reject | an edit approved after the document moved on | an action is applied at most once, to a document it fits |
| Project context, runs, usage (`projectContextStore.ts`, `runStore.ts`, `usageStore.ts` and their handlers) | one loaded value each | load, trigger, reset | answers after a reset | an answer lands only on the request it belongs to |
| Page liveness, `web/src/host` | alive or not | heartbeat, closing the window | unsaved files that are not open | a window with unsaved work stays |
| Structured edits, `web/src/lib/mutations` | the document's jobs and job lists | add, rename, delete, connect, alias | one job under several ids in several lists; a name that is another job's alias | an edit changes the edges it names and no others; no cycle; the prompt says what happens |
| Workflow graph, `web/src/lib/graph`, `yaml/matrixExpansion.ts` | none (functions on a document) | read a list into nodes and edges | matrix instances, templates, fan-out | the editing side and the drawing side read the same graph |
| Other caches, API client, credentials, layout, schema, diagnostics | see PROJECT.json | | | |

PROJECT.json lists the components with the state of each model and, under "hazards", the lines at
which the behaviours of the fourth column bite.

## 2. Modules

| Module | Models |
|---|---|
| `EditorSession` | the editing session with the config and validation endpoints it calls |
| `MC_EditorSession`, `MC_EditorShort` | instances for TLC; the second bounds the number of user actions in a session |
| `EditorSessionProofs` | theorems about `EditorSession`: what no order of events can do |
| `EditorRacesProofs` | more of them: what only a switch, a return or a late answer can do |
| `HostLifecycle` | client tracker, waiter, Run, shutdown |
| `LastClientExit` | the abstract promise `HostLifecycle` implements |
| `HostLifecycleProofs` | theorems about `HostLifecycle`, the refinement included |
| `OrbCache` | the orb registry cache and its file |
| `OrbCacheProofs` | theorems about `OrbCache` |
| `WorkflowGraph` | one `jobs:` list as a graph: ids, matrix instances, edges, cycles (no state) |
| `WorkflowEdits` | the structured edits of jobs, entries and requirements, over `WorkflowGraph`, and the prompts that announce them |
| `MC_WorkflowEdits` | the configs to open, and a bound on the edits |
| `WorkflowEditsProofs` | theorems about `WorkflowEdits`, with lemmas on the graph |
| `SignIn`, `SignInProofs` | the interactive sign-in: requests, flows, goroutines; theorems about it |
| `PolicyCheck`, `MC_PolicyCheck`, `PolicyCheckProofs` | the policy store and what of the session drives it; an instance; theorems |
| `OrbBrowser`, `MC_OrbBrowser`, `OrbBrowserProofs` | the orb browser's store and panel; an instance; theorems |

### EditorSession

*State.* `open` is the record of the fields `DocSnapshot` swaps (text, savedText, doc, parseError,
isDirty, the two stacks and their flags, validation); `docCache` maps every file to such a record
or to `Blank`. A text is an opaque value that belongs to one file; `doc` is named by the text it
was parsed from. The three timers are booleans. A PUT in flight is a record (path, text, phase); a
GET in flight is the path it asked for; validations in flight are records (number, text).

*Actions.* One per operation up to its first await and one per continuation: `StartSave` and
`SaveAnswered`/`SaveFailed`; `Load` and `LoadAnswered`; `SwitchToCached`, `SwitchToUnopened` and
`FileOpened`; `ValidateFires` and `ValidateAnswered`. `Edited` is the tail that setText, mutate,
undo and redo share in the code (dirty flag, autosave timer, revalidate) and is always part of
their step. `HostWrites` is the host's handler: it replaces the file, and then its answer arrives
or is lost; `HostRefuses` is a request that writes nothing.

*What the user can do when* comes from the panes: they are gone while a file is being fetched
and while an error is shown, when Retry takes their place (`App.tsx`); the switcher is always
there and disabled during a fetch (`ConfigFileSwitcher.tsx`); Save is enabled when there is
something to save (`SaveDialog.tsx`).

*Abstractions.* A structured edit is any well-formed text, or a throw. The error messages, the
DAG selection and the policy check that rides on revalidate are left out; the badges
"unavailable", "unauthorized" and "error" are one. A GET reads the disk when it is answered. Two
listings in flight count as one. The fixed `meta.configPath` is `Primary`.

### HostLifecycle

*State.* `active`, `armed`, `holds`, `idleAge` are the tracker's fields (`idleAge` is how long ago
`idleAt` was, counted up to the grace period); `changed` is the channel of capacity one; `pc` says
where each stream, write, sign-in and other request is; `waiter` and `timer` are
`waitForLastClient`; the rest is `Run`.

*Actions.* join, leave, hold and release are two steps each, as in the code: the change under the
mutex, then `Signalled`. The waiter is check, look (`WaiterDecides` or `WaiterReads`, which arms
the timer), select (`WaiterSleeps`, then `WaiterWakes` or `WaiterQuits`). `Run`'s select is
`RunSeesInterrupt`, `RunSeesLastClientGone`, `ServeFails`. `Tick` moves time.

`Serve` and `Finish` are every handler that takes no hold (the chat, a sign-in's start, a pipeline
run, a policy decision ...): the tracker does not count it, the serving context is not its context
(`r.Context()` is), and Shutdown waits for it. A sign-in here is the goroutine a start leaves
behind, which holds and is no handler.

*Abstractions.* A handler that has not started, or not reached its join or hold, when Shutdown begins
does not do so later. A stream's loop is the state "attached"; its leave is possible at any time
(disconnect, failed write) and must come once the serving context is done.

### OrbCache

*State.* A listing is the time it was fetched at. `start` is where `Start`'s goroutine is; `crawl`
is one record per `warmFull` goroutine (fetching with a page size, writing, renaming, saved).
`unsaved` is a history variable: a save has failed since the last one that succeeded.

*Actions.* Each critical section and each file operation is a step. `Restart` is the death of the
process at any point followed by a new start. `CrawlCutShort` is the return under `ctx.Err()`,
for a stop of the host or for the crawl's own deadline.

*Abstractions.* What a crawl merges (certified flags, counts) is left out, and so is a cache
without a directory. The API's pages and the retries inside one call are one step.

### WorkflowGraph and WorkflowEdits

*State.* A `jobs:` list is a function from positions to entries (job, alias, the combinations its
matrix expands to, requirements); deleting leaves a gap, so that a position names one entry across
an edit, and only the order of positions matters. An id is a name with what follows it: nothing, a
combination, or a template. `WorkflowGraph` reads a list into nodes and edges as `buildGraph.ts`
does; the editing side reads the same list with `readEntries`, which agrees on the ids, and
follows requirements by id alone, which does not agree on the edges of a fan-out.

*Actions.* One per exported mutation of `configMutations.ts` that changes which jobs and entries
exist, what they are called or who requires whom; a call that throws is a guard. `insertOrbJob` is
`AddEntry`. `jobReferences.ts` reads the document a third time, without matrices: `EntryId`,
`References` and the two `Promises` are that reading.

*Abstractions.* Requirement statuses, other options of an entry, what is inside a job, YAML
anchors, `matrix.alias`, a matrix of no instances. `addWorkflow` is left out because the configs
have their lists from the start; `setRequires` has no caller.

### SignIn

*State.* `slot` and `state` are `s.mcpOAuth`; `taken` is the flow a request has in a local
variable; `cancelled`, `listening` and `held` are the flow's context, listener and hold; `worker` is
where its goroutine is. `HostLifecycle` takes the hold as given, with an end that need not come;
`SignIn` shows that it does.

*Actions.* `Detach` is the critical section of `cancelMCPOAuthFlow` and `Dispose` what follows it
outside the mutex; then `Listen`, `RegisterFails` or `Install` for a start, `Delete` for a
sign-out. A goroutine waits, exchanges, stores the credential and the URL, settles under the mutex
and closes its listener; each step can fail.

### PolicyCheck

*State.* `policy` is the store, `requests` the checks in flight, and of the session only the text
of each open or snapshotted file, the status, the fetch in flight and the debounce.

*Actions.* `Edit` is every change of the text on screen; `SwitchBack` and `SwitchTo` are
`switchFile` with and without a snapshot; `Fire` is the debounce with `evaluateInBackground`;
`Answer` is what follows `check`'s await, in its three outcomes. The decision is different on
every text, so one that is filed under another text shows.

### OrbBrowser

*State.* Searches, opened orbs (`selecting`) and descriptions (`fetching`) are in flight in three
sets. `selectedName` is the panel's own state; the rest is the store's and its module variables.

*Actions.* `Type` and `Debounced` are `search`; `Pick` is `handleSelect` with `clearSelection` and
`selectOrb` up to its await; `Reselect` is the version picker or Retry; `PrefetchRows` runs in the
steps that change the rows or mount the list, as the effect does; `Wanted` are the rows that
`prefetchDescription` takes on, each once.

## 3. Runs

| Run | Bounds | Shows |
|---|---|---|
| `EditorOneFile` | one file, 2 texts, history 1, 2 validations | `SavedIsOnDisk`, `VerdictIsOnTheText`; and, under fairness, `SaveSettles` and `AutosaveSettles` |
| `EditorHistory` | two files, 3 texts of which one does not parse, history 2, no saves | `HistoryIsBounded`, `NoRedoDuringBurst`, `HistoryIsATimeline` |
| `EditorTwoFiles` | two files with 2 texts each, 2 PUTs and 2 GETs in flight, 1 validation, 6 user actions | `TypeOK`, `TextsStayOnTheirFile`, `SavedTextStraysOnlyByLateAnswer`, `DirtyMeansDifferent`, `SnapshotsAreKept`, `UnarmedOnlyByReturning`, `CheckingForeverOnlyByReturning` |
| `HostLifecycle` | 2 pages, 1 write, 1 sign-in, 1 other request, grace period of 3 ticks | `TypeOK`, `CountsAreExact`, `NoLostWakeUp`, `OnlyARequestDelaysTheStop`, `KeepsPromise`, `StopsWhenAbandoned`, `StopsWhenInterrupted` |
| `OrbCache` | 4 crawls, page sizes 3 and 2, 2 instants | `TypeOK`, `CompleteIsOnDisk`, `CrawlsAreBounded`, `DiskIsWhole`, `OldListingIsServed`, `WarmDoneCloses` |
| `WorkflowEdits` | 3 names, 2 workflows and a group, 2 combinations, 2 edits from 5 configs | `RemovalIsExact`, `RenamingKeepsTheWires`, `CyclesCloseOnlyOverAMatrix`, `PromptsAreHonest` |
| `SignIn` | 2 requests at a time, 2 flows | `HoldOrphanedOnlyByOvertaking`, `SignInForgottenOnlyByOvertaking`; and, under fairness, `HoldsEnd` and `ListenersClose` |
| `PolicyCheck` | 3 files, 5 texts, 5 checks and resets | `StoreIsTruthful`, `LeftStaleOnlyByReturning` |
| `OrbBrowser` | 3 orbs, one with 2 versions, 2 searches, 2 opened orbs, 2 fetches at a time, 3 rows prefetched | `ListIsTheAnswer`, `QueueNeverStalls`, `WrongDetailOnlyByLateAnswer` |

*Why the bounds are enough.* A history of two entries makes a timeline of three texts, with
something on both sides of the present, and one push more than fits; saves do not touch it. Two
files and two texts each are what a mix-up needs; six user actions are an edit, a save, a switch, an
edit, a switch back and one more. The limit is on the user only: timers and answers are free. A
grace period of three ticks has a tick after which a page can come back and the waiter's timer is
neither fresh nor over. The code can start three overlapping crawls (an early Refresh, one after a
publish has cleared Warming, and Start's own); four goroutines show that it never needs a fourth,
and `CrawlsStayFew` proves it.

*One file or two.* The cached branch of switchFile neither arms the autosave timer nor supersedes a
validation, and it resets the status while a write may be in flight. So two things go wrong only
when the user returns to a file, and `EditorTwoFiles` checks that nothing else does them
(`UnarmedOnlyByReturning`, `CheckingForeverOnlyByReturning`). Two more hold as long as nobody
switches: `EditorOneFile` checks `SavedIsOnDisk` and `VerdictIsOnTheText` there, and the theorems
`SavedWhileStaying` and `VerdictWhileStaying` say it of every session without a switch, however many
files the project has. `VerdictIsOnTheText` leaves out a text that does not parse, see below.

An edit is judged by its step alone, so one edit from the right config decides; the second edit
starts from configs nobody wrote down. Two flows are one that is cancelled or overtaken and its
successor, and two requests at a time are what an overtaking takes. Four policy checks put a
decision, a check for another text, a return and a late answer in one behaviour. Three rows through
two places leave one waiting; two searches and two opened orbs are what an overtaking needs.

*What only one step can do.* Several properties name the one step that breaks a relation:
`P => P' \/ Exception`. They say that everything else, in every order, keeps it, and they hold in the
sessions in which the exception happens, too. `SavedTextStraysOnlyByLateAnswer` is about the field of
`DocSnapshot` that `TextsStayOnTheirFile` leaves out: save's continuation writes the PUT's text into
the `savedText` of whatever is open (`appStore.ts:714-716`), and a switch carries it into that file's
snapshot. In `SignIn` a request that has emptied the slot can find, when it installs its flow, that
another has installed one meanwhile (`Overtakes`). It overwrites it: the first flow goes on
with nobody to cancel it, its goroutine settles the second one, and its hold is not released before
the process ends. The code's comments speak of a user pressing Connect twice, not of two
requests under way. `HoldsEnd` is therefore about the flows the server still knows.

*Preconditions.* `RemovalIsExact` and `RenamingKeepsTheWires` speak of lists whose ids are unique,
whose requirements are not matrix templates and, for a removal, name nodes; a renaming is to an id
that is not a template and that nothing mentions, of entries that are not matrices. What these leave
out is in the section below. `PromptsAreHonest` speaks of workflows without a matrix, because
`jobReferences.ts` reads none. `CyclesCloseOnlyOverAMatrix` has no such precondition: it names the edges
a new cycle must use.

*Deadlock.* It is checked for `SignIn`, `PolicyCheck` and `OrbBrowser`, where the user can always do
something. Elsewhere the check is off: a user may stop editing, a host that has
stopped takes no step, and the bounds on validations, crawls and time end behaviours of their
own.

### What the code does otherwise than it says

| Run | Property | What happens |
|---|---|---|
| `FindDirtyAfterSave` | `DirtyIsADifference` | Edits made while a PUT is in flight are marked saved (`appStore.ts:715` against the comment at 170). |
| `FindLostEdits` | `SwitchKeepsEdits` | A save answered while another file is fetched brings the panes back; what is typed then is lost (715 against 235). |
| `FindOrbCacheWedged` | `WarmingIsACrawl` | A crawl that reaches its own deadline leaves Warming set, and Refresh does nothing from then on (`cache.go:495` against 139). |

Seen while modelling and not kept as runs:

- Undo or redo to a text that does not parse drops the last good document, which setText keeps
  (`appStore.ts:765` and 795 against 164).
- The number that supersedes older validations is taken when the debounce fires, not when the text
  changes (`appStore.ts:852` against 322-324 and 844-847): the answer for the text before can
  become the badge of a text that does not parse and is therefore not validated.
- A save that fails while another file is fetched brings up Retry, and Retry the panes: what is
  typed then is lost like in `FindLostEdits`.
- After a switch `savedText` need not be "the last text successfully written to disk" (170): two
  writes of one file can be in flight, and either can be the last.
- A validation answered after returning to a file already opened becomes that file's badge (863
  against 133).
- After a decision on a text, an edit, and a return to that text while the edit is being checked,
  the policy badge stays "out of date" until the next edit: the text has its decision, so it is not
  asked about, and the answer on its way replaces that decision (`policyStore.ts:233` against
  `PolicyBadge.tsx:135`). `LeftStaleOnlyByReturning` says this is the only way. Returning to a file
  with a snapshot starts no check at all.
- An orb opened, closed and another opened: the first one's answer, if it comes last, is shown, with
  its own name, for good, while the version control stays the second one's (`orbStore.ts:471`).
  `WrongDetailOnlyByLateAnswer` says this is the only way.
- A cancelled sign-in that has yet to fail settles the flow that took its place: it shows "sign-in
  was cancelled" and releases the hold of a sign-in that goes on (`mcpoauth.go:506` against 99-101).
- Two sign-ins started at the same time: the one installed first is overwritten, and its hold is never
  released (`mcpoauth.go:375-405`, 518-542).
- After a return to another file, the answer to a save makes its text that file's `savedText`
  (`appStore.ts:714-716` against 170).
- A chat or a sign-in's start under way delays a stop until `shutdownTimeout` and the stop is then
  reported as an error: the serving context is not theirs (`server.go:1139-1146`).
- Of a job with several entries, the delete prompt announces as changed, and counts, what these
  entries require of each other, and names entries that are deleted themselves
  (`jobReferences.ts:236-246`, 456-472).
- Requirements on a matrix as a whole: deleting or renaming the matrix job leaves them dangling
  (the pruned ids are the instances'), the rename prompt promises to rewrite them
  (`jobReferences.ts:91-93`), and `addRequire` does not see the edges they stand for, so it can
  close a cycle. It also appends to every instance when the target is one of a matrix.
- `setWorkflowJobEntryAlias` with no alias, on an instance of a matrix that has none, rewrites the
  requirements on that instance to the bare name, which stands for all; with one, it gives every
  instance the same id. Aliases given to a new entry are not checked for collisions; the prompts say
  nothing of job groups.

## 4. Fairness

*EditorSession.* Timers fire (a browser's timer does), and every request is answered or fails: the
host is local, and fetch rejects when the connection breaks. Nothing is assumed of the user.
`AutosaveSettles` lets the user go on for ever: it speaks of sessions in which the user pauses. Answers
of validations need no fairness, because no liveness property waits for one.

*HostLifecycle.* Goroutines run and time passes. A stream ends once its context is done
(`handleHeartbeat` selects on it). No page has to leave; no write, no sign-in and no other request
has to finish. `Run` needs fairness only as a whole.

*SignIn.* A request goes on, because discovery, registration and the keystore run under timeouts; a
goroutine goes on, because its wait, its exchange and its writes do (`oauthFlowTimeout`,
`oauthSetupTimeout`). Nobody has to press a button or answer the browser.

*PolicyCheck, OrbBrowser, WorkflowEdits.* Safety only: a request of the page may stay unanswered.

*OrbCache.* Goroutines run, and each request ends by its timeout. The environment may restart the
host again and again; the two liveness properties are about hosts that last.

## 5. Proofs

TLC checks instances; the theorems hold for every value of the constants under the modules'
named assumptions (the primary file exists, every text has its file, the history limit is
positive; the actors are finite disjoint sets and the grace period is positive).

*EditorSessionProofs.* `Inv` is `TypeOK` and five more conjuncts. The type of a document says
nothing of the file it is about, so `TextsStayOnTheirFile` is not inductive: the undo stack,
the text a PUT carries and what is on disk must all be of the right file, or a switch,
an undo or an answer would break it. `Good(d, f)` says that a record is a document of `f` (all its
texts are), that its stacks share `MaxHistory`, and that dirty means different. `OpenIsGood`,
`SnapshotsAreGood`, `DiskIsGood` and `PutsAreGood` say it wherever a text can be;
`NoRedoDuringBurst` is its own conjunct because a coalesced keystroke keeps the redo stack. The
bound on the history follows from an observation the code relies on without saying so: an undo takes
from one stack what it gives to the other, so the slice there never cuts. From `Inv` follow
`TypeCorrect`, `NoTextStrays`, `BoundedHistory`, `BurstsHaveNoRedo`, `DirtyIsEarned`, and the
action properties `SnapshotsSurvive` and `HistoryIsNeverLost`, the second from the lemmas on
`Push`, `Front` and `Reverse`.

*EditorRacesProofs.* Theorems of two kinds, for any number of files. The first name the only step
that can break something. `AutosaveStaysArmed` and `CheckingStaysAwaited` are step by step from `Inv`:
`EditMarksDirt` and `OpenedIsClean` say what an edit and an opening leave behind.
`SavedTextStrays` shows the same of a
file's saved text, from `Inv` and the fact that an opening makes text and saved text one.
`MarksFailByLateAnswer` shows that the cause `FindDirtyAfterSave` exhibits is the only one: the mark
of every document, the snapshots included, is right until a save is answered whose text is no longer
in the editor. `QuietSwitchKeepsEdits` does the same for `FindLostEdits`: under the hypothesis that no
save ends while a file is fetched, `LeavingIsSafe` is inductive (a fetch is behind the loading
screen with no autosave to come, there is one, and the snapshot has what the editor has), and
`SwitchKeepsEdits` follows. Sessions without such a save exist, as do sessions with one.

The theorems of the second kind are about sessions in which no step is a switch, which in a
project of one file are all of them (`OneFileStays`: `SavedInOneFile`, `VerdictInOneFile`). There
`StatusTells` is inductive: loading means one load in flight and no autosave, saving covers the one
write, any other status means nothing is in flight. This is what `save` takes for granted when it
looks at the status, and what a switch undoes. `DiskTells` adds what a write knows (a written one is on
disk) and gives `SavedWhileStaying`. `VerdictIsOnTheText` is not inductive either, since it says
nothing of a check still in flight; `LatestIsOnTheText` adds that no check is numbered past the
latest, and that the latest one, unless another is due or the text does not parse, is of the text in
the editor.

*HostLifecycleProofs.* `Inv` is `TypeOK`, `CountsAreExact`, `NoLostWakeUp`, `OnlyARequestDelaysTheStop`
and two facts about Run: a host that is shutting down has its serving context done, and one that
has not stopped has returned nothing. The counts need the finiteness of the sets of actors.
`ImplementsLastClientExit` maps every step of the host to a step of `LastClientExit` or a stutter
under the mapping of `Promise`; the step that matters is the waiter's decision, where exact
counts turn the tracker's numbers into "nobody is engaged".

*OrbCacheProofs.* Two invariants. `DiskInv` strengthens `CompleteIsOnDisk` by what Start and a crawl
know between two of their steps: what Start has read is still on disk (as that listing or a newer
one), and a crawl about to publish has saved or failed to. `DiskStaysWhole` follows from its types.
`FewCrawls` explains the bound of three: the number of crawls plus the refresh that a clear Warming
would let in is at most one before Start has published, two between its publish and its own crawl,
and three afterwards; a crawl that ends clears Warming, which trades itself for a refresh. Two
theorems are about what `FindOrbCacheWedged` shows. `WedgedOnlyByTheDeadline`: `WarmingIsACrawl`
holds until a crawl runs into its own deadline, and nothing else ends it. `WedgedForGood`: a cache
that is Warming without a crawl stays so until the process restarts. `NamesAssumption` says that the
names for an absent or torn file are not listings.

*WorkflowEditsProofs.* `TypeOK` is inductive once the entry an id names is known to exist:
`TargetIsANode` finds the first node by two least numbers, of positions and of combinations.
`CyclesNeedAMatrix` is about the graph as it is drawn, with no condition on what requirements
resolve to; it leaves out of the graph after the edit the edges of fan-outs and those the edit draws
beside the one asked for (`DrawnBeside`). The absence of a path gives a set of ids closed under what
follows its members that holds the requiring job and not the required one; `FollowsIsByEdges` says
that no direct edge leaves it, `OneRequirementMore` that the edit adds an edge for each instance of
its target and no other, and `EdgeIntoAClosedSet`, about any relation, that an edge into such a set
closes no cycle: a set with a member outside the closed set has a minimal one there, and any other
set never meets the new edge's start. `HonestPrompts` shows that the two readings of a workflow, by
nodes and by entries, find the same ids, places and claims when nothing is a matrix, and compares
what is taken requirement by requirement; of a delete's announcements it takes those of entries that
stay, because the prompt does not. `ExactRemovals` rests on `RemovalOfEntries`: with the
requirements direct, a wire is a requirement of one node on the id of another, so taking away the
entries at some positions and every requirement on the ids they answered to takes away the wires at
those positions; what remains to be shown is that each removal prunes exactly those ids. A group
prunes the bare name only, which is why it may have no alias and no matrix (`BareNameOfAJob`).
`RenamingsKeepWires` has one notion for all renamings: `Relabels` says that one list is the other
with one id in the place of another, in what entries answer to and in what they require, and
`RelabelingKeepsWires` that nothing else can change as long as the new id is mentioned nowhere and
the old one is a node's (`Fresh`): were it no node's it could stand for a matrix fanned out. A job's
rename relabels its bare name where the name is its own and no id at all where every entry of the
job has an alias; an alias relabels the id of its entry.

*SignInProofs.* Both theorems are for any number of pages, with overtaking as the exception they
name. `Inv` says what each request and each flow can rely on however many requests there are: a
request has a flow in its hands only while its step needs one (`TakenWhileNeeded`), a flow being set
up is one request's alone (`SetupIsPrivate`), and what is in the slot, about to be cancelled or held
has been started (`InstalledIsStarted`). Then each step either leaves a flow its owner, hands it
over, or is the `Install` that finds the slot taken.

*PolicyCheckProofs.* `StoreInv` adds that a check's number is its own and no later than the latest, so
that the answer of the latest check leaves nothing to await. `CheckIsOfTheScreen` is about the moments
when the debounce has run out: what is being checked is then the text on screen, unless that text is
the one already decided on, which is the one way to be left stale.

*OrbBrowserProofs.* `LatestIsCurrent`: no search is numbered past the latest, and the latest asks what
the panel says unless another is being debounced. `QueueKeepsMoving` is about the prefetch
queue, where places are counted as the code counts them: `active` is the number of fetches in
flight only if a fetch never starts for an orb that has one. `QueueInv` therefore adds that the queue
has no orb twice, none that is being fetched, and none that was not asked for. The rows taken on
are numbered by counting (`Wanted`), not filtered recursively, so `PositionsAreNumbered`, from the
finite-set theorems, gives each its place and `WantedIsNew` that none is a repetition.
`OnlyLateAnswersMislead` needs no invariant: it goes
through the steps that change the detail.

*Only model-checked.* The liveness properties (`SaveSettles`, `AutosaveSettles`,
`StopsWhenAbandoned`, `StopsWhenInterrupted`, `OldListingIsServed`, `WarmDoneCloses`, `HoldsEnd`,
`ListenersClose`): fairness is beyond the prover. Every other property of a passing run is a theorem,
two of them under a hypothesis: `SavedIsOnDisk` and `VerdictIsOnTheText` of sessions without a
switch, as in their runs. The type invariant of `WorkflowEdits` is a theorem its other
proofs rest on and no part of its run, whose properties would not evaluate without it.

## 6. Not modelled

The parts of modelled components that are left out are named with them above and in PROJECT.json.

The chat (`aiStore.ts`), the runs (`runStore.ts`) and the project context serialise their requests by
a pending flag or a sequence number, the pattern `PolicyCheck` and `OrbBrowser` treat; they are
candidates for later. The steps of `ConfigFile.Write` (temporary file, rename) are one step of
`EditorSession`; `OrbCache` has the same pattern in detail.

Character-level YAML splicing, completion, diagnostics and markdown are pure text functions with
table tests of their own. Layout, theme and node positions are synchronous view state.
Credentials storage and OAuth encoding are I/O. The usage, guides, offerings and Docker Hub caches
have the orb cache's shape and less of its concurrency.

## 7. Plan

Done: `EditorSession`, `HostLifecycle` with `LastClientExit`, `OrbCache`, `WorkflowGraph`,
`WorkflowEdits`, `SignIn`, `PolicyCheck`, `OrbBrowser`, and proofs about each.

Next, in order:

1. `ConfigFileWrite`: the steps of `ConfigFile.Write`, two writers and a crash, shown to
   implement the single step `EditorSession` takes it for.
2. `SignIn` composed with the tracker's hold and release.
3. The page's side of liveness over `EditorSession`, and the chat's approval of an edit.
