--------------------------- MODULE EditorSession ---------------------------
(***************************************************************************)
(* The editing session of the single-page app (web/src/state/appStore.ts)  *)
(* together with the host's GET/PUT /api/config endpoints it talks to.     *)
(*                                                                         *)
(* One document is open at a time.  Every other file opened in the session *)
(* lives in docCache as a snapshot.  The actions below are the store's     *)
(* operations, the three debounce timers, and the answers of the requests  *)
(* in flight: everything runs on one JavaScript thread, so a handler is    *)
(* atomic up to its first await, and what follows the await is an action   *)
(* of its own that reads the store as it is then.                          *)
(*                                                                         *)
(* A text is an opaque value that belongs to one file (TextOf), so a text  *)
(* that ends up on another file shows; its parse tree is named by the text *)
(* it was parsed from.  The messages the store keeps beside its state      *)
(* (error, editError, reasons) and the DAG selection are left out.         *)
(***************************************************************************)
EXTENDS Naturals, Sequences, FiniteSets, SequencesExt

CONSTANTS
    Files,           \* paths of the indexed config directory
    Primary,         \* the config file the host resolved at startup
    NotConfig,       \* files the host classifies as not a CircleCI config
    Texts,           \* editor contents
    TextOf,          \* the file each text is a content of
    Parses,          \* texts that are well-formed YAML
    Valid,           \* texts CircleCI's compiler accepts
    NoFile, NoText, NoDoc, Idle,
    MaxHistory,      \* MAX_HISTORY
    PutSlots,        \* bound: PUT requests in flight
    GetSlots,        \* bound: GET requests in flight
    MaxValidations   \* bound: validations one session starts

ASSUME FilesAssumption ==
    /\ Primary \in Files
    /\ NoFile \notin Files
    /\ NotConfig \subseteq Files \ {Primary}

ASSUME TextsAssumption ==
    /\ TextOf \in [Texts -> Files]
    /\ NoText \notin Texts
    /\ Parses \subseteq Texts
    /\ Valid \subseteq Parses

ASSUME HistoryAssumption == MaxHistory \in Nat \ {0}

ASSUME RequestsAssumption ==
    /\ MaxValidations \in Nat
    /\ \A f \in Files : Idle # f
    /\ Idle # NoFile

TextsOf(f) == {t \in Texts : TextOf[t] = f}

VARIABLES
    disk,              \* contents of every file on disk
    configPath,        \* the open file
    open,              \* the open file's document: DocSnapshot's fields
    docCache,          \* snapshots of the files left behind
    status,            \* what the app shell shows
    files,             \* the switcher's list
    autosave,          \* the autosave switch
    autosaveTimer,     \* each timer: TRUE while it is armed
    typingBurstTimer,
    validateTimer,
    validateSeq,       \* the sequence number of the latest validation
    puts, gets,        \* requests in flight, by slot
    checks,            \* POST /api/validate requests in flight
    listing            \* GET /api/config-files in flight

timers == <<autosaveTimer, typingBurstTimer, validateTimer>>
requests == <<puts, gets, checks, listing>>
vars == <<disk, configPath, open, docCache, status, files, autosave,
          timers, validateSeq, requests>>

Verdicts == {"idle", "checking", "valid", "invalid", "unavailable",
             "not-a-config"}

\* The document of a text that was just read from disk.  Neither load nor
\* switchFile touches validation, so the previous badge stands.
Fresh(text, validation) ==
    [text |-> text, savedText |-> text,
     doc |-> IF text \in Parses THEN text ELSE NoDoc,
     parseError |-> text \notin Parses,
     isDirty |-> FALSE,
     undoStack |-> <<>>, redoStack |-> <<>>,
     canUndo |-> FALSE, canRedo |-> FALSE,
     validation |-> validation]

Blank == [Fresh(NoText, "idle") EXCEPT !.doc = NoDoc, !.parseError = FALSE]
NoSnapshots == [f \in Files |-> Blank]
Cached(f) == docCache[f] # Blank

\* [...stack, text].slice(-MAX_HISTORY)
Push(stack, text) ==
    LET longer == Append(stack, text)
    IN  IF Len(longer) > MaxHistory THEN Tail(longer) ELSE longer

-----------------------------------------------------------------------------
(* What the panes let the user do.                                         *)

\* App replaces the panes while status is loading or error.
PanesShown == status \notin {"loading", "error"}

\* ConfigFileSwitcher's buttons: always mounted, disabled while loading.
SwitcherOffers(f) == f \in files /\ f # configPath /\ status # "loading"

\* files is empty or a one-entry fallback until the host has classified it.
KnownNotConfig(f) == files = Files /\ f \in NotConfig

-----------------------------------------------------------------------------
(* revalidate(), as the tail of the operations that call it.               *)

Badge(path, d) ==
    CASE KnownNotConfig(path) -> "not-a-config"
      [] ~KnownNotConfig(path) /\ d.parseError -> "idle"
      [] OTHER -> d.validation

NeedsCheck(path, d) == ~KnownNotConfig(path) /\ ~d.parseError

Revalidate(path, d) ==
    /\ open' = [d EXCEPT !.validation = Badge(path, d)]
    /\ validateTimer' = NeedsCheck(path, d)

\* Bug: history does not restart the autosave debounce.
EditedWithoutAutosave(d) ==
    /\ Revalidate(configPath, d)
    /\ autosaveTimer' = autosaveTimer
    /\ UNCHANGED <<disk, configPath, docCache, status, files, autosave,
                   validateSeq, requests>>

\* The tail shared by setText, mutate, undo and redo.
Edited(d) ==
    /\ Revalidate(configPath, d)
    /\ autosaveTimer' = (autosave /\ d.isDirty)
    /\ UNCHANGED <<disk, configPath, docCache, status, files, autosave,
                   validateSeq, requests>>

-----------------------------------------------------------------------------
Init ==
    /\ disk \in {d \in [Files -> Texts] : \A f \in Files : TextOf[d[f]] = f}
    /\ configPath = NoFile
    /\ open = Blank
    /\ docCache = NoSnapshots
    /\ status = "loading"
    /\ files = {}
    /\ autosave = FALSE
    /\ autosaveTimer = FALSE
    /\ typingBurstTimer = FALSE
    /\ validateTimer = FALSE
    /\ validateSeq = 0
    /\ puts = [s \in PutSlots |-> Idle]
    \* App's mount effect has called load().
    /\ \E s \in GetSlots : gets = [g \in GetSlots |-> IF g = s THEN NoFile ELSE Idle]
    /\ checks = {}
    /\ listing = FALSE

-----------------------------------------------------------------------------
(* Editing the open document.                                              *)

\* An entry in the history for the text d had before.
Remembering(d, before) ==
    [d EXCEPT !.undoStack = Push(@, before),
              !.redoStack = <<>>,
              !.canUndo = TRUE,
              !.canRedo = FALSE]

\* setText keeps the last good document while the text does not parse.
Typed(d, text) ==
    [d EXCEPT !.text = text,
              !.isDirty = text # d.savedText,
              !.parseError = text \notin Parses,
              !.doc = IF text \in Parses THEN text ELSE @]

\* One keystroke: the first of a burst makes the history entry.
SetText(text) ==
    /\ PanesShown
    /\ text # open.text
    /\ Edited(IF typingBurstTimer THEN Typed(open, text)
              ELSE Remembering(Typed(open, text), open.text))
    /\ typingBurstTimer' = TRUE

\* Bug: the operations that end a typing burst forget to.
KeepTypingBurst == typingBurstTimer' = typingBurstTimer

ClearTypingBurst == typingBurstTimer' = FALSE

MutationAllowed == PanesShown /\ open.doc # NoDoc /\ ~open.parseError

\* fn edits a clone of doc; its serialization always parses.
Mutate(text) ==
    /\ MutationAllowed
    /\ text \in Parses
    /\ Edited(Remembering(Typed(open, text), open.text))
    /\ ClearTypingBurst

\* fn throws: the clone is dropped, but the typing burst has already ended.
MutateThrows ==
    /\ MutationAllowed
    /\ typingBurstTimer
    /\ ClearTypingBurst
    /\ UNCHANGED <<disk, configPath, open, docCache, status, files, autosave,
                   autosaveTimer, validateTimer, validateSeq, requests>>

\* Bug: restoring history always counts as a change.
RestoredDirty(d, text) ==
    [d EXCEPT !.text = text,
              !.doc = IF text \in Parses THEN text ELSE NoDoc,
              !.parseError = text \notin Parses,
              !.isDirty = TRUE]

\* What undo and redo have in common: show an earlier or a later text.
Restored(d, text) ==
    [d EXCEPT !.text = text,
              !.doc = IF text \in Parses THEN text ELSE NoDoc,
              !.parseError = text \notin Parses,
              !.isDirty = text # d.savedText]

\* Bug: canUndo is computed from the stack before the pop.
BackCountsTooMany(d) ==
    [Restored(d, Last(d.undoStack)) EXCEPT
        !.undoStack = Front(@),
        !.redoStack = Push(@, d.text),
        !.canUndo = Len(d.undoStack) > 0,
        !.canRedo = TRUE]

Back(d) ==
    [Restored(d, Last(d.undoStack)) EXCEPT
        !.undoStack = Front(@),
        !.redoStack = Push(@, d.text),
        !.canUndo = Len(d.undoStack) - 1 > 0,
        !.canRedo = TRUE]

Undo ==
    /\ PanesShown
    /\ open.undoStack # <<>>
    /\ Edited(Back(open))
    /\ ClearTypingBurst

\* Bug: redo remembers the text it shows, not the one it replaces.
ForwardPushesNext(d) ==
    [Restored(d, Last(d.redoStack)) EXCEPT
        !.redoStack = Front(@),
        !.undoStack = Push(@, Last(d.redoStack)),
        !.canUndo = TRUE,
        !.canRedo = Len(d.redoStack) - 1 > 0]

Forward(d) ==
    [Restored(d, Last(d.redoStack)) EXCEPT
        !.redoStack = Front(@),
        !.undoStack = Push(@, d.text),
        !.canUndo = TRUE,
        !.canRedo = Len(d.redoStack) - 1 > 0]

Redo ==
    /\ PanesShown
    /\ open.redoStack # <<>>
    /\ Edited(Forward(open))
    /\ ClearTypingBurst

TypingBurstEnds ==
    /\ typingBurstTimer
    /\ typingBurstTimer' = FALSE
    /\ UNCHANGED <<disk, configPath, open, docCache, status, files, autosave,
                   autosaveTimer, validateTimer, validateSeq, requests>>

\* Bug: turning autosave on waits for the next edit.
ToggleWithoutArming ==
    /\ PanesShown
    /\ autosave' = ~autosave
    /\ autosaveTimer' = FALSE
    /\ UNCHANGED <<disk, configPath, open, docCache, status, files,
                   typingBurstTimer, validateTimer, validateSeq, requests>>

ToggleAutosave ==
    /\ PanesShown
    /\ autosave' = ~autosave
    /\ autosaveTimer' = (autosave' /\ open.isDirty)
    /\ UNCHANGED <<disk, configPath, open, docCache, status, files,
                   typingBurstTimer, validateTimer, validateSeq, requests>>

-----------------------------------------------------------------------------
(* Saving.  save() captures the text and the path, then awaits the PUT.    *)

\* Bug: every save goes to the file resolved at startup.
AlwaysPrimary(path) == NoFile

\* The ?path= of a request: left out for the file resolved at startup.
TargetPath(path) == IF path # Primary THEN path ELSE NoFile

\* The file the host acts on for a request's ?path=.
ResolveConfigTarget(path) == IF path = NoFile THEN Primary ELSE path

\* Bug: save does not look at a save already in flight.
SaveWhenDirty == open.isDirty

SaveWouldWrite == open.isDirty /\ status # "saving"

StartSave ==
    /\ SaveWouldWrite
    /\ \E s \in PutSlots :
          /\ puts[s] = Idle
          /\ puts' = [puts EXCEPT ![s] = [path |-> TargetPath(configPath),
                                          text |-> open.text,
                                          phase |-> "sent"]]
    /\ status' = "saving"
    /\ autosaveTimer' = FALSE
    /\ UNCHANGED <<disk, configPath, open, docCache, files, autosave,
                   typingBurstTimer, validateTimer, validateSeq, gets,
                   checks, listing>>

SkipSave ==
    /\ ~SaveWouldWrite
    /\ autosaveTimer' = FALSE
    /\ UNCHANGED <<disk, configPath, open, docCache, status, files, autosave,
                   typingBurstTimer, validateTimer, validateSeq, requests>>

\* The Save dialog's button, disabled when there is nothing to do.
SaveClicked == PanesShown /\ StartSave

AutosaveFires == autosaveTimer /\ (StartSave \/ SkipSave)

\* handleConfigPut replaces the file atomically; the answer may be lost.
HostWrites(s) ==
    /\ puts[s] # Idle
    /\ puts[s].phase = "sent"
    /\ disk' = [disk EXCEPT ![ResolveConfigTarget(puts[s].path)] = puts[s].text]
    /\ \E outcome \in {"written", "failed"} :
          puts' = [puts EXCEPT ![s].phase = outcome]
    /\ UNCHANGED <<configPath, open, docCache, status, files, autosave,
                   timers, validateSeq, gets, checks, listing>>

\* The write fails, or the request never reaches the host.
HostRefuses(s) ==
    /\ puts[s] # Idle
    /\ puts[s].phase = "sent"
    /\ puts' = [puts EXCEPT ![s].phase = "failed"]
    /\ UNCHANGED <<disk, configPath, open, docCache, status, files, autosave,
                   timers, validateSeq, gets, checks, listing>>

\* The code after save's await: it acts on whatever is open by now.
SaveAnswered(s) ==
    /\ puts[s] # Idle
    /\ puts[s].phase = "written"
    /\ open' = [open EXCEPT !.savedText = puts[s].text, !.isDirty = FALSE]
    /\ status' = "ready"
    /\ puts' = [puts EXCEPT ![s] = Idle]
    /\ UNCHANGED <<disk, configPath, docCache, files, autosave, timers,
                   validateSeq, gets, checks, listing>>

\* Bug: a failed save leaves the status alone.
SaveFailedSilently(s) ==
    /\ puts[s] # Idle
    /\ puts[s].phase = "failed"
    /\ puts' = [puts EXCEPT ![s] = Idle]
    /\ UNCHANGED <<disk, configPath, open, docCache, status, files, autosave,
                   timers, validateSeq, gets, checks, listing>>

SaveFailed(s) ==
    /\ puts[s] # Idle
    /\ puts[s].phase = "failed"
    /\ status' = "error"
    /\ puts' = [puts EXCEPT ![s] = Idle]
    /\ UNCHANGED <<disk, configPath, open, docCache, files, autosave, timers,
                   validateSeq, gets, checks, listing>>

-----------------------------------------------------------------------------
(* Opening: load() and switchFile().                                       *)

\* load(): the mount effect's first call is Init; later ones are Retry.
Load ==
    /\ status = "error"
    /\ \E g \in GetSlots :
          gets[g] = Idle /\ gets' = [gets EXCEPT ![g] = NoFile]
    /\ status' = "loading"
    /\ autosaveTimer' = FALSE
    /\ ClearTypingBurst
    /\ UNCHANGED <<disk, configPath, open, docCache, files, autosave,
                   validateTimer, validateSeq, puts, checks, listing>>

\* The part of load() after its await: a session from scratch.
LoadAnswered(g) ==
    /\ gets[g] = NoFile
    /\ gets' = [gets EXCEPT ![g] = Idle]
    /\ configPath' = Primary
    /\ docCache' = NoSnapshots
    /\ Revalidate(Primary, Fresh(disk[Primary], open.validation))
    /\ status' = "ready"
    /\ listing' = TRUE
    /\ UNCHANGED <<disk, files, autosave, autosaveTimer, typingBurstTimer,
                   validateSeq, puts, checks>>

\* loadFiles(): on failure a one-entry list of the open file.
FilesListed ==
    /\ listing
    /\ listing' = FALSE
    /\ files' \in {Files, {configPath}}
    /\ UNCHANGED <<disk, configPath, open, docCache, status, autosave,
                   timers, validateSeq, puts, gets, checks>>

\* Bug: the cache holds one snapshot.
LeaveForgettingOthers == [f \in Files |-> IF f = configPath THEN open ELSE Blank]

\* Bug: the snapshot leaves the redo history out.
LeaveWithoutRedo ==
    [docCache EXCEPT ![configPath] =
        [field \in DOMAIN open \ {"redoStack", "canRedo"} |-> open[field]]]

Leave == [docCache EXCEPT ![configPath] = open]

SwitchToCached(f) ==
    /\ SwitcherOffers(f)
    /\ Cached(f)
    /\ docCache' = Leave
    /\ configPath' = f
    /\ open' = docCache[f]
    /\ status' = "ready"
    /\ autosaveTimer' = FALSE
    /\ ClearTypingBurst
    /\ validateTimer' = FALSE
    /\ UNCHANGED <<disk, files, autosave, validateSeq, requests>>

SwitchToUnopened(f) ==
    /\ SwitcherOffers(f)
    /\ ~Cached(f)
    /\ docCache' = Leave
    /\ \E g \in GetSlots :
          gets[g] = Idle /\ gets' = [gets EXCEPT ![g] = f]
    /\ status' = "loading"
    /\ autosaveTimer' = FALSE
    /\ ClearTypingBurst
    /\ validateTimer' = FALSE
    /\ UNCHANGED <<disk, configPath, open, files, autosave, validateSeq,
                   puts, checks, listing>>

\* Bug: switchFile leaves the saved text of the file before.
FileOpenedOverSaved(g) ==
    /\ gets[g] \in Files
    /\ gets' = [gets EXCEPT ![g] = Idle]
    /\ configPath' = gets[g]
    /\ Revalidate(gets[g], [Fresh(disk[gets[g]], open.validation) EXCEPT !.savedText = open.savedText])
    /\ status' = "ready"
    /\ UNCHANGED <<disk, docCache, files, autosave, autosaveTimer,
                   typingBurstTimer, validateSeq, puts, checks, listing>>

\* The part of switchFile() after its await.
FileOpened(g) ==
    /\ gets[g] \in Files
    /\ gets' = [gets EXCEPT ![g] = Idle]
    /\ configPath' = gets[g]
    /\ Revalidate(gets[g], Fresh(disk[gets[g]], open.validation))
    /\ status' = "ready"
    /\ UNCHANGED <<disk, docCache, files, autosave, autosaveTimer,
                   typingBurstTimer, validateSeq, puts, checks, listing>>

\* The catch branch of both.
OpenFailed(g) ==
    /\ gets[g] # Idle
    /\ gets' = [gets EXCEPT ![g] = Idle]
    /\ status' = "error"
    /\ UNCHANGED <<disk, configPath, open, docCache, files, autosave, timers,
                   validateSeq, puts, checks, listing>>

-----------------------------------------------------------------------------
(* Validation against CircleCI.                                            *)

ValidateFires ==
    /\ validateTimer
    /\ validateSeq < MaxValidations
    /\ validateTimer' = FALSE
    /\ validateSeq' = validateSeq + 1
    /\ open' = [open EXCEPT !.validation = IF open.parseError THEN "idle" ELSE "checking"]
    /\ checks' = IF open.parseError THEN checks
                 ELSE checks \cup {[seq |-> validateSeq + 1, text |-> open.text]}
    /\ UNCHANGED <<disk, configPath, docCache, status, files, autosave,
                   autosaveTimer, typingBurstTimer, puts, gets, listing>>

Verdict(text) == IF text \in Valid THEN "valid" ELSE "invalid"

\* Bug: every answer is taken for the latest.
NeverSuperseded(check) == FALSE

Superseded(check) == check.seq # validateSeq

\* Bug: the request's rejection is not caught.
ValidateAnsweredUncaught(check) ==
    /\ check \in checks
    /\ checks' = checks \ {check}
    /\ \E verdict \in {Verdict(check.text), open.validation} :
          open' = IF Superseded(check) THEN open
                  ELSE [open EXCEPT !.validation = verdict]
    /\ UNCHANGED <<disk, configPath, docCache, status, files, autosave,
                   timers, validateSeq, puts, gets, listing>>

\* The host answers with a verdict, or cannot reach one.
ValidateAnswered(check) ==
    /\ check \in checks
    /\ checks' = checks \ {check}
    /\ \E verdict \in {Verdict(check.text), "unavailable"} :
          open' = IF Superseded(check) THEN open
                  ELSE [open EXCEPT !.validation = verdict]
    /\ UNCHANGED <<disk, configPath, docCache, status, files, autosave,
                   timers, validateSeq, puts, gets, listing>>

-----------------------------------------------------------------------------
Edit ==
    \/ \E text \in TextsOf(configPath) : SetText(text) \/ Mutate(text)
    \/ Undo
    \/ Redo

User ==
    \/ Edit
    \/ MutateThrows
    \/ ToggleAutosave
    \/ SaveClicked
    \/ Load
    \/ \E f \in Files : SwitchToCached(f) \/ SwitchToUnopened(f)

Timer == TypingBurstEnds \/ AutosaveFires \/ ValidateFires

Answer ==
    \/ \E s \in PutSlots : HostWrites(s) \/ HostRefuses(s) \/ SaveAnswered(s) \/ SaveFailed(s)
    \/ \E g \in GetSlots : LoadAnswered(g) \/ FileOpened(g) \/ OpenFailed(g)
    \/ FilesListed
    \/ \E check \in checks : ValidateAnswered(check)

Next == User \/ Timer \/ Answer

Spec == Init /\ [][Next]_vars

\* Timers fire and the host answers; the user owes nothing.
Fairness ==
    /\ WF_vars(TypingBurstEnds)
    /\ WF_vars(AutosaveFires)
    /\ WF_vars(ValidateFires)
    /\ WF_vars(FilesListed)
    /\ \A s \in PutSlots :
          /\ WF_vars(HostWrites(s) \/ HostRefuses(s))
          /\ WF_vars(SaveAnswered(s) \/ SaveFailed(s))
    /\ \A g \in GetSlots : WF_vars(LoadAnswered(g) \/ FileOpened(g) \/ OpenFailed(g))

FairSpec == Spec /\ Fairness

-----------------------------------------------------------------------------
(* Types.                                                                  *)

Stacks == Seq(Texts)

Documents ==
    [text : Texts \cup {NoText}, savedText : Texts \cup {NoText},
     doc : Texts \cup {NoDoc}, parseError : BOOLEAN, isDirty : BOOLEAN,
     undoStack : Stacks, redoStack : Stacks,
     canUndo : BOOLEAN, canRedo : BOOLEAN, validation : Verdicts]

PutRequests == [path : Files \cup {NoFile}, text : Texts,
                phase : {"sent", "written", "failed"}]

CheckRequests == [seq : Nat, text : Texts]

\* Every variable holds a value of its kind.
TypeOK ==
    /\ disk \in [Files -> Texts]
    /\ configPath \in Files \cup {NoFile}
    /\ open \in Documents
    /\ docCache \in [Files -> Documents]
    /\ status \in {"loading", "ready", "saving", "error"}
    /\ files \in SUBSET Files
    /\ autosave \in BOOLEAN
    /\ autosaveTimer \in BOOLEAN
    /\ typingBurstTimer \in BOOLEAN
    /\ validateTimer \in BOOLEAN
    /\ validateSeq \in Nat
    /\ puts \in [PutSlots -> PutRequests \cup {Idle}]
    /\ gets \in [GetSlots -> Files \cup {NoFile, Idle}]
    /\ checks \in SUBSET CheckRequests
    /\ listing \in BOOLEAN

-----------------------------------------------------------------------------
(* Safety.                                                                 *)

AllDocuments == {open} \cup {docCache[f] : f \in Files}

\* No file ever receives, on screen, in a snapshot, in a request or on disk,
\* a text, a parsed document or an undo entry that was made for another file,
\* whatever order switches, saves and answers come in ("mutations apply to the
\* open document only").  savedText, which a snapshot swaps too, is not among
\* them: see SavedTextStraysOnlyByLateAnswer.
TextsStayOnTheirFile ==
    LET Belongs(d, f) ==
          /\ TextOf[d.text] = f
          /\ d.doc # NoDoc => TextOf[d.doc] = f
          /\ \A i \in DOMAIN d.undoStack : TextOf[d.undoStack[i]] = f
          /\ \A i \in DOMAIN d.redoStack : TextOf[d.redoStack[i]] = f
    IN  /\ configPath # NoFile => Belongs(open, configPath)
        /\ \A f \in Files :
              /\ TextOf[disk[f]] = f
              /\ Cached(f) => Belongs(docCache[f], f)
        /\ \A s \in PutSlots :
              puts[s] # Idle =>
                  TextOf[puts[s].text] = ResolveConfigTarget(puts[s].path)

\* What the editor and the snapshot of a file take for saved is of that file.
SavedTextIsOwn(f) ==
    /\ configPath = f => TextOf[open.savedText] = f
    /\ Cached(f) => TextOf[docCache[f].savedText] = f

\* The answer to a write of another file comes in.
AnswersAnother(f) ==
    configPath = f /\ \E s \in PutSlots : SaveAnswered(s) /\ TextOf[puts[s].text] # f

\* Switches carry savedText from the editor to a snapshot and back, openings
\* read it from disk, and none of them gives a file another's: the one step
\* that does is a save answered after the file it wrote was left, whose
\* continuation hands its text to the file that is open by then
\* (appStore.ts:714 against 132-136).  From there a snapshot can carry it.
SavedTextStraysOnlyByLateAnswer ==
    [][\A f \in Files : SavedTextIsOwn(f) => SavedTextIsOwn(f)' \/ AnswersAnother(f)]_vars

\* Undo and redo entries together never exceed MAX_HISTORY, so the slice in
\* undo and redo never drops an entry the other stack gave up, and the two
\* buttons are enabled exactly when their stack has something to give back.
HistoryIsBounded ==
    \A d \in AllDocuments :
        /\ Len(d.undoStack) + Len(d.redoStack) <= MaxHistory
        /\ d.canUndo <=> d.undoStack # <<>>
        /\ d.canRedo <=> d.redoStack # <<>>

\* A keystroke inside a typing burst leaves the redo stack alone; that is
\* right only because no burst can be running while there is something to
\* redo.
NoRedoDuringBurst == typingBurstTimer => open.redoStack = <<>>

Timeline(d) == d.undoStack \o <<d.text>> \o Reverse(d.redoStack)

\* Undo and redo only move along the history: past, present and future keep
\* their order and none is lost or invented.
HistoryIsATimeline == [][Undo \/ Redo => Timeline(open') = Timeline(open)]_vars

\* The beforeunload prompt never rises for a file whose text is what the
\* editor believes is saved ("a confirmation prompt on a clean document").
DirtyMeansDifferent == \A d \in AllDocuments : d.isDirty => d.text # d.savedText

\* Snapshots of the files left behind change only when a load starts a new
\* session: no answer, timer or edit of the open file reaches them.
SnapshotsAreKept ==
    [][docCache' = NoSnapshots
       \/ \A f \in Files \ {configPath} : docCache'[f] = docCache[f]]_vars

\* The user comes back to a file that was open before.
Returns == \E f \in Files : SwitchToCached(f)

\* With autosave on, unsaved changes of a ready editor have an autosave coming.
AutosaveIsArmed == status = "ready" /\ autosave /\ open.isDirty => autosaveTimer

\* Nothing ever leaves a dirty document without its autosave, whatever edits,
\* skipped saves and late answers do to the one timer, but the way back to a
\* dirty file (appStore.ts:506): there it waits for the next edit.
UnarmedOnlyByReturning == [][AutosaveIsArmed => AutosaveIsArmed' \/ Returns]_vars

\* A ready editor has nothing on its way to disk, and what it takes for saved
\* is what is there ("The last text successfully written to disk"): a save is
\* never started over another one, whose text could arrive after its own.
SavedIsOnDisk ==
    status = "ready" =>
        /\ \A s \in PutSlots : puts[s] = Idle
        /\ disk[configPath] = open.savedText

Awaited == \E check \in checks : ~Superseded(check)

\* The "checking" badge has an answer to come.
CheckingIsAwaited == open.validation = "checking" => Awaited

\* No answer, edit, load or switch leaves the "checking" badge standing with
\* nothing to replace it, but the way back to a file that was left while it was
\* being checked: its snapshot kept the badge (appStore.ts:518).
CheckingForeverOnlyByReturning ==
    [][CheckingIsAwaited => CheckingIsAwaited' \/ Returns]_vars

\* A verdict that nothing is about to replace is the verdict on the text that
\* is in the editor, of the file that is open ("validation ... describes that
\* open file specifically").  A text that does not parse is not validated, and
\* the answer to a check of the text before it can become its badge.
VerdictIsOnTheText ==
    /\ status = "ready"
    /\ ~open.parseError
    /\ ~validateTimer /\ ~Awaited
    /\ open.validation \in {"valid", "invalid"}
    => open.validation = Verdict(open.text)

-----------------------------------------------------------------------------
(* What the source says of itself, where the code does otherwise.          *)

\* "`isDirty` is `text !== savedText`".
DirtyIsADifference == open.isDirty = (open.text # open.savedText)

\* "Never discards unsaved edits": when another file takes the editor, what
\* was in it is in the snapshot of the file it belonged to.
SwitchKeepsEdits ==
    [][configPath' # configPath /\ configPath # NoFile /\ docCache' # NoSnapshots
       => docCache'[configPath].text = open.text]_vars

-----------------------------------------------------------------------------
(* Liveness.                                                               *)

\* A save that was started ends, in success or in an error the user sees.
SaveSettles == status = "saving" ~> status # "saving"

\* Autosave: once the user stops editing, a dirty document stops being
\* dirty, or the user sees an error or turns autosave off.
AutosaveSettles ==
    \/ []<><<User>>_vars
    \/ autosave /\ open.isDirty ~> ~open.isDirty \/ status = "error" \/ ~autosave

=============================================================================
