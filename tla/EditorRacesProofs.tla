-------------------------- MODULE EditorRacesProofs --------------------------
(***************************************************************************)
(* Proofs about the races of EditorSession: what timers, late answers and  *)
(* switches can do to each other, for any number of files, texts and       *)
(* requests, and what they cannot do while the user does not switch files. *)
(***************************************************************************)
EXTENDS EditorSessionProofs

-----------------------------------------------------------------------------
(* What an edit leaves behind.                                             *)

\* revalidate's badge is the only field of the document it touches.
LEMMA RevalidatedFields ==
    ASSUME NEW f \in Files, NEW d, Good(d, f), NEW path, Revalidate(path, d)
    PROVE  /\ open'.text = d.text /\ open'.savedText = d.savedText
           /\ open'.isDirty = d.isDirty /\ open'.parseError = d.parseError
           /\ open'.validation = Badge(path, d)
           /\ validateTimer' = NeedsCheck(path, d)
<1> DEFINE verdict == Badge(path, d)
<1>1. open' = [d EXCEPT !.validation = verdict] /\ validateTimer' = NeedsCheck(path, d)
  BY DEF Revalidate
<1> HIDE DEF verdict
<1>2. /\ open'.text = d.text /\ open'.savedText = d.savedText
      /\ open'.isDirty = d.isDirty /\ open'.parseError = d.parseError
      /\ open'.validation = verdict
  BY <1>1 DEF Good, DocumentsOf
<1>3. QED
  BY <1>1, <1>2 DEF verdict

\* Every edit is an edit of the open file's own document, and marks it dirty
\* exactly when there is a difference.
LEMMA EditMarksDirt ==
    ASSUME Inv, Edit
    PROVE  /\ configPath \in Files /\ status \notin {"loading", "error"}
           /\ \E d : /\ Good(d, configPath) /\ Edited(d)
                     /\ d.isDirty = (d.text # d.savedText)
                     /\ d.validation = open.validation /\ d.savedText = open.savedText
<1>0. PanesShown
  BY DEF Edit, SetText, Mutate, MutationAllowed, Undo, Redo
<1>1. configPath \in Files /\ Good(open, configPath) /\ status \notin {"loading", "error"}
  BY <1>0, PanesNeedAFile DEF PanesShown
<1>2. ASSUME NEW text \in TextsOf(configPath)
      PROVE  LET typed == Typed(open, text)
                 remembered == Remembering(typed, open.text)
             IN  /\ Good(typed, configPath) /\ Good(remembered, configPath)
                 /\ typed.isDirty = (typed.text # typed.savedText)
                 /\ remembered.isDirty = (remembered.text # remembered.savedText)
                 /\ typed.validation = open.validation
                 /\ remembered.validation = open.validation
                 /\ typed.savedText = open.savedText
                 /\ remembered.savedText = open.savedText
  <2> DEFINE typed == Typed(open, text)
             remembered == Remembering(typed, open.text)
  <2>1. Good(typed, configPath) /\ open.text \in TextsOf(configPath)
    BY <1>1, TypedIsGood DEF Good, DocumentsOf
  <2>2. Good(remembered, configPath)
    BY <1>1, <2>1, RememberingIsGood
  <2>3. /\ typed.isDirty = (typed.text # typed.savedText)
        /\ typed.validation = open.validation /\ typed.savedText = open.savedText
    BY <1>1 DEF Typed, Good, DocumentsOf
  <2> HIDE DEF typed
  <2>4. /\ remembered.text = typed.text /\ remembered.savedText = typed.savedText
        /\ remembered.isDirty = typed.isDirty
        /\ remembered.validation = typed.validation
    BY <2>1 DEF Remembering, Good, DocumentsOf
  <2>5. QED
    BY <2>1, <2>2, <2>3, <2>4 DEF typed
<1>3. open.undoStack # <<>> =>
        /\ Good(Back(open), configPath)
        /\ Back(open).isDirty = (Back(open).text # Back(open).savedText)
        /\ Back(open).validation = open.validation
        /\ Back(open).savedText = open.savedText
  <2>1. open.undoStack # <<>> => Good(Back(open), configPath)
    BY <1>1, BackIsGood
  <2>2. /\ Back(open).text = Last(open.undoStack)
        /\ Back(open).savedText = open.savedText
        /\ Back(open).validation = open.validation
    BY <1>1 DEF Back, Restored, Good, DocumentsOf
  <2>3. Back(open).isDirty = (Last(open.undoStack) # open.savedText)
    BY <1>1 DEF Back, Restored, Good, DocumentsOf
  <2>4. QED
    BY <2>1, <2>2, <2>3
<1>4. open.redoStack # <<>> =>
        /\ Good(Forward(open), configPath)
        /\ Forward(open).isDirty = (Forward(open).text # Forward(open).savedText)
        /\ Forward(open).validation = open.validation
        /\ Forward(open).savedText = open.savedText
  <2>1. open.redoStack # <<>> => Good(Forward(open), configPath)
    BY <1>1, ForwardIsGood
  <2>2. /\ Forward(open).text = Last(open.redoStack)
        /\ Forward(open).savedText = open.savedText
        /\ Forward(open).validation = open.validation
    BY <1>1 DEF Forward, Restored, Good, DocumentsOf
  <2>3. Forward(open).isDirty = (Last(open.redoStack) # open.savedText)
    BY <1>1 DEF Forward, Restored, Good, DocumentsOf
  <2>4. QED
    BY <2>1, <2>2, <2>3
<1>5. QED
  BY <1>1, <1>2, <1>3, <1>4 DEF Edit, SetText, Mutate, Undo, Redo

\* What the parts of load and switchFile after their await leave on screen.
LEMMA OpenedIsClean ==
    ASSUME Inv, NEW g \in GetSlots, LoadAnswered(g) \/ FileOpened(g)
    PROVE  /\ open'.isDirty = FALSE /\ open'.text = open'.savedText
           /\ open'.validation \in {open.validation, "idle", "not-a-config"}
<1>1. PICK f \in Files : Revalidate(f, Fresh(disk[f], open.validation))
  BY FilesAssumption DEF LoadAnswered, FileOpened
<1> DEFINE d == Fresh(disk[f], open.validation)
<1>2. Good(d, f)
  BY FreshIsGood DEF Inv, TypeOK, DiskIsGood, Documents
<1>3. d.isDirty = FALSE /\ d.text = d.savedText /\ d.validation = open.validation
  BY DEF Fresh
<1> HIDE DEF d
<1>4. /\ open'.text = d.text /\ open'.savedText = d.savedText
      /\ open'.isDirty = d.isDirty /\ open'.validation = Badge(f, d)
  BY <1>1, <1>2, RevalidatedFields DEF d
<1>5. QED
  BY <1>3, <1>4 DEF Badge

\* A check that starts or is answered touches the badge and nothing else of
\* the document.
LEMMA CheckKeepsDocument ==
    ASSUME Inv, ValidateFires \/ \E check \in checks : ValidateAnswered(check)
    PROVE  /\ \E verdict : open' = [open EXCEPT !.validation = verdict] \/ open' = open
           /\ open'.text = open.text /\ open'.savedText = open.savedText
           /\ open'.isDirty = open.isDirty /\ open'.parseError = open.parseError
           /\ UNCHANGED <<configPath, docCache, status, files, autosave, autosaveTimer, puts, gets>>
<1>1. PICK verdict : open' = [open EXCEPT !.validation = verdict] \/ open' = open
  BY DEF ValidateFires, ValidateAnswered
<1>2. open \in Documents
  BY DEF Inv, TypeOK
<1>3. /\ open'.text = open.text /\ open'.savedText = open.savedText
      /\ open'.isDirty = open.isDirty /\ open'.parseError = open.parseError
  BY <1>1, <1>2 DEF Documents
<1>4. UNCHANGED <<configPath, docCache, status, files, autosave, autosaveTimer, puts, gets>>
  BY DEF ValidateFires, ValidateAnswered, timers
<1>5. QED
  BY <1>1, <1>3, <1>4

-----------------------------------------------------------------------------
(* What only the way back to a file can do.                                *)

\* One step of a session and its autosave.
LEMMA StepKeepsAutosave ==
    ASSUME Inv, Next, ~Returns, AutosaveIsArmed
    PROVE  AutosaveIsArmed'
<1>1. CASE Edit
  <2>1. PICK d : Good(d, configPath) /\ Edited(d) /\ configPath \in Files
    BY <1>1, EditMarksDirt
  <2>2. open'.isDirty = d.isDirty
    BY <2>1, RevalidatedFields DEF Edited
  <2>3. autosaveTimer' = (autosave /\ d.isDirty) /\ autosave' = autosave
    BY <2>1 DEF Edited
  <2>4. QED
    BY <2>2, <2>3, Zenon DEF AutosaveIsArmed
<1>2. CASE ToggleAutosave
  <2>1. autosaveTimer' = (autosave' /\ open.isDirty) /\ open' = open
    BY <1>2 DEF ToggleAutosave
  <2>2. QED
    BY <2>1, Zenon DEF AutosaveIsArmed
<1>3. CASE \/ StartSave \/ Load
           \/ \E f \in Files : SwitchToUnopened(f)
           \/ \E s \in PutSlots : SaveFailed(s)
           \/ \E g \in GetSlots : OpenFailed(g)
  <2>1. status' \in {"saving", "loading", "error"}
    BY <1>3 DEF StartSave, Load, SwitchToUnopened, SaveFailed, OpenFailed
  <2>2. QED
    BY <2>1 DEF AutosaveIsArmed
<1>4. CASE \E g \in GetSlots : LoadAnswered(g) \/ FileOpened(g)
  <2>1. open'.isDirty = FALSE
    BY <1>4, OpenedIsClean
  <2>2. QED
    BY <2>1 DEF AutosaveIsArmed
<1>5. CASE \E s \in PutSlots : SaveAnswered(s)
  <2>1. open'.isDirty = FALSE
    BY <1>5 DEF SaveAnswered, Inv, TypeOK, Documents
  <2>2. QED
    BY <2>1 DEF AutosaveIsArmed
<1>6. CASE SkipSave
  <2>1. status' = status /\ open' = open /\ ~(open.isDirty /\ status = "ready")
    BY <1>6 DEF SkipSave, SaveWouldWrite
  <2>2. QED
    BY <2>1, Zenon DEF AutosaveIsArmed
<1>7. CASE ValidateFires \/ \E check \in checks : ValidateAnswered(check)
  <2>1. UNCHANGED <<status, autosave, autosaveTimer>> /\ open'.isDirty = open.isDirty
    BY <1>7, CheckKeepsDocument
  <2>2. QED
    BY <2>1, Zenon DEF AutosaveIsArmed
<1>8. CASE \/ MutateThrows \/ TypingBurstEnds \/ FilesListed
           \/ \E s \in PutSlots : HostWrites(s) \/ HostRefuses(s)
  <2>1. UNCHANGED <<status, autosave, autosaveTimer, open>>
    BY <1>8 DEF MutateThrows, TypingBurstEnds, FilesListed, HostWrites, HostRefuses, timers
  <2>2. QED
    BY <2>1 DEF AutosaveIsArmed
<1>9. QED
  BY <1>1, <1>2, <1>3, <1>4, <1>5, <1>6, <1>7, <1>8
     DEF Next, User, Timer, Answer, SaveClicked, AutosaveFires, Returns

\* Nothing but the way back to a dirty file leaves unsaved changes without
\* their autosave, in sessions over any number of files (appStore.ts:506).
THEOREM AutosaveStaysArmed == Spec => UnarmedOnlyByReturning
<1>1. Inv /\ [Next]_vars => [AutosaveIsArmed => AutosaveIsArmed' \/ Returns]_vars
  BY StepKeepsAutosave
<1>2. QED
  BY <1>1, InvHolds, PTL DEF Spec, UnarmedOnlyByReturning

\* One step of a session and the badge.
LEMMA StepKeepsAwaiting ==
    ASSUME Inv, Next, ~Returns, CheckingIsAwaited
    PROVE  CheckingIsAwaited'
<1> USE DEF CheckingIsAwaited, Awaited, Superseded
<1>1. CASE open'.validation \in {open.validation, "idle", "not-a-config"}
             /\ UNCHANGED <<checks, validateSeq>>
  BY <1>1
<1>2. CASE Edit
  <2>1. PICK d : /\ Good(d, configPath) /\ Edited(d) /\ configPath \in Files
                 /\ d.validation = open.validation
    BY <1>2, EditMarksDirt
  <2>2. open'.validation = Badge(configPath, d)
    BY <2>1, RevalidatedFields DEF Edited
  <2>3. UNCHANGED <<checks, validateSeq>>
    BY <2>1 DEF Edited, requests
  <2>4. QED
    BY <1>1, <2>1, <2>2, <2>3 DEF Badge
<1>3. CASE \E g \in GetSlots : LoadAnswered(g) \/ FileOpened(g)
  <2>1. open'.validation \in {open.validation, "idle", "not-a-config"}
    BY <1>3, OpenedIsClean
  <2>2. UNCHANGED <<checks, validateSeq>>
    BY <1>3 DEF LoadAnswered, FileOpened
  <2>3. QED
    BY <1>1, <2>1, <2>2
<1>4. CASE ValidateFires
  <2>1. open'.validation = IF open.parseError THEN "idle" ELSE "checking"
    BY <1>4 DEF ValidateFires, Inv, TypeOK, Documents
  <2>2. ~open.parseError =>
            [seq |-> validateSeq + 1, text |-> open.text] \in checks' /\ validateSeq' = validateSeq + 1
    BY <1>4 DEF ValidateFires
  <2>3. QED
    BY <2>1, <2>2
<1>5. ASSUME NEW check \in checks, ValidateAnswered(check)
      PROVE  CheckingIsAwaited'
  <2>1. CASE Superseded(check)
    <3>1. checks' = checks \ {check} /\ UNCHANGED <<open, validateSeq>>
      BY <1>5, <2>1 DEF ValidateAnswered
    <3>2. QED
      BY <2>1, <3>1
  <2>2. CASE ~Superseded(check)
    <3>1. PICK verdict \in {Verdict(check.text), "unavailable"} :
              open' = [open EXCEPT !.validation = verdict]
      BY <1>5, <2>2 DEF ValidateAnswered
    <3>2. open'.validation = verdict
      BY <3>1 DEF Inv, TypeOK, Documents
    <3>3. QED
      BY <3>2 DEF Verdict
  <2>3. QED
    BY <2>1, <2>2
<1>6. CASE \E s \in PutSlots : SaveAnswered(s)
  <2>1. open'.validation = open.validation /\ UNCHANGED <<checks, validateSeq>>
    BY <1>6 DEF SaveAnswered, Inv, TypeOK, Documents
  <2>2. QED
    BY <1>1, <2>1
<1>7. CASE \/ StartSave \/ Load \/ SkipSave \/ ToggleAutosave
           \/ \E f \in Files : SwitchToUnopened(f)
           \/ \E s \in PutSlots : SaveFailed(s) \/ HostWrites(s) \/ HostRefuses(s)
           \/ \E g \in GetSlots : OpenFailed(g)
           \/ MutateThrows \/ TypingBurstEnds \/ FilesListed
  <2>1. UNCHANGED <<open, checks, validateSeq>>
    BY <1>7 DEF StartSave, Load, SkipSave, ToggleAutosave, SwitchToUnopened, SaveFailed,
                HostWrites, HostRefuses, OpenFailed, MutateThrows, TypingBurstEnds,
                FilesListed, timers, requests
  <2>2. QED
    BY <1>1, <2>1
<1>8. QED
  BY <1>2, <1>3, <1>4, <1>5, <1>6, <1>7
     DEF Next, User, Timer, Answer, SaveClicked, AutosaveFires, Returns

\* Nothing but the way back to a file that was left while it was checked puts
\* up a "checking" badge that no answer will replace (appStore.ts:518).
THEOREM CheckingStaysAwaited == Spec => CheckingForeverOnlyByReturning
<1>1. Inv /\ [Next]_vars => [CheckingIsAwaited => CheckingIsAwaited' \/ Returns]_vars
  BY StepKeepsAwaiting
<1>2. QED
  BY <1>1, InvHolds, PTL DEF Spec, CheckingForeverOnlyByReturning

-----------------------------------------------------------------------------
(* What only a late answer can do to the "unsaved" mark.                   *)

Marked(d) == d.isDirty = (d.text # d.savedText)

EveryDocumentMarked == \A d \in AllDocuments : Marked(d)

\* The answer to a save whose text is no longer the one in the editor.
LateAnswer == \E s \in PutSlots : SaveAnswered(s) /\ puts[s].text # open.text

\* The open document and the snapshots make up the documents.
LEMMA MarkedByParts ==
    EveryDocumentMarked <=> Marked(open) /\ \A f \in Files : Marked(docCache[f])
BY DEF EveryDocumentMarked, AllDocuments

\* One step of a session and the marks.
LEMMA StepKeepsMarks ==
    ASSUME Inv, Next, ~LateAnswer, EveryDocumentMarked
    PROVE  EveryDocumentMarked'
<1>1. Marked(open) /\ \A f \in Files : Marked(docCache[f])
  BY MarkedByParts
<1>2. (Marked(open) /\ \A f \in Files : Marked(docCache[f]))' => EveryDocumentMarked'
  BY DEF EveryDocumentMarked, AllDocuments
<1>3. CASE Edit
  <2>1. PICK d : /\ Good(d, configPath) /\ Edited(d) /\ configPath \in Files
                 /\ Marked(d)
    BY <1>3, EditMarksDirt DEF Marked
  <2>2. /\ open'.text = d.text /\ open'.savedText = d.savedText
        /\ open'.isDirty = d.isDirty
    BY <2>1, RevalidatedFields DEF Edited
  <2>3. docCache' = docCache
    BY <2>1 DEF Edited
  <2>4. Marked(open)'
    BY <2>1, <2>2, Zenon DEF Marked
  <2>5. QED
    BY <1>1, <1>2, <2>3, <2>4 DEF Marked
<1>4. CASE \E g \in GetSlots : LoadAnswered(g) \/ FileOpened(g)
  <2>1. Marked(open)'
    BY <1>4, OpenedIsClean DEF Marked
  <2>2. docCache' \in {docCache, NoSnapshots}
    BY <1>4 DEF LoadAnswered, FileOpened
  <2>3. \A f \in Files : Marked(NoSnapshots[f])
    BY DEF NoSnapshots, Blank, Fresh, Marked
  <2>4. QED
    BY <1>1, <1>2, <2>1, <2>2, <2>3 DEF Marked
<1>5. CASE \E s \in PutSlots : SaveAnswered(s)
  <2>1. PICK s \in PutSlots : SaveAnswered(s) /\ puts[s].text = open.text
    BY <1>5 DEF LateAnswer
  <2>2. /\ open'.text = open.text /\ open'.savedText = open.text
        /\ open'.isDirty = FALSE /\ docCache' = docCache
    BY <2>1 DEF SaveAnswered, Inv, TypeOK, Documents
  <2>3. QED
    BY <1>1, <1>2, <2>2 DEF Marked
<1>6. CASE ValidateFires \/ \E check \in checks : ValidateAnswered(check)
  <2>1. /\ open'.text = open.text /\ open'.savedText = open.savedText
        /\ open'.isDirty = open.isDirty /\ docCache' = docCache
    BY <1>6, CheckKeepsDocument
  <2>2. Marked(open)'
    BY <1>1, <2>1, Zenon DEF Marked
  <2>3. QED
    BY <1>1, <1>2, <2>1, <2>2 DEF Marked
<1>7. CASE \E f \in Files : SwitchToCached(f) \/ SwitchToUnopened(f)
  <2>1. docCache' = Leave /\ (open' = open \/ \E f \in Files : open' = docCache[f])
    BY <1>7 DEF SwitchToCached, SwitchToUnopened
  <2>2. \A f \in Files : Leave[f] \in {open, docCache[f]}
    BY DEF Leave, Inv, TypeOK
  <2>3. QED
    BY <1>1, <1>2, <2>1, <2>2 DEF Marked
<1>8. CASE \/ StartSave \/ Load \/ SkipSave \/ ToggleAutosave
           \/ \E s \in PutSlots : SaveFailed(s) \/ HostWrites(s) \/ HostRefuses(s)
           \/ \E g \in GetSlots : OpenFailed(g)
           \/ MutateThrows \/ TypingBurstEnds \/ FilesListed
  <2>1. UNCHANGED <<open, docCache>>
    BY <1>8 DEF StartSave, Load, SkipSave, ToggleAutosave, SaveFailed, HostWrites,
                HostRefuses, OpenFailed, MutateThrows, TypingBurstEnds, FilesListed
  <2>2. QED
    BY <1>1, <1>2, <2>1 DEF Marked
<1>9. QED
  BY <1>3, <1>4, <1>5, <1>6, <1>7, <1>8
     DEF Next, User, Timer, Answer, SaveClicked, AutosaveFires

\* "`isDirty` is `text !== savedText`" (appStore.ts:170) stops being true of the
\* open document or of a snapshot in one way only: the answer to a save whose
\* text is not the one in the editor any more.
THEOREM MarksFailByLateAnswer ==
    Spec => [][EveryDocumentMarked => EveryDocumentMarked' \/ LateAnswer]_vars
<1>1. Inv /\ [Next]_vars
      => [EveryDocumentMarked => EveryDocumentMarked' \/ LateAnswer]_vars
  BY StepKeepsMarks
<1>2. QED
  BY <1>1, InvHolds, PTL DEF Spec

-----------------------------------------------------------------------------
(* What only a late answer can do to the text taken for saved.             *)

\* A step that leaves the saved texts, or moves one with its own file.
LEMMA CarriedSavedTexts ==
    ASSUME NEW f \in Files, SavedTextIsOwn(f),
           \/ configPath' = configPath /\ open'.savedText = open.savedText
           \/ configPath' = f => TextOf[open'.savedText] = f,
           Cached(f)' => \/ docCache'[f] = docCache[f]
                         \/ configPath = f /\ docCache'[f] = open
    PROVE  SavedTextIsOwn(f)'
<1>1. (configPath = f => TextOf[open.savedText] = f)'
  BY DEF SavedTextIsOwn
<1>2. (Cached(f) => TextOf[docCache[f].savedText] = f)'
  BY DEF SavedTextIsOwn, Cached
<1>3. QED
  BY <1>1, <1>2 DEF SavedTextIsOwn

\* One step of a session and the saved texts.
LEMMA StepKeepsSavedTexts ==
    ASSUME Inv, Inv', Next, NEW f \in Files, ~AnswersAnother(f), SavedTextIsOwn(f)
    PROVE  SavedTextIsOwn(f)'
<1>1. CASE /\ configPath' = configPath /\ open'.savedText = open.savedText
           /\ docCache' = docCache
  BY <1>1, CarriedSavedTexts
<1>2. CASE Edit
  <2>1. PICK d : /\ Good(d, configPath) /\ Edited(d) /\ configPath \in Files
                 /\ d.savedText = open.savedText
    BY <1>2, EditMarksDirt
  <2>2. open'.savedText = d.savedText
    BY <2>1, RevalidatedFields DEF Edited
  <2>3. configPath' = configPath /\ docCache' = docCache
    BY <2>1 DEF Edited
  <2>4. QED
    BY <1>1, <2>1, <2>2, <2>3
<1>3. CASE ValidateFires \/ \E check \in checks : ValidateAnswered(check)
  BY <1>1, <1>3, CheckKeepsDocument
<1>4. CASE \E g \in GetSlots : LoadAnswered(g) \/ FileOpened(g)
  <2>1. open'.text = open'.savedText
    BY <1>4, OpenedIsClean
  <2>2. configPath' \in Files
    BY <1>4, FilesAssumption DEF LoadAnswered, FileOpened
  <2>3. Good(open', configPath')
    BY <2>2, FilesAssumption DEF Inv, OpenIsGood
  <2>4. TextOf[open'.savedText] = configPath'
    BY <2>1, <2>3 DEF Good, DocumentsOf, TextsOf
  <2>5. docCache' \in {docCache, NoSnapshots}
    BY <1>4 DEF LoadAnswered, FileOpened
  <2>6. Cached(f)' => docCache'[f] = docCache[f]
    BY <2>5 DEF Cached, NoSnapshots
  <2>7. QED
    BY <2>4, <2>6, CarriedSavedTexts
<1>5. ASSUME NEW s \in PutSlots, SaveAnswered(s)
      PROVE  SavedTextIsOwn(f)'
  <2>1. /\ open'.savedText = puts[s].text
        /\ configPath' = configPath /\ docCache' = docCache
    BY <1>5 DEF SaveAnswered, Inv, TypeOK, Documents
  <2>2. configPath' = f => TextOf[open'.savedText] = f
    BY <1>5, <2>1 DEF AnswersAnother
  <2>3. QED
    BY <2>1, <2>2, CarriedSavedTexts
<1>6. ASSUME NEW h \in Files, SwitchToCached(h) \/ SwitchToUnopened(h)
      PROVE  SavedTextIsOwn(f)'
  <2>1. docCache' = Leave
    BY <1>6 DEF SwitchToCached, SwitchToUnopened
  <2>2. docCache'[f] = IF configPath = f THEN open ELSE docCache[f]
    BY <2>1 DEF Leave, Inv, TypeOK
  <2>3. CASE SwitchToCached(h)
    <3>1. configPath' = h /\ open' = docCache[h] /\ Cached(h)
      BY <2>3 DEF SwitchToCached
    <3>2. configPath' = f => TextOf[open'.savedText] = f
      BY <3>1 DEF SavedTextIsOwn
    <3>3. QED
      BY <2>2, <3>2, CarriedSavedTexts
  <2>4. CASE SwitchToUnopened(h)
    <3>1. configPath' = configPath /\ open' = open
      BY <2>4 DEF SwitchToUnopened
    <3>2. QED
      BY <2>2, <3>1, CarriedSavedTexts
  <2>5. QED
    BY <1>6, <2>3, <2>4
<1>7. CASE \/ StartSave \/ Load \/ SkipSave \/ ToggleAutosave
           \/ \E s \in PutSlots : SaveFailed(s) \/ HostWrites(s) \/ HostRefuses(s)
           \/ \E g \in GetSlots : OpenFailed(g)
           \/ MutateThrows \/ TypingBurstEnds \/ FilesListed
  <2>1. UNCHANGED <<configPath, open, docCache>>
    BY <1>7 DEF StartSave, Load, SkipSave, ToggleAutosave, SaveFailed, HostWrites,
                HostRefuses, OpenFailed, MutateThrows, TypingBurstEnds, FilesListed
  <2>2. QED
    BY <1>1, <2>1
<1>8. QED
  BY <1>2, <1>3, <1>4, <1>5, <1>6, <1>7
     DEF Next, User, Timer, Answer, SaveClicked, AutosaveFires

\* A file's saved text, in the editor or in its snapshot, becomes another
\* file's in one way only: the answer to a save comes in after the file it
\* wrote was left, and its continuation takes the open document for the one it
\* saved (appStore.ts:714).
THEOREM SavedTextStrays == Spec => SavedTextStraysOnlyByLateAnswer
<1>1. Inv /\ Inv' /\ [Next]_vars
      => [\A f \in Files : SavedTextIsOwn(f) => SavedTextIsOwn(f)' \/ AnswersAnother(f)]_vars
  BY StepKeepsSavedTexts
<1>2. QED
  BY <1>1, InvHolds, PTL DEF Spec, SavedTextStraysOnlyByLateAnswer

-----------------------------------------------------------------------------
(* Sessions that stay on the file they opened.                             *)

Switches == \E f \in Files : SwitchToCached(f) \/ SwitchToUnopened(f)

\* save never starts a write over another.
OneWriteInFlight ==
    \A s1, s2 \in PutSlots : puts[s1] # Idle /\ puts[s2] # Idle => s1 = s2

\* The status says what is in flight: one load or one write, never both.
StatusTells ==
    /\ configPath \in {NoFile, Primary}
    /\ \A g \in GetSlots : gets[g] # Idle => gets[g] = NoFile /\ status = "loading"
    /\ \A g, h \in GetSlots : gets[g] # Idle /\ gets[h] # Idle => g = h
    /\ \A s \in PutSlots : puts[s] # Idle => status = "saving"
    /\ OneWriteInFlight
    /\ status = "loading" => ~autosaveTimer

\* The page mounts with one load in flight.
LEMMA InitImpliesStatusTells == Init => StatusTells
BY RequestsAssumption DEF Init, StatusTells, OneWriteInFlight

\* save and load send one request, from a status that says nothing is in
\* flight.
LEMMA SendingKeepsStatusTells ==
    ASSUME Inv, StatusTells, Load \/ SaveClicked \/ (autosaveTimer /\ StartSave)
    PROVE  StatusTells'
<1>1. CASE Load
  <2>1. /\ \A s \in PutSlots : puts[s] = Idle
        /\ \A g \in GetSlots : gets[g] = Idle
    BY <1>1 DEF Load, StatusTells
  <2>2. PICK g \in GetSlots : gets' = [gets EXCEPT ![g] = NoFile]
    BY <1>1 DEF Load
  <2>3. \A h \in GetSlots : gets'[h] = IF h = g THEN NoFile ELSE Idle
    BY <2>1, <2>2 DEF Inv, TypeOK
  <2>4. /\ status' = "loading" /\ ~autosaveTimer'
        /\ configPath' = configPath /\ puts' = puts
    BY <1>1 DEF Load
  <2>5. QED
    BY <2>1, <2>3, <2>4 DEF StatusTells, OneWriteInFlight
<1>2. CASE SaveClicked \/ (autosaveTimer /\ StartSave)
  <2>1. status \notin {"loading", "saving"} /\ StartSave
    BY <1>2 DEF SaveClicked, PanesShown, StartSave, SaveWouldWrite, StatusTells
  <2>2. /\ \A s \in PutSlots : puts[s] = Idle
        /\ \A g \in GetSlots : gets[g] = Idle
    BY <2>1 DEF StatusTells
  <2>3. PICK s \in PutSlots : \E request : puts' = [puts EXCEPT ![s] = request]
    BY <2>1 DEF StartSave
  <2>4. \A r \in PutSlots : r # s => puts'[r] = Idle
    BY <2>2, <2>3 DEF Inv, TypeOK
  <2>5. status' = "saving" /\ configPath' = configPath /\ gets' = gets
    BY <2>1 DEF StartSave
  <2>6. QED
    BY <2>2, <2>4, <2>5 DEF StatusTells, OneWriteInFlight
<1>3. QED
  BY <1>1, <1>2

\* The host's part of a save: it stays in flight.
LEMMA WritingKeepsStatusTells ==
    ASSUME Inv, StatusTells, NEW s \in PutSlots, HostWrites(s) \/ HostRefuses(s)
    PROVE  StatusTells'
<1>1. \A r \in PutSlots : puts'[r] # Idle => puts[r] # Idle
  BY DEF HostWrites, HostRefuses, Inv, TypeOK
<1>2. UNCHANGED <<configPath, gets, status, autosaveTimer>>
  BY DEF HostWrites, HostRefuses, timers
<1>3. QED
  BY <1>1, <1>2 DEF StatusTells, OneWriteInFlight

\* An answer ends the one request there was.
LEMMA AnswerKeepsStatusTells ==
    ASSUME Inv, StatusTells,
           \/ \E s \in PutSlots : SaveAnswered(s) \/ SaveFailed(s)
           \/ \E g \in GetSlots : LoadAnswered(g) \/ FileOpened(g) \/ OpenFailed(g)
    PROVE  StatusTells'
<1>1. CASE \E s \in PutSlots : SaveAnswered(s) \/ SaveFailed(s)
  <2>1. PICK s \in PutSlots : SaveAnswered(s) \/ SaveFailed(s)
    BY <1>1
  <2>2. puts[s] # Idle /\ puts' = [puts EXCEPT ![s] = Idle]
    BY <2>1 DEF SaveAnswered, SaveFailed
  <2>3. \A r \in PutSlots : puts'[r] = Idle
    BY <2>2 DEF StatusTells, OneWriteInFlight, Inv, TypeOK
  <2>4. \A g \in GetSlots : gets[g] = Idle
    BY <2>2 DEF StatusTells
  <2>5. /\ configPath' = configPath /\ gets' = gets
        /\ status' \in {"ready", "error"}
    BY <2>1 DEF SaveAnswered, SaveFailed
  <2>6. QED
    BY <2>3, <2>4, <2>5 DEF StatusTells, OneWriteInFlight
<1>2. CASE \E g \in GetSlots : LoadAnswered(g) \/ FileOpened(g) \/ OpenFailed(g)
  <2>1. PICK g \in GetSlots : LoadAnswered(g) \/ FileOpened(g) \/ OpenFailed(g)
    BY <1>2
  <2>2. gets[g] # Idle /\ gets' = [gets EXCEPT ![g] = Idle]
    BY <2>1, RequestsAssumption DEF LoadAnswered, FileOpened, OpenFailed
  <2>3. \A h \in GetSlots : gets'[h] = Idle
    BY <2>2 DEF StatusTells, Inv, TypeOK
  <2>4. \A s \in PutSlots : puts[s] = Idle
    BY <2>2 DEF StatusTells
  <2>5. configPath' \in {configPath, Primary}
    <3>1. ~FileOpened(g)
      BY <2>2, FilesAssumption DEF FileOpened, StatusTells
    <3>2. QED
      BY <2>1, <3>1 DEF LoadAnswered, OpenFailed
  <2>6. puts' = puts /\ status' \in {"ready", "error"}
    BY <2>1 DEF LoadAnswered, FileOpened, OpenFailed
  <2>7. QED
    BY <2>3, <2>4, <2>5, <2>6 DEF StatusTells, OneWriteInFlight
<1>3. QED
  BY <1>1, <1>2

\* One step of a session that stays on its file.
LEMMA StayingKeepsStatusTells ==
    ASSUME Inv, StatusTells, Next, ~Switches
    PROVE  StatusTells'
<1>1. CASE Edit \/ ToggleAutosave
  <2>1. status # "loading"
    BY <1>1 DEF Edit, SetText, Mutate, MutationAllowed, Undo, Redo, ToggleAutosave, PanesShown
  <2>2. UNCHANGED <<configPath, gets, puts, status>>
    BY <1>1 DEF Edit, SetText, Mutate, Undo, Redo, Edited, ToggleAutosave, requests
  <2>3. QED
    BY <2>1, <2>2 DEF StatusTells, OneWriteInFlight
<1>2. CASE \/ MutateThrows \/ TypingBurstEnds \/ SkipSave \/ FilesListed
           \/ ValidateFires \/ \E check \in checks : ValidateAnswered(check)
  <2>1. UNCHANGED <<configPath, gets, puts, status>> /\ (autosaveTimer' => autosaveTimer)
    BY <1>2 DEF MutateThrows, TypingBurstEnds, SkipSave, FilesListed, ValidateFires,
                ValidateAnswered, timers, requests
  <2>2. QED
    BY <2>1 DEF StatusTells, OneWriteInFlight
<1>3. QED
  BY <1>1, <1>2, SendingKeepsStatusTells, WritingKeepsStatusTells, AnswerKeepsStatusTells
     DEF Next, User, Timer, Answer, AutosaveFires, Switches

\* In a session that stays on one file the status tells what is in flight.
LEMMA StatusTellsWhileStaying == Spec /\ [][~Switches]_vars => []StatusTells
<1>1. Inv /\ StatusTells /\ [Next]_vars /\ [~Switches]_vars => StatusTells'
  <2> SUFFICES ASSUME Inv, StatusTells, [Next]_vars, [~Switches]_vars
               PROVE  StatusTells'
    OBVIOUS
  <2>1. CASE UNCHANGED vars
    BY <2>1 DEF vars, timers, requests, StatusTells, OneWriteInFlight
  <2>2. CASE Next /\ ~Switches
    BY <2>2, StayingKeepsStatusTells
  <2>3. QED
    BY <2>1, <2>2
<1>2. QED
  BY <1>1, InitImpliesStatusTells, InvHolds, PTL DEF Spec

\* What was written is on disk, and what the editor takes for saved is too.
DiskTells ==
    /\ \A s \in PutSlots :
          puts[s] # Idle =>
              /\ puts[s].path = NoFile
              /\ puts[s].phase = "written" => disk[Primary] = puts[s].text
    /\ status = "ready" => disk[Primary] = open.savedText

\* What leaves the disk, the writes and the saved text alone.
LEMMA ElsewhereKeepsDisk ==
    ASSUME DiskTells, UNCHANGED <<disk, puts>>, status' = "ready" => status = "ready",
           open'.savedText = open.savedText
    PROVE  DiskTells'
BY DEF DiskTells

\* A save captures the text, and the primary file as the one without a ?path=.
LEMMA SavingKeepsDisk ==
    ASSUME Inv, StatusTells, DiskTells, StartSave
    PROVE  DiskTells'
<1>1. PICK s \in PutSlots :
          puts' = [puts EXCEPT ![s] = [path |-> TargetPath(configPath),
                                       text |-> open.text, phase |-> "sent"]]
  BY DEF StartSave
<1>2. TargetPath(configPath) = NoFile
  BY DEF TargetPath, StatusTells
<1>3. puts'[s].path = NoFile /\ puts'[s].phase = "sent"
  BY <1>1, <1>2 DEF Inv, TypeOK
<1>4. \A r \in PutSlots : r # s => puts'[r] = puts[r]
  BY <1>1 DEF Inv, TypeOK
<1>5. status' = "saving" /\ disk' = disk
  BY DEF StartSave
<1>6. QED
  BY <1>3, <1>4, <1>5 DEF DiskTells

\* The host's part of the one write in flight.
LEMMA WritingKeepsDisk ==
    ASSUME Inv, StatusTells, DiskTells, NEW s \in PutSlots, HostWrites(s) \/ HostRefuses(s)
    PROVE  DiskTells'
<1>1. status' = "saving"
  BY DEF HostWrites, HostRefuses, StatusTells
<1>2. puts[s] \in PutRequests /\ puts[s].path = NoFile
  BY DEF HostWrites, HostRefuses, DiskTells, Inv, TypeOK
<1>3. \A r \in PutSlots : r # s => puts[r] = Idle
  BY DEF HostWrites, HostRefuses, StatusTells, OneWriteInFlight
<1>4. PICK outcome \in {"written", "failed"} : puts' = [puts EXCEPT ![s].phase = outcome]
  BY DEF HostWrites, HostRefuses
<1>5. /\ puts'[s] = [puts[s] EXCEPT !.phase = outcome]
      /\ \A r \in PutSlots : r # s => puts'[r] = Idle
  BY <1>3, <1>4 DEF Inv, TypeOK
<1>6. /\ puts'[s].path = NoFile /\ puts'[s].phase = outcome
      /\ puts'[s].text = puts[s].text
  BY <1>2, <1>5 DEF PutRequests
<1>7. outcome = "written" => disk'[Primary] = puts[s].text
  <2>1. CASE HostWrites(s)
    <3>1. disk' = [disk EXCEPT ![Primary] = puts[s].text]
      BY <1>2, <2>1 DEF HostWrites, ResolveConfigTarget
    <3>2. QED
      BY <3>1, FilesAssumption DEF Inv, TypeOK
  <2>2. CASE HostRefuses(s)
    <3>1. puts' = [puts EXCEPT ![s].phase = "failed"]
      BY <2>2 DEF HostRefuses
    <3>2. puts'[s].phase = "failed"
      BY <1>2, <3>1 DEF PutRequests, Inv, TypeOK
    <3>3. QED
      BY <1>6, <3>2
  <2>3. QED
    BY <2>1, <2>2
<1>8. QED
  BY <1>1, <1>5, <1>6, <1>7 DEF DiskTells

\* The end of a save, and of a load.
LEMMA AnswerKeepsDisk ==
    ASSUME Inv, StatusTells, DiskTells,
           \/ \E s \in PutSlots : SaveAnswered(s) \/ SaveFailed(s)
           \/ \E g \in GetSlots : LoadAnswered(g) \/ FileOpened(g) \/ OpenFailed(g)
    PROVE  DiskTells'
<1>1. ASSUME NEW s \in PutSlots, SaveAnswered(s) \/ SaveFailed(s)
      PROVE  DiskTells'
  <2>1. /\ puts[s] # Idle /\ puts' = [puts EXCEPT ![s] = Idle] /\ disk' = disk
    BY <1>1 DEF SaveAnswered, SaveFailed
  <2>2. \A r \in PutSlots : puts'[r] = Idle
    BY <2>1 DEF StatusTells, OneWriteInFlight, Inv, TypeOK
  <2>3. status' = "ready" => disk'[Primary] = open'.savedText
    <3>1. CASE SaveAnswered(s)
      <4>1. open'.savedText = puts[s].text
        BY <3>1 DEF SaveAnswered, Inv, TypeOK, Documents
      <4>2. disk[Primary] = puts[s].text
        BY <3>1 DEF SaveAnswered, DiskTells
      <4>3. QED
        BY <2>1, <4>1, <4>2
    <3>2. CASE SaveFailed(s)
      BY <3>2 DEF SaveFailed
    <3>3. QED
      BY <1>1, <3>1, <3>2
  <2>4. QED
    BY <2>2, <2>3 DEF DiskTells
<1>2. ASSUME NEW g \in GetSlots, LoadAnswered(g)
      PROVE  DiskTells'
  <2> DEFINE d == Fresh(disk[Primary], open.validation)
  <2>1. puts' = puts /\ disk' = disk /\ Revalidate(Primary, d)
    BY <1>2 DEF LoadAnswered
  <2>2. Good(d, Primary)
    BY FilesAssumption, FreshIsGood DEF Inv, TypeOK, DiskIsGood, Documents
  <2>3. d.savedText = disk[Primary]
    BY DEF Fresh
  <2> HIDE DEF d
  <2>4. open'.savedText = disk'[Primary]
    BY <2>1, <2>2, <2>3, FilesAssumption, RevalidatedFields
  <2>5. QED
    BY <2>1, <2>4 DEF DiskTells
<1>3. ASSUME NEW g \in GetSlots, OpenFailed(g)
      PROVE  DiskTells'
  BY <1>3 DEF OpenFailed, DiskTells
<1>4. \A g \in GetSlots : ~FileOpened(g)
  BY FilesAssumption, RequestsAssumption DEF FileOpened, StatusTells
<1>5. QED
  BY <1>1, <1>2, <1>3, <1>4

\* One step of a session that stays on its file.
LEMMA StayingKeepsDisk ==
    ASSUME Inv, StatusTells, DiskTells, Next, ~Switches
    PROVE  DiskTells'
<1>1. CASE Edit
  <2>1. PICK d : /\ Good(d, configPath) /\ Edited(d) /\ configPath \in Files
                 /\ d.savedText = open.savedText
    BY <1>1, EditMarksDirt
  <2>2. open'.savedText = open.savedText
    BY <2>1, RevalidatedFields DEF Edited
  <2>3. UNCHANGED <<disk, puts, status>>
    BY <2>1 DEF Edited, requests
  <2>4. QED
    BY <2>2, <2>3, ElsewhereKeepsDisk
<1>2. CASE ValidateFires \/ \E check \in checks : ValidateAnswered(check)
  <2>1. open'.savedText = open.savedText /\ UNCHANGED <<status, puts>>
    BY <1>2, CheckKeepsDocument
  <2>2. disk' = disk
    BY <1>2 DEF ValidateFires, ValidateAnswered
  <2>3. QED
    BY <2>1, <2>2, ElsewhereKeepsDisk
<1>3. CASE \/ MutateThrows \/ TypingBurstEnds \/ SkipSave \/ FilesListed
           \/ ToggleAutosave \/ Load
  <2>1. UNCHANGED <<disk, puts, open>> /\ (status' = "ready" => status = "ready")
    BY <1>3 DEF MutateThrows, TypingBurstEnds, SkipSave, FilesListed, ToggleAutosave, Load,
                timers, requests
  <2>2. QED
    BY <2>1, ElsewhereKeepsDisk
<1>4. QED
  BY <1>1, <1>2, <1>3, SavingKeepsDisk, WritingKeepsDisk, AnswerKeepsDisk
     DEF Next, User, Timer, Answer, SaveClicked, AutosaveFires, Switches

\* While the user stays on one file, however many the switcher offers, save
\* never writes over a write, and what a ready editor takes for saved is on
\* disk: only a switch resets the status that save checks (appStore.ts:714).
THEOREM SavedWhileStaying == Spec /\ [][~Switches]_vars => []SavedIsOnDisk
<1>1. Init => DiskTells
  BY DEF Init, DiskTells
<1>2. Inv /\ StatusTells /\ DiskTells /\ [Next]_vars /\ [~Switches]_vars => DiskTells'
  <2> SUFFICES ASSUME Inv, StatusTells, DiskTells, [Next]_vars, [~Switches]_vars
               PROVE  DiskTells'
    OBVIOUS
  <2>1. CASE UNCHANGED vars
    BY <2>1, ElsewhereKeepsDisk DEF vars, timers, requests
  <2>2. CASE Next /\ ~Switches
    BY <2>2, StayingKeepsDisk
  <2>3. QED
    BY <2>1, <2>2
<1>3. Inv /\ StatusTells /\ DiskTells => SavedIsOnDisk
  BY FilesAssumption DEF Inv, OpenIsGood, StatusTells, DiskTells, SavedIsOnDisk
<1>4. QED
  BY <1>1, <1>2, <1>3, StatusTellsWhileStaying, InvHolds, PTL DEF Spec

\* A project of one file gives the user nothing to switch to.
LEMMA OneFileStays ==
    ASSUME Files = {Primary}
    PROVE  Spec => [][~Switches]_vars
<1>1. Inv => ~Switches
  BY DEF Inv, TypeOK, OpenIsGood, Switches, SwitchToCached, SwitchToUnopened, SwitcherOffers
<1>2. QED
  BY <1>1, InvHolds, PTL

\* So in a project with one config file the saved text is always on disk.
THEOREM SavedInOneFile ==
    ASSUME Files = {Primary}
    PROVE  Spec => []SavedIsOnDisk
BY OneFileStays, SavedWhileStaying, PTL

-----------------------------------------------------------------------------
(* The badge of a session that stays on its file.                          *)

\* Once no check is due, the latest one is a check of the text in the editor:
\* a text that changed after it has its own on the way, or does not parse.
LatestIsOnTheText ==
    /\ \A check \in checks : check.seq <= validateSeq
    /\ ~validateTimer /\ ~open.parseError =>
          /\ \A check \in checks : ~Superseded(check) => check.text = open.text
          /\ open.validation \in {"valid", "invalid"} /\ ~Awaited
             => open.validation = Verdict(open.text)

\* Nothing was checked yet.
LEMMA InitImpliesLatest == Init => LatestIsOnTheText
<1>1. Blank.validation = "idle"
  BY BlankIsADocument DEF Blank, Fresh
<1>2. QED
  BY <1>1 DEF Init, LatestIsOnTheText

\* What happens to a text that gets a check of its own, or none.
LEMMA DueKeepsLatest ==
    ASSUME LatestIsOnTheText, validateTimer' \/ open'.parseError,
           UNCHANGED <<checks, validateSeq>>
    PROVE  LatestIsOnTheText'
BY DEF LatestIsOnTheText

\* What leaves the text, its badge and the checks alone.
LEMMA ElsewhereKeepsLatest ==
    ASSUME LatestIsOnTheText,
           UNCHANGED <<checks, validateSeq, validateTimer>>,
           open'.text = open.text, open'.parseError = open.parseError,
           open'.validation = open.validation
    PROVE  LatestIsOnTheText'
BY DEF LatestIsOnTheText, Superseded, Awaited

\* A check starts: the others are superseded.
LEMMA CheckingKeepsLatest ==
    ASSUME Inv, LatestIsOnTheText, ValidateFires
    PROVE  LatestIsOnTheText'
<1>1. open'.text = open.text /\ open'.parseError = open.parseError
  BY CheckKeepsDocument
<1>2. CASE open.parseError
  <2>1. validateSeq' = validateSeq + 1 /\ checks' = checks
    BY <1>2 DEF ValidateFires
  <2>2. validateSeq \in Nat /\ checks \subseteq CheckRequests
    BY DEF Inv, TypeOK
  <2>3. \A check \in checks' : check.seq <= validateSeq'
    BY <2>1, <2>2 DEF LatestIsOnTheText, CheckRequests
  <2>4. QED
    BY <1>1, <1>2, <2>3 DEF LatestIsOnTheText
<1>3. CASE ~open.parseError
  <2> DEFINE new == [seq |-> validateSeq + 1, text |-> open.text]
  <2>1. validateSeq' = validateSeq + 1 /\ checks' = checks \cup {new}
    BY <1>3 DEF ValidateFires
  <2>2. validateSeq \in Nat /\ checks \subseteq CheckRequests
    BY DEF Inv, TypeOK
  <2>3. \A check \in checks : check.seq \in Nat /\ check.seq <= validateSeq
    BY <2>2 DEF LatestIsOnTheText, CheckRequests
  <2>4. new.seq = validateSeq' /\ new.text = open'.text
    BY <1>1, <2>1
  <2> HIDE DEF new
  <2>5. \A check \in checks' : check.seq <= validateSeq' /\ (check.seq = validateSeq' => check = new)
    BY <2>1, <2>2, <2>3, <2>4
  <2>6. \A check \in checks' : ~Superseded(check)' => check.text = open'.text
    BY <2>4, <2>5 DEF Superseded
  <2>7. open'.validation = "checking"
    BY <1>3 DEF ValidateFires, Inv, TypeOK, Documents
  <2>8. QED
    BY <2>5, <2>6, <2>7 DEF LatestIsOnTheText
<1>4. QED
  BY <1>2, <1>3

\* An answer: the latest sets the badge, any other is dropped.
LEMMA VerdictKeepsLatest ==
    ASSUME Inv, LatestIsOnTheText, NEW check \in checks, ValidateAnswered(check)
    PROVE  LatestIsOnTheText'
<1>1. /\ open'.text = open.text /\ open'.parseError = open.parseError
      /\ checks' = checks \ {check} /\ UNCHANGED <<validateSeq, validateTimer>>
  BY CheckKeepsDocument DEF ValidateAnswered, timers
<1>2. CASE Superseded(check)
  <2>1. open' = open
    BY <1>2 DEF ValidateAnswered
  <2>2. Awaited => Awaited'
    BY <1>1, <1>2 DEF Awaited, Superseded
  <2>3. QED
    BY <1>1, <2>1, <2>2 DEF LatestIsOnTheText, Superseded
<1>3. CASE ~Superseded(check)
  <2>1. PICK verdict \in {Verdict(check.text), "unavailable"} :
            open' = [open EXCEPT !.validation = verdict]
    BY <1>3 DEF ValidateAnswered
  <2>2. open'.validation = verdict
    BY <2>1 DEF Inv, TypeOK, Documents
  <2>3. ~validateTimer /\ ~open.parseError => check.text = open.text
    BY <1>3 DEF LatestIsOnTheText
  <2>4. QED
    BY <1>1, <2>2, <2>3 DEF LatestIsOnTheText, Superseded
<1>4. QED
  BY <1>2, <1>3

\* One step of a session that stays on its file.
LEMMA StayingKeepsLatest ==
    ASSUME Inv, StatusTells, LatestIsOnTheText, Next, ~Switches
    PROVE  LatestIsOnTheText'
<1>1. ~KnownNotConfig(Primary)
  BY FilesAssumption DEF KnownNotConfig
<1>2. CASE Edit
  <2>1. PICK d : Good(d, configPath) /\ Edited(d) /\ configPath \in Files
    BY <1>2, EditMarksDirt
  <2>2. configPath = Primary
    BY <2>1, FilesAssumption DEF StatusTells
  <2>3. open'.parseError = d.parseError /\ validateTimer' = NeedsCheck(configPath, d)
    BY <2>1, RevalidatedFields DEF Edited
  <2>4. validateTimer' \/ open'.parseError
    BY <1>1, <2>2, <2>3, Zenon DEF NeedsCheck
  <2>5. UNCHANGED <<checks, validateSeq>>
    BY <2>1 DEF Edited, requests
  <2>6. QED
    BY <2>4, <2>5, DueKeepsLatest
<1>3. CASE \E g \in GetSlots : LoadAnswered(g) \/ FileOpened(g)
  <2>1. PICK g \in GetSlots : LoadAnswered(g) \/ FileOpened(g)
    BY <1>3
  <2>2. LoadAnswered(g)
    BY <2>1, FilesAssumption, RequestsAssumption DEF FileOpened, StatusTells
  <2> DEFINE d == Fresh(disk[Primary], open.validation)
  <2>3. open'.parseError = d.parseError /\ validateTimer' = NeedsCheck(Primary, d)
    <3>1. Good(d, Primary) /\ Revalidate(Primary, d)
      BY <2>2, FilesAssumption, FreshIsGood
         DEF LoadAnswered, Inv, TypeOK, DiskIsGood, Documents
    <3> HIDE DEF d
    <3>2. QED
      BY <3>1, FilesAssumption, RevalidatedFields
  <2> HIDE DEF d
  <2>4. validateTimer' \/ open'.parseError
    BY <1>1, <2>3, Zenon DEF NeedsCheck
  <2>5. UNCHANGED <<checks, validateSeq>>
    BY <2>2 DEF LoadAnswered
  <2>6. QED
    BY <2>4, <2>5, DueKeepsLatest
<1>4. CASE \E s \in PutSlots : SaveAnswered(s)
  <2>1. /\ open'.text = open.text /\ open'.parseError = open.parseError
        /\ open'.validation = open.validation
        /\ UNCHANGED <<checks, validateSeq, validateTimer>>
    BY <1>4 DEF SaveAnswered, Inv, TypeOK, Documents, timers
  <2>2. QED
    BY <2>1, ElsewhereKeepsLatest
<1>5. CASE \/ StartSave \/ Load \/ SkipSave \/ ToggleAutosave
           \/ \E s \in PutSlots : SaveFailed(s) \/ HostWrites(s) \/ HostRefuses(s)
           \/ \E g \in GetSlots : OpenFailed(g)
           \/ MutateThrows \/ TypingBurstEnds \/ FilesListed
  <2>1. UNCHANGED <<open, checks, validateSeq, validateTimer>>
    BY <1>5 DEF StartSave, Load, SkipSave, ToggleAutosave, SaveFailed, HostWrites,
                HostRefuses, OpenFailed, MutateThrows, TypingBurstEnds, FilesListed,
                timers, requests
  <2>2. QED
    BY <2>1, ElsewhereKeepsLatest
<1>6. QED
  BY <1>2, <1>3, <1>4, <1>5, CheckingKeepsLatest, VerdictKeepsLatest
     DEF Next, User, Timer, Answer, SaveClicked, AutosaveFires, Switches

\* While the user stays on one file, a verdict that nothing is about to replace
\* is the verdict on the text in the editor, whatever order checks are started
\* and answered in: only a switch takes a check that is due away without
\* superseding the one before it (appStore.ts:852).
THEOREM VerdictWhileStaying == Spec /\ [][~Switches]_vars => []VerdictIsOnTheText
<1>1. Inv /\ StatusTells /\ LatestIsOnTheText /\ [Next]_vars /\ [~Switches]_vars
      => LatestIsOnTheText'
  <2> SUFFICES ASSUME Inv, StatusTells, LatestIsOnTheText, [Next]_vars, [~Switches]_vars
               PROVE  LatestIsOnTheText'
    OBVIOUS
  <2>1. CASE UNCHANGED vars
    BY <2>1, ElsewhereKeepsLatest DEF vars, timers, requests
  <2>2. CASE Next /\ ~Switches
    BY <2>2, StayingKeepsLatest
  <2>3. QED
    BY <2>1, <2>2
<1>2. LatestIsOnTheText => VerdictIsOnTheText
  BY DEF LatestIsOnTheText, VerdictIsOnTheText
<1>3. QED
  BY <1>1, <1>2, InitImpliesLatest, StatusTellsWhileStaying, InvHolds, PTL DEF Spec

\* So in a project with one config file the badge is never another text's.
THEOREM VerdictInOneFile ==
    ASSUME Files = {Primary}
    PROVE  Spec => []VerdictIsOnTheText
BY OneFileStays, VerdictWhileStaying, PTL

-----------------------------------------------------------------------------
(* Edits across a switch.                                                  *)

Fetching == \E g \in GetSlots : gets[g] # Idle

SaveEnds == \E s \in PutSlots : SaveAnswered(s) \/ SaveFailed(s)

\* A file is fetched behind the loading screen, one at a time, and the edits
\* of the file that is being left are in its snapshot.
LeavingIsSafe ==
    /\ \A g \in GetSlots : gets[g] # Idle => status = "loading" /\ ~autosaveTimer
    /\ \A g, h \in GetSlots : gets[g] # Idle /\ gets[h] # Idle => g = h
    /\ \A g \in GetSlots : gets[g] \in Files => docCache[configPath].text = open.text

\* The page mounts with the load of the resolved file in flight.
LEMMA InitImpliesLeavingIsSafe == Init => LeavingIsSafe
BY FilesAssumption, RequestsAssumption DEF Init, LeavingIsSafe

\* A request goes out when none is in flight.
LEMMA FetchingKeepsLeaving ==
    ASSUME Inv, LeavingIsSafe, Load \/ \E f \in Files : SwitchToUnopened(f)
    PROVE  LeavingIsSafe'
<1>1. \A g \in GetSlots : gets[g] = Idle
  BY DEF LeavingIsSafe, Load, SwitchToUnopened, SwitcherOffers
<1>2. PICK f \in Files \cup {NoFile}, g \in GetSlots : gets' = [gets EXCEPT ![g] = f]
  BY DEF Load, SwitchToUnopened
<1>3. \A h \in GetSlots : gets'[h] # Idle => h = g
  BY <1>1, <1>2 DEF Inv, TypeOK
<1>4. status' = "loading" /\ ~autosaveTimer'
  BY DEF Load, SwitchToUnopened
<1>5. CASE Load
  <2>1. \A h \in GetSlots : gets'[h] \in {Idle, NoFile}
    BY <1>1, <1>5 DEF Load, Inv, TypeOK
  <2>2. QED
    BY <1>3, <1>4, <2>1, FilesAssumption, RequestsAssumption DEF LeavingIsSafe
<1>6. CASE \E path \in Files : SwitchToUnopened(path)
  <2>1. configPath \in Files
    BY <1>6 DEF SwitchToUnopened, SwitcherOffers, Inv, OpenIsGood
  <2>2. docCache' = Leave /\ open' = open /\ configPath' = configPath
    BY <1>6 DEF SwitchToUnopened
  <2>3. docCache'[configPath'].text = open'.text
    BY <2>1, <2>2 DEF Leave, Inv, TypeOK
  <2>4. QED
    BY <1>3, <1>4, <2>3 DEF LeavingIsSafe
<1>7. QED
  BY <1>5, <1>6

\* What cannot happen behind the loading screen, or does not touch the text.
LEMMA ElsewhereKeepsLeaving ==
    ASSUME Inv, LeavingIsSafe,
           \/ Edit \/ ToggleAutosave \/ MutateThrows \/ SaveClicked
           \/ AutosaveFires \/ TypingBurstEnds \/ FilesListed
           \/ ValidateFires \/ \E check \in checks : ValidateAnswered(check)
           \/ \E s \in PutSlots : HostWrites(s) \/ HostRefuses(s)
    PROVE  LeavingIsSafe'
<1>1. gets' = gets
  BY DEF Edit, SetText, Mutate, Undo, Redo, Edited, ToggleAutosave, MutateThrows,
         SaveClicked, AutosaveFires, StartSave, SkipSave, TypingBurstEnds, FilesListed,
         ValidateFires, ValidateAnswered, HostWrites, HostRefuses, requests
<1>2. CASE ~Fetching
  BY <1>1, <1>2, RequestsAssumption DEF LeavingIsSafe, Fetching
<1>3. CASE Fetching
  <2>1. status = "loading" /\ ~autosaveTimer
    BY <1>3 DEF LeavingIsSafe, Fetching
  <2>2. ~(Edit \/ ToggleAutosave \/ MutateThrows \/ SaveClicked \/ AutosaveFires)
    BY <2>1 DEF Edit, SetText, Mutate, MutationAllowed, Undo, Redo, ToggleAutosave,
                MutateThrows, SaveClicked, AutosaveFires, PanesShown
  <2>3. UNCHANGED <<status, autosaveTimer, docCache, configPath>>
    BY <2>2 DEF TypingBurstEnds, FilesListed, ValidateFires, ValidateAnswered,
                HostWrites, HostRefuses, timers
  <2>4. open'.text = open.text
    BY <2>2, CheckKeepsDocument DEF TypingBurstEnds, FilesListed, HostWrites, HostRefuses
  <2>5. QED
    BY <1>1, <2>3, <2>4 DEF LeavingIsSafe
<1>4. QED
  BY <1>2, <1>3

\* One step of a session in which no save ends behind the loading screen.
LEMMA QuietKeepsLeaving ==
    ASSUME Inv, LeavingIsSafe, Next, Fetching => ~SaveEnds
    PROVE  LeavingIsSafe'
<1>1. CASE (\E f \in Files : SwitchToCached(f)) \/ SaveEnds
  <2>1. ~Fetching
    BY <1>1 DEF LeavingIsSafe, Fetching, SwitchToCached, SwitcherOffers
  <2>2. gets' = gets
    BY <1>1 DEF SaveEnds, SaveAnswered, SaveFailed, SwitchToCached, requests
  <2>3. QED
    BY <2>1, <2>2, RequestsAssumption DEF LeavingIsSafe, Fetching
<1>2. CASE \E g \in GetSlots : LoadAnswered(g) \/ FileOpened(g) \/ OpenFailed(g)
  <2>1. PICK g \in GetSlots : gets[g] # Idle /\ gets' = [gets EXCEPT ![g] = Idle]
    BY <1>2, RequestsAssumption DEF LoadAnswered, FileOpened, OpenFailed
  <2>2. \A h \in GetSlots : gets'[h] = Idle
    BY <2>1 DEF LeavingIsSafe, Inv, TypeOK
  <2>3. QED
    BY <2>2, RequestsAssumption DEF LeavingIsSafe
<1>3. QED
  BY <1>1, <1>2, FetchingKeepsLeaving, ElsewhereKeepsLeaving
     DEF Next, User, Timer, Answer, SaveEnds

\* A switch "never discards unsaved edits" (appStore.ts:234) as long as no save
\* of the file being left ends while the next one is fetched: that is the only
\* way to bring the panes, or another switch, back before the fetch is done.
THEOREM QuietSwitchKeepsEdits ==
    Spec /\ [][Fetching => ~SaveEnds]_vars => SwitchKeepsEdits
<1>1. Inv /\ LeavingIsSafe /\ [Next]_vars /\ [Fetching => ~SaveEnds]_vars => LeavingIsSafe'
  <2> SUFFICES ASSUME Inv, LeavingIsSafe, [Next]_vars, [Fetching => ~SaveEnds]_vars
               PROVE  LeavingIsSafe'
    OBVIOUS
  <2>1. CASE UNCHANGED vars
    BY <2>1 DEF vars, timers, requests, LeavingIsSafe
  <2>2. CASE Next /\ (Fetching => ~SaveEnds)
    BY <2>2, QuietKeepsLeaving
  <2>3. QED
    BY <2>1, <2>2
<1>2. Inv /\ LeavingIsSafe /\ [Next]_vars
      => [configPath' # configPath /\ configPath # NoFile /\ docCache' # NoSnapshots
          => docCache'[configPath].text = open.text]_vars
  <2> SUFFICES ASSUME Inv, LeavingIsSafe, Next, configPath' # configPath,
                      configPath # NoFile, docCache' # NoSnapshots
               PROVE  docCache'[configPath].text = open.text
    OBVIOUS
  <2>1. \/ \E f \in Files : SwitchToCached(f)
        \/ \E g \in GetSlots : FileOpened(g)
    BY DEF Next, User, Timer, Answer, Edit, SetText, Mutate, Undo, Redo, Edited,
           MutateThrows, ToggleAutosave, SaveClicked, StartSave, SkipSave, Load,
           SwitchToUnopened, TypingBurstEnds, AutosaveFires, ValidateFires, HostWrites,
           HostRefuses, SaveAnswered, SaveFailed, LoadAnswered, OpenFailed, FilesListed,
           ValidateAnswered
  <2>2. CASE \E f \in Files : SwitchToCached(f)
    <3>1. docCache' = Leave /\ configPath \in Files
      BY <2>2 DEF SwitchToCached, Inv, TypeOK
    <3>2. QED
      BY <3>1 DEF Leave, Inv, TypeOK
  <2>3. CASE \E g \in GetSlots : FileOpened(g)
    BY <2>3 DEF FileOpened, LeavingIsSafe
  <2>4. QED
    BY <2>1, <2>2, <2>3
<1>3. QED
  BY <1>1, <1>2, InitImpliesLeavingIsSafe, InvHolds, PTL DEF Spec, SwitchKeepsEdits

=============================================================================
