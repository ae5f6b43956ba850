------------------------ MODULE EditorSessionProofs ------------------------
(***************************************************************************)
(* Proofs about EditorSession, for any number of files, texts and requests *)
(* and for any MAX_HISTORY.                                                *)
(***************************************************************************)
EXTENDS EditorSession, SequenceTheorems, TLAPS

-----------------------------------------------------------------------------
(* The history stacks.                                                     *)

\* Push puts an entry on top; it drops one only when the stack is full.
LEMMA PushIsAStack ==
    ASSUME NEW T, NEW stack \in Seq(T), NEW text \in T,
           Len(stack) <= MaxHistory
    PROVE  /\ Push(stack, text) \in Seq(T)
           /\ Push(stack, text) # <<>>
           /\ Len(Push(stack, text)) <= MaxHistory
           /\ Len(Push(stack, text)) <= Len(stack) + 1
           /\ Len(stack) < MaxHistory => Push(stack, text) = Append(stack, text)
BY HistoryAssumption DEF Push

\* What undo and redo take off a stack that is not empty.
LEMMA PopIsAStack ==
    ASSUME NEW T, NEW stack \in Seq(T), stack # <<>>
    PROVE  /\ Last(stack) \in T
           /\ Front(stack) \in Seq(T)
           /\ Len(Front(stack)) = Len(stack) - 1
           /\ \A i \in 1..Len(stack) - 1 : Front(stack)[i] = stack[i]
<1>1. Len(stack) \in Nat \ {0}
  BY EmptySeq
<1>2. Last(stack) \in T
  BY <1>1 DEF Last
<1>3. \A i \in 1..Len(stack) - 1 : stack[i] \in T
  BY <1>1, ElementOfSeq
<1> DEFINE n == Len(stack) - 1
<1>4. n \in Nat /\ \A i \in 1..n : stack[i] \in T
  BY <1>1, <1>3
<1> HIDE DEF n
<1>5. /\ SubSeq(stack, 1, n) \in Seq(T)
      /\ Len(SubSeq(stack, 1, n)) = n
      /\ \A i \in 1..n : SubSeq(stack, 1, n)[i] = stack[i]
  BY <1>4, SubSeqProperties
<1>6. QED
  BY <1>2, <1>5 DEF Front, n

-----------------------------------------------------------------------------
(* The documents of a file: typed, with a bounded history of that file's   *)
(* own texts, and marked dirty only when there is something to save.       *)

DocumentsOf(f) ==
    [text : TextsOf(f), savedText : Texts,
     doc : TextsOf(f) \cup {NoDoc}, parseError : BOOLEAN, isDirty : BOOLEAN,
     undoStack : Seq(TextsOf(f)), redoStack : Seq(TextsOf(f)),
     canUndo : BOOLEAN, canRedo : BOOLEAN, validation : Verdicts]

Bounded(d) ==
    /\ Len(d.undoStack) + Len(d.redoStack) <= MaxHistory
    /\ d.canUndo <=> d.undoStack # <<>>
    /\ d.canRedo <=> d.redoStack # <<>>

Good(d, f) ==
    /\ d \in DocumentsOf(f)
    /\ Bounded(d)
    /\ d.isDirty => d.text # d.savedText

\* A document just read from disk, by load or switchFile.
LEMMA FreshIsGood ==
    ASSUME NEW f \in Files, NEW text \in TextsOf(f), NEW validation \in Verdicts
    PROVE  /\ Good(Fresh(text, validation), f)
           /\ Fresh(text, validation).redoStack = <<>>
<1> DEFINE d == Fresh(text, validation)
<1>1. d \in DocumentsOf(f)
  BY DEF DocumentsOf, Fresh, TextsOf
<1>2. Bounded(d)
  BY HistoryAssumption DEF Bounded, Fresh
<1>3. d.isDirty = FALSE /\ d.redoStack = <<>>
  BY DEF Fresh
<1>4. QED
  BY <1>1, <1>2, <1>3 DEF Good

\* The text part of setText and mutate.
LEMMA TypedIsGood ==
    ASSUME NEW f \in Files, NEW d, Good(d, f), NEW text \in TextsOf(f)
    PROVE  /\ Good(Typed(d, text), f)
           /\ Typed(d, text).redoStack = d.redoStack
BY DEF Good, DocumentsOf, Bounded, Typed, TextsOf

\* The history part of setText and mutate.
LEMMA RememberingIsGood ==
    ASSUME NEW f \in Files, NEW d, Good(d, f), NEW before \in TextsOf(f)
    PROVE  /\ Good(Remembering(d, before), f)
           /\ Remembering(d, before).redoStack = <<>>
<1>1. d.undoStack \in Seq(TextsOf(f)) /\ Len(d.undoStack) <= MaxHistory
  BY HistoryAssumption DEF Good, DocumentsOf, Bounded
<1> DEFINE longer == Push(d.undoStack, before)
<1>2. longer \in Seq(TextsOf(f)) /\ longer # <<>> /\ Len(longer) <= MaxHistory
  BY <1>1, PushIsAStack
<1> DEFINE r == Remembering(d, before)
<1>3. /\ r.undoStack = longer /\ r.redoStack = <<>>
      /\ r.canUndo /\ ~r.canRedo
      /\ r.text = d.text /\ r.savedText = d.savedText /\ r.isDirty = d.isDirty
  BY DEF Remembering, Good, DocumentsOf
<1>4. r \in DocumentsOf(f)
  BY <1>2, EmptySeq DEF Remembering, Good, DocumentsOf
<1> HIDE DEF longer, r
<1>5. Bounded(r)
  BY <1>2, <1>3, LenProperties, EmptySeq DEF Bounded
<1>6. QED
  BY <1>3, <1>4, <1>5 DEF Good, r

\* What undo and redo show is of the file's kind.
LEMMA RestoredIsTyped ==
    ASSUME NEW f \in Files, NEW d, Good(d, f), NEW text \in TextsOf(f)
    PROVE  Restored(d, text) \in DocumentsOf(f)
BY DEF Restored, Good, DocumentsOf, TextsOf

\* undo moves one entry to the redo stack.
LEMMA BackIsGood ==
    ASSUME NEW f \in Files, NEW d, Good(d, f), d.undoStack # <<>>
    PROVE  Good(Back(d), f)
<1> DEFINE shorter == Front(d.undoStack)
           longer == Push(d.redoStack, d.text)
           shown == Last(d.undoStack)
           r == Back(d)
<1>1. /\ d.undoStack \in Seq(TextsOf(f)) /\ d.redoStack \in Seq(TextsOf(f))
      /\ d.text \in TextsOf(f)
      /\ Len(d.undoStack) \in Nat \ {0} /\ Len(d.redoStack) \in Nat
      /\ Len(d.undoStack) + Len(d.redoStack) <= MaxHistory
      /\ Len(d.redoStack) <= MaxHistory
  BY HistoryAssumption, EmptySeq DEF Good, DocumentsOf, Bounded
<1>2. /\ longer \in Seq(TextsOf(f)) /\ longer # <<>>
      /\ Len(longer) <= Len(d.redoStack) + 1
  BY <1>1, PushIsAStack
<1>3. /\ shorter \in Seq(TextsOf(f)) /\ Len(shorter) = Len(d.undoStack) - 1
      /\ shown \in TextsOf(f)
  BY <1>1, PopIsAStack
<1>4. Len(d.undoStack) - 1 > 0 <=> shorter # <<>>
  <2>1. shorter = <<>> => Len(shorter) = 0
    BY EmptySeq
  <2>2. QED
    BY <1>1, <1>3, <2>1, EmptySeq
<1>5. Len(shorter) + Len(longer) <= MaxHistory
  <2> HIDE DEF shorter, longer
  <2>1. Len(longer) \in Nat /\ Len(shorter) \in Nat /\ MaxHistory \in Nat
    BY <1>2, <1>3, LenProperties, HistoryAssumption
  <2>2. \A i, j, k, l, m \in Nat :
          i + j <= m /\ k = i - 1 /\ l <= j + 1 => k + l <= m
    OBVIOUS
  <2>3. QED
    BY <1>1, <1>2, <1>3, <2>1, <2>2
<1>6. r \in DocumentsOf(f)
  <2> DEFINE restored == Restored(d, shown)
             more == (Len(d.undoStack) - 1 > 0)
  <2>1. restored \in DocumentsOf(f)
    BY <1>3, RestoredIsTyped
  <2>2. r = [restored EXCEPT !.undoStack = shorter, !.redoStack = longer,
                             !.canUndo = more,
                             !.canRedo = TRUE]
    BY DEF Back, Restored
  <2>3. more \in BOOLEAN
    OBVIOUS
  <2> HIDE DEF shorter, longer, shown, restored, more, r
  <2>4. QED
    BY <1>2, <1>3, <2>1, <2>2, <2>3 DEF DocumentsOf
<1>7. /\ r.undoStack = shorter /\ r.redoStack = longer
      /\ r.canUndo <=> Len(d.undoStack) - 1 > 0
      /\ r.canRedo <=> TRUE
      /\ r.text = shown /\ r.savedText = d.savedText
      /\ r.isDirty <=> shown # d.savedText
  BY DEF Back, Restored, Good, DocumentsOf
<1> HIDE DEF shorter, longer, shown, r
<1>8. Len(shorter) \in Nat /\ Len(longer) \in Nat
  BY <1>2, <1>3, LenProperties
<1>9. Bounded(r)
  BY <1>2, <1>4, <1>5, <1>7, <1>8 DEF Bounded
<1>10. QED
  BY <1>6, <1>7, <1>9 DEF Good, r

\* redo moves one entry to the undo stack.
LEMMA ForwardIsGood ==
    ASSUME NEW f \in Files, NEW d, Good(d, f), d.redoStack # <<>>
    PROVE  Good(Forward(d), f)
<1> DEFINE shorter == Front(d.redoStack)
           longer == Push(d.undoStack, d.text)
           shown == Last(d.redoStack)
           r == Forward(d)
<1>1. /\ d.redoStack \in Seq(TextsOf(f)) /\ d.undoStack \in Seq(TextsOf(f))
      /\ d.text \in TextsOf(f)
      /\ Len(d.redoStack) \in Nat \ {0} /\ Len(d.undoStack) \in Nat
      /\ Len(d.undoStack) + Len(d.redoStack) <= MaxHistory
      /\ Len(d.undoStack) <= MaxHistory
  BY HistoryAssumption, EmptySeq DEF Good, DocumentsOf, Bounded
<1>2. /\ longer \in Seq(TextsOf(f)) /\ longer # <<>>
      /\ Len(longer) <= Len(d.undoStack) + 1
  BY <1>1, PushIsAStack
<1>3. /\ shorter \in Seq(TextsOf(f)) /\ Len(shorter) = Len(d.redoStack) - 1
      /\ shown \in TextsOf(f)
  BY <1>1, PopIsAStack
<1>4. Len(d.redoStack) - 1 > 0 <=> shorter # <<>>
  <2>1. shorter = <<>> => Len(shorter) = 0
    BY EmptySeq
  <2>2. QED
    BY <1>1, <1>3, <2>1, EmptySeq
<1>5. Len(shorter) + Len(longer) <= MaxHistory
  <2> HIDE DEF shorter, longer
  <2>1. Len(longer) \in Nat /\ Len(shorter) \in Nat /\ MaxHistory \in Nat
    BY <1>2, <1>3, LenProperties, HistoryAssumption
  <2>2. \A i, j, k, l, m \in Nat :
          j + i <= m /\ k = i - 1 /\ l <= j + 1 => k + l <= m
    OBVIOUS
  <2>3. QED
    BY <1>1, <1>2, <1>3, <2>1, <2>2
<1>6. r \in DocumentsOf(f)
  <2> DEFINE restored == Restored(d, shown)
             more == (Len(d.redoStack) - 1 > 0)
  <2>1. restored \in DocumentsOf(f)
    BY <1>3, RestoredIsTyped
  <2>2. r = [restored EXCEPT !.undoStack = longer, !.redoStack = shorter,
                             !.canUndo = TRUE,
                             !.canRedo = more]
    BY DEF Forward, Restored
  <2>3. more \in BOOLEAN
    OBVIOUS
  <2> HIDE DEF shorter, longer, shown, restored, more, r
  <2>4. QED
    BY <1>2, <1>3, <2>1, <2>2, <2>3 DEF DocumentsOf
<1>7. /\ r.redoStack = shorter /\ r.undoStack = longer
      /\ r.canUndo <=> TRUE
      /\ r.canRedo <=> Len(d.redoStack) - 1 > 0
      /\ r.text = shown /\ r.savedText = d.savedText
      /\ r.isDirty <=> shown # d.savedText
  BY DEF Forward, Restored, Good, DocumentsOf
<1> HIDE DEF shorter, longer, shown, r
<1>8. Len(shorter) \in Nat /\ Len(longer) \in Nat
  BY <1>2, <1>3, LenProperties
<1>9. Bounded(r)
  BY <1>2, <1>4, <1>5, <1>7, <1>8 DEF Bounded
<1>10. QED
  BY <1>6, <1>7, <1>9 DEF Good, r

-----------------------------------------------------------------------------
(* The inductive invariant.                                                *)

\* The open document is one of its file's, or nothing has been opened yet.
OpenIsGood ==
    \/ configPath \in Files /\ Good(open, configPath)
    \/ /\ configPath = NoFile /\ open = Blank
       /\ status \in {"loading", "error"}
       /\ files = {} /\ checks = {} /\ ~validateTimer /\ ~listing
       /\ \A s \in PutSlots : puts[s] = Idle

SnapshotsAreGood == \A f \in Files : Cached(f) => Good(docCache[f], f)

DiskIsGood == \A f \in Files : disk[f] \in TextsOf(f)

PutsAreGood ==
    \A s \in PutSlots :
        puts[s] # Idle => puts[s].text \in TextsOf(ResolveConfigTarget(puts[s].path))

Inv ==
    /\ TypeOK
    /\ OpenIsGood
    /\ SnapshotsAreGood
    /\ DiskIsGood
    /\ PutsAreGood
    /\ NoRedoDuringBurst

\* A good document of a file is a document.
LEMMA GoodIsADocument ==
    ASSUME NEW f \in Files, NEW d, Good(d, f)
    PROVE  d \in Documents
<1>1. TextsOf(f) \subseteq Texts
  BY DEF TextsOf
<1>2. d.undoStack \in Seq(Texts) /\ d.redoStack \in Seq(Texts)
  BY <1>1, SeqMonotonic DEF Good, DocumentsOf
<1>3. QED
  BY <1>1, <1>2 DEF Good, DocumentsOf, Documents, Stacks

\* The document before the first load is one, too.
LEMMA BlankIsADocument == Blank \in Documents /\ Blank.redoStack = <<>>
<1> DEFINE parsed == IF NoText \in Parses THEN NoText ELSE NoDoc
           fails == NoText \notin Parses
           read == [text |-> NoText, savedText |-> NoText,
                    doc |-> parsed, parseError |-> fails, isDirty |-> FALSE,
                    undoStack |-> <<>>, redoStack |-> <<>>,
                    canUndo |-> FALSE, canRedo |-> FALSE, validation |-> "idle"]
<1>1. Fresh(NoText, "idle") = read
  BY DEF Fresh
<1> HIDE DEF parsed, fails
<1>2. Blank = [read EXCEPT !.doc = NoDoc, !.parseError = FALSE]
  BY <1>1 DEF Blank
<1>3. <<>> \in Stacks
  BY EmptySeq DEF Stacks
<1>4. QED
  BY <1>2, <1>3 DEF Documents, Verdicts

\* The badge revalidate() leaves, like the verdict of a check, changes nothing
\* else.
LEMMA BadgeIsGood ==
    ASSUME NEW f \in Files, NEW d, Good(d, f), NEW verdict \in Verdicts
    PROVE  /\ Good([d EXCEPT !.validation = verdict], f)
           /\ [d EXCEPT !.validation = verdict].redoStack = d.redoStack
BY DEF Good, DocumentsOf, Bounded

\* revalidate leaves a badge the app knows.
LEMMA BadgeIsAVerdict ==
    ASSUME NEW path, NEW d, d.validation \in Verdicts
    PROVE  Badge(path, d) \in Verdicts
BY DEF Badge, Verdicts

\* While the panes are shown a file is open.
LEMMA PanesNeedAFile ==
    ASSUME Inv, PanesShown
    PROVE  configPath \in Files /\ Good(open, configPath)
BY DEF Inv, OpenIsGood, PanesShown

\* The state the page mounts in.
LEMMA InitImpliesInv == Init => Inv
<1> SUFFICES ASSUME Init PROVE Inv
  OBVIOUS
<1> USE DEF Init
<1>1. TypeOK
  BY BlankIsADocument DEF TypeOK, NoSnapshots
<1>2. OpenIsGood /\ PutsAreGood
  BY DEF OpenIsGood, PutsAreGood
<1>3. SnapshotsAreGood
  BY DEF SnapshotsAreGood, Cached, NoSnapshots
<1>4. DiskIsGood
  BY DEF DiskIsGood, TextsOf
<1>5. NoRedoDuringBurst
  BY DEF NoRedoDuringBurst
<1>6. QED
  BY <1>1, <1>2, <1>3, <1>4, <1>5 DEF Inv

\* The tail of every edit.
LEMMA EditedKeepsInv ==
    ASSUME Inv, configPath \in Files, NEW d, Good(d, configPath), Edited(d),
           typingBurstTimer' \in BOOLEAN,
           typingBurstTimer' => d.redoStack = <<>>
    PROVE  Inv'
<1> DEFINE verdict == Badge(configPath, d)
<1>1. verdict \in Verdicts
  BY BadgeIsAVerdict DEF Good, DocumentsOf
<1>2. open' = [d EXCEPT !.validation = verdict]
  BY DEF Edited, Revalidate
<1> HIDE DEF verdict
<1>3. Good(open', configPath) /\ open'.redoStack = d.redoStack
  BY <1>1, <1>2, BadgeIsGood
<1>4. /\ configPath' = configPath /\ docCache' = docCache /\ disk' = disk
      /\ status' = status /\ files' = files /\ autosave' = autosave
      /\ validateSeq' = validateSeq
      /\ puts' = puts /\ gets' = gets /\ checks' = checks /\ listing' = listing
  BY DEF Edited, requests
<1>5. autosaveTimer' \in BOOLEAN /\ validateTimer' \in BOOLEAN
  BY DEF Edited, Revalidate, NeedsCheck, Inv, TypeOK, Good, DocumentsOf
<1>6. TypeOK'
  <2>1. open' \in Documents
    BY <1>3, GoodIsADocument
  <2>2. QED
    BY <1>4, <1>5, <2>1 DEF Inv, TypeOK
<1>7. OpenIsGood'
  BY <1>3, <1>4 DEF OpenIsGood
<1>8. (SnapshotsAreGood /\ DiskIsGood /\ PutsAreGood)'
  BY <1>4 DEF Inv, SnapshotsAreGood, Cached, DiskIsGood, PutsAreGood
<1>9. NoRedoDuringBurst'
  BY <1>3 DEF NoRedoDuringBurst
<1>10. QED
  BY <1>6, <1>7, <1>8, <1>9 DEF Inv

-----------------------------------------------------------------------------
(* Every step keeps the invariant.                                         *)

\* setText, mutate, undo and redo.
LEMMA EditKeepsInv ==
    ASSUME Inv, Edit
    PROVE  Inv'
<1>1. ASSUME NEW text \in TextsOf(configPath), SetText(text)
      PROVE  Inv'
  <2>1. configPath \in Files /\ Good(open, configPath)
    BY <1>1, PanesNeedAFile DEF SetText
  <2>2. typingBurstTimer' = TRUE
    BY <1>1 DEF SetText
  <2>3. CASE typingBurstTimer
    <3>1. /\ Good(Typed(open, text), configPath)
          /\ Typed(open, text).redoStack = open.redoStack
      BY <1>1, <2>1, TypedIsGood
    <3>2. open.redoStack = <<>>
      BY <2>3 DEF Inv, NoRedoDuringBurst
    <3>3. Edited(Typed(open, text))
      BY <1>1, <2>3 DEF SetText
    <3>4. QED
      BY <2>1, <2>2, <3>1, <3>2, <3>3, EditedKeepsInv
  <2>4. CASE ~typingBurstTimer
    <3>1. Good(Typed(open, text), configPath)
      BY <1>1, <2>1, TypedIsGood
    <3>2. open.text \in TextsOf(configPath)
      BY <2>1 DEF Good, DocumentsOf
    <3>3. /\ Good(Remembering(Typed(open, text), open.text), configPath)
          /\ Remembering(Typed(open, text), open.text).redoStack = <<>>
      BY <2>1, <3>1, <3>2, RememberingIsGood
    <3>4. Edited(Remembering(Typed(open, text), open.text))
      BY <1>1, <2>4 DEF SetText
    <3>5. QED
      BY <2>1, <2>2, <3>3, <3>4, EditedKeepsInv
  <2>5. QED
    BY <2>3, <2>4
<1>2. ASSUME NEW text \in TextsOf(configPath), Mutate(text)
      PROVE  Inv'
  <2>1. configPath \in Files /\ Good(open, configPath)
    BY <1>2, PanesNeedAFile DEF Mutate, MutationAllowed
  <2>2. Good(Typed(open, text), configPath) /\ open.text \in TextsOf(configPath)
    BY <1>2, <2>1, TypedIsGood DEF Good, DocumentsOf
  <2>3. Good(Remembering(Typed(open, text), open.text), configPath)
    BY <2>1, <2>2, RememberingIsGood
  <2>4. Edited(Remembering(Typed(open, text), open.text)) /\ typingBurstTimer' = FALSE
    BY <1>2 DEF Mutate, ClearTypingBurst
  <2>5. QED
    BY <2>1, <2>3, <2>4, EditedKeepsInv
<1>3. CASE Undo
  <2>1. configPath \in Files /\ Good(open, configPath) /\ open.undoStack # <<>>
    BY <1>3, PanesNeedAFile DEF Undo
  <2>2. Good(Back(open), configPath)
    BY <2>1, BackIsGood
  <2>3. Edited(Back(open)) /\ typingBurstTimer' = FALSE
    BY <1>3 DEF Undo, ClearTypingBurst
  <2>4. QED
    BY <2>1, <2>2, <2>3, EditedKeepsInv
<1>4. CASE Redo
  <2>1. configPath \in Files /\ Good(open, configPath) /\ open.redoStack # <<>>
    BY <1>4, PanesNeedAFile DEF Redo
  <2>2. Good(Forward(open), configPath)
    BY <2>1, ForwardIsGood
  <2>3. Edited(Forward(open)) /\ typingBurstTimer' = FALSE
    BY <1>4 DEF Redo, ClearTypingBurst
  <2>4. QED
    BY <2>1, <2>2, <2>3, EditedKeepsInv
<1>5. QED
  BY <1>1, <1>2, <1>3, <1>4 DEF Edit

\* The user's other actions on the open document.
LEMMA UserKeepsInv ==
    ASSUME Inv, MutateThrows \/ ToggleAutosave \/ Load
    PROVE  Inv'
<1>1. /\ configPath' = configPath /\ open' = open /\ docCache' = docCache
      /\ disk' = disk /\ files' = files /\ validateTimer' = validateTimer
      /\ validateSeq' = validateSeq
      /\ puts' = puts /\ checks' = checks /\ listing' = listing
  BY DEF MutateThrows, ToggleAutosave, Load, requests
<1>2. typingBurstTimer' \in {typingBurstTimer, FALSE}
  BY DEF MutateThrows, ToggleAutosave, Load, ClearTypingBurst
<1>3. autosave' \in BOOLEAN /\ autosaveTimer' \in BOOLEAN
  BY DEF Inv, TypeOK, MutateThrows, ToggleAutosave, Load, Documents
<1>4. status' \in {status, "loading"}
  BY DEF MutateThrows, ToggleAutosave, Load
<1>5. gets' \in [GetSlots -> Files \cup {NoFile, Idle}]
  BY DEF Inv, TypeOK, MutateThrows, ToggleAutosave, Load, requests
<1>6. TypeOK'
  BY <1>1, <1>2, <1>3, <1>4, <1>5 DEF Inv, TypeOK
<1>7. OpenIsGood'
  BY <1>1, <1>4 DEF Inv, OpenIsGood
<1>8. (SnapshotsAreGood /\ DiskIsGood /\ PutsAreGood)'
  BY <1>1 DEF Inv, SnapshotsAreGood, Cached, DiskIsGood, PutsAreGood
<1>9. NoRedoDuringBurst'
  BY <1>1, <1>2 DEF Inv, NoRedoDuringBurst
<1>10. QED
  BY <1>6, <1>7, <1>8, <1>9 DEF Inv

\* save() sends the open text to the open file.
LEMMA StartSaveKeepsInv ==
    ASSUME Inv, StartSave
    PROVE  Inv'
<1>1. PICK s \in PutSlots :
          /\ puts[s] = Idle
          /\ puts' = [puts EXCEPT ![s] = [path |-> TargetPath(configPath),
                                          text |-> open.text,
                                          phase |-> "sent"]]
  BY DEF StartSave
<1>2. configPath \in Files /\ Good(open, configPath)
  BY DEF Inv, OpenIsGood, StartSave, SaveWouldWrite, Blank, Fresh
<1>3. open.text \in TextsOf(configPath) /\ open.text \in Texts
  BY <1>2 DEF Good, DocumentsOf, TextsOf
<1>4. /\ TargetPath(configPath) \in Files \cup {NoFile}
      /\ ResolveConfigTarget(TargetPath(configPath)) = configPath
  BY <1>2, FilesAssumption DEF TargetPath, ResolveConfigTarget
<1>5. /\ configPath' = configPath /\ open' = open /\ docCache' = docCache
      /\ disk' = disk /\ files' = files /\ autosave' = autosave
      /\ typingBurstTimer' = typingBurstTimer /\ validateTimer' = validateTimer
      /\ validateSeq' = validateSeq /\ gets' = gets /\ checks' = checks
      /\ listing' = listing /\ autosaveTimer' = FALSE /\ status' = "saving"
  BY DEF StartSave
<1>6. TypeOK'
  <2>1. puts' \in [PutSlots -> PutRequests \cup {Idle}]
    BY <1>1, <1>3, <1>4 DEF Inv, TypeOK, PutRequests
  <2>2. QED
    BY <1>5, <2>1 DEF Inv, TypeOK
<1>7. OpenIsGood'
  BY <1>2, <1>5 DEF OpenIsGood
<1>8. PutsAreGood'
  <2>1. \A r \in PutSlots \ {s} : puts'[r] = puts[r]
    BY <1>1 DEF Inv, TypeOK
  <2>2. puts'[s].text = open.text /\ puts'[s].path = TargetPath(configPath)
    BY <1>1 DEF Inv, TypeOK
  <2>3. QED
    BY <1>3, <1>4, <2>1, <2>2 DEF Inv, PutsAreGood
<1>9. (SnapshotsAreGood /\ DiskIsGood /\ NoRedoDuringBurst)'
  BY <1>5 DEF Inv, SnapshotsAreGood, Cached, DiskIsGood, NoRedoDuringBurst
<1>10. QED
  BY <1>6, <1>7, <1>8, <1>9 DEF Inv

\* The host's side of a write, and the answer.
LEMMA PutKeepsInv ==
    ASSUME Inv, NEW s \in PutSlots,
           HostWrites(s) \/ HostRefuses(s) \/ SaveAnswered(s) \/ SaveFailed(s)
    PROVE  Inv'
<1>1. puts[s] # Idle /\ puts[s] \in PutRequests
  BY DEF Inv, TypeOK, HostWrites, HostRefuses, SaveAnswered, SaveFailed
<1>2. configPath \in Files /\ Good(open, configPath)
  BY <1>1 DEF Inv, OpenIsGood
<1>3. puts[s].text \in TextsOf(ResolveConfigTarget(puts[s].path))
  BY <1>1 DEF Inv, PutsAreGood
<1>4. /\ configPath' = configPath /\ docCache' = docCache /\ files' = files
      /\ autosave' = autosave /\ autosaveTimer' = autosaveTimer
      /\ typingBurstTimer' = typingBurstTimer /\ validateTimer' = validateTimer
      /\ validateSeq' = validateSeq /\ gets' = gets /\ checks' = checks
      /\ listing' = listing
  BY DEF HostWrites, HostRefuses, SaveAnswered, SaveFailed, timers
<1>5. /\ puts' \in [PutSlots -> PutRequests \cup {Idle}]
      /\ \A r \in PutSlots \ {s} : puts'[r] = puts[r]
      /\ puts'[s] # Idle => puts'[s].text = puts[s].text /\ puts'[s].path = puts[s].path
  <2>1. CASE HostWrites(s) \/ HostRefuses(s)
    <3>1. PICK outcome \in {"written", "failed"} :
              puts' = [puts EXCEPT ![s] = [puts[s] EXCEPT !.phase = outcome]]
      BY <2>1 DEF HostWrites, HostRefuses
    <3>2. QED
      BY <1>1, <3>1 DEF Inv, TypeOK, PutRequests
  <2>2. CASE SaveAnswered(s) \/ SaveFailed(s)
    <3>1. puts' = [puts EXCEPT ![s] = Idle]
      BY <2>2 DEF SaveAnswered, SaveFailed
    <3>2. QED
      BY <3>1 DEF Inv, TypeOK
  <2>3. QED
    BY <2>1, <2>2
<1>6. PutsAreGood'
  BY <1>3, <1>5 DEF Inv, PutsAreGood
<1>7. disk' \in [Files -> Texts] /\ DiskIsGood'
  <2>1. CASE HostWrites(s)
    <3>1. disk' = [disk EXCEPT ![ResolveConfigTarget(puts[s].path)] = puts[s].text]
      BY <2>1 DEF HostWrites
    <3>2. puts[s].text \in Texts
      BY <1>1 DEF PutRequests
    <3>3. QED
      BY <1>3, <3>1, <3>2 DEF Inv, TypeOK, DiskIsGood
  <2>2. CASE disk' = disk
    BY <2>2 DEF Inv, TypeOK, DiskIsGood
  <2>3. QED
    BY <2>1, <2>2 DEF HostRefuses, SaveAnswered, SaveFailed
<1>8. Good(open', configPath) /\ open'.redoStack = open.redoStack
  <2>1. CASE SaveAnswered(s)
    <3>1. open' = [open EXCEPT !.savedText = puts[s].text, !.isDirty = FALSE]
      BY <2>1 DEF SaveAnswered
    <3>2. puts[s].text \in Texts
      BY <1>1 DEF PutRequests
    <3>3. QED
      BY <1>2, <3>1, <3>2 DEF Good, DocumentsOf, Bounded
  <2>2. CASE open' = open
    BY <1>2, <2>2
  <2>3. QED
    BY <2>1, <2>2 DEF HostWrites, HostRefuses, SaveFailed
<1>9. TypeOK'
  <2>1. open' \in Documents
    BY <1>2, <1>8, GoodIsADocument
  <2>2. status' \in {"loading", "ready", "saving", "error"}
    BY DEF Inv, TypeOK, HostWrites, HostRefuses, SaveAnswered, SaveFailed
  <2>3. QED
    BY <1>4, <1>5, <1>7, <2>1, <2>2 DEF Inv, TypeOK
<1>10. OpenIsGood'
  BY <1>2, <1>4, <1>8 DEF OpenIsGood
<1>11. (SnapshotsAreGood /\ NoRedoDuringBurst)'
  BY <1>4, <1>8 DEF Inv, SnapshotsAreGood, Cached, NoRedoDuringBurst
<1>12. QED
  BY <1>6, <1>7, <1>9, <1>10, <1>11 DEF Inv

\* load() and switchFile(): what they do before and after the fetch.
LEMMA SwitchKeepsInv ==
    ASSUME Inv, NEW f \in Files, SwitchToCached(f) \/ SwitchToUnopened(f)
    PROVE  Inv'
<1>1. f \in files
  BY DEF SwitchToCached, SwitchToUnopened, SwitcherOffers
<1>2. configPath \in Files /\ Good(open, configPath)
  BY <1>1 DEF Inv, OpenIsGood
<1>3. /\ docCache' = [docCache EXCEPT ![configPath] = open]
      /\ typingBurstTimer' = FALSE
      /\ autosaveTimer' = FALSE /\ validateTimer' = FALSE
      /\ disk' = disk /\ files' = files /\ autosave' = autosave
      /\ validateSeq' = validateSeq /\ puts' = puts /\ checks' = checks
      /\ listing' = listing
  BY DEF SwitchToCached, SwitchToUnopened, Leave, ClearTypingBurst, requests
<1>4. docCache' \in [Files -> Documents] /\ SnapshotsAreGood'
  <2>1. open \in Documents
    BY <1>2, GoodIsADocument
  <2>2. \A g \in Files : docCache'[g] = IF g = configPath THEN open ELSE docCache[g]
    BY <1>3 DEF Inv, TypeOK
  <2>3. QED
    BY <1>2, <1>3, <2>1, <2>2 DEF Inv, TypeOK, SnapshotsAreGood, Cached
<1>5. /\ configPath' \in Files /\ Good(open', configPath')
      /\ status' \in {"loading", "ready"}
      /\ gets' \in [GetSlots -> Files \cup {NoFile, Idle}]
  <2>1. CASE SwitchToCached(f)
    <3>1. configPath' = f /\ open' = docCache[f] /\ Cached(f) /\ status' = "ready"
      BY <2>1 DEF SwitchToCached
    <3>2. gets' = gets
      BY <2>1 DEF SwitchToCached, requests
    <3>3. QED
      BY <3>1, <3>2 DEF Inv, TypeOK, SnapshotsAreGood
  <2>2. CASE SwitchToUnopened(f)
    <3>1. configPath' = configPath /\ open' = open /\ status' = "loading"
      BY <2>2 DEF SwitchToUnopened
    <3>2. gets' \in [GetSlots -> Files \cup {NoFile, Idle}]
      BY <2>2 DEF SwitchToUnopened, Inv, TypeOK
    <3>3. QED
      BY <1>2, <3>1, <3>2
  <2>3. QED
    BY <2>1, <2>2
<1>6. TypeOK'
  <2>1. open' \in Documents
    BY <1>5, GoodIsADocument
  <2>2. QED
    BY <1>3, <1>4, <1>5, <2>1 DEF Inv, TypeOK
<1>7. OpenIsGood'
  BY <1>5 DEF OpenIsGood
<1>8. (DiskIsGood /\ PutsAreGood /\ NoRedoDuringBurst)'
  BY <1>3 DEF Inv, DiskIsGood, PutsAreGood, NoRedoDuringBurst
<1>9. QED
  BY <1>4, <1>6, <1>7, <1>8 DEF Inv

\* The parts of load and switchFile after their await.
LEMMA OpenedKeepsInv ==
    ASSUME Inv, NEW g \in GetSlots, LoadAnswered(g) \/ FileOpened(g)
    PROVE  Inv'
<1>1. PICK f \in Files :
          /\ configPath' = f
          /\ Revalidate(f, Fresh(disk[f], open.validation))
  BY FilesAssumption DEF LoadAnswered, FileOpened
<1> DEFINE d == Fresh(disk[f], open.validation)
           verdict == Badge(f, d)
<1>2. Good(d, f) /\ d.redoStack = <<>>
  BY FreshIsGood DEF Inv, TypeOK, DiskIsGood, Documents
<1>3. open' = [d EXCEPT !.validation = verdict] /\ validateTimer' = NeedsCheck(f, d)
  BY <1>1 DEF Revalidate
<1>4. verdict \in Verdicts
  BY <1>2, BadgeIsAVerdict DEF Good, DocumentsOf
<1>5. validateTimer' \in BOOLEAN
  BY <1>3 DEF NeedsCheck
<1> HIDE DEF d, verdict
<1>6. Good(open', f) /\ open'.redoStack = <<>>
  BY <1>2, <1>3, <1>4, BadgeIsGood
<1>7. docCache' \in [Files -> Documents] /\ SnapshotsAreGood'
  <2>1. CASE docCache' = docCache
    BY <2>1 DEF Inv, TypeOK, SnapshotsAreGood, Cached
  <2>2. CASE docCache' = NoSnapshots
    BY <2>2, BlankIsADocument DEF NoSnapshots, SnapshotsAreGood, Cached
  <2>3. QED
    BY <2>1, <2>2 DEF LoadAnswered, FileOpened
<1>8. /\ disk' = disk /\ files' = files /\ autosave' = autosave
      /\ autosaveTimer' = autosaveTimer /\ typingBurstTimer' = typingBurstTimer
      /\ validateSeq' = validateSeq /\ puts' = puts /\ checks' = checks
      /\ listing' \in BOOLEAN /\ status' = "ready"
      /\ gets' = [gets EXCEPT ![g] = Idle]
  BY DEF LoadAnswered, FileOpened, Inv, TypeOK
<1>9. TypeOK'
  <2>1. open' \in Documents
    BY <1>6, GoodIsADocument
  <2>2. gets' \in [GetSlots -> Files \cup {NoFile, Idle}]
    BY <1>8 DEF Inv, TypeOK
  <2>3. QED
    BY <1>1, <1>5, <1>7, <1>8, <2>1, <2>2 DEF Inv, TypeOK
<1>10. OpenIsGood'
  BY <1>1, <1>6 DEF OpenIsGood
<1>11. (DiskIsGood /\ PutsAreGood)'
  BY <1>8 DEF Inv, DiskIsGood, PutsAreGood
<1>12. NoRedoDuringBurst'
  BY <1>6 DEF NoRedoDuringBurst
<1>13. QED
  BY <1>7, <1>9, <1>10, <1>11, <1>12 DEF Inv

\* Steps that leave the document, the files and the writes alone.
LEMMA ElsewhereKeepsInv ==
    ASSUME Inv,
           \/ TypingBurstEnds
           \/ SkipSave
           \/ FilesListed
           \/ \E g \in GetSlots : OpenFailed(g)
    PROVE  Inv'
<1>1. /\ configPath' = configPath /\ open' = open /\ docCache' = docCache
      /\ disk' = disk /\ autosave' = autosave /\ validateTimer' = validateTimer
      /\ validateSeq' = validateSeq /\ puts' = puts /\ checks' = checks
  BY DEF TypingBurstEnds, SkipSave, FilesListed, OpenFailed, timers, requests
<1>2. /\ typingBurstTimer' \in {typingBurstTimer, FALSE}
      /\ autosaveTimer' \in BOOLEAN
      /\ status' \in {status, "error"}
      /\ listing' \in {listing, FALSE}
      /\ files' = files \/ (listing /\ files' \in {Files, {configPath}})
  BY DEF Inv, TypeOK, TypingBurstEnds, SkipSave, FilesListed, OpenFailed, timers, requests
<1>3. gets' \in [GetSlots -> Files \cup {NoFile, Idle}]
  BY DEF Inv, TypeOK, TypingBurstEnds, SkipSave, FilesListed, OpenFailed, requests
<1>4. OpenIsGood'
  BY <1>1, <1>2 DEF Inv, OpenIsGood
<1>5. files' \in SUBSET Files
  BY <1>2 DEF Inv, TypeOK, OpenIsGood
<1>6. TypeOK'
  BY <1>1, <1>2, <1>3, <1>5 DEF Inv, TypeOK
<1>7. (SnapshotsAreGood /\ DiskIsGood /\ PutsAreGood)'
  BY <1>1 DEF Inv, SnapshotsAreGood, Cached, DiskIsGood, PutsAreGood
<1>8. NoRedoDuringBurst'
  BY <1>1, <1>2 DEF Inv, NoRedoDuringBurst
<1>9. QED
  BY <1>4, <1>6, <1>7, <1>8 DEF Inv

\* A check starts or is answered: only the badge moves.
LEMMA ValidationKeepsInv ==
    ASSUME Inv, ValidateFires \/ \E check \in checks : ValidateAnswered(check)
    PROVE  Inv'
<1>1. configPath \in Files /\ Good(open, configPath)
  BY DEF Inv, OpenIsGood, ValidateFires
<1>2. PICK verdict \in Verdicts :
          open' = [open EXCEPT !.validation = verdict] \/ open' = open
  <2>1. CASE ValidateFires
    BY <2>1 DEF ValidateFires, Verdicts
  <2>2. CASE \E check \in checks : ValidateAnswered(check)
    <3>1. PICK check \in checks : ValidateAnswered(check)
      BY <2>2
    <3>2. PICK verdict \in {Verdict(check.text), "unavailable"} :
              open' = IF Superseded(check) THEN open
                      ELSE [open EXCEPT !.validation = verdict]
      BY <3>1 DEF ValidateAnswered
    <3>3. verdict \in Verdicts
      BY DEF Verdict, Verdicts
    <3>4. QED
      BY <3>2, <3>3
  <2>3. QED
    BY <2>1, <2>2
<1>3. Good(open', configPath) /\ open'.redoStack = open.redoStack
  BY <1>1, <1>2, BadgeIsGood
<1>4. /\ configPath' = configPath /\ docCache' = docCache /\ disk' = disk
      /\ status' = status /\ files' = files /\ autosave' = autosave
      /\ autosaveTimer' = autosaveTimer /\ typingBurstTimer' = typingBurstTimer
      /\ puts' = puts /\ gets' = gets /\ listing' = listing
  BY DEF ValidateFires, ValidateAnswered, timers
<1>5. checks' \in SUBSET CheckRequests
  <2>1. open.text \in Texts
    BY <1>1 DEF Good, DocumentsOf, TextsOf
  <2>2. QED
    BY <2>1 DEF Inv, TypeOK, CheckRequests, ValidateFires, ValidateAnswered
<1>6. TypeOK'
  <2>1. open' \in Documents
    BY <1>1, <1>3, GoodIsADocument
  <2>2. validateTimer' \in BOOLEAN
    BY DEF Inv, TypeOK, ValidateFires, ValidateAnswered, timers
  <2>3. validateSeq' \in Nat
    BY DEF Inv, TypeOK, ValidateFires, ValidateAnswered
  <2>4. QED
    BY <1>4, <1>5, <2>1, <2>2, <2>3 DEF Inv, TypeOK
<1>7. OpenIsGood'
  BY <1>1, <1>3, <1>4 DEF OpenIsGood
<1>8. (SnapshotsAreGood /\ DiskIsGood /\ PutsAreGood /\ NoRedoDuringBurst)'
  BY <1>3, <1>4 DEF Inv, SnapshotsAreGood, Cached, DiskIsGood, PutsAreGood, NoRedoDuringBurst
<1>9. QED
  BY <1>6, <1>7, <1>8 DEF Inv

\* Nothing happens.
LEMMA StutterKeepsInv ==
    ASSUME Inv, UNCHANGED vars
    PROVE  Inv'
BY DEF Inv, TypeOK, OpenIsGood, SnapshotsAreGood, Cached, DiskIsGood, PutsAreGood,
       NoRedoDuringBurst, vars, timers, requests

\* The invariant is inductive.
LEMMA NextKeepsInv == Inv /\ [Next]_vars => Inv'
<1> SUFFICES ASSUME Inv, [Next]_vars PROVE Inv'
  OBVIOUS
<1>1. CASE User
  BY <1>1, EditKeepsInv, UserKeepsInv, StartSaveKeepsInv, SwitchKeepsInv
     DEF User, SaveClicked
<1>2. CASE Timer
  BY <1>2, ElsewhereKeepsInv, StartSaveKeepsInv, ValidationKeepsInv
     DEF Timer, AutosaveFires
<1>3. CASE Answer
  BY <1>3, PutKeepsInv, OpenedKeepsInv, ElsewhereKeepsInv, ValidationKeepsInv
     DEF Answer
<1>4. CASE UNCHANGED vars
  BY <1>4, StutterKeepsInv
<1>5. QED
  BY <1>1, <1>2, <1>3, <1>4 DEF Next

\* So it holds in every state of every session.
LEMMA InvHolds == Spec => []Inv
BY InitImpliesInv, NextKeepsInv, PTL DEF Spec

-----------------------------------------------------------------------------
(* What the invariant says.                                                *)

\* Every variable keeps holding a value of its kind.
THEOREM TypeCorrect == Spec => []TypeOK
<1>1. Inv => TypeOK
  BY DEF Inv
<1>2. QED
  BY <1>1, InvHolds, PTL

\* Whatever order switches, saves and answers come in, no file receives a
\* text, a parsed document or an undo entry made for another one; savedText is
\* the subject of SavedTextStrays in EditorRacesProofs.
THEOREM NoTextStrays == Spec => []TextsStayOnTheirFile
<1>1. ASSUME NEW f \in Files, NEW d, Good(d, f)
      PROVE  /\ TextOf[d.text] = f
             /\ d.doc # NoDoc => TextOf[d.doc] = f
             /\ \A i \in DOMAIN d.undoStack : TextOf[d.undoStack[i]] = f
             /\ \A i \in DOMAIN d.redoStack : TextOf[d.redoStack[i]] = f
  <2>1. /\ d.text \in TextsOf(f) /\ d.doc \in TextsOf(f) \cup {NoDoc}
        /\ d.undoStack \in Seq(TextsOf(f)) /\ d.redoStack \in Seq(TextsOf(f))
    BY <1>1 DEF Good, DocumentsOf
  <2>2. /\ \A i \in DOMAIN d.undoStack : d.undoStack[i] \in TextsOf(f)
        /\ \A i \in DOMAIN d.redoStack : d.redoStack[i] \in TextsOf(f)
    BY <2>1, ElementOfSeq, LenProperties
  <2>3. QED
    BY <2>1, <2>2 DEF TextsOf
<1>2. Inv => TextsStayOnTheirFile
  <2> SUFFICES ASSUME Inv PROVE TextsStayOnTheirFile
    OBVIOUS
  <2>1. configPath # NoFile => configPath \in Files /\ Good(open, configPath)
    BY DEF Inv, OpenIsGood
  <2>2. \A f \in Files : TextOf[disk[f]] = f /\ (Cached(f) => Good(docCache[f], f))
    BY DEF Inv, DiskIsGood, SnapshotsAreGood, TextsOf
  <2>3. \A s \in PutSlots :
            puts[s] # Idle => TextOf[puts[s].text] = ResolveConfigTarget(puts[s].path)
    BY DEF Inv, PutsAreGood, TextsOf
  <2>4. QED
    BY <1>1, <2>1, <2>2, <2>3 DEF TextsStayOnTheirFile
<1>3. QED
  BY <1>2, InvHolds, PTL

\* The two stacks share MAX_HISTORY between them.
THEOREM BoundedHistory == Spec => []HistoryIsBounded
<1>1. Inv => HistoryIsBounded
  <2>1. Bounded(Blank)
    BY HistoryAssumption DEF Bounded, Blank, Fresh
  <2>2. QED
    BY <2>1 DEF Inv, OpenIsGood, SnapshotsAreGood, Cached, Good, Bounded,
                HistoryIsBounded, AllDocuments
<1>2. QED
  BY <1>1, InvHolds, PTL

\* A typing burst never runs while there is something to redo.
THEOREM BurstsHaveNoRedo == Spec => []NoRedoDuringBurst
<1>1. Inv => NoRedoDuringBurst
  BY DEF Inv
<1>2. QED
  BY <1>1, InvHolds, PTL

\* A document marked dirty has something to save.
THEOREM DirtyIsEarned == Spec => []DirtyMeansDifferent
<1>1. Inv => DirtyMeansDifferent
  <2>1. Blank.isDirty = FALSE
    BY DEF Blank, Fresh
  <2>2. QED
    BY <2>1 DEF Inv, OpenIsGood, SnapshotsAreGood, Cached, Good, DirtyMeansDifferent,
                AllDocuments
<1>2. QED
  BY <1>1, InvHolds, PTL

-----------------------------------------------------------------------------
(* The action properties.                                                  *)

\* The snapshot of a file changes only when the user leaves that file, or all
\* of them go when a load starts a new session.
THEOREM SnapshotsSurvive == Spec => SnapshotsAreKept
<1>1. TypeOK /\ [Next]_vars
      => [docCache' = NoSnapshots
          \/ \A f \in Files \ {configPath} : docCache'[f] = docCache[f]]_vars
  <2> SUFFICES ASSUME TypeOK, Next
               PROVE  \/ docCache' = NoSnapshots
                      \/ \A f \in Files \ {configPath} : docCache'[f] = docCache[f]
    OBVIOUS
  <2>1. \/ docCache' \in {docCache, NoSnapshots}
        \/ docCache' = [docCache EXCEPT ![configPath] = open]
    BY DEF Next, User, Edit, SetText, Mutate, Undo, Redo, Edited, MutateThrows,
           ToggleAutosave, SaveClicked, StartSave, Load, SwitchToCached,
           SwitchToUnopened, Leave, Timer, TypingBurstEnds, AutosaveFires, SkipSave,
           ValidateFires, Answer, HostWrites, HostRefuses, SaveAnswered, SaveFailed,
           LoadAnswered, FileOpened, OpenFailed, FilesListed, ValidateAnswered
  <2>2. QED
    BY <2>1 DEF TypeOK
<1>2. QED
  BY <1>1, TypeCorrect, PTL DEF Spec, SnapshotsAreKept

\* Taking an entry off and putting it back.
LEMMA PopThenPush ==
    ASSUME NEW T, NEW stack \in Seq(T), stack # <<>>
    PROVE  Append(Front(stack), Last(stack)) = stack
<1>1. /\ Len(stack) \in Nat \ {0} /\ Front(stack) \in Seq(T) /\ Last(stack) \in T
      /\ Len(Front(stack)) = Len(stack) - 1
      /\ \A i \in 1..Len(stack) - 1 : Front(stack)[i] = stack[i]
  BY PopIsAStack, EmptySeq
<1>2. /\ Append(Front(stack), Last(stack)) \in Seq(T)
      /\ Len(Append(Front(stack), Last(stack))) = Len(stack)
      /\ \A i \in 1..Len(stack) : Append(Front(stack), Last(stack))[i] = stack[i]
  BY <1>1 DEF Last
<1>3. QED
  BY <1>2, SeqEqual

\* Popping what was pushed gives the stack back.
LEMMA FrontOfAppend ==
    ASSUME NEW T, NEW stack \in Seq(T), NEW text \in T
    PROVE  Front(Append(stack, text)) = stack
<1>1. /\ Append(stack, text) \in Seq(T) /\ Append(stack, text) # <<>>
      /\ Len(Append(stack, text)) = Len(stack) + 1
      /\ \A i \in 1..Len(stack) : Append(stack, text)[i] = stack[i]
  BY AppendProperties
<1> DEFINE longer == Append(stack, text)
<1> HIDE DEF longer
<1>2. /\ Front(longer) \in Seq(T)
      /\ Len(Front(longer)) = Len(longer) - 1
      /\ \A i \in 1..Len(longer) - 1 : Front(longer)[i] = longer[i]
  BY <1>1, PopIsAStack DEF longer
<1>3. Len(longer) - 1 = Len(stack)
  BY <1>1, LenProperties DEF longer
<1>4. \A i \in 1..Len(stack) : longer[i] = stack[i]
  BY <1>1 DEF longer
<1>5. QED
  BY <1>2, <1>3, <1>4, SeqEqual DEF longer

Line(past, text, future) == past \o <<text>> \o Reverse(future)

\* Undoing moves the present text in front of the future.
LEMMA TimelineShifts ==
    ASSUME NEW T, NEW past \in Seq(T), past # <<>>, NEW text \in T,
           NEW future \in Seq(T)
    PROVE  Line(Front(past), Last(past), Append(future, text)) = Line(past, text, future)
<1>1. Front(past) \in Seq(T) /\ Last(past) \in T
  BY PopIsAStack
<1>2. Front(past) \o <<Last(past)>> = past
  BY <1>1, AppendIsConcat, PopThenPush
<1>3. Reverse(future) \in Seq(T) /\ Len(Reverse(future)) = Len(future)
  BY LenProperties DEF Reverse
<1>4. Reverse(Append(future, text)) = <<text>> \o Reverse(future)
  <2>1. /\ Reverse(Append(future, text)) \in Seq(T)
        /\ Len(Reverse(Append(future, text))) = Len(future) + 1
    BY LenProperties DEF Reverse
  <2>2. /\ <<text>> \o Reverse(future) \in Seq(T)
        /\ Len(<<text>> \o Reverse(future)) = Len(future) + 1
    BY <1>3, ConcatProperties
  <2>3. ASSUME NEW i \in 1..Len(future) + 1
        PROVE  Reverse(Append(future, text))[i] = (<<text>> \o Reverse(future))[i]
    BY <1>3 DEF Reverse
  <2>4. QED
    BY <2>1, <2>2, <2>3, SeqEqual
<1>5. past \o (<<text>> \o Reverse(future)) = past \o <<text>> \o Reverse(future)
  BY <1>3, ConcatAssociative
<1>6. QED
  BY <1>2, <1>4, <1>5 DEF Line

\* Undo takes the latest of the past, redo the nearest of the future.
LEMMA BackKeepsTimeline ==
    ASSUME NEW f \in Files, NEW d, Good(d, f), d.undoStack # <<>>
    PROVE  Timeline(Back(d)) = Timeline(d)
<1>1. /\ d.undoStack \in Seq(TextsOf(f)) /\ d.redoStack \in Seq(TextsOf(f))
      /\ d.text \in TextsOf(f)
      /\ Len(d.undoStack) \in Nat \ {0} /\ Len(d.redoStack) \in Nat
      /\ Len(d.undoStack) + Len(d.redoStack) <= MaxHistory
  BY EmptySeq, LenProperties DEF Good, DocumentsOf, Bounded
<1>2. \A i \in Nat \ {0}, j \in Nat, m \in Nat : i + j <= m => j < m /\ j <= m
  OBVIOUS
<1>3. Len(d.redoStack) < MaxHistory /\ Len(d.redoStack) <= MaxHistory
  BY <1>1, <1>2, HistoryAssumption
<1>4. Push(d.redoStack, d.text) = Append(d.redoStack, d.text)
  BY <1>1, <1>3, PushIsAStack
<1>5. /\ Back(d).undoStack = Front(d.undoStack) /\ Back(d).text = Last(d.undoStack)
      /\ Back(d).redoStack = Append(d.redoStack, d.text)
  BY <1>4 DEF Back, Restored, Good, DocumentsOf
<1>6. Line(Front(d.undoStack), Last(d.undoStack), Append(d.redoStack, d.text))
      = Line(d.undoStack, d.text, d.redoStack)
  BY <1>1, TimelineShifts
<1>7. QED
  BY <1>5, <1>6 DEF Timeline, Line

\* redo moves the present forward along the history.
LEMMA ForwardKeepsTimeline ==
    ASSUME NEW f \in Files, NEW d, Good(d, f), d.redoStack # <<>>
    PROVE  Timeline(Forward(d)) = Timeline(d)
<1>1. /\ d.undoStack \in Seq(TextsOf(f)) /\ d.redoStack \in Seq(TextsOf(f))
      /\ d.text \in TextsOf(f)
      /\ Len(d.redoStack) \in Nat \ {0} /\ Len(d.undoStack) \in Nat
      /\ Len(d.undoStack) + Len(d.redoStack) <= MaxHistory
  BY EmptySeq, LenProperties DEF Good, DocumentsOf, Bounded
<1>2. \A i \in Nat \ {0}, j \in Nat, m \in Nat : j + i <= m => j < m /\ j <= m
  OBVIOUS
<1>3. Len(d.undoStack) < MaxHistory /\ Len(d.undoStack) <= MaxHistory
  BY <1>1, <1>2, HistoryAssumption
<1>4. Push(d.undoStack, d.text) = Append(d.undoStack, d.text)
  BY <1>1, <1>3, PushIsAStack
<1> DEFINE past == Append(d.undoStack, d.text)
           text == Last(d.redoStack)
           future == Front(d.redoStack)
<1>5. Forward(d).undoStack = past /\ Forward(d).text = text /\ Forward(d).redoStack = future
  BY <1>4 DEF Forward, Restored, Good, DocumentsOf
<1>6. past \in Seq(TextsOf(f)) /\ past # <<>>
  BY <1>1, AppendProperties
<1>7. Front(past) = d.undoStack
  BY <1>1, FrontOfAppend
<1>8. Last(past) = d.text
  BY <1>1, AppendProperties DEF Last
<1>9. future \in Seq(TextsOf(f)) /\ text \in TextsOf(f)
  BY <1>1, PopIsAStack
<1>10. Append(future, text) = d.redoStack
  BY <1>1, PopThenPush
<1> HIDE DEF past, text, future
<1>11. Line(Front(past), Last(past), Append(future, text)) = Line(past, text, future)
  BY <1>6, <1>9, TimelineShifts
<1>12. QED
  BY <1>5, <1>7, <1>8, <1>10, <1>11 DEF Timeline, Line

\* Undo and redo move the text shown along the history and change nothing
\* else of it: MAX_HISTORY never makes them drop an entry.
THEOREM HistoryIsNeverLost == Spec => HistoryIsATimeline
<1>1. Inv /\ [Next]_vars
      => [Undo \/ Redo => Timeline(open') = Timeline(open)]_vars
  <2> SUFFICES ASSUME Inv, Undo \/ Redo
               PROVE  Timeline(open') = Timeline(open)
    OBVIOUS
  <2>1. configPath \in Files /\ Good(open, configPath)
    BY PanesNeedAFile DEF Undo, Redo
  <2>2. PICK d \in {Back(open), Forward(open)} :
            Timeline(d) = Timeline(open) /\ Edited(d)
    BY <2>1, BackKeepsTimeline, ForwardKeepsTimeline DEF Undo, Redo
  <2>3. /\ open'.undoStack = d.undoStack /\ open'.text = d.text
        /\ open'.redoStack = d.redoStack
    BY <2>1, <2>2
       DEF Edited, Revalidate, Back, Forward, Restored, Good, DocumentsOf
  <2>4. QED
    BY <2>2, <2>3 DEF Timeline
<1>2. QED
  BY <1>1, InvHolds, PTL DEF Spec, HistoryIsATimeline

=============================================================================
