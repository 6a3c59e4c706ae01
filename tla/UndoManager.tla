---------------------------- MODULE UndoManager ----------------------------
(***************************************************************************)
(* The undo manager of CKEditor, which LAM uses for texts in HTML: the     *)
(* stack of snapshots, the lock around changes that are not recorded, and  *)
(* the native editing handler, which makes snapshots of what keydown,      *)
(* input, keyup, click and paste events do to the document.  A snapshot is *)
(* a content and a selection, both compared for equality only.  The        *)
(* operations work on the manager's fields as a record, because they call  *)
(* one another.                                                            *)
(***************************************************************************)
EXTENDS Integers, Sequences, SequencesExt, Functions

CONSTANTS Contents,     \* what the document may contain
          Selections,   \* what may be selected
          Limit,        \* config.undoStackSize
          StrokesLimit, \* strokesLimit, 25 in the code
          Keys,         \* keys on the keyboard: "letter", "back", "arrow"
          MaxHeld,      \* bound: keys that are held at the same time
          MaxEdits,     \* bound: changes of the document
          MaxTurns      \* bound: moves of the selection, first locks, pastes, changes of
                        \* mode, resets

ASSUME UndoAssumption ==
  /\ Contents \subseteq Nat /\ Contents # {} /\ Selections # {}
  /\ Limit \in Nat \ {0} /\ StrokesLimit \in Nat \ {0}
  /\ Keys \subseteq {"letter", "back", "arrow"}
  /\ MaxHeld \in Nat /\ MaxEdits \in Nat /\ MaxTurns \in Nat

VARIABLES um,       \* the UndoManager, see FirstImage
          document, \* [content, sel]
          keyStack, \* keyEventsStack: sequence of [key, inputs]
          ignored,  \* ignoreInputEvent
          mode,     \* "wysiwyg", "source", or "" while the mode changes
          source,   \* _.previousModeData: the content on entering the source mode
          script,   \* "idle", or a script between its snapshots: "open", "changed"
          edits,    \* changes so far
          turns,    \* what MaxTurns bounds, so far
          stray     \* ghost: a change was kept from the manager, see Properties

undoVars == <<um, document, keyStack, ignored, mode, source, script, edits, turns, stray>>

NoUpdate == -2     \* locked.update is not there
ForceUpdate == -1  \* locked.update is true
Group(key) == IF key = "back" THEN "functional" ELSE "printable"
NoStrokes == [g \in {"printable", "functional"} |-> 0]

\* reset, and the first snapshot.
FirstImage(d) ==
  [snapshots |-> <<d>>, index |-> 1, current |-> d,
   hasUndo |-> FALSE, hasRedo |-> FALSE,
   locked |-> [level |-> 0, update |-> NoUpdate],
   typing |-> FALSE, strokes |-> NoStrokes, group |-> "none"]

UndoInit ==
  /\ document \in [content : {CHOOSE c \in Contents : TRUE},
                   sel : {CHOOSE s \in Selections : TRUE}]
  /\ um = FirstImage(document)
  /\ keyStack = <<>> /\ ignored = FALSE
  /\ mode = "wysiwyg" /\ source = document.content
  /\ script = "idle" /\ edits = 0 /\ turns = 0 /\ stray = FALSE

Locked(u) == u.locked.level > 0
-----------------------------------------------------------------------------
(* The manager's operations.                                               *)

ResetType(u) == [u EXCEPT !.strokes = NoStrokes, !.typing = FALSE, !.group = "none"]

\* getNextImage: the nearest snapshot of another content, 0 if there is none.
Differing(u, indices) == {i \in indices : u.snapshots[i].content # u.current.content}
Previous(u) == LET d == Differing(u, 1..(u.index - 1)) IN
               IF d = {} THEN 0 ELSE Max(d)
Following(u) == LET d == Differing(u, (u.index + 1)..Len(u.snapshots)) IN
                IF d = {} THEN 0 ELSE Min(d)

RefreshState(u) ==
  ResetType([u EXCEPT !.hasUndo = Previous(u) # 0, !.hasRedo = Following(u) # 0])

\* Mutant of Saves: the lock is not looked at.
SavesLocked(u, d, contentOnly) ==
  d.content # u.current.content \/ (~contentOnly /\ d # u.current)

\* Whether save takes the image.  It is only called in the wysiwyg mode here.
Saves(u, d, contentOnly) ==
  /\ ~Locked(u)
  /\ d.content # u.current.content \/ (~contentOnly /\ d # u.current)

\* Mutant of Pushed: one snapshot too many.
PushedOverLimit(u, d) ==
  LET kept == SubSeq(u.snapshots, 1, u.index)
      room == IF Len(kept) > Limit THEN Tail(kept) ELSE kept
  IN  [u EXCEPT !.snapshots = Append(room, d), !.index = Len(room) + 1, !.current = d]

\* Push d after the index; the oldest goes if the stack is full.
Pushed(u, d) ==
  LET kept == SubSeq(u.snapshots, 1, u.index)
      room == IF Len(kept) = Limit THEN Tail(kept) ELSE kept
  IN  [u EXCEPT !.snapshots = Append(room, d), !.index = Len(room) + 1, !.current = d]

Save(u, d, contentOnly) ==
  IF Saves(u, d, contentOnly) THEN RefreshState(Pushed(u, d)) ELSE u

\* autoFireChange = false
SaveQuietly(u, d, contentOnly) ==
  IF Saves(u, d, contentOnly) THEN Pushed(u, d) ELSE u

\* update: all the snapshots up to the index with the same content become one.
Update(u, d) ==
  IF Locked(u) THEN u
  ELSE LET other == {i \in 1..(u.index - 1) :
                       u.snapshots[i].content # u.current.content}
           i == IF other = {} THEN 1 ELSE Max(other) + 1
       IN  [u EXCEPT !.snapshots = SubSeq(@, 1, i - 1) \o <<d>>
                                   \o SubSeq(@, u.index + 1, Len(@)),
                     !.index = i, !.current = d]

\* Mutant of Restore: the snapshot is not amended with what has become of it.
RestoreAsStored(u, i, d) ==
  RefreshState([u EXCEPT !.locked = [level |-> 0, update |-> NoUpdate],
                         !.index = i, !.current = u.snapshots[i]])

\* restoreImage: d is what the document has become when snapshot i was loaded, and
\* amends the snapshot.
Restore(u, i, d) ==
  LET v == [u EXCEPT !.locked = [level |-> 0, update |-> NoUpdate],
                     !.index = i, !.current = u.snapshots[i]]
  IN  RefreshState(Update(v, d))

\* updateSelection looks at the last snapshot, wherever the index is.
UpdateSelection(u, d) ==
  LET n == Len(u.snapshots) IN
  IF u.snapshots[n].content = d.content /\ u.snapshots[n] # d
  THEN [u EXCEPT !.snapshots[n] = d, !.current = d] ELSE u

\* Mutant of TypingStarts: the undo command is left as it was.
TypingUnmarked(u) == IF u.typing THEN u ELSE [u EXCEPT !.typing = TRUE]

\* type, which saves when enough keys have been recorded.
TypingStarts(u) ==
  IF u.typing THEN u ELSE [u EXCEPT !.typing = TRUE, !.hasUndo = TRUE, !.hasRedo = FALSE]

Type(u, d, key, exceeded) ==
  LET n == u.strokes[Group(key)] + 1
      full == exceeded \/ n >= StrokesLimit
      t == TypingStarts(u)
      v == IF full THEN Save(t, d, FALSE) ELSE t
  IN  [v EXCEPT !.strokes[Group(key)] = IF full THEN 0 ELSE n, !.group = Group(key)]

LockOn(u, dontUpdate, forceUpdate) ==
  IF Locked(u) THEN [u EXCEPT !.locked.level = @ + 1]
  ELSE [u EXCEPT !.locked =
         [level |-> 1,
          update |-> IF dontUpdate THEN NoUpdate ELSE IF forceUpdate THEN ForceUpdate
                     ELSE IF u.current.content = document.content THEN document.content
                     ELSE NoUpdate]]

LockOff(u, d) ==
  LET update == u.locked.update
      v == [u EXCEPT !.locked = IF @.level > 1
                                THEN [level |-> @.level - 1, update |-> update]
                                ELSE [level |-> 0, update |-> NoUpdate]]
  IN  IF ~Locked(v) /\ (update = ForceUpdate \/ update \notin {NoUpdate, d.content})
      THEN Update(v, d) ELSE v
-----------------------------------------------------------------------------
(* The editor's events.                                                    *)

\* What happens between the events of a script does not interleave with others.
Event == script = "idle" /\ mode = "wysiwyg"
Changes(c) == edits < MaxEdits /\ edits' = edits + 1 /\ document' = [document EXCEPT !.content = c]
Turns == turns < MaxTurns /\ turns' = turns + 1
Moves(sel) == /\ document' = [document EXCEPT !.sel = sel]
              /\ IF sel = document.sel THEN turns' = turns ELSE Turns
Quiet == UNCHANGED <<ignored, mode, source, script>>
\* An event that leaves the document, the keys and the modes alone.
Still == UNCHANGED <<document, keyStack, ignored, mode, source, script, edits, stray>>

\* Unrecorded changes are saved first, and then there is nothing to redo.
Saved == Save(um, document, TRUE)

\* The content that the browser makes of a snapshot may be another one.
Loads(c, d) ==
  /\ document' = [d EXCEPT !.content = c]
  /\ IF c = d.content THEN edits' = edits ELSE edits < MaxEdits /\ edits' = edits + 1

GoTo(i) ==
  /\ IF i = 0 THEN um' = Saved /\ UNCHANGED <<document, edits>>
     ELSE /\ \E c \in Contents : Loads(c, Saved.snapshots[i])
          /\ um' = Restore(Saved, i, document')
  /\ stray' = (stray \/ Locked(um))
  /\ Quiet /\ UNCHANGED <<keyStack, turns>>

Undo == Event /\ um.hasUndo /\ GoTo(Previous(Saved))
Redo == Event /\ um.hasRedo /\ GoTo(IF Saved.hasRedo THEN Following(Saved) ELSE 0)

LastIndex(key) ==
  IF \E i \in DOMAIN keyStack : keyStack[i].key = key
  THEN Max({i \in DOMAIN keyStack : keyStack[i].key = key}) ELSE 0
TotalInputs == FoldFunction(+, 0, [i \in DOMAIN keyStack |-> keyStack[i].inputs])

Held == {i \in DOMAIN keyStack : keyStack[i].key # "zero"}

\* A key that starts another kind of typing closes the one before.
Keydown(key) ==
  /\ Event /\ (LastIndex(key) = 0 => Cardinality(Held) < MaxHeld)
  /\ keyStack' = IF LastIndex(key) = 0 THEN Append(keyStack, [key |-> key, inputs |-> 0])
                 ELSE keyStack
  /\ um' = IF /\ key = "arrow" \/ Group(key) # um.group
              /\ um.strokes # NoStrokes
           THEN ResetType(SaveQuietly(um, document, FALSE)) ELSE um
  /\ Quiet /\ UNCHANGED <<document, edits, turns, stray>>

\* The browser has changed the document.  Without a key (on Android, or from a
\* menu) the input is counted for a key 0, which no keyup takes away.
Input(c) ==
  /\ Event /\ Changes(c) /\ c # document.content
  /\ UNCHANGED <<mode, source, script, turns>>
  /\ stray' = (stray \/ ignored)
  /\ IF ignored THEN ignored' = FALSE /\ UNCHANGED <<um, keyStack>>
     ELSE LET stack == IF keyStack = <<>> THEN <<[key |-> "zero", inputs |-> 0]>> ELSE keyStack
              key == Last(stack).key
              counted == [stack EXCEPT ![Len(stack)].inputs = @ + 1]
              total == TotalInputs + 1
          IN  /\ IF total >= StrokesLimit
                 THEN /\ um' = Type(um, document', key, TRUE)
                      /\ keyStack' = [i \in DOMAIN counted |-> [counted[i] EXCEPT !.inputs = 0]]
                 ELSE um' = um /\ keyStack' = counted
              /\ UNCHANGED ignored

Without(key) == IF LastIndex(key) = 0 THEN keyStack ELSE RemoveAt(keyStack, LastIndex(key))
AmendSelection(u, d) == ResetType(UpdateSelection(u, d))

\* updateSelection without a save before, which was refused by a lock or left to a
\* keydown that had nothing to save.
AmendsOther == document.content # um.current.content

\* The key has moved the cursor, or what it has typed is counted.  It may have been
\* pressed before the editor had the focus.
Keyup(key, sel) ==
  /\ Event
  /\ stray' = (stray \/ (key = "arrow" /\ TotalInputs = 0 /\ AmendsOther))
  /\ keyStack' = Without(key)
  /\ Moves(IF key = "arrow" THEN sel ELSE document.sel)
  /\ um' = IF TotalInputs > 0 THEN Type(um, document', key, FALSE)
           ELSE IF key = "arrow" THEN AmendSelection(um, document') ELSE um
  /\ Quiet /\ UNCHANGED edits

\* onNavigationKey
Click(sel) ==
  /\ Event
  /\ stray' = (stray \/ (Locked(um) /\ AmendsOther))
  /\ Moves(sel)
  /\ um' = IF Saves(um, document', TRUE) THEN ResetType(Pushed(um, document'))
           ELSE AmendSelection(um, document')
  /\ Quiet /\ UNCHANGED <<keyStack, edits>>

\* paste and drop events; afterPaste does not follow if the paste is cancelled.
Paste == Event /\ ~ignored /\ ignored' = TRUE /\ Turns
         /\ UNCHANGED <<um, document, keyStack, mode, source, script, edits, stray>>
AfterPaste == Event /\ ignored /\ ignored' = FALSE
              /\ UNCHANGED <<um, document, keyStack, mode, source, script, edits, turns, stray>>

\* The lock will not be followed by an update.
Unseen == Locked(um) /\ um.locked.update = NoUpdate

\* saveSnapshot, or a command begins; then it changes the document; in the end it
\* saves again (afterCommandExec too) or amends what it has saved (updateSnapshot).
ScriptBegins(contentOnly) ==
  /\ Event
  /\ um' = Save(um, document, contentOnly)
  /\ script' = "open"
  /\ UNCHANGED <<document, keyStack, ignored, mode, source, edits, turns, stray>>

ScriptChanges(c) ==
  /\ script = "open" /\ Changes(c) /\ c # document.content
  /\ script' = "changed" /\ stray' = (stray \/ Unseen)
  /\ UNCHANGED <<um, keyStack, ignored, mode, source, turns>>

ScriptEnds ==
  /\ script = "changed"
  /\ \/ um' = Save(um, document, FALSE)
     \/ um' = Update(um, document)
  /\ script' = "idle"
  /\ UNCHANGED <<document, keyStack, ignored, mode, source, edits, turns, stray>>

\* lockSnapshot; some holders keep the lock until a timeout or another event.
TakeLock(dontUpdate, forceUpdate) ==
  /\ Event /\ um.locked.level < 2
  /\ um' = LockOn(um, dontUpdate, forceUpdate)
  /\ IF Locked(um) THEN UNCHANGED turns ELSE Turns
  /\ Still

\* What the holder of the lock does to the document.
HolderChanges(c) ==
  /\ Event /\ Locked(um) /\ Changes(c) /\ c # document.content
  /\ stray' = (stray \/ Unseen)
  /\ Quiet /\ UNCHANGED <<um, keyStack, turns>>

ReleaseLock ==
  /\ Event /\ Locked(um)
  /\ um' = LockOff(um, document)
  /\ Still /\ UNCHANGED turns

\* setMode("source"): beforeModeUnload saves.
ToSource ==
  /\ Event
  /\ um' = Save(um, document, TRUE)
  /\ mode' = "source" /\ source' = document.content
  /\ Turns /\ stray' = (stray \/ Locked(um))
  /\ UNCHANGED <<document, keyStack, ignored, script, edits>>

SourceChanges(c) ==
  /\ mode = "source" /\ Changes(c) /\ c # document.content
  /\ Quiet /\ UNCHANGED <<um, keyStack, turns, stray>>

\* setMode("wysiwyg"): data that was not changed is locked, and when the mode has
\* been loaded the last snapshot is replaced by what the browser has made of it (c);
\* otherwise it is a new snapshot.
FromSource ==
  /\ mode = "source"
  /\ IF document.content = source THEN mode' = "back" /\ um' = LockOn(um, FALSE, TRUE)
     ELSE mode' = "changed" /\ um' = um
  /\ UNCHANGED <<document, keyStack, ignored, source, script, edits, turns, stray>>

ModeLoaded(c) ==
  /\ mode \in {"back", "changed"}
  /\ mode' = "wysiwyg"
  /\ document' = [document EXCEPT !.content = IF mode = "back" THEN c ELSE @]
  /\ um' = IF mode = "back" THEN LockOff(um, document') ELSE Save(um, document', FALSE)
  /\ UNCHANGED <<keyStack, ignored, source, script, edits, turns, stray>>

\* editor.resetUndo
ResetUndo ==
  /\ Event
  /\ um' = FirstImage(document)
  /\ Turns /\ Still

UndoEvents ==
  \/ Undo \/ Redo \/ Paste \/ AfterPaste \/ ScriptEnds \/ ReleaseLock
  \/ ToSource \/ FromSource \/ ResetUndo
  \/ \E key \in Keys : Keydown(key) \/ \E sel \in Selections : Keyup(key, sel)
  \/ \E sel \in Selections : Click(sel)
  \/ \E c \in Contents :
       \/ Input(c) \/ ScriptChanges(c) \/ HolderChanges(c) \/ SourceChanges(c) \/ ModeLoaded(c)
  \/ \E b \in BOOLEAN : ScriptBegins(b)
  \/ \E dont, force \in BOOLEAN : TakeLock(dont, force)

\* Nothing is claimed of what follows a stray change, and it is not explored.
UndoNext ==
  /\ UndoEvents
  /\ ~stray'
-----------------------------------------------------------------------------
(* Properties.  A change is kept from the manager, and nothing is claimed  *)
(* about the history, once an input was ignored after a cancelled paste, a *)
(* script has changed the document under a lock that does not update, or   *)
(* undo or a change of mode came during a lock.                            *)

\* The contents of some snapshots, without those that only differ in the selection.
Recorded(lo, hi) ==
  LET Content(i) == um.snapshots[i].content
      starts == SelectSeq([i \in 1..(hi + 1 - lo) |-> lo + i - 1],
                          LAMBDA i : i = lo \/ Content(i) # Content(i - 1))
  IN  [k \in DOMAIN starts |-> Content(starts[k])]

H == INSTANCE UndoHistory
       WITH past <- Front(Recorded(1, um.index)), now <- um.current.content,
            future <- Recorded(um.index + 1, Len(um.snapshots)),
            doc <- document.content

\* The stack stays within its limit, and the image that is compared with is the one the
\* index points at, perhaps with another selection.
StackOK ==
  /\ um.index \in DOMAIN um.snapshots /\ Len(um.snapshots) <= Limit
  /\ um.locked.level \in 0..3
  /\ keyStack \in Seq([key : Keys \union {"zero"}, inputs : Nat])
  /\ stray \/ um.snapshots[um.index].content = um.current.content

\* The last holder of a lock that was taken while all was recorded, or to update in
\* any case, is done.
LockEnds == um.locked.level = 1 /\ um'.locked.level = 0 /\ um.locked.update # NoUpdate

\* Undo goes back by exactly one content and redo returns by it, whatever the browser
\* makes of the content, unrecorded changes are recorded first, and no other event
\* moves along the history or loses of it more than what redo would bring back and
\* the oldest content.  What was done under a lock becomes part of the present when
\* the last holder is done, whoever else has taken the lock meanwhile.
HistoryKept ==
  [][ \/ stray'
      \/ Undo /\ (H!Back \/ UNCHANGED H!historyVars)
      \/ Redo /\ (H!Forward \/ H!Record \/ UNCHANGED H!historyVars)
      \/ ResetUndo /\ H!Forget
      \/ /\ ~Undo /\ ~Redo
         /\ IF LockEnds THEN H!Amend ELSE H!Edit \/ H!Record \/ H!Amend ]_um

\* While there is something to go back to, the undo command is enabled: an earlier
\* content, or one that has been typed and whose keys are up.
UndoOffered ==
  stray \/ script # "idle" \/ Locked(um) \/ TotalInputs > 0 \/ mode # "wysiwyg"
        \/ ((Previous(um) # 0 \/ document.content # um.current.content) => um.hasUndo)

\* Contents that are recorded are not changed while somebody holds the lock.
LockKeeps ==
  [][ (Locked(um) /\ Locked(um)') =>
      [i \in DOMAIN um.snapshots |-> um.snapshots[i].content]' =
      [i \in DOMAIN um.snapshots |-> um.snapshots[i].content] ]_um
=============================================================================
