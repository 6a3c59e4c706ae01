----------------------------- MODULE MCBrowser -----------------------------
(***************************************************************************)
(* The scripts of LAM's pages that are modelled, for TLC: the upload       *)
(* widget, the editor's undo manager and jQuery's callback lists.  They    *)
(* share no state, so that one of them is chosen at the beginning and      *)
(* explored while the others rest.                                         *)
(***************************************************************************)
EXTENDS UploadQueue, UndoManager, Callbacks

AllModes == [autoUpload : BOOLEAN, multiple : BOOLEAN, showButton : {TRUE}]
\* unique and stopOnFalse have to do with different operations.
SomeListOptions ==
  {o \in [once : BOOLEAN, memory : BOOLEAN, unique : BOOLEAN, stopOnFalse : BOOLEAN] :
     o.unique = o.stopOnFalse}

vars == <<uploadVars, undoVars, callbackVars>>

AnyMode == uploadMode = CHOOSE m \in UploadModes : TRUE
AnyList == options = CHOOSE o \in ListOptions : TRUE

Init == UploadInit /\ UndoInit /\ CallbacksInit /\ (AnyMode \/ AnyList)

UploadMoves ==
  /\ UploadNext
  /\ UndoInit /\ CallbacksInit /\ AnyList
  /\ UNCHANGED <<undoVars, callbackVars>>

EditorMoves ==
  /\ UndoNext
  /\ UploadInit /\ AnyMode /\ CallbacksInit /\ AnyList
  /\ UNCHANGED <<uploadVars, callbackVars>>

ListMoves ==
  /\ CallbacksNext
  /\ UploadInit /\ AnyMode /\ UndoInit
  /\ UNCHANGED <<uploadVars, undoVars>>

Next == UploadMoves \/ EditorMoves \/ ListMoves

FairSpec == Init /\ [][Next]_vars /\ UploadFairness
=============================================================================
