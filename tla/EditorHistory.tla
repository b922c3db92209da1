---------------------------- MODULE EditorHistory ----------------------------
(***************************************************************************)
(* The page builder's document and its history (configStore.ts): pages of  *)
(* blocks, the page that is being edited, and the stacks of undo and redo. *)
(*                                                                         *)
(* Where blocks stand on a page and what they say is left out, and `look`  *)
(* stands for the theme, the global widgets and the forms.  The store is   *)
(* changed by one synchronous call at a time.                              *)
(***************************************************************************)
EXTENDS Integers, SequencesExt

CONSTANTS
  PageIds,
  Home,     \* the page of a new site
  Blocks,
  Looks,
  MaxUndo   \* MAX_UNDO

ASSUME HomeAssumption == Home \in PageIds
ASSUME UndoAssumption == MaxUndo \in Nat \ {0}
ASSUME LookAssumption == Looks # {}

VARIABLES
  config,        \* what is edited
  activePageId,
  undoStack, redoStack

editorVars == <<config, activePageId, undoStack, redoStack>>

Page   == [id : PageIds, blocks : SUBSET Blocks]
\* blocks: the copy of one page's blocks beside the pages.
Config == [pages : Seq(Page) \ {<<>>}, blocks : SUBSET Blocks, look : Looks]

NewSite == [pages |-> <<[id |-> Home, blocks |-> {}]>>, blocks |-> {},
            look |-> CHOOSE l \in Looks : TRUE]

EditorInit ==
  /\ config = NewSite
  /\ activePageId = Home
  /\ undoStack = <<>> /\ redoStack = <<>>

Ids(c) == {c.pages[i].id : i \in DOMAIN c.pages}

\* Mutant: the oldest entries are kept.
PushUndo_All ==
  /\ undoStack' = Append(undoStack, config)
  /\ redoStack' = <<>>

\* Mutant: what could be redone still can.
PushUndo_Ahead ==
  /\ undoStack' = IF Len(undoStack) < MaxUndo THEN Append(undoStack, config)
                                              ELSE Append(Tail(undoStack), config)
  /\ UNCHANGED redoStack

PushUndo ==
  /\ undoStack' = IF Len(undoStack) < MaxUndo THEN Append(undoStack, config)
                                              ELSE Append(Tail(undoStack), config)
  /\ redoStack' = <<>>

\* The pages with the blocks of the active one replaced.
OnActive(blocks) ==
  [i \in DOMAIN config.pages |-> IF config.pages[i].id = activePageId
                                 THEN [config.pages[i] EXCEPT !.blocks = blocks]
                                 ELSE config.pages[i]]

-----------------------------------------------------------------------------
(* Blocks.                                                                 *)

\* updateBlock, removeBlock, moveBlockTo and the others that look for the page first.
ReworkBlocks ==
  /\ \E blocks \in SUBSET Blocks :
       config' = IF activePageId \in Ids(config)
                 THEN [config EXCEPT !.pages = OnActive(blocks), !.blocks = blocks]
                 ELSE config
  /\ PushUndo
  /\ UNCHANGED activePageId

\* addBlock, moveBlock and the others that go through mutateActivePageBlocks.
MutateBlocks ==
  /\ \E blocks \in SUBSET Blocks :
       config' = [config EXCEPT !.pages = OnActive(blocks),
                                !.blocks = IF activePageId \in Ids(config) THEN blocks ELSE {}]
  /\ PushUndo
  /\ UNCHANGED activePageId

-----------------------------------------------------------------------------
(* Pages and looks.                                                        *)

\* An id is a time, so that none comes twice.
UsedIds == Ids(config) \cup {activePageId}
           \cup UNION {Ids(undoStack[i]) : i \in DOMAIN undoStack}
           \cup UNION {Ids(redoStack[i]) : i \in DOMAIN redoStack}

AddPage(id) ==
  /\ id \notin UsedIds
  /\ config' = [config EXCEPT !.pages = Append(@, [id |-> id, blocks |-> {}])]
  /\ activePageId' = id
  /\ PushUndo

\* What the filter by id leaves: no two pages have one id.
Without(id) == RemoveAt(config.pages, CHOOSE i \in DOMAIN config.pages : config.pages[i].id = id)

\* Mutant: the page that is edited may go.
RemovePage_Active(id) ==
  /\ id \in Ids(config) /\ Len(config.pages) > 1
  /\ config' = [config EXCEPT !.pages = Without(id), !.blocks = Without(id)[1].blocks]
  /\ UNCHANGED activePageId
  /\ PushUndo

RemovePage(id) ==
  /\ id \in Ids(config) /\ Len(config.pages) > 1
  /\ config' = [config EXCEPT !.pages = Without(id), !.blocks = Without(id)[1].blocks]
  /\ activePageId' = IF activePageId = id THEN Without(id)[1].id ELSE activePageId
  /\ PushUndo

SetActivePage(id) ==
  /\ id \in Ids(config)
  /\ activePageId' = id
  /\ UNCHANGED <<config, undoStack, redoStack>>

\* setTheme, updateTheme, and what is done to the widgets and the forms.
SetLook(l) ==
  /\ config' = [config EXCEPT !.look = l]
  /\ PushUndo
  /\ UNCHANGED activePageId

\* previewTheme makes no entry.
PreviewTheme(l) ==
  /\ config' = [config EXCEPT !.look = l]
  /\ UNCHANGED <<activePageId, undoStack, redoStack>>

-----------------------------------------------------------------------------
(* History.                                                                *)

\* Mutant: the entry taken back is what redo will bring again.
Undo_Entry ==
  /\ undoStack # <<>>
  /\ config' = Last(undoStack)
  /\ undoStack' = Front(undoStack)
  /\ redoStack' = Append(redoStack, Last(undoStack))
  /\ UNCHANGED activePageId

Undo ==
  /\ undoStack # <<>>
  /\ config' = Last(undoStack)
  /\ undoStack' = Front(undoStack)
  /\ redoStack' = Append(redoStack, config)
  /\ UNCHANGED activePageId

Redo ==
  /\ redoStack # <<>>
  /\ config' = Last(redoStack)
  /\ redoStack' = Front(redoStack)
  /\ undoStack' = Append(undoStack, config)
  /\ UNCHANGED activePageId

\* Another document is loaded, or this one again.
SetConfig ==
  /\ config' \in {NewSite, config}
  /\ activePageId' = config'.pages[1].id
  /\ undoStack' = <<>> /\ redoStack' = <<>>

EditorNext ==
  \/ ReworkBlocks \/ MutateBlocks
  \/ \E id \in PageIds : AddPage(id) \/ RemovePage(id) \/ SetActivePage(id)
  \/ \E l \in Looks : SetLook(l) \/ PreviewTheme(l)
  \/ Undo \/ Redo \/ SetConfig

EditorSpec == EditorInit /\ [][EditorNext]_editorVars

-----------------------------------------------------------------------------
(* Properties.                                                             *)

EditorTypeOK ==
  /\ config \in Config
  /\ activePageId \in PageIds
  /\ undoStack \in Seq(Config) /\ redoStack \in Seq(Config)

(* However far one goes back and forth, the history stays within MAX_UNDO  *)
(* documents, although redo puts entries back without trimming the stack.  *)
HistoryBounded == Len(undoStack) + Len(redoStack) <= MaxUndo

(* Going back and forth loses nothing: the documents from the oldest entry *)
(* to the newest one that can be redone, with the current one in its       *)
(* place, are the same before and after, previewed changes included.       *)
Timeline == undoStack \o <<config>> \o Reverse(redoStack)

TimelineKept == [][Undo \/ Redo => Timeline' = Timeline]_editorVars

(* To whoever edits, the two stacks are one line of documents: an edit     *)
(* gives up what lay ahead and no more than the oldest document behind, a  *)
(* preview changes the document in its place, undo and redo only move.     *)
Line == INSTANCE EditTimeline WITH
          documents <- Timeline, cursor <- Len(undoStack) + 1, Depth <- MaxUndo

KeepsTimeline == Line!Spec

(* The page that is being edited exists, so that edits reach it, unless    *)
(* undo or redo has taken it away: neither looks after activePageId.       *)
OnlyHistoryStrands ==
  [][(activePageId \in Ids(config) => activePageId' \in Ids(config')) \/ Undo \/ Redo]_editorVars
=============================================================================
