----------------------------- MODULE EditTimeline -----------------------------
(***************************************************************************)
(* What undo and redo promise to whoever edits a site: a line of documents *)
(* in the order in which they came about, and a cursor at the one shown.   *)
(***************************************************************************)
EXTENDS Integers, Sequences

CONSTANTS Depth  \* documents that are kept behind the cursor

VARIABLES documents, cursor

vars == <<documents, cursor>>

Shown == documents[cursor]

Init == cursor = 1 /\ documents = <<Shown>>

\* A new document follows the one shown; what lay ahead is given up, and so is the oldest
\* one if there are too many behind.
Edit ==
  /\ documents' = Append(SubSeq(documents, IF cursor > Depth THEN 2 ELSE 1, cursor), Shown')
  /\ cursor' = Len(documents')

\* The document shown changes in its place.
Adjust ==
  /\ documents' = [documents EXCEPT ![cursor] = Shown']
  /\ UNCHANGED cursor

Back ==
  /\ cursor > 1
  /\ cursor' = cursor - 1
  /\ UNCHANGED documents

Forward ==
  /\ cursor < Len(documents)
  /\ cursor' = cursor + 1
  /\ UNCHANGED documents

\* Another line begins.
Open == cursor' = 1 /\ documents' = <<Shown'>>

Next == Edit \/ Adjust \/ Back \/ Forward \/ Open

Spec == Init /\ [][Next]_vars
=============================================================================
