-------------------------- MODULE DocumentHistory --------------------------
(***************************************************************************)
(* Document with history variables that record what its user has seen, and *)
(* the promises they let us state:                                         *)
(*                                                                         *)
(*   versions      the contents undo and redo can bring back, in order     *)
(*   savedContent  the content at the last save                            *)
(*   overtaken     since the last save a commit landed exactly on the      *)
(*                 saved depth, over a saved version that had been undone  *)
(*   torn          an overwrite failed after its deletion                  *)
(*                                                                         *)
(* They follow the document's steps and never constrain them.  Once torn,   *)
(* there is no line of versions left to record.                            *)
(***************************************************************************)
EXTENDS Document

VARIABLES versions, savedContent, overtaken, torn
history == <<versions, savedContent, overtaken, torn>>
hvars == <<doc, panicked, edits, versions, savedContent, overtaken, torn>>

\* Position of the document on its line of versions.
Cursor == Len(doc.undo) + 1

HInit ==
  /\ Init
  /\ versions = <<Content(doc.table)>>
  /\ savedContent = Content(doc.table)
  /\ overtaken = FALSE
  /\ torn = FALSE

HEdit ==
  /\ \E offset \in Offsets, n \in Sizes : EditAt(offset, n)
  /\ IF torn THEN UNCHANGED history
     ELSE /\ versions' = Append(SubSeq(versions, 1, Cursor), Content(doc'.table))
          /\ overtaken' = (overtaken \/ doc.savedDepth = Cursor)
          /\ UNCHANGED <<savedContent, torn>>

HRefused ==
  /\ \E offset \in Offsets, n \in Sizes : RefusedAt(offset, n)
  /\ UNCHANGED history

HTear ==
  /\ \E offset \in Offsets, n \in Sizes : TearAt(offset, n)
  /\ versions' = <<>> /\ savedContent' = <<>> /\ overtaken' = FALSE /\ torn' = TRUE

HMerge ==
  /\ Merge
  /\ IF torn THEN UNCHANGED history
     ELSE /\ versions' = Append(SubSeq(versions, 1, Cursor - 2), versions[Cursor])
          /\ UNCHANGED <<savedContent, overtaken, torn>>

HMove == (UndoStep \/ RedoStep) /\ UNCHANGED history

HSave ==
  /\ Save
  /\ IF torn THEN UNCHANGED history
     ELSE /\ savedContent' = Content(doc.table)
          /\ overtaken' = FALSE
          /\ UNCHANGED <<versions, torn>>

HNext == ~ panicked /\ (HEdit \/ HRefused \/ HTear \/ HMerge \/ HMove \/ HSave)

HSpec == HInit /\ [][HNext]_hvars

VH == INSTANCE VersionHistory
        WITH cur <- Cursor, content <- Content(doc.table)

-----------------------------------------------------------------------------
\* The document implements a version history: undo and redo restore exactly
\* the bytes of the version they lead to, and fill's chunks are one version
\* (document.rs:28, fill.rs:22-27).
ImplementsVersionHistory == VH!Spec

\* Undo and redo never hit the assertions of splice and delete, as long as no
\* overwrite has failed half-way, nor a redo the debug assertion of apply: it
\* deletes the byte runs that the first application deleted, however they are
\* now split into pieces (piece_table.rs:106, 145, document.rs:42-45).
UndoNeverPanics ==
  ~ torn =>
    /\ ~ panicked
    /\ doc.redo # <<>> =>
         LET tx == doc.redo[Len(doc.redo)]
         IN  \A k \in 1 .. Len(tx) : FindsSameRuns(AppliedUpTo(doc.table, tx)[k - 1], tx[k])

\* The saved depth names a version that undo or redo can still reach.
SavedDepthReachable ==
  doc.savedDepth # Unreachable => doc.savedDepth <= Len(doc.undo) + Len(doc.redo)

\* The saved depth is always one that undo or redo can reach and, as long as no
\* commit landed on the saved depth of an undone save, names the saved version; in
\* particular a clean document is the saved one (document.rs:139-142, 169-170).
SavedDepthNamesSavedVersion ==
  /\ SavedDepthReachable
  /\ ~ torn /\ ~ overtaken /\ doc.savedDepth # Unreachable =>
       /\ doc.savedDepth + 1 \in DOMAIN versions
       /\ versions[doc.savedDepth + 1] = savedContent

\* Whenever the document may be saved in place, writing its dirty ranges over
\* the source gives the document; and a source of fixed size can always be saved
\* so, its only way to be saved (document/io.rs:162).
SavesInPlace ==
  /\ DirtyRangesPatchTheSource
  /\ ~ doc.resizable /\ ~ torn => CanSaveInPlace(doc.table, doc.size)

\* document.rs:139: dirty() is true when there are unsaved changes.
DirtyWhenChanged == ~ torn /\ Content(doc.table) # savedContent => Dirty(doc)

\* piece_table.rs:145: the delete that undo and redo perform stays inside the
\* document.
NeverPanics == ~ panicked
=============================================================================
