------------------------------ MODULE Document ------------------------------
(***************************************************************************)
(* core/src/document.rs and document/fill.rs: a piece table with an        *)
(* append-only add buffer, an undo and a redo stack of transactions, and   *)
(* the depth of the undo stack at the last save, from which dirty() is     *)
(* computed.                                                               *)
(*                                                                         *)
(* A document is a record d, and each operation of the code is an operator *)
(* from documents to documents, so that the components that own a document *)
(* (saving, searching, the editor) can compose the same operators.         *)
(*                                                                         *)
(*   d.size        bytes of the source (source.size())                     *)
(*   d.table       the pieces                                              *)
(*   d.added       bytes in the add buffer                                 *)
(*   d.spilled     the add buffer lives in a temporary file                *)
(*   d.undo        transactions, the last one on top                       *)
(*   d.redo        likewise                                                *)
(*   d.savedDepth  Len(d.undo) at the last save; Unreachable = usize::MAX  *)
(*   d.resizable   the source's capability                                 *)
(***************************************************************************)
EXTENDS PieceTable

CONSTANTS
  SourceSizes,    \* bound: sizes of the original source
  MaxWrite,       \* bound: bytes one edit writes or removes
  MaxEdits,       \* bound: edits attempted, successful or not
  FillChunk,      \* FILL_CHUNK: bytes fill overwrites at a time
  SpillThreshold, \* bytes the add buffer keeps in memory
  AppendMayFail   \* whether the temporary file may refuse a write

ASSUME FillChunkAssumption == FillChunk \in Nat \ {0}
ASSUME BoundsAssumption == /\ SourceSizes \subseteq Nat
                           /\ MaxWrite \in Nat
                           /\ MaxEdits \in Nat
                           /\ SpillThreshold \in Nat
                           /\ AppendMayFail \in BOOLEAN

VARIABLES doc, panicked,
          edits   \* edits attempted so far, kept below MaxEdits
vars == <<doc, panicked, edits>>

Unreachable == -1

Edit == [kind : {"Insert", "Delete"}, offset : Nat, pieces : Seq(Piece)]
Transaction == Seq(Edit)
DocumentType == [size : Nat, table : Seq(Piece), added : Nat,
                 spilled : BOOLEAN,
                 undo : Seq(Transaction), redo : Seq(Transaction),
                 savedDepth : Nat \cup {Unreachable}, resizable : BOOLEAN]

Length(d) == TotalLen(d.table)
Dirty(d) == Len(d.undo) # d.savedDepth

-----------------------------------------------------------------------------
(* Applying and reverting edits.  CanApply and CanRevert are the assertions *)
(* of splice and delete; the debug assertion of a re-applied delete is      *)
(* FindsSameRuns.                                                           *)

InsertEdit(offset, ps) == [kind |-> "Insert", offset |-> offset, pieces |-> ps]
DeleteEdit(offset, ps) == [kind |-> "Delete", offset |-> offset, pieces |-> ps]

Apply(t, e) ==
  IF e.kind = "Insert" THEN Splice(t, e.offset, e.pieces)
                       ELSE Remove(t, e.offset, TotalLen(e.pieces))

CanApply(t, e) ==
  IF e.kind = "Insert" THEN CanSplice(t, e.offset)
                       ELSE CanDelete(t, e.offset, TotalLen(e.pieces))

Revert(t, e) ==
  IF e.kind = "Insert" THEN Remove(t, e.offset, TotalLen(e.pieces))
                       ELSE Splice(t, e.offset, e.pieces)

CanRevert(t, e) ==
  IF e.kind = "Insert" THEN CanDelete(t, e.offset, TotalLen(e.pieces))
                       ELSE CanSplice(t, e.offset)

FindsSameRuns(t, e) ==
  e.kind = "Delete" =>
    SameByteRuns(Removed(t, e.offset, TotalLen(e.pieces)), e.pieces)

\* The tables a redo goes through: `for e in &tx.edits { apply(..) }`.
AppliedUpTo(t, tx) ==
  LET f[k \in 0 .. Len(tx)] == IF k = 0 THEN t ELSE Apply(f[k - 1], tx[k])
  IN  f

\* A plausible slip: an undo that reverts the edits in the order of the redo.
RevertedForwards(t, tx) ==
  LET f[k \in 0 .. Len(tx)] == IF k = 0 THEN t ELSE Revert(f[k - 1], tx[k])
  IN  f

\* The tables an undo goes through: `for e in tx.edits.iter().rev()`.
RevertedUpTo(t, tx) ==
  LET f[k \in 0 .. Len(tx)] ==
        IF k = 0 THEN t ELSE Revert(f[k - 1], tx[Len(tx) + 1 - k])
  IN  f

ApplyPanics(t, tx) ==
  \E k \in 1 .. Len(tx) : ~ CanApply(AppliedUpTo(t, tx)[k - 1], tx[k])
RevertPanics(t, tx) ==
  \E k \in 1 .. Len(tx) : ~ CanRevert(RevertedUpTo(t, tx)[k - 1], tx[Len(tx) + 1 - k])

-----------------------------------------------------------------------------
(* commit and the edits.                                                    *)

\* A plausible slip: the redo stack survives a new edit.
CommitKeepsRedo(d, tx) ==
  [d EXCEPT !.undo = Append(@, tx),
            !.savedDepth = IF @ > Len(d.undo) + 1 THEN Unreachable ELSE @]

Commit(d, tx) ==
  [d EXCEPT !.undo = Append(@, tx),
            !.redo = <<>>,
            !.savedDepth = IF @ > Len(d.undo) + 1 THEN Unreachable ELSE @]

\* AddBuffer::append: past the threshold the buffer moves to a temporary file,
\* whose creation or writes may fail; the move alone may already have happened.
Spills(d, n) == d.spilled \/ d.added + n > SpillThreshold
Appended(d, n) == [d EXCEPT !.added = @ + n, !.spilled = Spills(d, n)]
AppendFailures(d, n) ==
  IF AppendMayFail /\ Spills(d, n)
    THEN {[d EXCEPT !.spilled = s] : s \in {d.spilled, TRUE}} ELSE {}

\* A plausible slip: append answers with the length after it, not its start.
EndPiece(d, n) == [store |-> "Added", offset |-> d.added + n, len |-> n]

AddedPiece(d, n) == [store |-> "Added", offset |-> d.added, len |-> n]

MayInsert(d, offset, n) == n > 0 /\ offset <= Length(d) /\ d.resizable
Insert(d, offset, n) ==
  LET e == InsertEdit(offset, <<AddedPiece(d, n)>>)
  IN  Commit([Appended(d, n) EXCEPT !.table = Apply(@, e)], <<e>>)

MayDelete(d, offset, n) == n > 0 /\ offset + n <= Length(d) /\ d.resizable
Delete(d, offset, n) ==
  Commit([d EXCEPT !.table = Remove(@, offset, n)],
         <<DeleteEdit(offset, Removed(d.table, offset, n))>>)

\* overwrite first deletes what it covers, then appends to the add buffer.
MayOverwrite(d, offset, n) ==
  /\ n > 0
  /\ offset <= Length(d)
  /\ offset + n <= Length(d) \/ d.resizable

Overlap(d, offset, n) == Smaller(Length(d) - offset, n)

Uncovered(d, offset, n) ==
  IF Overlap(d, offset, n) > 0
    THEN [d EXCEPT !.table = Remove(@, offset, Overlap(d, offset, n))] ELSE d

Covered(d, offset, n) ==
  IF Overlap(d, offset, n) > 0
    THEN <<DeleteEdit(offset, Removed(d.table, offset, Overlap(d, offset, n)))>> ELSE <<>>

Overwrite(d, offset, n) ==
  LET e == InsertEdit(offset, <<AddedPiece(d, n)>>)
  IN  Commit([Appended(Uncovered(d, offset, n), n) EXCEPT !.table = Apply(@, e)],
             Append(Covered(d, offset, n), e))

\* `self.add.append(data)?` returns early: the deletion stays, uncommitted.
FailedOverwrites(d, offset, n) == AppendFailures(Uncovered(d, offset, n), n)

-----------------------------------------------------------------------------
(* merge_with_previous, fill, undo, redo and the save point.                *)

MayMerge(d) == Len(d.undo) >= 2

\* A plausible slip: merging forgets that the saved point was the boundary.
MergeKeepsSavedDepth(d) ==
  LET n == Len(d.undo) - 1
  IN  IF MayMerge(d)
        THEN [d EXCEPT !.undo = Append(SubSeq(@, 1, n - 1), @[n] \o @[n + 1])]
        ELSE d

MergeWithPrevious(d) ==
  LET n == Len(d.undo) - 1        \* undo.len() after the pop
  IN  IF MayMerge(d)
        THEN [d EXCEPT
               !.undo = Append(SubSeq(@, 1, n - 1), @[n] \o @[n + 1]),
               !.savedDepth = CASE @ = n     -> Unreachable
                                [] @ = n + 1 -> n
                                [] OTHER     -> @]
        ELSE d

Chunks(n) == (n + FillChunk - 1) \div FillChunk
ChunkLen(n, k) == Smaller(n - k * FillChunk, FillChunk)

\* FilledUpTo(d, offset, n)[k]: the document after k chunks, each merged into
\* the first.
FilledUpTo(d, offset, n) ==
  LET f[k \in 0 .. Chunks(n)] ==
        IF k = 0 THEN d
        ELSE LET o == Overwrite(f[k - 1], offset + (k - 1) * FillChunk, ChunkLen(n, k - 1))
             IN  IF k > 1 THEN MergeWithPrevious(o) ELSE o
  IN  f

MayFill(d, offset, n) == n > 0 /\ offset + n <= Length(d)
Fill(d, offset, n) == FilledUpTo(d, offset, n)[Chunks(n)]
FailedFills(d, offset, n, k) ==
  FailedOverwrites(FilledUpTo(d, offset, n)[k], offset + k * FillChunk, ChunkLen(n, k))

Undo(d) ==
  LET tx == d.undo[Len(d.undo)]
  IN  [d EXCEPT !.table = RevertedUpTo(@, tx)[Len(tx)],
                !.undo = SubSeq(@, 1, Len(@) - 1),
                !.redo = Append(@, tx)]

Redo(d) ==
  LET tx == d.redo[Len(d.redo)]
  IN  [d EXCEPT !.table = AppliedUpTo(@, tx)[Len(tx)],
                !.redo = SubSeq(@, 1, Len(@) - 1),
                !.undo = Append(@, tx)]

MarkSaved(d) == [d EXCEPT !.savedDepth = Len(d.undo)]

NewDocument(size, resizable) ==
  [size |-> size, table |-> NewTable(size), added |-> 0, spilled |-> FALSE,
   undo |-> <<>>, redo |-> <<>>, savedDepth |-> 0, resizable |-> resizable]

-----------------------------------------------------------------------------
(* The document on its own: every public operation, in any order.           *)

Offsets == 0 .. Length(doc)
Sizes == 1 .. MaxWrite

Init == /\ \E size \in SourceSizes, resizable \in BOOLEAN :
             doc = NewDocument(size, resizable)
        /\ panicked = FALSE
        /\ edits = 0

InsertAt(offset, n) == MayInsert(doc, offset, n) /\ doc' = Insert(doc, offset, n)

DeleteAt(offset, n) == MayDelete(doc, offset, n) /\ doc' = Delete(doc, offset, n)

OverwriteAt(offset, n) == MayOverwrite(doc, offset, n) /\ doc' = Overwrite(doc, offset, n)

FillAt(offset, n) == MayFill(doc, offset, n) /\ doc' = Fill(doc, offset, n)

EditAt(offset, n) ==
  /\ edits < MaxEdits /\ edits' = edits + 1
  /\ \/ InsertAt(offset, n)
     \/ DeleteAt(offset, n)
     \/ OverwriteAt(offset, n)
     \/ FillAt(offset, n)
  /\ UNCHANGED panicked

\* An edit whose append fails before the table has changed: an insert, or an
\* overwrite at the very end.
RefusedAt(offset, n) ==
  /\ edits < MaxEdits /\ edits' = edits + 1
  /\ \/ MayInsert(doc, offset, n)
     \/ MayOverwrite(doc, offset, n) /\ Overlap(doc, offset, n) = 0
  /\ doc' \in AppendFailures(doc, n)
  /\ UNCHANGED panicked

\* An overwrite whose append fails after its deletion, on its own or as a chunk
\* of a fill.
TearAt(offset, n) ==
  /\ edits < MaxEdits /\ edits' = edits + 1
  /\ \/ /\ MayOverwrite(doc, offset, n)
        /\ Overlap(doc, offset, n) > 0
        /\ doc' \in FailedOverwrites(doc, offset, n)
     \/ /\ MayFill(doc, offset, n)
        /\ \E k \in 0 .. Chunks(n) - 1 : doc' \in FailedFills(doc, offset, n, k)
  /\ UNCHANGED panicked

\* Every caller merges right after its own edit was committed (fill.rs:61,
\* search/blocking.rs:65, gui hexview.rs), so there is nothing to redo.
Merge ==
  /\ doc.redo = <<>> /\ MayMerge(doc)
  /\ doc' = MergeWithPrevious(doc)
  /\ UNCHANGED <<panicked, edits>>

\* A failed assertion ends the process: nothing happens after it.
UndoStep ==
  /\ doc.undo # <<>>
  /\ IF RevertPanics(doc.table, doc.undo[Len(doc.undo)])
       THEN panicked' = TRUE /\ UNCHANGED doc
       ELSE doc' = Undo(doc) /\ UNCHANGED panicked
  /\ UNCHANGED edits

RedoStep ==
  /\ doc.redo # <<>>
  /\ IF ApplyPanics(doc.table, doc.redo[Len(doc.redo)])
       THEN panicked' = TRUE /\ UNCHANGED doc
       ELSE doc' = Redo(doc) /\ UNCHANGED panicked
  /\ UNCHANGED edits

\* What a successful save does to the document (document/io.rs).
Save ==
  /\ doc' = MarkSaved(doc)
  /\ UNCHANGED <<panicked, edits>>

Next ==
  /\ ~ panicked
  /\ \/ \E offset \in Offsets, n \in Sizes :
          EditAt(offset, n) \/ RefusedAt(offset, n) \/ TearAt(offset, n)
     \/ Merge \/ UndoStep \/ RedoStep \/ Save

Spec == Init /\ [][Next]_vars

-----------------------------------------------------------------------------
\* Every field of the document has its type.
TypeOK == doc \in DocumentType /\ panicked \in BOOLEAN /\ edits \in 0 .. MaxEdits

\* Every field has its type, and every piece of the table and of both stacks is
\* non-empty and lies inside its store, so the reads that document/io.rs:32 calls
\* infallible are.
StoredPiece(d) ==
  {p \in Piece : /\ p.len > 0
                 /\ p.offset + p.len <= IF p.store = "Added" THEN d.added ELSE d.size}

StoredTransaction(d) ==
  Seq([kind : {"Insert", "Delete"}, offset : Nat, pieces : Seq(StoredPiece(d))])

PiecesInStores ==
  /\ TypeOK
  /\ doc.table \in Seq(StoredPiece(doc))
  /\ doc.undo \in Seq(StoredTransaction(doc))
  /\ doc.redo \in Seq(StoredTransaction(doc))

\* pieces_in and modified_in, over every range, against the content they stand
\* for: the bytes of the range, and exactly its added positions, in maximal runs.
ReadsTheContent ==
  LET c == Content(doc.table)
  IN  \A a \in 0 .. Len(c) : \A b \in a .. Len(c) :
        Content(PiecesIn(doc.table, a, b)) = SubSeq(c, a + 1, b)

ModifiedIsExact ==
  LET c == Content(doc.table)
  IN  \A a \in 0 .. Len(c) : \A b \in a .. Len(c) :
        LET out == ModifiedIn(doc.table, a, b)
        IN  /\ UNION {out[k][1] .. out[k][2] - 1 : k \in 1 .. Len(out)}
                 = {i \in a .. b - 1 : c[i + 1][1] = "Added"}
            /\ \A k \in 1 .. Len(out) - 1 : out[k][2] < out[k + 1][1]

\* When inplace_dirty_ranges answers, writing just those ranges over the source
\* yields the document (document/io.rs:136-144).
Patched(t, size) ==
  LET c == Content(t)
      dirty == DirtyRanges(t)
  IN  [i \in 1 .. size |->
         IF \E k \in 1 .. Len(dirty) : dirty[k][1] < i /\ i <= dirty[k][2]
           THEN c[i] ELSE <<"Original", i - 1>>]

DirtyRangesPatchTheSource ==
  CanSaveInPlace(doc.table, doc.size) => Patched(doc.table, doc.size) = Content(doc.table)
=============================================================================
