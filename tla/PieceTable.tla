----------------------------- MODULE PieceTable -----------------------------
(***************************************************************************)
(* The piece table of core/src/piece_table.rs: a document is a sequence of *)
(* pieces, each a span of the original source or of the add buffer.        *)
(*                                                                         *)
(* Bytes are abstracted to cells <<store, offset>>: two positions hold the *)
(* same cell iff they refer to the same stored byte, which is all that the *)
(* table's operations distinguish.  Content(t) is the document a table     *)
(* stands for, the reference every operation below is compared with.       *)
(*                                                                         *)
(* Positions and ranges are 0-based and half-open, as in the code; TLA+    *)
(* sequences are 1-based, hence the "+ 1" in SubSeq.                       *)
(*                                                                         *)
(* Every recursion is a recursive function over a prefix of the sequence,  *)
(* so that the proof modules can unfold it.                                *)
(***************************************************************************)
EXTENDS Integers, Sequences

Store == {"Original", "Added"}
Cell == Store \X Nat
Piece == [store : Store, offset : Nat, len : Nat]

Smaller(a, b) == IF a < b THEN a ELSE b
Larger(a, b) == IF a < b THEN b ELSE a

-----------------------------------------------------------------------------
(* What a table stands for. *)

Bytes(p) == [i \in 1 .. p.len |-> <<p.store, p.offset + i - 1>>]

\* ContentUpTo(t)[k]: the bytes of the first k pieces.
ContentUpTo(t) ==
  LET f[k \in 0 .. Len(t)] == IF k = 0 THEN <<>> ELSE f[k - 1] \o Bytes(t[k])
  IN  f

Content(t) == ContentUpTo(t)[Len(t)]

\* Ends(t)[k]: the code's running `acc` after k pieces.
Ends(t) ==
  LET f[k \in 0 .. Len(t)] == IF k = 0 THEN 0 ELSE f[k - 1] + t[k].len
  IN  f

TotalLen(t) == Ends(t)[Len(t)]

NewTable(size) ==
  IF size > 0 THEN <<[store |-> "Original", offset |-> 0, len |-> size]>> ELSE <<>>

-----------------------------------------------------------------------------
(* pieces_in, splice and delete.                                           *)

\* A plausible slip in the clipping: the store offset does not follow the cut.
ClipKeepsOffset(p, ps, a, b) ==
  LET s == Larger(a, ps)
      e == Smaller(b, ps + p.len)
  IN  IF s < e THEN <<[store |-> p.store, offset |-> p.offset, len |-> e - s]>>
               ELSE <<>>

\* A piece that starts at document position ps, cut down to [a, b): the offset
\* into the store moves with the start.  A piece outside the range vanishes.
Clip(p, ps, a, b) ==
  LET s == Larger(a, ps)
      e == Smaller(b, ps + p.len)
  IN  IF s < e THEN <<[store |-> p.store, offset |-> p.offset + (s - ps), len |-> e - s]>>
               ELSE <<>>

PiecesUpTo(t, a, b) ==
  LET f[k \in 0 .. Len(t)] ==
        IF k = 0 THEN <<>> ELSE f[k - 1] \o Clip(t[k], Ends(t)[k - 1], a, b)
  IN  f

PiecesIn(t, a, b) == PiecesUpTo(t, a, b)[Len(t)]

\* `filter(|p| p.len > 0)`: clipping to the whole length drops the empty pieces.
NonEmpty(ps) == PiecesIn(ps, 0, TotalLen(ps))

\* splice: the piece that contains `offset` is split in two around `new`.
\* The code's assertion is CanSplice.
CanSplice(t, offset) == offset <= TotalLen(t)
Splice(t, offset, new) ==
  PiecesIn(t, 0, offset) \o NonEmpty(new) \o PiecesIn(t, offset, TotalLen(t))

\* delete: the pieces kept on both sides, and the pieces it returns.
CanDelete(t, offset, n) == offset + n <= TotalLen(t)
Remove(t, offset, n) == PiecesIn(t, 0, offset) \o PiecesIn(t, offset + n, TotalLen(t))
Removed(t, offset, n) == PiecesIn(t, offset, offset + n)

-----------------------------------------------------------------------------
(* Ranges of modified bytes: pairs <<start, end>> in document coordinates. *)

\* A plausible slip in the merging: every range is started anew.
PushSeparately(out, s, e) == Append(out, <<s, e>>)

\* `Some(prev) if prev.end == s => prev.end = e, _ => push(s..e)`
PushRange(out, s, e) ==
  IF out # <<>> /\ out[Len(out)][2] = s
    THEN [out EXCEPT ![Len(out)] = <<out[Len(out)][1], e>>]
    ELSE Append(out, <<s, e>>)

ModifiedIn(t, a, b) ==
  LET f[k \in 0 .. Len(t)] ==
        IF k = 0 THEN <<>>
        ELSE LET s == Larger(a, Ends(t)[k - 1])
                 e == Smaller(b, Ends(t)[k])
             IN  IF t[k].store = "Added" /\ s < e
                   THEN PushRange(f[k - 1], s, e) ELSE f[k - 1]
  IN  f[Len(t)]

\* normalized: store-contiguous fragments joined.
Normalized(ps) ==
  LET f[k \in 0 .. Len(ps)] ==
        IF k = 0 THEN <<>>
        ELSE LET out == f[k - 1]
                 p == ps[k]
             IN  IF p.len = 0 THEN out
                 ELSE IF /\ out # <<>>
                         /\ out[Len(out)].store = p.store
                         /\ out[Len(out)].offset + out[Len(out)].len = p.offset
                        THEN [out EXCEPT ![Len(out)].len = @ + p.len]
                        ELSE Append(out, p)
  IN  f[Len(ps)]

SameByteRuns(ps, qs) == Normalized(ps) = Normalized(qs)

-----------------------------------------------------------------------------
(* Document::inplace_dirty_ranges: None as soon as an original piece is not *)
(* at its own offset, or when the size differs from the source's.          *)

\* A plausible slip: an unchanged size is taken for an unchanged layout.
KeepsSize(t, size) == TotalLen(t) = size

CanSaveInPlace(t, size) ==
  /\ \A k \in 1 .. Len(t) : t[k].store = "Original" => t[k].offset = Ends(t)[k - 1]
  /\ TotalLen(t) = size

DirtyRanges(t) == ModifiedIn(t, 0, TotalLen(t))
=============================================================================
