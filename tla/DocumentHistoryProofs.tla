------------------------ MODULE DocumentHistoryProofs ------------------------
(***************************************************************************)
(* What undo and redo promise, for every value of the constants.           *)
(***************************************************************************)
EXTENDS DocumentHistory, DocumentProofs

\* The history variables only watch.
LEMMA HistoryWatches == HInit /\ [][HNext]_hvars => Spec
<1>1. HInit => Init
  BY DEF HInit
<1>2. [HNext]_hvars => [Next]_vars
  BY DEF HNext, Next, hvars, vars, HEdit, HRefused, HTear, HMerge, HMove, HSave
<1>3. QED
  BY <1>1, <1>2, PTL DEF Spec

\* The recorded history only watches the document.
LEMMA InvAlways == HSpec => []Inv
BY HistoryWatches, InvHolds, PTL DEF HSpec

-----------------------------------------------------------------------------
(* The saved depth.                                                        *)

Reach(d) == d.savedDepth # Unreachable => d.savedDepth <= Len(d.undo) + Len(d.redo)
Reachable == {d \in GoodDocs : Reach(d)}

\* commit keeps the saved depth within reach, or forgets it.
LEMMA CommitReaches ==
  ASSUME NEW P, NEW d \in Docs(P), NEW tx
  PROVE  /\ Reach(Commit(d, tx))
         /\ Commit(d, tx).redo = <<>>
BY DEF Commit, Docs, Reach, Unreachable

\* Everything up to the append keeps the stacks.
LEMMA AppendKeepsStacks ==
  ASSUME NEW d \in GoodDocs, NEW offset \in Nat, NEW n \in Nat
  PROVE  /\ Uncovered(d, offset, n).undo = d.undo /\ Uncovered(d, offset, n).redo = d.redo
         /\ Uncovered(d, offset, n).savedDepth = d.savedDepth
         /\ \A f \in AppendFailures(d, n) :
              f.undo = d.undo /\ f.redo = d.redo /\ f.savedDepth = d.savedDepth
BY DEF Uncovered, AppendFailures, GoodDocs, Docs

\* overwrite likewise.
LEMMA OverwriteReaches ==
  ASSUME NEW d \in GoodDocs, NEW offset \in Nat, NEW n \in Nat \ {0}
  PROVE  Reach(Overwrite(d, offset, n)) /\ Overwrite(d, offset, n).redo = <<>>
<1>. DEFINE e == InsertEdit(offset, <<AddedPiece(d, n)>>)
            u == Uncovered(d, offset, n)
            g == [Appended(u, n) EXCEPT !.table = Apply(@, e)]
            tx == Append(Covered(d, offset, n), e)
<1>1. u \in GoodDocs
  BY UncoveredGood
<1>2. Appended(u, n) \in Docs(Stored(u.size, u.added + n))
  BY <1>1, AppendedGood
<1>. HIDE DEF u, e, tx
<1>3. g \in [size : Nat, table : {Apply(Appended(u, n).table, e)}, added : Nat, spilled : BOOLEAN,
             undo : Seq(Seq(Edits(Stored(u.size, u.added + n)))),
             redo : Seq(Seq(Edits(Stored(u.size, u.added + n)))),
             savedDepth : Nat \cup {Unreachable}, resizable : BOOLEAN]
  BY <1>2 DEF Docs
<1>. HIDE DEF g
<1>4. Reach(Commit(g, tx)) /\ Commit(g, tx).redo = <<>>
  BY <1>3 DEF Commit, Reach, Unreachable
<1>5. QED
  BY <1>4 DEF Overwrite, g, u, e, tx

\* merge_with_previous likewise, with nothing to redo.
LEMMA MergeReaches ==
  ASSUME NEW d \in Reachable, d.redo = <<>>
  PROVE  MergeWithPrevious(d) \in Reachable
<1>1. d \in GoodDocs /\ Reach(d)
  BY DEF Reachable
<1>2. MergeWithPrevious(d) \in GoodDocs
  BY <1>1, MergeGood
<1>3. Reach(MergeWithPrevious(d))
  <2>1. CASE Len(d.undo) >= 2
    <3>. DEFINE m == Len(d.undo) - 1
                u == Append(SubSeq(d.undo, 1, m - 1), d.undo[m] \o d.undo[m + 1])
                s == CASE d.savedDepth = m     -> Unreachable
                       [] d.savedDepth = m + 1 -> m
                       [] OTHER                -> d.savedDepth
    <3>1. /\ d.undo \in Seq(Seq(Edits(Stored(d.size, d.added)))) /\ Len(d.undo) \in Nat
          /\ d.savedDepth \in Nat \cup {Unreachable} /\ d \in Docs(Stored(d.size, d.added))
      BY <1>1, GoodDocFields
    <3>2. m \in Nat /\ m - 1 \in Nat
      BY <2>1, <3>1
    <3>3. Len(SubSeq(d.undo, 1, m - 1)) = m - 1
      BY <3>1, <3>2
    <3>4. Len(u) = m
      <4>1. SubSeq(d.undo, 1, m - 1) \in Seq(Seq(Edits(Stored(d.size, d.added))))
        BY <3>1, <3>2
      <4>2. Len(Append(SubSeq(d.undo, 1, m - 1), d.undo[m] \o d.undo[m + 1])) =
               Len(SubSeq(d.undo, 1, m - 1)) + 1
        <5>. HIDE DEF m
        <5>1. QED
          BY <4>1
      <4>3. QED
        BY <3>2, <3>3, <4>2
    <3>5. MergeWithPrevious(d) = [d EXCEPT !.undo = u, !.savedDepth = s]
      BY <2>1 DEF MergeWithPrevious, MayMerge
    <3>6. s # Unreachable => s <= m
      <4>1. d.savedDepth # Unreachable => d.savedDepth <= m + 1
        BY <1>1, <3>1, <3>2 DEF Reach
      <4>. HIDE DEF m
      <4>2. QED
        BY <4>1, <3>1, <3>2
    <3>. HIDE DEF u, s
    <3>7. /\ MergeWithPrevious(d).undo = u /\ MergeWithPrevious(d).savedDepth = s
          /\ MergeWithPrevious(d).redo = <<>>
      BY <3>1, <3>5 DEF Docs
    <3>8. QED
      BY <3>2, <3>4, <3>6, <3>7 DEF Reach
  <2>2. CASE ~ (Len(d.undo) >= 2)
    BY <1>1, <2>2 DEF MergeWithPrevious, MayMerge
  <2>3. QED
    BY <2>1, <2>2
<1>4. QED
  BY <1>2, <1>3 DEF Reachable

\* fill likewise.
LEMMA FillReaches ==
  ASSUME NEW d \in Reachable, NEW offset \in Nat, NEW n \in Nat \ {0}
  PROVE  \A k \in 0 .. Chunks(n) : FilledUpTo(d, offset, n)[k] \in Reachable
<1>1. ASSUME NEW g \in Reachable, NEW k \in 1 .. Chunks(n)
      PROVE  FillStep(g, offset, n, k) \in Reachable
  <2>1. (k - 1) * FillChunk \in Nat /\ ChunkLen(n, k - 1) \in Nat \ {0}
    BY ChunkBounds
  <2>2. offset + (k - 1) * FillChunk \in Nat /\ g \in GoodDocs
    BY <2>1 DEF Reachable
  <2>. DEFINE o == Overwrite(g, offset + (k - 1) * FillChunk, ChunkLen(n, k - 1))
  <2>3. o \in GoodDocs /\ Reach(o) /\ o.redo = <<>>
    BY <2>1, <2>2, OverwriteGood, OverwriteReaches
  <2>4. o \in Reachable /\ MergeWithPrevious(o) \in Reachable
    BY <2>3, MergeReaches DEF Reachable
  <2>5. QED
    BY <2>4 DEF FillStep
<1>2. QED
  BY <1>1, FillRecursion

\* Whether the saved depth is in reach depends on the stacks' heights alone.
LEMMA ReachByHeights ==
  ASSUME NEW d, NEW u \in Nat, NEW r \in Nat, Len(d.undo) = u, Len(d.redo) = r,
         d.savedDepth # Unreachable => d.savedDepth <= u + r
  PROVE  Reach(d)
BY Zenon DEF Reach

\* Undo and redo move one transaction between the stacks.
LEMMA MoveReaches ==
  ASSUME NEW d \in Reachable
  PROVE  /\ d.undo # <<>> => Reach(Undo(d))
         /\ d.redo # <<>> => Reach(Redo(d))
<1>. DEFINE T == Seq(Edits(Stored(d.size, d.added)))
<1>1. /\ d \in Docs(Stored(d.size, d.added)) /\ Reach(d)
      /\ d.undo \in Seq(T) /\ d.redo \in Seq(T) /\ d.savedDepth \in Nat \cup {Unreachable}
  BY GoodDocFields DEF Reachable
<1>2. Len(d.undo) \in Nat /\ Len(d.redo) \in Nat
  BY <1>1
<1>. HIDE DEF T
<1>3. ASSUME d.undo # <<>> PROVE Reach(Undo(d))
  <2>1. /\ Undo(d).savedDepth = d.savedDepth
        /\ Undo(d).undo = SubSeq(d.undo, 1, Len(d.undo) - 1)
        /\ Undo(d).redo = Append(d.redo, d.undo[Len(d.undo)])
    BY <1>1 DEF Undo, Docs
  <2>2. Len(Undo(d).undo) = Len(d.undo) - 1 /\ Len(Undo(d).redo) = Len(d.redo) + 1
    BY <1>1, <1>3, <2>1
  <2>3. Len(d.undo) # 0
    BY <1>1, <1>3
  <2>. DEFINE u == Len(d.undo)
              r == Len(d.redo)
              s == d.savedDepth
  <2>4. /\ u \in Nat /\ r \in Nat /\ s \in Nat \cup {Unreachable}
        /\ s # Unreachable => s <= u + r
        /\ u # 0
    BY <1>1, <1>2, <2>3 DEF Reach
  <2>. HIDE DEF u, r, s
  <2>5. u - 1 \in Nat /\ r + 1 \in Nat /\ (s # Unreachable => s <= (u - 1) + (r + 1))
    BY <2>4
  <2>6. Len(Undo(d).undo) = u - 1 /\ Len(Undo(d).redo) = r + 1 /\ Undo(d).savedDepth = s
    BY <2>1, <2>2 DEF u, r, s
  <2>7. QED
    BY <2>5, <2>6, ReachByHeights, Zenon
<1>4. ASSUME d.redo # <<>> PROVE Reach(Redo(d))
  <2>1. /\ Redo(d).savedDepth = d.savedDepth
        /\ Redo(d).redo = SubSeq(d.redo, 1, Len(d.redo) - 1)
        /\ Redo(d).undo = Append(d.undo, d.redo[Len(d.redo)])
    BY <1>1 DEF Redo, Docs
  <2>2. Len(Redo(d).redo) = Len(d.redo) - 1 /\ Len(Redo(d).undo) = Len(d.undo) + 1
    BY <1>1, <1>4, <2>1
  <2>3. Len(d.redo) # 0
    BY <1>1, <1>4
  <2>. DEFINE u == Len(d.undo)
              r == Len(d.redo)
              s == d.savedDepth
  <2>4. /\ u \in Nat /\ r \in Nat /\ s \in Nat \cup {Unreachable}
        /\ s # Unreachable => s <= u + r
        /\ r # 0
    BY <1>1, <1>2, <2>3 DEF Reach
  <2>. HIDE DEF u, r, s
  <2>5. u + 1 \in Nat /\ r - 1 \in Nat /\ (s # Unreachable => s <= (u + 1) + (r - 1))
    BY <2>4
  <2>6. Len(Redo(d).undo) = u + 1 /\ Len(Redo(d).redo) = r - 1 /\ Redo(d).savedDepth = s
    BY <2>1, <2>2 DEF u, r, s
  <2>7. QED
    BY <2>5, <2>6, ReachByHeights, Zenon
<1>5. QED
  BY <1>3, <1>4

\* Saving names the present depth.
LEMMA MarkSavedReaches ==
  ASSUME NEW d \in GoodDocs
  PROVE  Reach(MarkSaved(d))
<1>1. d \in Docs(Stored(d.size, d.added)) /\ Len(d.undo) \in Nat /\ Len(d.redo) \in Nat
  BY GoodDocFields
<1>2. MarkSaved(d).undo = d.undo /\ MarkSaved(d).redo = d.redo /\ MarkSaved(d).savedDepth = Len(d.undo)
  BY <1>1 DEF MarkSaved, Docs
<1>. DEFINE u == Len(d.undo)
            r == Len(d.redo)
<1>3. Len(MarkSaved(d).undo) = u /\ Len(MarkSaved(d).redo) = r /\ MarkSaved(d).savedDepth = u
  BY <1>2
<1>4. u \in Nat /\ r \in Nat
  BY <1>1
<1>. HIDE DEF u, r
<1>5. u <= u + r
  BY <1>4
<1>6. QED
  BY <1>3, <1>4, <1>5, ReachByHeights, Zenon

\* Every operation keeps the saved depth within reach.
LEMMA SavedDepthStep == Inv /\ doc \in Reachable /\ [Next]_vars => (doc \in Reachable)'
<1>1. SUFFICES ASSUME Inv, doc \in Reachable, [Next]_vars PROVE doc' \in Reachable
  OBVIOUS
<1>2. doc \in GoodDocs /\ Reach(doc)
  BY <1>1 DEF Reachable
<1>3. doc' \in GoodDocs
  BY <1>1, NextInv DEF Inv
<1>4. Offsets \subseteq Nat /\ Sizes \subseteq Nat \ {0}
  <2>1. Length(doc) \in Nat /\ MaxWrite \in Nat
    BY <1>2, GoodDocFields, BoundsAssumption
  <2>2. QED
    BY <2>1 DEF Offsets, Sizes
<1>5. ASSUME NEW offset \in Offsets, NEW n \in Sizes, EditAt(offset, n)
      PROVE  Reach(doc')
  <2>1. offset \in Nat /\ n \in Nat \ {0} /\ Chunks(n) \in 0 .. Chunks(n)
    BY <1>4, ChunkBounds
  <2>2. CASE InsertAt(offset, n)
    <3>. DEFINE e == InsertEdit(offset, <<AddedPiece(doc, n)>>)
                g == [Appended(doc, n) EXCEPT !.table = Apply(@, e)]
                P == Stored(doc.size, doc.added + n)
    <3>1. Appended(doc, n) \in Docs(P)
      BY <1>2, <2>1, AppendedGood
    <3>. HIDE DEF P, e
    <3>2. /\ g.undo \in Seq(Seq(Edits(P))) /\ g.savedDepth \in Nat \cup {Unreachable}
          /\ DOMAIN g = {"size", "table", "added", "spilled", "undo", "redo", "savedDepth", "resizable"}
          /\ g = [f \in DOMAIN g |-> g[f]]
      BY <3>1 DEF Docs
    <3>. HIDE DEF g
    <3>3. Reach(Commit(g, <<e>>))
      BY <3>2 DEF Commit, Reach, Unreachable
    <3>4. QED
      BY <2>2, <3>3 DEF InsertAt, Insert, g, e
  <2>3. CASE DeleteAt(offset, n)
    <3>. DEFINE g == [doc EXCEPT !.table = Remove(@, offset, n)]
                e == DeleteEdit(offset, Removed(doc.table, offset, n))
    <3>1. g \in GoodDocs
      BY <1>2, <2>1, RemoveGood
    <3>. HIDE DEF g, e
    <3>2. Reach(Commit(g, <<e>>))
      BY <3>1, CommitReaches DEF GoodDocs
    <3>3. QED
      BY <2>3, <3>2 DEF DeleteAt, Delete, g, e
  <2>4. CASE OverwriteAt(offset, n)
    BY <1>2, <2>1, <2>4, OverwriteReaches DEF OverwriteAt
  <2>5. CASE FillAt(offset, n)
    BY <1>1, <2>1, <2>5, FillReaches DEF FillAt, Fill, Reachable
  <2>6. QED
    BY <2>2, <2>3, <2>4, <2>5, <1>5 DEF EditAt
<1>6. ASSUME NEW offset \in Offsets, NEW n \in Sizes, RefusedAt(offset, n)
      PROVE  Reach(doc')
  <2>1. offset \in Nat /\ n \in Nat /\ doc' \in AppendFailures(doc, n)
    BY <1>4, <1>6 DEF RefusedAt
  <2>2. QED
    BY <1>2, <2>1, AppendKeepsStacks DEF Reach
<1>7. ASSUME NEW offset \in Offsets, NEW n \in Sizes, TearAt(offset, n)
      PROVE  Reach(doc')
  <2>1. offset \in Nat /\ n \in Nat \ {0}
    BY <1>4
  <2>2. ASSUME NEW g \in Reachable, NEW o \in Nat, NEW m \in Nat, doc' \in FailedOverwrites(g, o, m)
        PROVE  Reach(doc')
    <3>1. g \in GoodDocs /\ Reach(g) /\ Uncovered(g, o, m) \in GoodDocs
      BY UncoveredGood DEF Reachable
    <3>2. doc' \in AppendFailures(Uncovered(g, o, m), m)
      BY <2>2 DEF FailedOverwrites
    <3>3. doc'.undo = g.undo /\ doc'.redo = g.redo /\ doc'.savedDepth = g.savedDepth
      BY <3>1, <3>2, AppendKeepsStacks
    <3>4. QED
      BY <3>1, <3>3 DEF Reach
  <2>3. CASE doc' \in FailedOverwrites(doc, offset, n)
    BY <1>1, <2>1, <2>2, <2>3
  <2>4. ASSUME NEW k \in 0 .. Chunks(n) - 1, doc' \in FailedFills(doc, offset, n, k)
        PROVE  Reach(doc')
    <3>1. Chunks(n) \in Nat /\ k * FillChunk \in Nat /\ ChunkLen(n, k) \in Nat
      BY <2>1, ChunkBounds
    <3>2. k \in 0 .. Chunks(n) /\ offset + k * FillChunk \in Nat
      BY <2>1, <3>1
    <3>3. FilledUpTo(doc, offset, n)[k] \in Reachable
      BY <1>1, <2>1, <3>2, FillReaches
    <3>4. QED
      BY <2>2, <2>4, <3>1, <3>2, <3>3 DEF FailedFills
  <2>5. QED
    BY <1>7, <2>3, <2>4 DEF TearAt
<1>8. ASSUME Merge PROVE Reach(doc')
  BY <1>1, <1>8, MergeReaches DEF Merge, Reachable
<1>9. ASSUME UndoStep \/ RedoStep, doc' # doc PROVE Reach(doc')
  BY <1>1, <1>9, MoveReaches DEF UndoStep, RedoStep
<1>10. ASSUME Save PROVE Reach(doc')
  BY <1>2, <1>10, MarkSavedReaches DEF Save
<1>11. ASSUME UNCHANGED doc PROVE Reach(doc')
  BY <1>2, <1>11
<1>12. Reach(doc')
  <2>1. CASE UNCHANGED vars
    BY <1>11, <2>1 DEF vars
  <2>2. CASE Next
    BY <2>2, <1>5, <1>6, <1>7, <1>8, <1>9, <1>10, <1>11 DEF Next
  <2>3. QED
    BY <1>1, <2>1, <2>2
<1>13. QED
  BY <1>3, <1>12 DEF Reachable

\* The saved depth never names a version that undo and redo cannot reach: a
\* commit over an undone save forgets it, and merging renumbers it.
THEOREM SavedDepthIsReachable == HSpec => []SavedDepthReachable
<1>1. Init => doc \in Reachable
  <2>1. SUFFICES ASSUME Init PROVE doc \in Reachable
    OBVIOUS
  <2>2. doc \in GoodDocs
    BY <2>1, InitInv DEF Inv
  <2>3. doc.savedDepth = 0 /\ doc.undo = <<>> /\ doc.redo = <<>>
    BY <2>1 DEF Init, NewDocument
  <2>4. Len(doc.undo) + Len(doc.redo) = 0
    BY <2>3
  <2>5. Reach(doc)
    BY <2>3, <2>4 DEF Reach
  <2>6. QED
    BY <2>2, <2>5 DEF Reachable
<1>2. Spec => [](doc \in Reachable)
  BY <1>1, SavedDepthStep, InvHolds, PTL DEF Spec
<1>3. doc \in Reachable => SavedDepthReachable
  BY DEF Reachable, Reach, SavedDepthReachable
<1>4. QED
  BY <1>2, <1>3, HistoryWatches, PTL DEF HSpec

-----------------------------------------------------------------------------
(* The stacks stand for the recorded versions.                             *)

\* The line of versions vs that the stacks of d stand for: from each version to
\* the next leads the transaction between them, and the document is at the
\* version at its cursor.
Line(d, vs) ==
  /\ vs \in Seq(Seq(Cell))
  /\ Len(vs) = Len(d.undo) + Len(d.redo) + 1
  /\ vs[Len(d.undo) + 1] = Content(d.table)
  /\ \A i \in 1 .. Len(d.undo) : TxLeads(vs[i], d.undo[i], vs[i + 1])
  /\ \A i \in 1 .. Len(d.redo) :
       TxLeads(vs[Len(vs) - i], d.redo[i], vs[Len(vs) - i + 1])

\* The saved depth, if there is one, names the saved version c.
Names(d, vs, c) ==
  d.savedDepth # Unreachable =>
    d.savedDepth + 1 \in 1 .. Len(vs) /\ vs[d.savedDepth + 1] = c

\* Every version of a source of fixed size keeps the source's bytes in place.
Stays(d, vs) == ~ d.resizable => \A i \in 1 .. Len(vs) : OwnPlaces(vs[i], d.size)

\* The stacks and the content of a good document.
LEMMA StackTypes ==
  ASSUME NEW d \in GoodDocs
  PROVE  /\ d.undo \in Seq(Seq(Edits(Piece))) /\ d.redo \in Seq(Seq(Edits(Piece)))
         /\ Len(d.undo) \in Nat /\ Len(d.redo) \in Nat
         /\ Content(d.table) \in Seq(Cell) /\ d.table \in Seq(Piece) /\ d.size \in Nat
         /\ d.savedDepth \in Nat \cup {Unreachable}
<1>1. d.undo \in Seq(Seq(Edits(Piece))) /\ d.redo \in Seq(Seq(Edits(Piece)))
  BY StoredEditsAreEdits
<1>2. d.table \in Seq(Piece) /\ d.size \in Nat /\ d.savedDepth \in Nat \cup {Unreachable}
  BY GoodDocFields
<1>3. QED
  BY <1>1, <1>2, ContentType

\* The first n versions with one more.
LEMMA Prefixed ==
  ASSUME NEW V, NEW vs \in Seq(V), NEW n \in Nat, n <= Len(vs), NEW c \in V
  PROVE  /\ Append(SubSeq(vs, 1, n), c) \in Seq(V)
         /\ Len(Append(SubSeq(vs, 1, n), c)) = n + 1
         /\ \A i \in 1 .. n : Append(SubSeq(vs, 1, n), c)[i] = vs[i]
         /\ Append(SubSeq(vs, 1, n), c)[n + 1] = c
<1>. DEFINE p == SubSeq(vs, 1, n)
<1>1. p \in Seq(V) /\ Len(p) = n /\ \A i \in 1 .. n : p[i] = vs[i]
  OBVIOUS
<1>. HIDE DEF p
<1>2. /\ Append(p, c) \in Seq(V) /\ Len(Append(p, c)) = n + 1
      /\ \A i \in 1 .. n : Append(p, c)[i] = p[i]
      /\ Append(p, c)[n + 1] = c
  BY <1>1
<1>3. QED
  BY <1>1, <1>2 DEF p

\* A sequence with one more element, position by position.
LEMMA AppendedAt ==
  ASSUME NEW V, NEW s \in Seq(V), NEW x \in V
  PROVE  /\ Len(Append(s, x)) = Len(s) + 1 /\ Append(s, x)[Len(s) + 1] = x
         /\ \A i \in 1 .. Len(s) : Append(s, x)[i] = s[i]
OBVIOUS

\* An edit cuts the line at the cursor and adds one version.
LEMMA CommitLine ==
  ASSUME NEW d \in GoodDocs, NEW vs, Line(d, vs), NEW g, Commits(d, g)
  PROVE  LET ws == Append(SubSeq(vs, 1, Len(d.undo) + 1), Content(g.table))
         IN  /\ Line(g, ws)
             /\ Len(g.undo) = Len(d.undo) + 1
             /\ Stays(d, vs) => Stays(g, ws)
             /\ \A c : Names(d, vs, c) /\ d.savedDepth # Len(d.undo) + 1 => Names(g, ws, c)
<1>. DEFINE n == Len(d.undo)
            v == Content(g.table)
            ws == Append(SubSeq(vs, 1, n + 1), v)
            T == Seq(Edits(Piece))
<1>1. PICK tx \in T : g.undo = Append(d.undo, tx) /\ TxLeads(Content(d.table), tx, v)
  BY DEF Commits
<1>2. /\ g \in GoodDocs /\ g.redo = <<>> /\ g.size = d.size /\ g.resizable = d.resizable
      /\ g.savedDepth # Unreachable => g.savedDepth = d.savedDepth /\ d.savedDepth <= n + 1
      /\ ~ d.resizable /\ OwnPlaces(Content(d.table), d.size) => OwnPlaces(v, d.size)
  BY DEF Commits
<1>3. d.undo \in Seq(T) /\ n \in Nat /\ Len(d.redo) \in Nat /\ v \in Seq(Cell)
  BY <1>2, StackTypes
<1>4. /\ vs \in Seq(Seq(Cell)) /\ Len(vs) = n + Len(d.redo) + 1 /\ vs[n + 1] = Content(d.table)
      /\ \A i \in 1 .. n : TxLeads(vs[i], d.undo[i], vs[i + 1])
  BY DEF Line
<1>. HIDE DEF v, T
<1>5. /\ Len(g.undo) = n + 1 /\ g.undo[n + 1] = tx /\ \A i \in 1 .. n : g.undo[i] = d.undo[i]
  BY <1>1, <1>3, AppendedAt
<1>. HIDE DEF n
<1>6. n + 1 \in Nat /\ n + 1 <= Len(vs) /\ (n + 1) + 1 = n + 2
  BY <1>3, <1>4
<1>7. /\ ws \in Seq(Seq(Cell)) /\ Len(ws) = n + 2
      /\ \A i \in 1 .. n + 1 : ws[i] = vs[i]
      /\ ws[n + 2] = v
  <2>. DEFINE m == n + 1
  <2>1. m \in Nat /\ m <= Len(vs) /\ ws = Append(SubSeq(vs, 1, m), v)
    BY <1>6
  <2>. HIDE DEF m, ws
  <2>2. /\ Append(SubSeq(vs, 1, m), v) \in Seq(Seq(Cell))
        /\ Len(Append(SubSeq(vs, 1, m), v)) = m + 1
        /\ \A i \in 1 .. m : Append(SubSeq(vs, 1, m), v)[i] = vs[i]
        /\ Append(SubSeq(vs, 1, m), v)[m + 1] = v
    <3>. DEFINE V == Seq(Cell)
    <3>1. vs \in Seq(V) /\ v \in V
      BY <1>3, <1>4
    <3>. HIDE DEF V
    <3>2. Append(SubSeq(vs, 1, m), v) \in Seq(V)
      BY <2>1, <3>1, Prefixed
    <3>3. /\ Len(Append(SubSeq(vs, 1, m), v)) = m + 1
          /\ \A i \in 1 .. m : Append(SubSeq(vs, 1, m), v)[i] = vs[i]
          /\ Append(SubSeq(vs, 1, m), v)[m + 1] = v
      BY <2>1, <3>1, Prefixed
    <3>4. QED
      BY <3>2, <3>3 DEF V
  <2>3. QED
    BY <2>1, <2>2, <1>6 DEF m
<1>. HIDE DEF ws
<1>8. Line(g, ws)
  <2>1. Len(g.redo) = 0 /\ \A i \in 1 .. Len(g.redo) : FALSE
    BY <1>2
  <2>2. Len(ws) = Len(g.undo) + Len(g.redo) + 1 /\ ws[Len(g.undo) + 1] = Content(g.table)
    BY <2>1, <1>3, <1>5, <1>6, <1>7 DEF v
  <2>3. ASSUME NEW i \in 1 .. Len(g.undo) PROVE TxLeads(ws[i], g.undo[i], ws[i + 1])
    <3>1. CASE i = n + 1
      BY <3>1, <1>1, <1>3, <1>4, <1>5, <1>6, <1>7
    <3>2. CASE i # n + 1
      <4>1. i \in 1 .. n /\ i \in 1 .. n + 1 /\ i + 1 \in 1 .. n + 1
        BY <3>2, <1>3, <1>5
      <4>2. QED
        BY <4>1, <1>4, <1>5, <1>7
    <3>3. QED
      BY <3>1, <3>2
  <2>4. QED
    BY <2>1, <2>2, <2>3, <1>7 DEF Line
<1>9. Stays(d, vs) => Stays(g, ws)
  <2>1. SUFFICES ASSUME Stays(d, vs), ~ d.resizable, NEW i \in 1 .. n + 2
                 PROVE  OwnPlaces(ws[i], d.size)
    BY <1>2, <1>7 DEF Stays
  <2>2. \A j \in 1 .. Len(vs) : OwnPlaces(vs[j], d.size)
    BY <2>1 DEF Stays
  <2>3. n + 1 \in 1 .. Len(vs) /\ \A j \in 1 .. n + 1 : j \in 1 .. Len(vs)
    BY <1>3, <1>6
  <2>4. CASE i = n + 2
    <3>1. OwnPlaces(Content(d.table), d.size)
      BY <2>2, <2>3, <1>4
    <3>2. QED
      BY <3>1, <2>1, <2>4, <1>2, <1>7
  <2>5. CASE i # n + 2
    <3>1. i \in 1 .. n + 1
      BY <2>5, <1>3
    <3>2. QED
      BY <3>1, <2>2, <2>3, <1>7
  <2>6. QED
    BY <2>4, <2>5
<1>10. ASSUME NEW c, Names(d, vs, c), d.savedDepth # n + 1, g.savedDepth # Unreachable
       PROVE  g.savedDepth + 1 \in 1 .. Len(ws) /\ ws[g.savedDepth + 1] = c
  <2>. DEFINE s == d.savedDepth
  <2>1. g.savedDepth = s /\ s <= n + 1 /\ s # n + 1 /\ s \in Nat
    BY <1>2, <1>10, StackTypes
  <2>2. vs[s + 1] = c
    BY <1>10, <2>1 DEF Names
  <2>. HIDE DEF s
  <2>3. s + 1 \in 1 .. n + 1 /\ s + 1 \in 1 .. n + 2
    BY <2>1, <1>3
  <2>4. QED
    BY <2>1, <2>2, <2>3, <1>7
<1>11. QED
  BY <1>5, <1>8, <1>9, <1>10 DEF Names, ws, n, v

\* Nothing but these fields matters to the line.
LEMMA SameLine ==
  ASSUME NEW d, NEW g, NEW vs, g.undo = d.undo, g.redo = d.redo, g.table = d.table,
         g.savedDepth = d.savedDepth, g.size = d.size, g.resizable = d.resizable
  PROVE  /\ Line(d, vs) => Line(g, vs)
         /\ Stays(d, vs) => Stays(g, vs)
         /\ \A c : Names(d, vs, c) => Names(g, vs, c)
BY DEF Line, Stays, Names

\* merge_with_previous takes the version before the current one out of the line.
LEMMA MergeLine ==
  ASSUME NEW d \in GoodDocs, NEW vs, Line(d, vs), d.redo = <<>>, MayMerge(d)
  PROVE  LET ws == Append(SubSeq(vs, 1, (Len(d.undo) + 1) - 2), vs[Len(d.undo) + 1])
             g  == MergeWithPrevious(d)
         IN  /\ Line(g, ws)
             /\ Len(g.undo) = Len(d.undo) - 1 /\ g.table = d.table /\ g.redo = d.redo
             /\ Stays(d, vs) => Stays(g, ws)
             /\ \A c : Names(d, vs, c) => Names(g, ws, c)
<1>. DEFINE m == Len(d.undo) - 1
            g == MergeWithPrevious(d)
            ws == Append(SubSeq(vs, 1, (Len(d.undo) + 1) - 2), vs[Len(d.undo) + 1])
            T == Seq(Edits(Piece))
<1>1. /\ d.undo \in Seq(T) /\ Len(d.undo) \in Nat /\ Len(d.undo) >= 2
      /\ d.savedDepth \in Nat \cup {Unreachable}
  BY StackTypes DEF MayMerge
<1>2. m \in Nat \ {0} /\ Len(d.undo) = m + 1 /\ m - 1 \in Nat /\ m - 1 <= m + 1 /\ (m - 1) + 1 = m
      /\ (m + 1) + 1 = m + 2 /\ Len(d.undo) + 1 = m + 2 /\ (Len(d.undo) + 1) - 2 = m
  <2>. DEFINE k == Len(d.undo)
  <2>1. k \in Nat /\ k >= 2 /\ m = k - 1
    BY <1>1
  <2>. HIDE DEF k, m
  <2>2. /\ m \in Nat \ {0} /\ k = m + 1 /\ m - 1 \in Nat /\ m - 1 <= m + 1 /\ (m - 1) + 1 = m
        /\ (m + 1) + 1 = m + 2 /\ k + 1 = m + 2 /\ (k + 1) - 2 = m
    BY <2>1
  <2>3. QED
    BY <2>2 DEF k
<1>3. ws = Append(SubSeq(vs, 1, m), vs[m + 2])
  BY <1>2
<1>. HIDE DEF m, g, ws
<1>4. /\ g.undo = Append(SubSeq(d.undo, 1, m - 1), d.undo[m] \o d.undo[m + 1])
      /\ g.table = d.table /\ g.redo = d.redo
      /\ g.size = d.size /\ g.resizable = d.resizable
      /\ g.savedDepth = IF d.savedDepth = m     THEN Unreachable ELSE
                        IF d.savedDepth = m + 1 THEN m ELSE d.savedDepth
  BY <1>2, MergeFields DEF g
<1>. HIDE DEF T
<1>5. /\ vs \in Seq(Seq(Cell)) /\ Len(vs) = m + 2 /\ vs[m + 2] = Content(d.table)
      /\ \A i \in 1 .. m + 1 : TxLeads(vs[i], d.undo[i], vs[i + 1])
  <2>1. Len(d.redo) = 0
    OBVIOUS
  <2>2. QED
    BY <1>2, <2>1 DEF Line
<1>6. m \in 1 .. m + 1 /\ m + 1 \in 1 .. m + 1 /\ m + 2 \in 1 .. m + 2
  BY <1>2
<1>7. d.undo[m] \in T /\ d.undo[m + 1] \in T /\ d.undo[m] \o d.undo[m + 1] \in T
  <2>1. d.undo[m] \in T /\ d.undo[m + 1] \in T
    BY <1>1, <1>2, <1>6
  <2>2. QED
    BY <2>1 DEF T
<1>8. TxLeads(vs[m], d.undo[m] \o d.undo[m + 1], vs[m + 2])
  <2>. DEFINE x == d.undo[m]
              y == d.undo[m + 1]
  <2>1. x \in Seq(Edits(Piece)) /\ y \in Seq(Edits(Piece))
    BY <1>7 DEF T
  <2>2. TxLeads(vs[m], x, vs[m + 1]) /\ TxLeads(vs[m + 1], y, vs[m + 2])
    BY <1>2, <1>5, <1>6
  <2>. HIDE DEF x, y
  <2>3. TxLeads(vs[m], x \o y, vs[m + 2])
    BY <2>1, <2>2, LeadsCompose
  <2>4. QED
    BY <2>3 DEF x, y
<1>9. /\ Len(g.undo) = m
      /\ \A i \in 1 .. m - 1 : g.undo[i] = d.undo[i]
      /\ g.undo[m] = d.undo[m] \o d.undo[m + 1]
  <2>. DEFINE k == m - 1
              z == d.undo[m] \o d.undo[m + 1]
  <2>1. k \in Nat /\ k <= Len(d.undo) /\ z \in T /\ k + 1 = m /\ g.undo = Append(SubSeq(d.undo, 1, k), z)
    BY <1>2, <1>4, <1>7
  <2>. HIDE DEF k, z
  <2>2. /\ Len(g.undo) = k + 1 /\ g.undo[k + 1] = z
        /\ \A i \in 1 .. k : g.undo[i] = d.undo[i]
    BY <1>1, <2>1, Prefixed
  <2>3. QED
    BY <2>1, <2>2 DEF k, z
<1>10. /\ ws \in Seq(Seq(Cell)) /\ Len(ws) = m + 1
       /\ \A i \in 1 .. m : ws[i] = vs[i]
       /\ ws[m + 1] = vs[m + 2]
  <2>1. vs[m + 2] \in Seq(Cell) /\ m \in Nat /\ m <= Len(vs)
    BY <1>2, <1>5, <1>6
  <2>2. QED
    BY <2>1, <1>3, <1>5, Prefixed
<1>11. Line(g, ws)
  <2>1. Len(g.redo) = 0 /\ \A i \in 1 .. Len(g.redo) : FALSE
    BY <1>4
  <2>2. Len(ws) = Len(g.undo) + Len(g.redo) + 1 /\ ws[Len(g.undo) + 1] = Content(g.table)
    <3>1. g.table = d.table /\ Len(g.undo) = m /\ m \in Nat
      BY <1>2, <1>4, <1>9
    <3>. HIDE DEF g, ws, m
    <3>2. Len(ws) = m + 1 /\ ws[m + 1] = Content(d.table)
      BY <1>5, <1>10
    <3>3. QED
      BY <2>1, <3>1, <3>2
  <2>3. ASSUME NEW i \in 1 .. m PROVE TxLeads(ws[i], g.undo[i], ws[i + 1])
    <3>1. CASE i = m
      BY <3>1, <1>2, <1>8, <1>9, <1>10
    <3>2. CASE i # m
      <4>1. i \in 1 .. m - 1 /\ i \in 1 .. m + 1 /\ i + 1 \in 1 .. m
        BY <3>2, <1>2
      <4>2. QED
        BY <4>1, <1>5, <1>9, <1>10
    <3>3. QED
      BY <3>1, <3>2
  <2>4. QED
    BY <2>1, <2>2, <2>3, <1>9, <1>10 DEF Line
<1>12. Stays(d, vs) => Stays(g, ws)
  <2>1. SUFFICES ASSUME Stays(d, vs), ~ d.resizable, NEW i \in 1 .. m + 1
                 PROVE  OwnPlaces(ws[i], d.size)
    BY <1>4, <1>10 DEF Stays
  <2>2. \A j \in 1 .. m + 2 : OwnPlaces(vs[j], d.size)
    BY <2>1, <1>5 DEF Stays
  <2>3. CASE i = m + 1
    BY <2>2, <2>3, <1>6, <1>10
  <2>4. CASE i # m + 1
    <3>1. i \in 1 .. m /\ i \in 1 .. m + 2
      BY <2>4, <1>2
    <3>2. QED
      BY <3>1, <2>2, <1>10
  <2>5. QED
    BY <2>3, <2>4
<1>13. ASSUME NEW c, Names(d, vs, c), g.savedDepth # Unreachable
       PROVE  g.savedDepth + 1 \in 1 .. Len(ws) /\ ws[g.savedDepth + 1] = c
  <2>. DEFINE s == d.savedDepth
              r == g.savedDepth
  <2>1. /\ s \in Nat \cup {Unreachable} /\ r # Unreachable
        /\ r = IF s = m THEN Unreachable ELSE IF s = m + 1 THEN m ELSE s
        /\ s # Unreachable => s + 1 \in 1 .. m + 2 /\ vs[s + 1] = c
    BY <1>1, <1>4, <1>5, <1>13 DEF Names
  <2>. HIDE DEF s, r
  <2>2. s # Unreachable /\ s # m
    BY <2>1, <1>2 DEF Unreachable
  <2>3. ASSUME s = m + 1 PROVE r + 1 \in 1 .. Len(ws) /\ ws[r + 1] = c
    <3>1. r = m /\ vs[m + 2] = c /\ m + 1 \in 1 .. m + 1
      BY <2>1, <2>2, <2>3, <1>2
    <3>2. QED
      BY <3>1, <1>10
  <2>4. ASSUME s # m + 1 PROVE r + 1 \in 1 .. Len(ws) /\ ws[r + 1] = c
    <3>1. r = s /\ s + 1 \in 1 .. m /\ s + 1 \in 1 .. m + 1
      BY <2>1, <2>2, <2>4, <1>2
    <3>2. QED
      BY <2>1, <2>2, <3>1, <1>10
  <2>5. r + 1 \in 1 .. Len(ws) /\ ws[r + 1] = c
    BY <2>3, <2>4
  <2>6. QED
    BY <2>5 DEF r
<1>14. Len(g.undo) = Len(d.undo) - 1
  BY <1>9 DEF m
<1>15. QED
  BY <1>4, <1>11, <1>12, <1>13, <1>14 DEF Names, ws, g

\* A sequence without its last element, position by position.
LEMMA PoppedAt ==
  ASSUME NEW V, NEW s \in Seq(V), s # <<>>
  PROVE  /\ Len(s) \in Nat \ {0} /\ s[Len(s)] \in V
         /\ SubSeq(s, 1, Len(s) - 1) \in Seq(V)
         /\ Len(SubSeq(s, 1, Len(s) - 1)) = Len(s) - 1
         /\ \A i \in 1 .. Len(s) - 1 : SubSeq(s, 1, Len(s) - 1)[i] = s[i]
OBVIOUS

\* Undo walks one version back, and asserts nothing on the way.
LEMMA UndoLine ==
  ASSUME NEW d \in GoodDocs, NEW vs, Line(d, vs), d.undo # <<>>
  PROVE  /\ ~ RevertPanics(d.table, d.undo[Len(d.undo)])
         /\ Line(Undo(d), vs)
         /\ Len(Undo(d).undo) = Len(d.undo) - 1
         /\ Len(d.undo) \in 1 .. Len(vs) /\ Content(Undo(d).table) = vs[Len(d.undo)]
         /\ Stays(d, vs) => Stays(Undo(d), vs)
         /\ \A c : Names(d, vs, c) => Names(Undo(d), vs, c)
<1>. DEFINE n == Len(d.undo)
            r == Len(d.redo)
            tx == d.undo[n]
            g == Undo(d)
            T == Seq(Edits(Piece))
            t == RevertedUpTo(d.table, tx)[Len(tx)]
<1>1. /\ d.undo \in Seq(T) /\ d.redo \in Seq(T) /\ r \in Nat
      /\ d.table \in Seq(Piece) /\ d \in Docs(Piece)
  BY StackTypes DEF GoodDocs
<1>2. /\ n \in Nat \ {0} /\ tx \in T
      /\ SubSeq(d.undo, 1, n - 1) \in Seq(T) /\ Len(SubSeq(d.undo, 1, n - 1)) = n - 1
      /\ \A i \in 1 .. n - 1 : SubSeq(d.undo, 1, n - 1)[i] = d.undo[i]
  <2>. HIDE DEF T
  <2>1. QED
    BY <1>1, PoppedAt
<1>3. /\ g.table = t /\ g.undo = SubSeq(d.undo, 1, n - 1) /\ g.redo = Append(d.redo, tx)
      /\ g.savedDepth = d.savedDepth /\ g.size = d.size /\ g.resizable = d.resizable
  BY <1>1 DEF Undo, Docs
<1>4. /\ Len(g.redo) = r + 1 /\ g.redo[r + 1] = tx /\ \A i \in 1 .. r : g.redo[i] = d.redo[i]
  <2>. HIDE DEF T, tx
  <2>1. QED
    BY <1>1, <1>2, <1>3, AppendedAt
<1>5. /\ vs \in Seq(Seq(Cell)) /\ Len(vs) = n + r + 1 /\ vs[n + 1] = Content(d.table)
      /\ \A i \in 1 .. n : TxLeads(vs[i], d.undo[i], vs[i + 1])
      /\ \A i \in 1 .. r : TxLeads(vs[Len(vs) - i], d.redo[i], vs[Len(vs) - i + 1])
  BY DEF Line
<1>6. Len(g.undo) = n - 1 /\ \A i \in 1 .. n - 1 : g.undo[i] = d.undo[i]
  BY <1>2, <1>3
<1>7. TxLeads(vs[n], tx, vs[n + 1])
  <2>1. n \in 1 .. n
    BY <1>2
  <2>2. QED
    BY <2>1, <1>5
<1>. HIDE DEF t
<1>8. ~ RevertPanics(d.table, tx) /\ Content(t) = vs[n]
  <2>. HIDE DEF n, tx
  <2>1. TxLeads(vs[n], tx, Content(d.table))
    BY <1>5, <1>7
  <2>2. QED
    BY <2>1, <1>1, <1>2, UndoLeads DEF t, T
<1>. HIDE DEF n, r, tx, g
<1>9. Line(g, vs)
  <2>1. (n - 1) + (r + 1) + 1 = n + r + 1 /\ (n - 1) + 1 = n
    BY <1>1, <1>2
  <2>2. Len(vs) = Len(g.undo) + Len(g.redo) + 1 /\ vs[Len(g.undo) + 1] = Content(g.table)
    BY <2>1, <1>3, <1>4, <1>5, <1>6, <1>8
  <2>3. \A i \in 1 .. n - 1 : TxLeads(vs[i], g.undo[i], vs[i + 1])
    <3>1. \A i \in 1 .. n - 1 : i \in 1 .. n
      BY <1>2
    <3>2. QED
      BY <3>1, <1>5, <1>6
  <2>4. ASSUME NEW i \in 1 .. r + 1
        PROVE  TxLeads(vs[Len(vs) - i], g.redo[i], vs[Len(vs) - i + 1])
    <3>1. CASE i = r + 1
      <4>1. Len(vs) - i = n /\ Len(vs) - i + 1 = n + 1
        BY <3>1, <1>1, <1>2, <1>5
      <4>2. g.redo[i] = tx
        BY <3>1, <1>4
      <4>3. QED
        BY <4>1, <4>2, <1>7
    <3>2. CASE i # r + 1
      <4>1. i \in 1 .. r
        BY <3>2, <1>1
      <4>2. QED
        BY <4>1, <1>4, <1>5
    <3>3. QED
      BY <3>1, <3>2
  <2>5. QED
    BY <2>2, <2>3, <2>4, <1>4, <1>5, <1>6 DEF Line
<1>10. n \in 1 .. Len(vs)
  <2>1. n \in Nat \ {0} /\ r \in Nat /\ Len(vs) = n + r + 1
    BY <1>1, <1>2, <1>5
  <2>2. QED
    BY <2>1
<1>11. Stays(d, vs) => Stays(g, vs)
  BY <1>3 DEF Stays
<1>12. \A c : Names(d, vs, c) => Names(g, vs, c)
  BY <1>3 DEF Names
<1>13. QED
  BY <1>3, <1>6, <1>8, <1>9, <1>10, <1>11, <1>12 DEF n, tx, g

\* Redo walks one version forward, and the deletes find the bytes they deleted.
LEMMA RedoLine ==
  ASSUME NEW d \in GoodDocs, NEW vs, Line(d, vs), d.redo # <<>>
  PROVE  /\ ~ ApplyPanics(d.table, d.redo[Len(d.redo)])
         /\ \A k \in 1 .. Len(d.redo[Len(d.redo)]) :
              FindsSameRuns(AppliedUpTo(d.table, d.redo[Len(d.redo)])[k - 1], d.redo[Len(d.redo)][k])
         /\ Line(Redo(d), vs)
         /\ Len(Redo(d).undo) = Len(d.undo) + 1
         /\ Len(d.undo) + 2 \in 1 .. Len(vs) /\ Content(Redo(d).table) = vs[Len(d.undo) + 2]
         /\ Stays(d, vs) => Stays(Redo(d), vs)
         /\ \A c : Names(d, vs, c) => Names(Redo(d), vs, c)
<1>. DEFINE n == Len(d.undo)
            r == Len(d.redo)
            tx == d.redo[r]
            g == Redo(d)
            T == Seq(Edits(Piece))
            t == AppliedUpTo(d.table, tx)[Len(tx)]
<1>1. /\ d.undo \in Seq(T) /\ d.redo \in Seq(T) /\ n \in Nat
      /\ d.table \in Seq(Piece) /\ d \in Docs(Piece)
  BY StackTypes DEF GoodDocs
<1>2. /\ r \in Nat \ {0} /\ tx \in T
      /\ SubSeq(d.redo, 1, r - 1) \in Seq(T) /\ Len(SubSeq(d.redo, 1, r - 1)) = r - 1
      /\ \A i \in 1 .. r - 1 : SubSeq(d.redo, 1, r - 1)[i] = d.redo[i]
  <2>. HIDE DEF T
  <2>1. QED
    BY <1>1, PoppedAt
<1>3. /\ g.table = t /\ g.redo = SubSeq(d.redo, 1, r - 1) /\ g.undo = Append(d.undo, tx)
      /\ g.savedDepth = d.savedDepth /\ g.size = d.size /\ g.resizable = d.resizable
  BY <1>1 DEF Redo, Docs
<1>4. /\ Len(g.undo) = n + 1 /\ g.undo[n + 1] = tx /\ \A i \in 1 .. n : g.undo[i] = d.undo[i]
  <2>. HIDE DEF T, tx
  <2>1. QED
    BY <1>1, <1>2, <1>3, AppendedAt
<1>5. /\ vs \in Seq(Seq(Cell)) /\ Len(vs) = n + r + 1 /\ vs[n + 1] = Content(d.table)
      /\ \A i \in 1 .. n : TxLeads(vs[i], d.undo[i], vs[i + 1])
      /\ \A i \in 1 .. r : TxLeads(vs[Len(vs) - i], d.redo[i], vs[Len(vs) - i + 1])
  BY DEF Line
<1>6. Len(g.redo) = r - 1 /\ \A i \in 1 .. r - 1 : g.redo[i] = d.redo[i]
  BY <1>2, <1>3
<1>. HIDE DEF t, tx
<1>7. TxLeads(vs[n + 1], tx, vs[n + 2])
  <2>. HIDE DEF n, r
  <2>1. r \in 1 .. r /\ Len(vs) - r = n + 1 /\ Len(vs) - r + 1 = n + 2
    BY <1>1, <1>2, <1>5
  <2>2. TxLeads(vs[Len(vs) - r], d.redo[r], vs[Len(vs) - r + 1])
    BY <2>1, <1>5
  <2>3. QED
    BY <2>1, <2>2 DEF tx
<1>8. /\ ~ ApplyPanics(d.table, tx) /\ Content(t) = vs[n + 2]
      /\ \A k \in 1 .. Len(tx) : FindsSameRuns(AppliedUpTo(d.table, tx)[k - 1], tx[k])
  <2>. DEFINE b == vs[n + 2]
  <2>1. TxLeads(Content(d.table), tx, b)
    BY <1>5, <1>7
  <2>. HIDE DEF n, b
  <2>2. /\ ~ ApplyPanics(d.table, tx) /\ Content(AppliedUpTo(d.table, tx)[Len(tx)]) = b
        /\ \A k \in 1 .. Len(tx) : FindsSameRuns(AppliedUpTo(d.table, tx)[k - 1], tx[k])
    BY <2>1, <1>1, <1>2, RedoLeads DEF T
  <2>3. QED
    BY <2>2 DEF b, t
<1>. HIDE DEF n, r, g
<1>9. Line(g, vs)
  <2>1. (n + 1) + (r - 1) + 1 = n + r + 1 /\ (n + 1) + 1 = n + 2
    BY <1>1, <1>2
  <2>2. Len(vs) = Len(g.undo) + Len(g.redo) + 1 /\ vs[Len(g.undo) + 1] = Content(g.table)
    BY <2>1, <1>3, <1>4, <1>5, <1>6, <1>8
  <2>3. ASSUME NEW i \in 1 .. n + 1 PROVE TxLeads(vs[i], g.undo[i], vs[i + 1])
    <3>1. CASE i = n + 1
      BY <2>1, <3>1, <1>4, <1>7
    <3>2. CASE i # n + 1
      <4>1. i \in 1 .. n
        BY <3>2, <1>1
      <4>2. QED
        BY <4>1, <1>4, <1>5
    <3>3. QED
      BY <3>1, <3>2
  <2>4. \A i \in 1 .. r - 1 : TxLeads(vs[Len(vs) - i], g.redo[i], vs[Len(vs) - i + 1])
    <3>1. \A i \in 1 .. r - 1 : i \in 1 .. r
      BY <1>2
    <3>2. QED
      BY <3>1, <1>5, <1>6
  <2>5. QED
    BY <2>2, <2>3, <2>4, <1>4, <1>5, <1>6 DEF Line
<1>10. n + 2 \in 1 .. Len(vs)
  BY <1>1, <1>2, <1>5
<1>11. Stays(d, vs) => Stays(g, vs)
  BY <1>3 DEF Stays
<1>12. \A c : Names(d, vs, c) => Names(g, vs, c)
  BY <1>3 DEF Names
<1>13. QED
  BY <1>3, <1>4, <1>8, <1>9, <1>10, <1>11, <1>12 DEF n, r, tx, g

\* Saving names the version at the cursor.
LEMMA SaveLine ==
  ASSUME NEW d \in GoodDocs, NEW vs, Line(d, vs)
  PROVE  /\ Line(MarkSaved(d), vs)
         /\ MarkSaved(d).undo = d.undo /\ MarkSaved(d).table = d.table
         /\ Stays(d, vs) => Stays(MarkSaved(d), vs)
         /\ Names(MarkSaved(d), vs, Content(d.table))
<1>. DEFINE n == Len(d.undo)
            g == MarkSaved(d)
<1>1. d \in Docs(Piece) /\ n \in Nat /\ Len(d.redo) \in Nat
  BY StackTypes DEF GoodDocs
<1>2. /\ g.table = d.table /\ g.redo = d.redo /\ g.undo = d.undo
      /\ g.savedDepth = n /\ g.size = d.size /\ g.resizable = d.resizable
  BY <1>1 DEF MarkSaved, Docs
<1>. HIDE DEF g
<1>3. Len(vs) = n + Len(d.redo) + 1 /\ vs[n + 1] = Content(d.table)
  BY DEF Line
<1>4. Line(g, vs) /\ (Stays(d, vs) => Stays(g, vs))
  BY <1>2 DEF Line, Stays
<1>. HIDE DEF n
<1>5. n + 1 \in 1 .. Len(vs)
  BY <1>1, <1>3
<1>6. Names(g, vs, Content(d.table))
  BY <1>2, <1>3, <1>5 DEF Names
<1>7. QED
  BY <1>2, <1>4, <1>6 DEF g

\* The history as the document's stacks tell it: until an overwrite is torn, the
\* recorded versions are the line the stacks stand for, the saved depth names
\* the saved version unless it was overtaken, and a source of fixed size stays
\* in place.
LineInv ==
  /\ Inv
  /\ ~ torn => /\ ~ panicked
               /\ Line(doc, versions)
               /\ Stays(doc, versions)
               /\ ~ overtaken => Names(doc, versions, savedContent)

\* A document just opened is a line of one version, saved at it.
LEMMA LineInit == HInit => LineInv
<1>1. SUFFICES ASSUME HInit PROVE LineInv
  OBVIOUS
<1>2. Inv /\ ~ panicked
  BY <1>1, InitInv DEF HInit, Init
<1>3. PICK size \in SourceSizes, resizable \in BOOLEAN : doc = NewDocument(size, resizable)
  BY <1>1 DEF HInit, Init
<1>. DEFINE c == Content(doc.table)
<1>4. /\ size \in Nat /\ doc.size = size /\ doc.table = NewTable(size)
      /\ doc.undo = <<>> /\ doc.redo = <<>> /\ doc.savedDepth = 0
  BY <1>3, BoundsAssumption DEF NewDocument
<1>5. c \in Seq(Cell) /\ versions = <<c>> /\ savedContent = c
  BY <1>1, <1>2, StackTypes DEF Inv, HInit
<1>6. OwnPlaces(c, size)
  <2>1. CASE size > 0
    <3>. DEFINE p == [store |-> "Original", offset |-> 0, len |-> size]
    <3>1. p \in Piece /\ doc.table = <<p>>
      BY <1>4, <2>1 DEF Piece, Store, NewTable
    <3>2. p.store = "Original" /\ p.offset = 0 /\ p.len = size
      OBVIOUS
    <3>. HIDE DEF p
    <3>3. /\ c = Bytes(p) /\ Bytes(p) \in Seq(Cell) /\ Len(Bytes(p)) = size
          /\ \A i \in 1 .. size : Bytes(p)[i] = <<"Original", 0 + i - 1>>
      BY <3>1, <3>2, ContentOfOne, BytesType
    <3>4. \A i \in 1 .. size : 0 + i - 1 = i - 1
      OBVIOUS
    <3>. HIDE DEF c
    <3>5. QED
      BY <3>3, <3>4 DEF OwnPlaces
  <2>2. CASE ~ (size > 0)
    <3>1. size = 0 /\ doc.table = <<>>
      BY <1>4, <2>2 DEF NewTable
    <3>2. doc.table \in Seq(Piece) /\ Len(c) = TotalLen(doc.table)
      BY <1>2, StackTypes, ContentLength DEF Inv
    <3>3. Len(c) = 0
      BY <3>1, ContentOfNone
    <3>4. QED
      BY <3>1, <3>3 DEF OwnPlaces
  <2>3. QED
    BY <2>1, <2>2
<1>. HIDE DEF c
<1>7. Len(versions) = 1 /\ versions[1] = c /\ versions \in Seq(Seq(Cell))
  BY <1>5
<1>8. Line(doc, versions)
  <2>1. Len(doc.undo) = 0 /\ Len(doc.redo) = 0
    BY <1>4
  <2>2. /\ \A i \in 1 .. Len(doc.undo) : FALSE
        /\ \A i \in 1 .. Len(doc.redo) : FALSE
    BY <2>1
  <2>3. Len(doc.undo) + Len(doc.redo) + 1 = 1 /\ Len(doc.undo) + 1 = 1
    BY <2>1
  <2>4. QED
    BY <2>2, <2>3, <1>7 DEF Line, c
<1>9. Stays(doc, versions)
  BY <1>4, <1>6, <1>7 DEF Stays
<1>10. Names(doc, versions, savedContent)
  BY <1>4, <1>5, <1>7 DEF Names
<1>11. QED
  BY <1>2, <1>8, <1>9, <1>10 DEF LineInv

\* A refused append leaves everything but the place of the add buffer.
LEMMA RefusedKeeps ==
  ASSUME Inv, NEW offset, NEW n, RefusedAt(offset, n)
  PROVE  /\ doc'.undo = doc.undo /\ doc'.redo = doc.redo /\ doc'.table = doc.table
         /\ doc'.savedDepth = doc.savedDepth /\ doc'.size = doc.size
         /\ doc'.resizable = doc.resizable /\ panicked' = panicked
<1>1. doc \in Docs(Piece)
  BY DEF Inv, GoodDocs
<1>2. doc' \in AppendFailures(doc, n) /\ panicked' = panicked
  BY DEF RefusedAt
<1>3. PICK s \in {doc.spilled, TRUE} : doc' = [doc EXCEPT !.spilled = s]
  BY <1>2 DEF AppendFailures
<1>4. QED
  BY <1>1, <1>2, <1>3 DEF Docs

\* Every step keeps the line.
LEMMA LineStep == LineInv /\ [HNext]_hvars => LineInv'
<1>1. SUFFICES ASSUME LineInv, [HNext]_hvars PROVE LineInv'
  OBVIOUS
<1>2. Inv /\ doc \in GoodDocs
  BY <1>1 DEF LineInv, Inv
<1>3. [Next]_vars
  BY <1>1 DEF HNext, Next, hvars, vars, HEdit, HRefused, HTear, HMerge, HMove, HSave
<1>4. Inv'
  BY <1>2, <1>3, NextInv
<1>5. CASE torn'
  BY <1>4, <1>5 DEF LineInv
<1>6. ASSUME ~ torn, HEdit PROVE LineInv'
  <2>1. /\ versions' = Append(SubSeq(versions, 1, Len(doc.undo) + 1), Content(doc'.table))
        /\ overtaken' = (overtaken \/ doc.savedDepth = Len(doc.undo) + 1)
        /\ savedContent' = savedContent /\ torn' = torn
    BY <1>6 DEF HEdit, Cursor
  <2>2. Commits(doc, doc') /\ panicked' = panicked
    BY <1>2, <1>6, EditCommits DEF HEdit
  <2>3. ~ panicked /\ Line(doc, versions) /\ Stays(doc, versions)
        /\ (~ overtaken => Names(doc, versions, savedContent))
    BY <1>1, <1>6 DEF LineInv
  <2>4. /\ Line(doc', versions') /\ Stays(doc', versions')
        /\ ~ overtaken' => Names(doc', versions', savedContent)
    BY <1>2, <2>1, <2>2, <2>3, CommitLine
  <2>5. QED
    BY <1>4, <2>1, <2>2, <2>3, <2>4 DEF LineInv
<1>7. ASSUME ~ torn, HRefused PROVE LineInv'
  <2>1. versions' = versions /\ savedContent' = savedContent /\ overtaken' = overtaken
    BY <1>7 DEF HRefused, history
  <2>2. /\ doc'.undo = doc.undo /\ doc'.redo = doc.redo /\ doc'.table = doc.table
        /\ doc'.savedDepth = doc.savedDepth /\ doc'.size = doc.size
        /\ doc'.resizable = doc.resizable /\ panicked' = panicked
    BY <1>2, <1>7, RefusedKeeps DEF HRefused
  <2>3. ~ panicked /\ Line(doc, versions) /\ Stays(doc, versions)
        /\ (~ overtaken => Names(doc, versions, savedContent))
    BY <1>1, <1>7 DEF LineInv
  <2>4. /\ Line(doc', versions) /\ Stays(doc', versions)
        /\ ~ overtaken => Names(doc', versions, savedContent)
    BY <2>2, <2>3, SameLine
  <2>5. QED
    BY <1>4, <2>1, <2>2, <2>3, <2>4 DEF LineInv
<1>8. ASSUME ~ torn, HMerge PROVE LineInv'
  <2>1. /\ doc.redo = <<>> /\ MayMerge(doc) /\ doc' = MergeWithPrevious(doc) /\ panicked' = panicked
        /\ versions' = Append(SubSeq(versions, 1, (Len(doc.undo) + 1) - 2), versions[Len(doc.undo) + 1])
        /\ overtaken' = overtaken /\ savedContent' = savedContent
    BY <1>8 DEF HMerge, Merge, Cursor
  <2>2. ~ panicked /\ Line(doc, versions) /\ Stays(doc, versions)
        /\ (~ overtaken => Names(doc, versions, savedContent))
    BY <1>1, <1>8 DEF LineInv
  <2>3. /\ Line(doc', versions') /\ Stays(doc', versions')
        /\ ~ overtaken => Names(doc', versions', savedContent)
    BY <1>2, <2>1, <2>2, MergeLine
  <2>4. QED
    BY <1>4, <2>1, <2>2, <2>3 DEF LineInv
<1>9. ASSUME ~ torn, HMove PROVE LineInv'
  <2>1. versions' = versions /\ savedContent' = savedContent /\ overtaken' = overtaken
    BY <1>9 DEF HMove, history
  <2>2. ~ panicked /\ Line(doc, versions) /\ Stays(doc, versions)
        /\ (~ overtaken => Names(doc, versions, savedContent))
    BY <1>1, <1>9 DEF LineInv
  <2>3. /\ Line(doc', versions) /\ Stays(doc', versions) /\ panicked' = panicked
        /\ ~ overtaken => Names(doc', versions, savedContent)
    <3>1. CASE UndoStep
      <4>1. doc.undo # <<>>
        BY <3>1 DEF UndoStep
      <4>2. ~ RevertPanics(doc.table, doc.undo[Len(doc.undo)])
        BY <1>2, <2>2, <4>1, UndoLine
      <4>3. doc' = Undo(doc) /\ panicked' = panicked
        BY <3>1, <4>2 DEF UndoStep
      <4>4. QED
        BY <1>2, <2>2, <4>1, <4>3, UndoLine
    <3>2. CASE RedoStep
      <4>1. doc.redo # <<>>
        BY <3>2 DEF RedoStep
      <4>2. ~ ApplyPanics(doc.table, doc.redo[Len(doc.redo)])
        BY <1>2, <2>2, <4>1, RedoLine
      <4>3. doc' = Redo(doc) /\ panicked' = panicked
        BY <3>2, <4>2 DEF RedoStep
      <4>4. QED
        BY <1>2, <2>2, <4>1, <4>3, RedoLine
    <3>3. QED
      BY <1>9, <3>1, <3>2 DEF HMove
  <2>4. QED
    BY <1>4, <2>1, <2>2, <2>3 DEF LineInv
<1>10. ASSUME ~ torn, HSave PROVE LineInv'
  <2>1. /\ doc' = MarkSaved(doc) /\ panicked' = panicked
        /\ versions' = versions /\ savedContent' = Content(doc.table)
    BY <1>10 DEF HSave, Save
  <2>2. ~ panicked /\ Line(doc, versions) /\ Stays(doc, versions)
    BY <1>1, <1>10 DEF LineInv
  <2>3. Line(doc', versions) /\ Stays(doc', versions) /\ Names(doc', versions, Content(doc.table))
    BY <1>2, <2>1, <2>2, SaveLine
  <2>4. QED
    BY <1>4, <2>1, <2>2, <2>3 DEF LineInv
<1>11. CASE UNCHANGED hvars
  BY <1>1, <1>4, <1>11 DEF LineInv, hvars
<1>12. CASE ~ torn' /\ HNext
  <2>1. ~ torn
    BY <1>12 DEF HNext, HEdit, HRefused, HTear, HMerge, HMove, HSave, history
  <2>2. ~ HTear
    BY <1>12 DEF HTear
  <2>3. QED
    BY <1>6, <1>7, <1>8, <1>9, <1>10, <1>12, <2>1, <2>2 DEF HNext
<1>13. QED
  BY <1>1, <1>5, <1>11, <1>12

\* The stacks always stand for the recorded versions (document.rs:28-78, 130-190):
\* the invariant the theorems below rest on.
THEOREM LineAlways == HSpec => []LineInv
BY LineInit, LineStep, PTL DEF HSpec

\* Undo and redo never panic.
THEOREM NoPanic == HSpec => []UndoNeverPanics
<1>1. ASSUME LineInv PROVE UndoNeverPanics
  <2>1. SUFFICES ASSUME ~ torn
                 PROVE  /\ ~ panicked
                        /\ doc.redo # <<>> =>
                             LET tx == doc.redo[Len(doc.redo)]
                             IN  \A k \in 1 .. Len(tx) :
                                   FindsSameRuns(AppliedUpTo(doc.table, tx)[k - 1], tx[k])
    BY DEF UndoNeverPanics
  <2>2. ~ panicked /\ Line(doc, versions) /\ doc \in GoodDocs
    BY <1>1, <2>1 DEF LineInv, Inv
  <2>3. QED
    BY <2>2, RedoLine
<1>2. QED
  BY <1>1, LineAlways, PTL

\* The saved depth of dirty() can be reached, and names the saved version, unless a
\* commit landed on the depth of an undone save (document.rs:139-142, 169-170).
THEOREM SavedDepthNames == HSpec => []SavedDepthNamesSavedVersion
<1>1. ASSUME LineInv, SavedDepthReachable PROVE SavedDepthNamesSavedVersion
  <2>1. SUFFICES ASSUME ~ torn, ~ overtaken, doc.savedDepth # Unreachable
                 PROVE  /\ doc.savedDepth + 1 \in DOMAIN versions
                        /\ versions[doc.savedDepth + 1] = savedContent
    BY <1>1 DEF SavedDepthNamesSavedVersion
  <2>2. Names(doc, versions, savedContent) /\ versions \in Seq(Seq(Cell))
    BY <1>1, <2>1 DEF LineInv, Line
  <2>3. DOMAIN versions = 1 .. Len(versions)
    BY <2>2
  <2>4. QED
    BY <2>1, <2>2, <2>3 DEF Names
<1>2. QED
  BY <1>1, LineAlways, SavedDepthIsReachable, PTL

-----------------------------------------------------------------------------
\* The first version is the first content.
LEMMA HistoryInit == HInit => VH!Init
BY DEF HInit, Init, VH!Init, NewDocument, Cursor

\* Every operation is a step of the version history, or none.
LEMMA HistoryStep == LineInv /\ [HNext]_hvars => [VH!Next]_VH!vars
<1>1. SUFFICES ASSUME LineInv, [HNext]_hvars PROVE [VH!Next]_VH!vars
  OBVIOUS
<1>2. Inv /\ doc \in GoodDocs
  BY <1>1 DEF LineInv, Inv
<1>. DEFINE n == Len(doc.undo)
<1>3. n \in Nat /\ Len(doc.redo) \in Nat
  BY <1>2, StackTypes
<1>4. CASE torn'
  BY <1>4 DEF VH!Next
<1>5. ASSUME ~ torn, ~ torn', HEdit PROVE VH!Next
  <2>1. versions' = Append(SubSeq(versions, 1, Cursor), Content(doc'.table))
    BY <1>5 DEF HEdit
  <2>2. Line(doc, versions) /\ Commits(doc, doc')
    BY <1>1, <1>2, <1>5, EditCommits DEF HEdit, LineInv
  <2>3. Len(doc'.undo) = Len(doc.undo) + 1
    BY <1>2, <2>2, CommitLine
  <2>4. VH!Edit
    BY <2>1, <2>3 DEF VH!Edit, Cursor
  <2>5. QED
    BY <1>5, <2>4 DEF VH!Next
<1>6. ASSUME HRefused PROVE UNCHANGED VH!vars
  <2>1. doc'.undo = doc.undo /\ doc'.table = doc.table
    BY <1>2, <1>6, RefusedKeeps DEF HRefused
  <2>2. QED
    BY <2>1, <1>6 DEF HRefused, history, VH!vars, Cursor
<1>7. ASSUME ~ torn, ~ torn', HMerge PROVE VH!Next
  <2>1. /\ doc.redo = <<>> /\ MayMerge(doc) /\ doc' = MergeWithPrevious(doc)
        /\ versions' = Append(SubSeq(versions, 1, Cursor - 2), versions[Cursor])
    BY <1>7 DEF HMerge, Merge
  <2>2. Line(doc, versions)
    BY <1>1, <1>7 DEF LineInv
  <2>3. Len(doc'.undo) = n - 1 /\ doc'.table = doc.table
    BY <1>2, <2>1, <2>2, MergeLine
  <2>4. n >= 2 /\ Len(doc.redo) = 0 /\ Len(versions) = n + Len(doc.redo) + 1
        /\ versions[n + 1] = Content(doc.table)
    BY <2>1, <2>2 DEF MayMerge, Line
  <2>. HIDE DEF n
  <2>5. n + 1 > 2 /\ n + 1 = Len(versions) /\ (n - 1) + 1 = (n + 1) - 1
    BY <1>3, <2>4
  <2>6. Cursor = n + 1 /\ Cursor' = (n - 1) + 1
    BY <2>3 DEF Cursor, n
  <2>7. VH!Merge
    BY <2>1, <2>3, <2>4, <2>5, <2>6 DEF VH!Merge
  <2>8. QED
    BY <1>7, <2>7 DEF VH!Next
<1>8. ASSUME ~ torn, ~ torn', HMove PROVE VH!Next
  <2>1. Line(doc, versions) /\ UNCHANGED versions
    BY <1>1, <1>8 DEF LineInv, HMove, history
  <2>2. CASE UndoStep
    <3>1. doc.undo # <<>>
      BY <2>2 DEF UndoStep
    <3>2. ~ RevertPanics(doc.table, doc.undo[Len(doc.undo)])
      BY <1>2, <2>1, <3>1, UndoLine
    <3>3. doc' = Undo(doc)
      BY <2>2, <3>2 DEF UndoStep
    <3>4. Len(doc'.undo) = n - 1 /\ n \in 1 .. Len(versions) /\ Content(doc'.table) = versions[n]
      BY <1>2, <2>1, <3>1, <3>3, UndoLine
    <3>. HIDE DEF n
    <3>5. Cursor - 1 = n /\ Cursor' = n
      <4>1. Cursor = n + 1 /\ Cursor' = (n - 1) + 1
        BY <3>4 DEF Cursor, n
      <4>2. QED
        BY <4>1, <1>3
    <3>6. VH!Undo
      BY <2>1, <3>4, <3>5 DEF VH!Undo, VH!Move
    <3>7. QED
      BY <1>8, <3>6 DEF VH!Next
  <2>3. CASE RedoStep
    <3>1. doc.redo # <<>>
      BY <2>3 DEF RedoStep
    <3>2. ~ ApplyPanics(doc.table, doc.redo[Len(doc.redo)])
      BY <1>2, <2>1, <3>1, RedoLine
    <3>3. doc' = Redo(doc)
      BY <2>3, <3>2 DEF RedoStep
    <3>4. Len(doc'.undo) = n + 1 /\ n + 2 \in 1 .. Len(versions) /\ Content(doc'.table) = versions[n + 2]
      BY <1>2, <2>1, <3>1, <3>3, RedoLine
    <3>. HIDE DEF n
    <3>5. Cursor + 1 = n + 2 /\ Cursor' = n + 2
      <4>1. Cursor = n + 1 /\ Cursor' = (n + 1) + 1
        BY <3>4 DEF Cursor, n
      <4>2. QED
        BY <4>1, <1>3
    <3>6. VH!Redo
      BY <2>1, <3>4, <3>5 DEF VH!Redo, VH!Move
    <3>7. QED
      BY <1>8, <3>6 DEF VH!Next
  <2>4. QED
    BY <1>8, <2>2, <2>3 DEF HMove
<1>9. ASSUME ~ torn, HSave PROVE UNCHANGED VH!vars
  <2>1. doc'.undo = doc.undo /\ doc'.table = doc.table /\ versions' = versions /\ torn' = torn
    <3>1. doc' = MarkSaved(doc) /\ versions' = versions /\ torn' = torn
      BY <1>9 DEF HSave, Save
    <3>2. Line(doc, versions)
      BY <1>1, <1>9 DEF LineInv
    <3>3. QED
      BY <1>2, <3>1, <3>2, SaveLine
  <2>2. QED
    BY <2>1 DEF VH!vars, Cursor
<1>10. CASE UNCHANGED hvars
  BY <1>10 DEF hvars, VH!vars, Cursor
<1>11. CASE ~ torn' /\ HNext
  <2>1. ~ torn
    BY <1>11 DEF HNext, HEdit, HRefused, HTear, HMerge, HMove, HSave, history
  <2>2. ~ HTear
    BY <1>11 DEF HTear
  <2>3. QED
    BY <1>5, <1>6, <1>7, <1>8, <1>9, <1>11, <2>1, <2>2 DEF HNext
<1>12. QED
  BY <1>1, <1>4, <1>10, <1>11

\* The document implements a version history.
THEOREM VersionsImplemented == HSpec => ImplementsVersionHistory
BY HistoryInit, HistoryStep, LineAlways, PTL DEF HSpec, ImplementsVersionHistory, VH!Spec

\* Writing the dirty ranges over the source gives the document whenever
\* inplace_dirty_ranges answers, and a source of fixed size can always be saved so
\* (document/io.rs:136-162).
THEOREM InPlaceSaves == HSpec => []SavesInPlace
<1>1. LineInv => SavesInPlace
  <2>1. SUFFICES ASSUME LineInv PROVE SavesInPlace
    OBVIOUS
  <2>2. /\ doc \in GoodDocs /\ doc.table \in Seq(Piece) /\ doc.size \in Nat
        /\ doc.table \in Seq(Stored(doc.size, doc.added))
    BY <2>1, GoodDocFields DEF LineInv, Inv
  <2>3. DirtyRangesPatchTheSource
    BY <2>2, PatchesTheSource DEF DirtyRangesPatchTheSource
  <2>4. ASSUME ~ doc.resizable, ~ torn PROVE CanSaveInPlace(doc.table, doc.size)
    <3>1. Line(doc, versions) /\ Stays(doc, versions)
      BY <2>1, <2>4 DEF LineInv
    <3>2. Len(doc.undo) \in Nat /\ Len(doc.redo) \in Nat
      BY <2>2, StackTypes
    <3>. DEFINE u == Len(doc.undo)
                r == Len(doc.redo)
    <3>3. u + 1 \in 1 .. Len(versions) /\ versions[u + 1] = Content(doc.table)
      <4>1. Len(versions) = u + r + 1 /\ versions[u + 1] = Content(doc.table)
        BY <3>1 DEF Line
      <4>. HIDE DEF u, r
      <4>2. u \in Nat /\ r \in Nat
        BY <3>2 DEF u, r
      <4>3. QED
        BY <4>1, <4>2
    <3>4. OwnPlaces(Content(doc.table), doc.size)
      BY <2>4, <3>1, <3>3 DEF Stays
    <3>5. \A k \in 1 .. Len(doc.table) : doc.table[k].len > 0
      BY <2>2 DEF Stored
    <3>6. QED
      BY <2>2, <3>4, <3>5, InPlaceTable
  <2>5. QED
    BY <2>3, <2>4 DEF SavesInPlace
<1>2. QED
  BY <1>1, LineAlways, PTL
=============================================================================
