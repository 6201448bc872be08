------------------------------ MODULE HexView ------------------------------
(***************************************************************************)
(* gui/src/hexview.rs and hexview/render.rs: the grid of a tab, its cursor,*)
(* its selection and the grouping of typing into undo steps.               *)
(*                                                                         *)
(* A tab is a record t.  Of its document it keeps what the grid can tell   *)
(* apart: the length, the two stacks and the saved depth, with each undo   *)
(* step reduced to the change of the length and to who made its edits      *)
(* (Document.tla models the table).  Documents of the editor's own tabs    *)
(* can grow; the add buffer's failures are in Document.tla.                *)
(*                                                                         *)
(*   t.cursor, t.anchor    offsets; either may lie behind the end after an *)
(*                         undo, a redo or a replacement                   *)
(*   t.nibble              the next digit completes the low nibble         *)
(*   t.typingNext          where the next edit would continue the run      *)
(*   t.run                 history: typing since the last boundary is one  *)
(*                         run, and this is its number                     *)
(***************************************************************************)
EXTENDS Integers, Sequences, FiniteSets

CONSTANTS
  Columns,   \* bytes per line
  MaxTyped,  \* bound: bytes one text event or one paste carries
  MaxLength  \* bound: documents are not made longer

ASSUME ColumnsAssumption == Columns \in Nat \ {0}
ASSUME LengthsAssumption == MaxTyped \in Nat \ {0} /\ MaxLength \in Nat

None == -1
Unreachable == -1

Lesser(a, b) == IF a < b THEN a ELSE b
Greater(a, b) == IF a > b THEN a ELSE b
Without(a, b) == Greater(a - b, 0)

Origins == {"typing", "deletion", "paste", "inspector", "fill", "checksum", "replacement"}

NewTab(len) ==
  [len |-> len, undo |-> <<>>, redo |-> <<>>, savedDepth |-> 0,
   cursor |-> 0, anchor |-> None, pane |-> "hex", insertMode |-> FALSE,
   nibble |-> FALSE, typingNext |-> None, readOnly |-> FALSE, run |-> 0]

-----------------------------------------------------------------------------
(* The document behind the grid.                                            *)

Dirty(t) == Len(t.undo) # t.savedDepth

Committed(t, by, delta) ==
  [t EXCEPT !.len = @ + delta,
            !.undo = Append(@, [by |-> {<<by, t.run>>}, delta |-> delta]),
            !.redo = <<>>,
            !.savedDepth = IF @ > Len(t.undo) + 1 THEN Unreachable ELSE @]

Merged(t) ==
  LET n == Len(t.undo) - 1
      both == [by |-> t.undo[n].by \cup t.undo[n + 1].by,
               delta |-> t.undo[n].delta + t.undo[n + 1].delta]
  IN  IF Len(t.undo) < 2 THEN t
      ELSE [t EXCEPT !.undo = Append(SubSeq(@, 1, n - 1), both),
                     !.savedDepth = CASE @ = n     -> Unreachable
                                      [] @ = n + 1 -> n
                                      [] OTHER     -> @]

CanInsert(t, at, n) == n > 0 /\ at <= t.len
CanDelete(t, at, n) == n > 0 /\ at + n <= t.len
CanOverwrite(t, at, n) == n > 0 /\ at <= t.len

Inserted(t, by, at, n) == Committed(t, by, n)
Deleted(t, by, at, n) == Committed(t, by, -n)
Overwritten(t, by, at, n) == Committed(t, by, Without(at + n, t.len))

Undone(t) ==
  IF t.undo = <<>> THEN t
  ELSE LET step == t.undo[Len(t.undo)]
       IN  [t EXCEPT !.len = @ - step.delta,
                     !.undo = SubSeq(@, 1, Len(@) - 1), !.redo = Append(@, step)]

Redone(t) ==
  IF t.redo = <<>> THEN t
  ELSE LET step == t.redo[Len(t.redo)]
       IN  [t EXCEPT !.len = @ + step.delta,
                     !.redo = SubSeq(@, 1, Len(@) - 1), !.undo = Append(@, step)]

-----------------------------------------------------------------------------
(* The cursor and the selection.                                            *)

Selected(t) == t.anchor # None /\ t.anchor # t.cursor
SelStart(t) == Lesser(t.anchor, t.cursor)
SelEnd(t) == Greater(t.anchor, t.cursor)

EndTyping(t) == [t EXCEPT !.typingNext = None, !.nibble = FALSE]

\* A plausible slip: following a search hit or a bookmark keeps the run alive.
GotoKeepsTyping(t, at) == [t EXCEPT !.cursor = Lesser(at, t.len), !.anchor = None]

Goto(t, at) == EndTyping([t EXCEPT !.cursor = Lesser(at, t.len), !.anchor = None])

SelectRange(t, from, to) ==
  EndTyping([t EXCEPT !.anchor = Lesser(from, t.len), !.cursor = Lesser(to, t.len)])

SelectAll(t) == EndTyping([t EXCEPT !.anchor = 0, !.cursor = t.len])

MoveCursor(t, to, extend) ==
  EndTyping([t EXCEPT !.anchor = IF ~ extend THEN None ELSE IF @ = None THEN t.cursor ELSE @,
                      !.cursor = to])

\* Where the arrow, page, Home and End keys take the cursor, one row on screen.
KeyTargets(t) ==
  LET c == t.cursor
      row == c - (c % Columns)
  IN  {Without(c, 1), Lesser(c + 1, t.len), Without(c, Columns), Lesser(c + Columns, t.len),
       row, Lesser(row + Columns - 1, t.len), 0, t.len}

-----------------------------------------------------------------------------
(* Typing, deleting and pasting.  A refused operation only sets the status. *)

CommitTyping(t, next) ==
  [(IF t.typingNext = t.cursor THEN Merged(t) ELSE t) EXCEPT !.typingNext = next]

\* `doc.read(cur, 1).data[0]` with nothing there to read.
TypingPanics(t) == ~ t.readOnly /\ t.nibble /\ t.cursor >= t.len

HighNibble(t) ==
  LET c == t.cursor
  IN  IF ~ CanOverwrite(t, c, 1) THEN t
      ELSE [CommitTyping(IF t.insertMode THEN Inserted(t, "typing", c, 1)
                                         ELSE Overwritten(t, "typing", c, 1), c)
              EXCEPT !.nibble = TRUE]

LowNibble(t) ==
  [Merged(Overwritten(t, "typing", t.cursor, 1))
     EXCEPT !.nibble = FALSE, !.cursor = @ + 1, !.typingNext = t.cursor + 1]

TypeHexDigit(t) ==
  IF t.readOnly THEN t
  ELSE LET u == [t EXCEPT !.anchor = None]
       IN  IF t.nibble THEN LowNibble(u) ELSE HighNibble(u)

TypeText(t, n) ==
  IF t.readOnly THEN t
  ELSE LET u == [t EXCEPT !.anchor = None]
           c == t.cursor
       IN  IF ~ CanInsert(u, c, n) THEN u
           ELSE [CommitTyping(IF t.insertMode THEN Inserted(u, "typing", c, n)
                                              ELSE Overwritten(u, "typing", c, n), c + n)
                   EXCEPT !.cursor = c + n]

DeleteRange(t, by, from, to) ==
  IF t.readOnly \/ ~ CanDelete(t, from, to - from) THEN t
  ELSE EndTyping([Deleted(t, by, from, to - from) EXCEPT !.cursor = from, !.anchor = None])

\* A plausible slip: what is pasted over a selection is a step of its own.
PasteInTwoSteps(t, n, inserting) ==
  IF t.readOnly THEN t
  ELSE LET cut == IF Selected(t) THEN DeleteRange(t, "paste", SelStart(t), SelEnd(t)) ELSE t
           c == cut.cursor
       IN  IF ~ CanInsert(cut, c, n) THEN cut
           ELSE EndTyping([IF Selected(t) \/ inserting THEN Inserted(cut, "paste", c, n)
                                                        ELSE Overwritten(cut, "paste", c, n)
                             EXCEPT !.cursor = c + n])

\* Over a selection the two edits become one undo step; the deletion is not
\* looked at, so what is merged may be a step of something else.
Paste(t, n, inserting) ==
  IF t.readOnly THEN t
  ELSE LET cut == IF Selected(t) THEN DeleteRange(t, "paste", SelStart(t), SelEnd(t)) ELSE t
           c == cut.cursor
       IN  IF ~ CanInsert(cut, c, n) THEN cut
           ELSE EndTyping([IF Selected(t)     THEN Merged(Inserted(cut, "paste", c, n))
                           ELSE IF inserting  THEN Inserted(cut, "paste", c, n)
                           ELSE Overwritten(cut, "paste", c, n)
                             EXCEPT !.cursor = c + n])

Backspace(t) ==
  LET c == t.cursor
  IN  IF Selected(t) THEN DeleteRange(t, "deletion", SelStart(t), SelEnd(t))
      ELSE IF c = 0 THEN t
      ELSE IF t.insertMode THEN DeleteRange(t, "deletion", c - 1, c)
      ELSE MoveCursor(t, c - 1, FALSE)

DeleteKey(t) ==
  IF Selected(t) THEN DeleteRange(t, "deletion", SelStart(t), SelEnd(t))
  ELSE IF t.cursor < t.len THEN DeleteRange(t, "deletion", t.cursor, t.cursor + 1)
  ELSE t

Cut(t) == IF Selected(t) THEN DeleteRange(t, "deletion", SelStart(t), SelEnd(t)) ELSE t

SwitchPane(t) ==
  EndTyping([t EXCEPT !.pane = IF @ = "hex" THEN "text" ELSE "hex"])

-----------------------------------------------------------------------------
(* The panels that edit at the cursor or over the selection.                *)

\* The Data Inspector: a field's bytes overwrite from the cursor.
InspectorWrites(t, n) ==
  IF t.readOnly \/ ~ CanOverwrite(t, t.cursor, n) THEN t
  ELSE Overwritten(EndTyping(t), "inspector", t.cursor, n)

FillSelection(t) ==
  IF t.readOnly \/ ~ Selected(t) THEN t
  ELSE LET u == EndTyping(t)
           n == SelEnd(t) - SelStart(t)
       IN  IF CanDelete(u, SelStart(t), n) THEN Overwritten(u, "fill", SelStart(t), n) ELSE u

\* The button of the structure panel: four bytes of a PE header, here one.
FixChecksum(t) ==
  IF CanDelete(t, 0, 1) THEN Overwritten(t, "checksum", 0, 1) ELSE t

\* Undo and redo of the menu leave cursor and selection where they are.
MenuUndo(t) == Undone(EndTyping(t))
MenuRedo(t) == Redone(EndTyping(t))
=============================================================================
