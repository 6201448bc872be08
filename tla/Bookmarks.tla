------------------------------ MODULE Bookmarks ------------------------------
(***************************************************************************)
(* core/src/bookmarks.rs: the marks of a document, sorted by offset, and    *)
(* the sidecar file they are kept in.  A line of the file is the sequence   *)
(* of its characters; a number in it is one token, Number(n).               *)
(***************************************************************************)
EXTENDS Naturals, Sequences, SequencesExt

Tab == 9
NewLine == 10
Hash == 35
Backslash == 92
LetterN == 110
LetterT == 116

NumberBase == 1000
Number(n) == NumberBase + n

NoFile == [there |-> FALSE]
FileOf(lines) == [there |-> TRUE, lines |-> lines]

\* A plausible slip: a backslash is written as it is.
EscapeControls(s) ==
  FlattenSeq([i \in DOMAIN s |-> CASE s[i] = Tab -> <<Backslash, LetterT>>
                                   [] s[i] = NewLine -> <<Backslash, LetterN>>
                                   [] OTHER -> <<s[i]>>])

Escape(s) ==
  FlattenSeq([i \in DOMAIN s |-> CASE s[i] = Backslash -> <<Backslash, Backslash>>
                                   [] s[i] = Tab -> <<Backslash, LetterT>>
                                   [] s[i] = NewLine -> <<Backslash, LetterN>>
                                   [] OTHER -> <<s[i]>>])

\* A lone backslash at the end stays, an unknown escape is its character.
Unescape(s) ==
  LET Read(r, c) ==
        IF ~ r.escaped THEN IF c = Backslash THEN [r EXCEPT !.escaped = TRUE]
                            ELSE [r EXCEPT !.out = Append(@, c)]
        ELSE [escaped |-> FALSE,
              out |-> Append(r.out, CASE c = LetterT -> Tab [] c = LetterN -> NewLine [] OTHER -> c)]
      end == FoldLeft(Read, [escaped |-> FALSE, out |-> <<>>], s)
  IN  IF end.escaped THEN Append(end.out, Backslash) ELSE end.out

LineOf(mark) ==
  <<Number(mark.offset), Tab, Number(mark.len), Tab>> \o Escape(mark.name)
    \o <<Tab>> \o Escape(mark.description)
Save(marks) == FileOf(<<<<Hash>>>> \o [i \in DOMAIN marks |-> LineOf(marks[i])])

\* line.split('\t'), of which four fields are used.
SplitAtTabs(line) ==
  FoldLeft(LAMBDA fields, c : IF c = Tab THEN Append(fields, <<>>)
                              ELSE [fields EXCEPT ![Len(fields)] = Append(@, c)],
           <<<<>>>>, line)
IsNumber(field) == Len(field) = 1 /\ field[1] >= NumberBase
WellFormed(line) ==
  LET fields == SplitAtTabs(line) IN Len(fields) >= 2 /\ IsNumber(fields[1]) /\ IsNumber(fields[2])
MarkOf(line) ==
  LET fields == SplitAtTabs(line)
      Field(k) == IF k <= Len(fields) THEN fields[k] ELSE <<>>
  IN  [offset |-> fields[1][1] - NumberBase, len |-> fields[2][1] - NumberBase,
       name |-> Unescape(Field(3)), description |-> Unescape(Field(4))]

\* A missing file is an empty list, a malformed line an error.
Load(file) ==
  LET lines == IF file.there THEN SelectSeq(file.lines, LAMBDA l : l # <<>> /\ l[1] # Hash) ELSE <<>>
  IN  IF \E i \in DOMAIN lines : ~ WellFormed(lines[i]) THEN [ok |-> FALSE]
      ELSE [ok |-> TRUE, marks |-> [i \in DOMAIN lines |-> MarkOf(lines[i])]]

\* After the marks at or before its offset.
AddMark(marks, mark) ==
  LET before == SelectSeq(marks, LAMBDA m : m.offset <= mark.offset)
  IN  InsertAt(marks, Len(before) + 1, mark)
RemoveMark(marks, i) == RemoveAt(marks, i)
=============================================================================
