------------------------------ MODULE ByteJobs -------------------------------
(***************************************************************************)
(* What the cooperative jobs of the core share: the cursor of              *)
(* core/src/job.rs with which they walk a range one window at a time, how  *)
(* they read a document, and what one step of them hands back.  A document *)
(* is the sequence of its bytes; the bytes of a bad block are Unreadable,  *)
(* and read() shows zeros in their place.                                  *)
(***************************************************************************)
EXTENDS Integers, Sequences, SequencesExt

CONSTANTS
  WINDOW,       \* core job.rs WINDOW: the largest step of a job
  Unreadable    \* a byte that the device does not give back

ASSUME WindowAssumption == WINDOW \in Nat \ {0}

-----------------------------------------------------------------------------
(* The cursor.                                                            *)
Least(a, b) == IF a <= b THEN a ELSE b
Most(a, b) == IF a >= b THEN a ELSE b

\* The range clamped to the document; an inverted one becomes empty.
CursorOver(lo, hi, docLen, window) ==
  LET first == Least(lo, docLen)
  IN  [start |-> first, end |-> Most(Least(hi, docLen), first), pos |-> first,
       window |-> Most(window, 1)]

Total(c) == c.end - c.start
Remaining(c) == c.end - c.pos
IsDone(c) == c.pos >= c.end

\* A plausible slip: the last window is not cut at the end of the range.
NextLenUncut(c, budget, unit) ==
  LET want == Least(Most(budget, 1), c.window) IN Most(want - (want % unit), unit)

\* Whole units, but never less than one; the last window may be short.
NextLen(c, budget, unit) ==
  LET want == Least(Most(budget, 1), c.window)
  IN  Least(Most(want - (want % unit), unit), Remaining(c))

\* A plausible slip: the cursor stops on the last byte.
AdvancedToLast(c, n) == [c EXCEPT !.pos = Least(c.pos + n, Most(c.end - 1, c.start))]

Advanced(c, n) == [c EXCEPT !.pos = Least(c.pos + n, c.end)]

Cursors ==
  {c \in [start : Nat, end : Nat, pos : Nat, window : Nat \ {0}] :
     c.start <= c.pos /\ c.pos <= c.end}

-----------------------------------------------------------------------------
(* Reading, and the steps.                                                *)
\* A read past the end of the document is cut there.
Slice(doc, at, len) == SubSeq(doc, at + 1, Least(at + len, Len(doc)))
IsClean(data) == \A i \in DOMAIN data : data[i] # Unreadable
Shown(data) == [i \in DOMAIN data |-> IF data[i] = Unreadable THEN 0 ELSE data[i]]

\* Op of a value that is computed once.
With(value, Op(_)) == CHOOSE r \in {Op(v) : v \in {value}} : TRUE

\* n turns of a loop, each from what the one before left.
Repeat(Turn(_, _), first, n) ==
  LET after[i \in 0 .. n] ==
        IF i = 0 THEN first
        ELSE With(after[i - 1], LAMBDA before : Turn(before, i))
  IN  after[n]
\* The loop over the indices of a sequence.
OverIndices(Turn(_, _), first, seq) == Repeat(Turn, first, Len(seq))

\* A step: the job after it, what it appended to its output, how many bytes it
\* scanned, and whether the job's space is exhausted.
Went(job, out, scanned, finished) ==
  [kind |-> "Went", job |-> job, out |-> out, scanned |-> scanned, finished |-> finished]
Done(job) == Went(job, <<>>, 0, TRUE)
\* A step that fails; job is what is left of it, for the cleanup.
Failed(job) == [kind |-> "Failed", job |-> job]
\* A step that indexes outside what it read: the program ends.
Panics(job) == [kind |-> "Panics", job |-> job]
=============================================================================
