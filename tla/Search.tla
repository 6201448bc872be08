------------------------------- MODULE Search -------------------------------
(***************************************************************************)
(* core/src/search.rs and search/pattern.rs: the incremental Searcher.     *)
(*                                                                         *)
(* A text is a sequence of letters, already folded when the search ignores *)
(* case; positions are 0-based.  A pattern is a sequence of letters, or Any *)
(* where its mask does not care.  A searcher is a record s:                *)
(*                                                                         *)
(*   s.start, s.stop  the range, clamped to the document of that moment    *)
(*   s.backward, s.wrap, s.wrapped, s.finished                             *)
(*   s.origin         where the search began; the wrap pass stops here     *)
(*   s.pos            boundary of the next window                          *)
(*   s.next           next_candidate: matches do not overlap across windows *)
(*                                                                         *)
(* Patterns of a float with a tolerance differ only in how a position is    *)
(* compared, and take the same path as a pattern with wildcards.           *)
(***************************************************************************)
EXTENDS Integers, Sequences

CONSTANTS
  Window,   \* WINDOW: positions one step scans at most
  Any       \* a position of a pattern whose mask is 0

ASSUME WindowAssumption == Window \in Nat \ {0}

Least(a, b) == IF a < b THEN a ELSE b
Most(a, b) == IF a < b THEN b ELSE a
Monus(a, b) == Most(a - b, 0)       \* saturating_sub

-----------------------------------------------------------------------------
(* pattern.rs                                                              *)

MatchesAt(data, p, i) ==
  /\ i + Len(p) <= Len(data)
  /\ \A k \in 1 .. Len(p) : p[k] = Any \/ p[k] = data[i + k]

IsConcrete(p) == Len(p) > 1 /\ \A k \in 1 .. Len(p) : p[k] # Any

\* A plausible slip: a skip counted from the letter behind.
SkipTooFar(p, last) ==
  LET at == {k \in 1 .. Len(p) - 1 : p[k] = last}
  IN  IF at = {} THEN Len(p) ELSE Len(p) + 1 - (CHOOSE k \in at : \A j \in at : j <= k)

\* Boyer-Moore-Horspool's table, keyed by the last letter under the pattern.
Skip(p, last) ==
  LET at == {k \in 1 .. Len(p) - 1 : p[k] = last}
  IN  IF at = {} THEN Len(p) ELSE Len(p) - (CHOOSE k \in at : \A j \in at : j <= k)

Stride(data, p, i) == IF IsConcrete(p) THEN Skip(p, data[i + Len(p)]) ELSE 1

\* Pattern::scan: the matches with a start in from .. upTo - 1, left to right,
\* without overlap.
Scan(data, p, upTo, from) ==
  LET f[i \in Nat] ==
        IF i >= upTo \/ i + Len(p) > Len(data) THEN <<>>
        ELSE IF MatchesAt(data, p, i) THEN <<i>> \o f[i + Len(p)]
        ELSE f[i + Stride(data, p, i)]
  IN  f[from]

-----------------------------------------------------------------------------
(* search.rs                                                               *)

\* A plausible slip: every position of the range is a candidate.
EndOfRange(start, stop, m) == stop

\* One past the last start a match may have.
CandEnd(start, stop, m) == Most(Monus(stop, m - 1), start)

NewSearcher(start0, stop0, docLen, from, backward, wrap, m) ==
  LET start == Least(start0, docLen)
      stop == Least(stop0, docLen)
      candEnd == CandEnd(start, stop, m)
      origin == Most(start, Least(from, candEnd))
  IN  [start |-> start, stop |-> stop, backward |-> backward, wrap |-> wrap,
       origin |-> origin, pos |-> origin, wrapped |-> FALSE,
       finished |-> start >= candEnd, next |-> origin]

\* A plausible slip: the wrap pass is entered again when it ends.
WrapsForEver(s, m) ==
  IF s.wrap
    THEN [s EXCEPT !.wrapped = TRUE,
                   !.pos = IF s.backward THEN CandEnd(s.start, s.stop, m) ELSE s.start]
    ELSE [s EXCEPT !.finished = TRUE]

\* The end of a pass: enter the wrap pass or finish.
AdvancePass(s, m) ==
  LET candEnd == CandEnd(s.start, s.stop, m)
  IN  IF s.wrapped \/ ~ s.wrap THEN [s EXCEPT !.finished = TRUE]
      ELSE IF s.backward
        THEN [s EXCEPT !.wrapped = TRUE, !.pos = candEnd, !.finished = candEnd <= s.origin]
        ELSE [s EXCEPT !.wrapped = TRUE, !.pos = s.start, !.next = s.start,
                       !.finished = s.start >= s.origin]

\* The candidates left in the current pass: Lo .. Hi - 1.
Lo(s) == IF ~ s.backward THEN s.pos ELSE IF s.wrapped THEN s.origin ELSE s.start
Hi(s, m) ==
  IF s.backward THEN s.pos ELSE IF s.wrapped THEN s.origin ELSE CandEnd(s.start, s.stop, m)

\* A plausible slip: the window is read without its overlap.
ReadAlone(s, c0, c1, m) == Least(c1 - c0, s.stop - c0)

\* How much the window c0 .. c1 - 1 reads: m - 1 more, so that a match may end
\* outside it.
ReadLen(s, c0, c1, m) == Least(c1 - c0 + m - 1, s.stop - c0)

\* A plausible slip: what could not be read is not looked at.
MatchesUnread(unread, at, m) == FALSE

TouchesUnread(unread, at, m) == \E i \in unread : at <= i /\ i < at + m

\* The matches that start in the window c0 .. c1 - 1, those left out that touch
\* what could not be read.  Reading past the end of the text reads less.
Found(s, p, text, unread, c0, c1) ==
  LET m == Len(p)
      data == SubSeq(text, c0 + 1, Least(c0 + ReadLen(s, c0, c1, m), Len(text)))
      rel == Scan(data, p, c1 - c0, IF s.backward THEN 0 ELSE Monus(s.next, c0))
      out[k \in 0 .. Len(rel)] ==
        IF k = 0 THEN <<>>
        ELSE IF TouchesUnread(unread, c0 + rel[k], m) THEN out[k - 1]
        ELSE Append(out[k - 1], c0 + rel[k])
  IN  out[Len(rel)]

\* The step after a window: on to the next one, or to the end of the pass.
AfterWindow(s, m, c0, c1, out) ==
  LET moved == [s EXCEPT !.pos = IF s.backward THEN c0 ELSE c1,
                         !.next = IF s.backward \/ out = <<>> THEN @ ELSE out[Len(out)] + m]
      over == IF s.backward THEN c0 <= Lo(s) ELSE c1 >= Hi(s, m)
  IN  [searcher |-> IF over THEN AdvancePass(moved, m) ELSE moved,
       out |-> out, scanned |-> c1 - c0]

\* One step over the text: the searcher after it, the matches it found and how
\* many positions it scanned.
Stepped(s, p, text, unread, budget) ==
  LET m == Len(p)
      lo == Lo(s)
      hi == Hi(s, m)
      window == Most(1, Least(budget, Window))
      c0 == IF s.backward THEN Most(Monus(hi, window), lo) ELSE lo
      c1 == IF s.backward THEN hi ELSE Least(lo + window, hi)
  IN  IF s.finished THEN [searcher |-> s, out |-> <<>>, scanned |-> 0]
      ELSE IF lo >= hi THEN [searcher |-> AdvancePass(s, m), out |-> <<>>, scanned |-> 0]
      ELSE AfterWindow(s, m, c0, c1, Found(s, p, text, unread, c0, c1))
=============================================================================
