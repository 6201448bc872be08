----------------------------- MODULE Differences -----------------------------
(***************************************************************************)
(* core/src/compare.rs: where two documents differ.  Past the end of the    *)
(* shorter one everything differs.                                          *)
(***************************************************************************)
EXTENDS ByteJobs

\* A plausible slip: the search starts after its position.
NewDiffAfter(from, lenA, lenB) ==
  LET common == Least(lenA, lenB)
  IN  [kind |-> "Diff", pos |-> Least(from + 1, common), commonEnd |-> common,
       lensDiffer |-> lenA # lenB, approx |-> FALSE, done |-> FALSE]

NewDiff(from, lenA, lenB) ==
  LET common == Least(lenA, lenB)
  IN  [kind |-> "Diff", pos |-> Least(from, common), commonEnd |-> common,
       lensDiffer |-> lenA # lenB, approx |-> FALSE, done |-> FALSE]

NoDifference == -1

\* A step of the search for the next difference: what it found, or
\* NoDifference.
DiffStep(j, a, b, budget) ==
  LET n == Least(j.commonEnd - j.pos, Least(Most(budget, 1), WINDOW))
      ra == Slice(a, j.pos, n)
      rb == Slice(b, j.pos, n)
      differ == {i \in 1 .. Least(Len(ra), Len(rb)) : Shown(ra)[i] # Shown(rb)[i]}
      seen == [j EXCEPT !.approx = @ \/ ~IsClean(ra) \/ ~IsClean(rb)]
      at == j.pos + Min(differ) - 1
  IN  IF j.done THEN [job |-> j, found |-> NoDifference, scanned |-> 0, finished |-> TRUE]
      ELSE IF j.pos >= j.commonEnd
      THEN [job |-> [j EXCEPT !.done = TRUE], scanned |-> 0, finished |-> TRUE,
            found |-> IF j.lensDiffer THEN j.commonEnd ELSE NoDifference]
      ELSE IF differ # {}
      THEN [job |-> [seen EXCEPT !.pos = at + 1, !.done = TRUE], found |-> at, scanned |-> n, finished |-> TRUE]
      ELSE [job |-> [seen EXCEPT !.pos = @ + n], found |-> NoDifference, scanned |-> n, finished |-> FALSE]

\* Is there a difference at p?  Past one end there is.
DifferAt(a, b, p) ==
  p < Most(Len(a), Len(b))
    /\ (p >= Least(Len(a), Len(b)) \/ Shown(a)[p + 1] # Shown(b)[p + 1])

\* The next difference from a position: from the end of the shorter document
\* on, the search always answers that end.
NextDifference(a, b, from) ==
  LET differ == {p \in Least(from, Least(Len(a), Len(b))) .. Most(Len(a), Len(b)) : DifferAt(a, b, p)}
  IN  IF differ = {} THEN NoDifference ELSE Min(differ)

-----------------------------------------------------------------------------
(* diff_ranges: the ranges <<first, end>> that differ, up to limit of them. *)

\* One differing position: it continues the last range or begins another,
\* which may be one too many.
Differing(acc, p, end, limit) ==
  LET last == acc.ranges[Len(acc.ranges)]
  IN  IF acc.truncated THEN acc
      ELSE IF acc.ranges # <<>> /\ last[2] = p
      THEN [acc EXCEPT !.ranges[Len(acc.ranges)][2] = end]
      ELSE IF Len(acc.ranges) >= limit THEN [acc EXCEPT !.truncated = TRUE]
      ELSE [acc EXCEPT !.ranges = Append(@, <<p, end>>)]

DiffRanges(a, b, limit) ==
  LET common == Least(Len(a), Len(b))
      InCommon(acc, i) ==
        IF Shown(a)[i] # Shown(b)[i] THEN Differing(acc, i - 1, i, limit) ELSE acc
      head == OverIndices(InCommon, [ranges |-> <<>>, truncated |-> FALSE], SubSeq(a, 1, common))
  IN  IF Len(a) = Len(b) THEN head ELSE Differing(head, common, Most(Len(a), Len(b)), limit)

\* The longest ranges all of whose positions differ.
RangesThatDiffer(a, b) ==
  LET size == Most(Len(a), Len(b))
  IN  {r \in (0 .. size) \X (0 .. size) :
         /\ r[1] < r[2]
         /\ \A p \in r[1] .. r[2] - 1 : DifferAt(a, b, p)
         /\ r[1] = 0 \/ ~DifferAt(a, b, r[1] - 1)
         /\ ~DifferAt(a, b, r[2])}
=============================================================================
