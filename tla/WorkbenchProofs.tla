---------------------------- MODULE WorkbenchProofs ----------------------------
(***************************************************************************)
(* Four promises of Workbench, for every value of its constants: a job that *)
(* is interrupted leaves nothing half written, a split or a join that ends  *)
(* has lost nothing, an analysis indexes only what it read as long as its   *)
(* document stays, and the comparison reports the differences there are.    *)
(*                                                                          *)
(* For the first, a job that runs has changed only what OutputsOf says it   *)
(* has on the disk now: one file for a text, the parts counted so far for   *)
(* a split, nothing for a join.  What is undone is then what was done.  For *)
(* the second, the parts named so far are the first of the document, and    *)
(* what a join holds is what it read of its inputs.  For the third, the     *)
(* range of the job ends in the document.  For the last, while neither      *)
(* document changes, no place between the cursor and the position of the    *)
(* search differs.                                                          *)
(***************************************************************************)
EXTENDS Workbench, Induction, SequenceTheorems

-----------------------------------------------------------------------------
(* What the variables hold. *)

AnalysisKinds == {"Digest", "Strings", "Stats", "Magic"}
TextKinds == {"Export", "Record"}

\* A job that walks a range with a cursor.
CursorJob(j) == {"kind", "cursor"} \subseteq DOMAIN j /\ j.cursor \in Cursors
AnalysisJob(j) == j.kind \in AnalysisKinds /\ CursorJob(j)
ExportJob(j) == j.kind = "Export" /\ CursorJob(j) /\ "cols" \in DOMAIN j /\ j.cols \in Nat \ {0}
RecordJob(j) == j.kind = "Record" /\ CursorJob(j) /\ "recLen" \in DOMAIN j /\ j.recLen \in Nat \ {0}

\* The parts that are full, and the one under construction, are the bytes up
\* to pos.
SplitJobs ==
  [kind : {"Split"}, partSize : Nat \ {0}, docLen : Nat \ {0}, pos : Nat, open : BOOLEAN,
   current : Seq(Nat), filled : Nat, written : Nat]
SplitPlace(j) ==
  IF j.pos < j.docLen THEN j.written * j.partSize + j.filled = j.pos /\ j.filled < j.partSize
  ELSE j.pos = j.docLen /\ j.written = PartsOf(j.docLen, j.partSize)
SplitJob(j) == j \in SplitJobs /\ SplitPlace(j) /\ PartsOf(j.docLen, j.partSize) <= MAX_PARTS

JoinJob(j, paths) ==
  /\ j \in [kind : {"Concat"}, inputs : Seq(paths \ {"out"}), index : Nat \ {0}, pos : Nat, written : Seq(Nat)]
  /\ j.index <= Len(j.inputs) + 1

ToolJob(j, paths) == ExportJob(j) \/ RecordJob(j) \/ SplitJob(j) \/ JoinJob(j, paths)

IsRunner(r) ==
  r = [job |-> r.job, tab |-> r.tab, cancelled |-> r.cancelled, status |-> r.status, found |-> r.found,
       shown |-> r.shown, goal |-> r.goal, touched |-> r.touched]

TabsTyped == tabs \in Seq(Seq(Nat))
FilesTyped ==
  /\ \E disk \in FileSets : DOMAIN files = DOMAIN disk
  /\ \A f \in DOMAIN files \ {"out"} : files[f].data \in Seq(Nat)
RunnerTyped ==
  /\ runner = [p \in Panels |-> runner[p]]
  /\ \A p \in Panels : /\ IsRunner(runner[p])
                       /\ Busy(p) => /\ runner[p].tab \in Nat
                                     /\ runner[p].job.kind # "Concat" => runner[p].tab >= 1
  /\ Busy("Analyze") => AnalysisJob(runner["Analyze"].job)
  /\ Busy("Tools") => /\ ToolJob(runner["Tools"].job, DOMAIN files)
                      /\ runner["Tools"].goal.kind = runner["Tools"].job.kind
TurnTyped ==
  /\ turn \in [panel : Panels \cup {"None", "Panicked", "Compare"}, left : Nat]
  /\ turn.panel \in Panels => Busy(turn.panel) /\ runner[turn.panel].tab <= Len(tabs)
WorkTyped == TabsTyped /\ FilesTyped /\ RunnerTyped /\ TurnTyped

\* While a job runs, only what it wrote under its own names has changed.
OnlyItsOutputs ==
  Busy("Tools") =>
    \A f \in DOMAIN files \ abandoned :
      files[f] = runner["Tools"].goal.files[f] \/ f \in OutputsOf(runner["Tools"].job)

WorkInv == WorkTyped /\ OnlyItsOutputs /\ NothingHalfWritten

-----------------------------------------------------------------------------
(* What the jobs are made of. *)

\* Least and Most give one of the two.
LEMMA LeastMost ==
  ASSUME NEW a \in Int, NEW b \in Int
  PROVE  /\ Least(a, b) \in {a, b} /\ Least(a, b) <= a /\ Least(a, b) <= b
         /\ Most(a, b) \in {a, b} /\ Most(a, b) >= a /\ Most(a, b) >= b
BY DEF Least, Most

\* A range of a document is a sequence.
LEMMA SliceIs ==
  ASSUME NEW doc \in Seq(Nat), NEW at \in Nat, NEW len \in Nat
  PROVE  /\ Slice(doc, at, len) \in Seq(Nat)
         /\ Len(Slice(doc, at, len)) <= len
         /\ Len(Slice(doc, at, len)) = IF at + len <= Len(doc) THEN len ELSE Most(Len(doc) - at, 0)
         /\ \A i \in 1 .. Len(Slice(doc, at, len)) : Slice(doc, at, len)[i] = doc[at + i] /\ at + i \in 1 .. Len(doc)
<1>. DEFINE e == Least(at + len, Len(doc))
            m == IF e - at >= 0 THEN e - at ELSE 0
            s == SubSeq(doc, at + 1, e)
<1>1. e \in Nat /\ e <= Len(doc) /\ e <= at + len /\ m \in Nat /\ m <= len
  BY DEF Least
<1>2. s = [i \in 1 .. m |-> doc[at + i]]
  <2>1. 1 .. (1 + e - (at + 1)) = 1 .. m /\ e \in Nat
    BY <1>1
  <2>2. \A i \in 1 .. m : doc[i + (at + 1) - 1] = doc[at + i]
    OBVIOUS
  <2>. HIDE DEF e, m
  <2>3. s = [i \in 1 .. (1 + e - (at + 1)) |-> doc[i + (at + 1) - 1]]
    BY <1>1, at + 1 \in Int
  <2>4. QED
    BY <2>1, <2>2, <2>3
<1>3. \A i \in 1 .. m : at + i \in 1 .. Len(doc) /\ doc[at + i] \in Nat
  <2>1. \A i \in 1 .. m : at + i \in 1 .. Len(doc)
    BY <1>1
  <2>2. QED
    BY <2>1
<1>4. s \in Seq(Nat) /\ Len(s) = m
  <2>. HIDE DEF m, s
  <2>1. QED
    BY <1>1, <1>2, <1>3
<1>5. m = IF at + len <= Len(doc) THEN len ELSE Most(Len(doc) - at, 0)
  BY DEF Least, Most
<1>6. Slice(doc, at, len) = s
  BY DEF Slice
<1>. HIDE DEF s, m
<1>7. QED
  BY <1>1, <1>2, <1>3, <1>4, <1>5, <1>6

\* The cursor of a range lies in it.
LEMMA CursorIs ==
  ASSUME NEW lo \in Nat, NEW hi \in Nat, NEW len \in Nat, NEW window \in Nat \ {0}
  PROVE  CursorOver(lo, hi, len, window) \in Cursors
BY DEF CursorOver, Cursors, Least, Most

\* A step of a cursor is a whole number of bytes that are left, and one at least.
LEMMA NextLenIs ==
  ASSUME NEW c \in Cursors, NEW budget \in Nat, NEW unit \in Nat \ {0}
  PROVE  /\ NextLen(c, budget, unit) \in Nat
         /\ NextLen(c, budget, unit) <= Remaining(c)
         /\ ~IsDone(c) => NextLen(c, budget, unit) >= 1
         /\ Remaining(c) \in Nat
<1>. DEFINE want == Least(Most(budget, 1), c.window)
<1>1. want \in Nat /\ Remaining(c) \in Nat /\ (~IsDone(c) => Remaining(c) >= 1)
  BY DEF Cursors, Least, Most, Remaining, IsDone
<1>2. want % unit \in Int
  <2>. HIDE DEF want
  <2>1. QED
    BY <1>1
<1>3. NextLen(c, budget, unit) = Least(Most(want - (want % unit), unit), Remaining(c))
  BY DEF NextLen
<1>. DEFINE rest == want % unit
<1>. HIDE DEF want
<1>4. rest \in Int
  BY <1>2
<1>. HIDE DEF rest
<1>5. Least(Most(want - rest, unit), Remaining(c)) \in Nat /\ Least(Most(want - rest, unit), Remaining(c)) <= Remaining(c)
        /\ (Remaining(c) >= 1 => Least(Most(want - rest, unit), Remaining(c)) >= 1)
  BY <1>1, <1>4 DEF Least, Most
<1>6. QED
  BY <1>1, <1>3, <1>5 DEF rest

\* A cursor that advances stays in its range (core/src/job.rs).
LEMMA AdvancedIs ==
  ASSUME NEW c \in Cursors, NEW n \in Nat
  PROVE  Advanced(c, n) \in Cursors
BY DEF Advanced, Cursors, Least

\* The records of a step leave the job its kind and its line length.
LEMMA RecordsFromKeeps ==
  ASSUME NEW j, {"kind", "cursor", "recLen"} \subseteq DOMAIN j, NEW addr, NEW data \in Seq(Nat)
  PROVE  LET job == RecordsFrom(j, addr, data).job
         IN  {"kind", "cursor", "recLen"} \subseteq DOMAIN job /\ job.kind = j.kind /\ job.recLen = j.recLen
<1>. DEFINE n == Len(data)
            first == [off |-> 0, out |-> <<>>, job |-> j]
            Turn(acc, i) ==
              LET at == addr + acc.off
                  take == NextTake(acc.job, at, Len(data) - acc.off)
              IN  IF acc.off = Len(data) THEN acc
                  ELSE [off |-> acc.off + take,
                        out |-> acc.out \o OneRecord(acc.job, at, Slice(data, acc.off, take)),
                        job |-> IF j.fmt = "Srec" THEN [acc.job EXCEPT !.dataRecords = @ + 1]
                                ELSE [acc.job EXCEPT !.linearBase = at \div Bank]]
            Turned(acc, i) == CHOOSE r \in {Turn(x, i) : x \in {acc}} : TRUE
            Body(g) == [i \in 0 .. n |-> IF i = 0 THEN first ELSE Turned(g[i - 1], i)]
            f == CHOOSE g : g = Body(g)
            Keeps(acc) == /\ {"kind", "cursor", "recLen"} \subseteq DOMAIN acc.job
                          /\ acc.job.kind = j.kind /\ acc.job.recLen = j.recLen
<1>1. RecordsFrom(j, addr, data) = f[n]
  BY DEF RecordsFrom, OverIndices, Repeat, With
<1>2. n \in Nat
  OBVIOUS
<1>3. \A acc, i : Turned(acc, i) = Turn(acc, i)
  <2>. HIDE DEF Turn
  <2>1. QED
    OBVIOUS
<1>4. \A acc, i : Keeps(acc) => Keeps(Turn(acc, i))
  OBVIOUS
<1>5. Keeps(first)
  OBVIOUS
<1>6. Keeps(RecordsFrom(j, addr, data)) <=> Keeps(f[n])
  BY <1>1
<1>7. SUFFICES Keeps(f[n])
  BY <1>6
<1>. HIDE DEF Turn, Turned, first, n, Keeps
<1>8. f = Body(f)
  <2>. DEFINE T == {m \in Nat : \E g : g = [i \in 0 .. m |-> IF i = 0 THEN first ELSE Turned(g[i - 1], i)]}
  <2>1. 0 \in T
    <3>1. [i \in 0 .. 0 |-> first] = [i \in 0 .. 0 |-> IF i = 0 THEN first ELSE Turned([k \in 0 .. 0 |-> first][i - 1], i)]
      OBVIOUS
    <3>2. QED
      BY <3>1
  <2>2. ASSUME NEW m \in Nat, m \in T PROVE m + 1 \in T
    <3>1. PICK g : g = [i \in 0 .. m |-> IF i = 0 THEN first ELSE Turned(g[i - 1], i)]
      BY <2>2
    <3>. DEFINE h == [i \in 0 .. (m + 1) |-> IF i <= m THEN g[i] ELSE Turned(g[m], m + 1)]
    <3>2. ASSUME NEW i \in 0 .. (m + 1) PROVE h[i] = IF i = 0 THEN first ELSE Turned(h[i - 1], i)
      <4>1. CASE i <= m
        <5>1. i \in 0 .. m /\ (i # 0 => i - 1 \in 0 .. (m + 1) /\ i - 1 <= m)
          BY <4>1
        <5>2. h[i] = g[i] /\ (i # 0 => h[i - 1] = g[i - 1])
          BY <4>1, <5>1
        <5>3. g[i] = IF i = 0 THEN first ELSE Turned(g[i - 1], i)
          BY <3>1, <5>1
        <5>. HIDE DEF h
        <5>4. QED
          BY <5>2, <5>3
      <4>2. CASE ~(i <= m)
        <5>1. i = m + 1 /\ i # 0 /\ i - 1 = m /\ m \in 0 .. (m + 1) /\ m <= m
          BY <4>2
        <5>2. h[i] = Turned(g[m], m + 1) /\ h[m] = g[m]
          BY <4>2, <5>1
        <5>. HIDE DEF h
        <5>3. QED
          BY <5>1, <5>2
      <4>3. QED
        BY <4>1, <4>2
    <3>3. h = [i \in 0 .. (m + 1) |-> IF i = 0 THEN first ELSE Turned(h[i - 1], i)]
      <4>1. h = [i \in 0 .. (m + 1) |-> h[i]]
        OBVIOUS
      <4>. HIDE DEF h
      <4>2. QED
        BY <3>2, <4>1
    <3>. HIDE DEF h
    <3>4. QED
      BY <3>3
  <2>3. n \in T
    <3>. HIDE DEF T
    <3>1. QED
      BY <1>2, <2>1, <2>2, SetInduction
  <2>4. QED
    BY <2>3
<1>. HIDE DEF f
<1>9. f[0] = first /\ \A i \in 1 .. n : f[i] = Turn(f[i - 1], i)
  <2>1. 0 \in 0 .. n /\ \A i \in 1 .. n : i \in 0 .. n /\ i # 0
    BY <1>2
  <2>2. QED
    BY <1>3, <1>8, <2>1
<1>10. \A i \in 0 .. n : i \in {k \in 0 .. n : Keeps(f[k])}
  <2>. DEFINE S == {k \in 0 .. n : Keeps(f[k])}
  <2>1. 0 \in S
    BY <1>2, <1>5, <1>9
  <2>2. ASSUME NEW k \in 1 .. n, k - 1 \in S PROVE k \in S
    BY <1>2, <1>4, <1>9, <2>2
  <2>. HIDE DEF S
  <2>3. \A k \in 0 .. n : k \in S
    BY <1>2, <2>1, <2>2, PrefixInduction
  <2>4. QED
    BY <2>3 DEF S
<1>11. QED
  BY <1>2, <1>10

\* The statistics after the bytes of a step.
Accounted(j, pos, data) == OverIndices(LAMBDA acc, i : Account(acc, pos + i - 1, data[i]), j, data)

\* The bytes of a step leave the statistics their kind and their cursor.
LEMMA AccountedKeeps ==
  ASSUME NEW j, {"kind", "cursor"} \subseteq DOMAIN j, NEW pos, NEW data \in Seq(Nat)
  PROVE  LET after == Accounted(j, pos, data)
         IN  {"kind", "cursor"} \subseteq DOMAIN after /\ after.kind = j.kind /\ after.cursor = j.cursor
<1>. DEFINE n == Len(data)
            first == j
            Turn(acc, i) == Account(acc, pos + i - 1, data[i])
            Turned(acc, i) == CHOOSE r \in {Turn(x, i) : x \in {acc}} : TRUE
            Body(g) == [i \in 0 .. n |-> IF i = 0 THEN first ELSE Turned(g[i - 1], i)]
            f == CHOOSE g : g = Body(g)
            Keeps(acc) == {"kind", "cursor"} \subseteq DOMAIN acc /\ acc.kind = j.kind /\ acc.cursor = j.cursor
<1>1. Accounted(j, pos, data) = f[n]
  BY DEF Accounted, OverIndices, Repeat, With
<1>2. n \in Nat
  OBVIOUS
<1>3. \A acc, i : Turned(acc, i) = Turn(acc, i)
  <2>. HIDE DEF Turn
  <2>1. QED
    OBVIOUS
<1>4. ASSUME NEW acc, NEW i, Keeps(acc) PROVE Keeps(Turn(acc, i))
  <2>. DEFINE byte == data[i]
              counted == IF byte = Unreadable THEN [acc EXCEPT !.unreadable = @ + 1]
                         ELSE [acc EXCEPT !.counts = @ (+) SetToBag({byte}), !.cur = @ (+) SetToBag({byte}),
                                          !.total = @ + 1]
              closed == [CloseBlock(counted) EXCEPT !.blockEnd = Least(@ + acc.blockSize, acc.cursor.end)]
  <2>1. Keeps(counted)
    BY <1>4
  <2>2. Turn(acc, i) \in {counted, [CloseBlock(counted) EXCEPT !.blockEnd = Least(@ + acc.blockSize, acc.cursor.end)]}
    BY DEF Account
  <2>. HIDE DEF counted
  <2>3. Keeps(CloseBlock(counted))
    BY <2>1 DEF CloseBlock
  <2>. DEFINE c == CloseBlock(counted)
  <2>. HIDE DEF c
  <2>4. Keeps([c EXCEPT !.blockEnd = Least(@ + acc.blockSize, acc.cursor.end)])
    BY <2>3 DEF c
  <2>. HIDE DEF Turn, Keeps
  <2>5. QED
    BY <2>1, <2>2, <2>4 DEF c
<1>5. Keeps(first)
  OBVIOUS
<1>6. SUFFICES Keeps(f[n])
  BY <1>1
<1>. HIDE DEF Turn, Turned, first, n, Keeps
<1>8. f = Body(f)
  <2>. DEFINE T == {m \in Nat : \E g : g = [i \in 0 .. m |-> IF i = 0 THEN first ELSE Turned(g[i - 1], i)]}
  <2>1. 0 \in T
    <3>1. [i \in 0 .. 0 |-> first] = [i \in 0 .. 0 |-> IF i = 0 THEN first ELSE Turned([k \in 0 .. 0 |-> first][i - 1], i)]
      OBVIOUS
    <3>2. QED
      BY <3>1
  <2>2. ASSUME NEW m \in Nat, m \in T PROVE m + 1 \in T
    <3>1. PICK g : g = [i \in 0 .. m |-> IF i = 0 THEN first ELSE Turned(g[i - 1], i)]
      BY <2>2
    <3>. DEFINE h == [i \in 0 .. (m + 1) |-> IF i <= m THEN g[i] ELSE Turned(g[m], m + 1)]
    <3>2. ASSUME NEW i \in 0 .. (m + 1) PROVE h[i] = IF i = 0 THEN first ELSE Turned(h[i - 1], i)
      <4>1. CASE i <= m
        <5>1. i \in 0 .. m /\ (i # 0 => i - 1 \in 0 .. (m + 1) /\ i - 1 <= m)
          BY <4>1
        <5>2. h[i] = g[i] /\ (i # 0 => h[i - 1] = g[i - 1])
          BY <4>1, <5>1
        <5>3. g[i] = IF i = 0 THEN first ELSE Turned(g[i - 1], i)
          BY <3>1, <5>1
        <5>. HIDE DEF h
        <5>4. QED
          BY <5>2, <5>3
      <4>2. CASE ~(i <= m)
        <5>1. i = m + 1 /\ i # 0 /\ i - 1 = m /\ m \in 0 .. (m + 1) /\ m <= m
          BY <4>2
        <5>2. h[i] = Turned(g[m], m + 1) /\ h[m] = g[m]
          BY <4>2, <5>1
        <5>. HIDE DEF h
        <5>3. QED
          BY <5>1, <5>2
      <4>3. QED
        BY <4>1, <4>2
    <3>3. h = [i \in 0 .. (m + 1) |-> IF i = 0 THEN first ELSE Turned(h[i - 1], i)]
      <4>1. h = [i \in 0 .. (m + 1) |-> h[i]]
        OBVIOUS
      <4>. HIDE DEF h
      <4>2. QED
        BY <3>2, <4>1
    <3>. HIDE DEF h
    <3>4. QED
      BY <3>3, SMTT(40)
  <2>3. n \in T
    <3>. HIDE DEF T
    <3>1. QED
      BY <1>2, <2>1, <2>2, SetInduction
  <2>4. QED
    BY <2>3
<1>. HIDE DEF f
<1>9. f[0] = first /\ \A i \in 1 .. n : f[i] = Turn(f[i - 1], i)
  <2>1. 0 \in 0 .. n /\ \A i \in 1 .. n : i \in 0 .. n /\ i # 0
    BY <1>2
  <2>2. QED
    BY <1>3, <1>8, <2>1
<1>10. \A i \in 0 .. n : i \in {k \in 0 .. n : Keeps(f[k])}
  <2>. DEFINE S == {k \in 0 .. n : Keeps(f[k])}
  <2>1. 0 \in S
    BY <1>2, <1>5, <1>9
  <2>2. ASSUME NEW k \in 1 .. n, k - 1 \in S PROVE k \in S
    BY <1>2, <1>4, <1>9, <2>2
  <2>. HIDE DEF S
  <2>3. \A k \in 0 .. n : k \in S
    BY <1>2, <2>1, <2>2, PrefixInduction
  <2>4. QED
    BY <2>3 DEF S
<1>11. QED
  BY <1>2, <1>10

\* A quotient, from a product that brackets it.
LEMMA QuotientIs ==
  ASSUME NEW a \in Nat, NEW m \in Nat \ {0}, NEW q \in Nat, NEW r \in Nat, a = q * m + r, r < m
  PROVE  a \div m = q
OBVIOUS

\* So many full parts, and the last one, are all the parts of a document.
LEMMA PartsAre ==
  ASSUME NEW len \in Nat, NEW size \in Nat \ {0}, NEW k \in Nat, NEW rest \in 1 .. size, len = k * size + rest
  PROVE  PartsOf(len, size) = k + 1
<1>. DEFINE x == k * size
<1>1. (k + 1) * size = x + size /\ x \in Nat
  OBVIOUS
<1>2. len + size - 1 = (k + 1) * size + (rest - 1) /\ rest - 1 \in Nat /\ rest - 1 < size /\ len + size - 1 \in Nat
  <2>. HIDE DEF x
  <2>1. len = x + rest
    BY DEF x
  <2>2. QED
    BY <1>1, <2>1
<1>3. (len + size - 1) \div size = k + 1
  BY <1>2, QuotientIs
<1>4. QED
  BY <1>3 DEF PartsOf

\* n is the length of the next piece of a split that has named k parts.
PieceOf(n, size, len, pos, filled, k, left) ==
  /\ size \in Nat \ {0} /\ len \in Nat \ {0} /\ pos \in Nat /\ filled \in Nat /\ k \in Nat /\ left \in Nat \ {0}
  /\ pos < len /\ k * size + filled = pos /\ filled < size
  /\ n = Least(Least(size - filled, left), len - pos)

\* How a piece moves a split on.
LEMMA PieceMoves ==
  ASSUME NEW n, NEW size, NEW len, NEW pos, NEW filled, NEW k, NEW left,
         PieceOf(n, size, len, pos, filled, k, left)
  PROVE  /\ n \in Nat \ {0} /\ n <= left
         /\ (filled + n = size \/ pos + n = len) =>
              IF pos + n < len THEN (k + 1) * size + 0 = pos + n /\ 0 < size
              ELSE pos + n = len /\ k + 1 = PartsOf(len, size)
         /\ ~(filled + n = size \/ pos + n = len) =>
              pos + n < len /\ k * size + (filled + n) = pos + n /\ filled + n < size
<1>. DEFINE x == k * size
<1>0. /\ size \in Nat \ {0} /\ len \in Nat \ {0} /\ pos \in Nat /\ filled \in Nat /\ k \in Nat /\ left \in Nat \ {0}
      /\ pos < len /\ filled < size /\ n = Least(Least(size - filled, left), len - pos)
  BY DEF PieceOf
<1>1. x \in Nat /\ x + filled = pos /\ (k + 1) * size = x + size
  BY DEF PieceOf
<1>. HIDE DEF x
<1>2. n \in Nat \ {0} /\ n <= left /\ filled + n <= size /\ pos + n <= len
  BY <1>0, <1>1 DEF Least
<1>3. pos + n = len => k + 1 = PartsOf(len, size)
  <2>1. SUFFICES ASSUME pos + n = len PROVE k + 1 = PartsOf(len, size)
    OBVIOUS
  <2>2. filled + n \in 1 .. size /\ len = k * size + (filled + n)
    BY <1>0, <1>1, <1>2, <2>1 DEF x
  <2>3. QED
    BY <1>0, <2>2, PartsAre
<1>4. QED
  BY <1>0, <1>1, <1>2, <1>3 DEF x

\* What the loop over the pieces of a split carries along.
SplitLoop(acc, j) ==
  /\ acc \in [ok : BOOLEAN, left : Nat, out : Seq(Seq(Nat)), job : SplitJobs]
  /\ SplitJob(acc.job) /\ acc.job.written = j.written + Len(acc.out)

\* A piece goes to the part under construction, and the part that is full gets
\* its name.
LEMMA SplitPieceKeeps ==
  ASSUME NEW doc \in Seq(Nat), NEW ioFails, NEW j, j.written \in Nat,
         NEW acc, SplitLoop(acc, j), acc.left # 0, acc.job.pos < acc.job.docLen
  PROVE  SplitLoop(SplitPiece(acc, doc, ioFails), j)
<1>. DEFINE b == acc.job
            n == Least(Least(b.partSize - b.filled, acc.left), b.docLen - b.pos)
            data == Slice(doc, b.pos, n)
            current == b.current \o data
            full == b.filled + n = b.partSize \/ b.pos + n = b.docLen
            named == [b EXCEPT !.pos = b.pos + n, !.open = FALSE, !.current = <<>>, !.filled = 0, !.written = @ + 1]
            growing == [b EXCEPT !.pos = b.pos + n, !.open = TRUE, !.current = current, !.filled = @ + n]
            failed == [acc EXCEPT !.ok = FALSE, !.left = 0]
            after == [ok |-> TRUE, left |-> acc.left - n,
                      out |-> IF full THEN Append(acc.out, current) ELSE acc.out,
                      job |-> IF full THEN named ELSE growing]
<1>1. SplitPiece(acc, doc, ioFails) = IF ~IsClean(data) \/ ioFails THEN failed ELSE after
  BY DEF SplitPiece
<1>2. SplitLoop(failed, j)
  <2>1. acc \in [ok : BOOLEAN, left : Nat, out : Seq(Seq(Nat)), job : SplitJobs]
    BY DEF SplitLoop
  <2>2. /\ failed \in [ok : BOOLEAN, left : Nat, out : Seq(Seq(Nat)), job : SplitJobs]
        /\ failed.job = acc.job /\ failed.out = acc.out
    BY <2>1
  <2>. HIDE DEF failed
  <2>3. QED
    BY <2>2 DEF SplitLoop
<1>3. /\ b \in SplitJobs /\ SplitJob(b) /\ acc.left \in Nat \ {0} /\ acc.out \in Seq(Seq(Nat))
      /\ b.written = j.written + Len(acc.out) /\ b.pos < b.docLen
  BY DEF SplitLoop
<1>. DEFINE out == acc.out
            left == acc.left
<1>4. out \in Seq(Seq(Nat)) /\ left \in Nat \ {0} /\ b.written = j.written + Len(out)
  BY <1>3
<1>5. n = Least(Least(b.partSize - b.filled, left), b.docLen - b.pos)
  OBVIOUS
<1>6. after = [ok |-> TRUE, left |-> left - n, out |-> IF full THEN Append(out, current) ELSE out,
               job |-> IF full THEN named ELSE growing]
  OBVIOUS
<1>. HIDE DEF b, out, left, n, after, failed
<1>7. /\ b.partSize \in Nat \ {0} /\ b.docLen \in Nat \ {0} /\ b.pos \in Nat /\ b.filled \in Nat
      /\ b.written \in Nat /\ b.current \in Seq(Nat)
  BY <1>3 DEF SplitJobs
<1>8. b.written * b.partSize + b.filled = b.pos /\ b.filled < b.partSize
  BY <1>3 DEF SplitJob, SplitPlace
<1>9. /\ n \in Nat \ {0} /\ n <= left
      /\ full => IF b.pos + n < b.docLen THEN (b.written + 1) * b.partSize + 0 = b.pos + n /\ 0 < b.partSize
                  ELSE b.pos + n = b.docLen /\ b.written + 1 = PartsOf(b.docLen, b.partSize)
      /\ ~full => /\ b.pos + n < b.docLen /\ b.written * b.partSize + (b.filled + n) = b.pos + n
                  /\ b.filled + n < b.partSize
  <2>. DEFINE size == b.partSize
              len == b.docLen
              pos == b.pos
              filled == b.filled
              k == b.written
  <2>1. PieceOf(n, size, len, pos, filled, k, left)
    BY <1>3, <1>4, <1>5, <1>7, <1>8 DEF PieceOf
  <2>3. full <=> (filled + n = size \/ pos + n = len)
    OBVIOUS
  <2>. HIDE DEF size, len, pos, filled, k, full
  <2>4. /\ n \in Nat \ {0} /\ n <= left
        /\ (filled + n = size \/ pos + n = len) =>
             IF pos + n < len THEN (k + 1) * size + 0 = pos + n /\ 0 < size
             ELSE pos + n = len /\ k + 1 = PartsOf(len, size)
        /\ ~(filled + n = size \/ pos + n = len) =>
             pos + n < len /\ k * size + (filled + n) = pos + n /\ filled + n < size
    BY ONLY <2>1, PieceMoves
  <2>5. QED
    BY <2>3, <2>4 DEF size, len, pos, filled, k
<1>. HIDE DEF full
<1>10. current \in Seq(Nat)
  <2>1. data \in Seq(Nat)
    BY <1>7, <1>9, SliceIs
  <2>. HIDE DEF data
  <2>2. QED
    BY <1>7, <2>1
<1>. HIDE DEF current, data
<1>11. b.pos + n \in Nat /\ b.filled + n \in Nat /\ left - n \in Nat
  BY <1>4, <1>7, <1>9, SMTT(40)
<1>. DEFINE p == b.pos + n
            q == b.filled + n
<1>12. named = [b EXCEPT !.pos = p, !.open = FALSE, !.current = <<>>, !.filled = 0, !.written = @ + 1]
         /\ growing = [b EXCEPT !.pos = p, !.open = TRUE, !.current = current, !.filled = q]
  OBVIOUS
<1>. HIDE DEF p, q, named, growing
<1>13. /\ named \in SplitJobs /\ named.pos = p /\ named.docLen = b.docLen /\ named.partSize = b.partSize
       /\ named.written = b.written + 1 /\ named.filled = 0
  <2>1. <<>> \in Seq(Nat) /\ b.written + 1 \in Nat /\ p \in Nat /\ FALSE \in BOOLEAN
    BY <1>7, <1>11 DEF p
  <2>. DEFINE nothing == <<>>
              no == FALSE
              more == b.written + 1
  <2>2. nothing \in Seq(Nat) /\ no \in BOOLEAN /\ more \in Nat
    BY <2>1
  <2>3. named = [b EXCEPT !.pos = p, !.open = no, !.current = nothing, !.filled = 0, !.written = more]
    BY <1>12
  <2>4. more = b.written + 1
    OBVIOUS
  <2>. HIDE DEF nothing, no, more
  <2>5. QED
    BY <1>3, <2>1, <2>2, <2>3, <2>4 DEF SplitJobs
<1>14. /\ growing \in SplitJobs /\ growing.pos = p /\ growing.docLen = b.docLen /\ growing.partSize = b.partSize
       /\ growing.written = b.written /\ growing.filled = q
  BY <1>3, <1>7, <1>10, <1>11, <1>12 DEF SplitJobs, p, q
<1>15. PartsOf(b.docLen, b.partSize) <= MAX_PARTS
  BY <1>3 DEF SplitJob
<1>16. full => SplitJob(named)
  <2>1. full => IF named.pos < named.docLen
                THEN named.written * named.partSize + named.filled = named.pos /\ named.filled < named.partSize
                ELSE named.pos = named.docLen /\ named.written = PartsOf(named.docLen, named.partSize)
    BY <1>9, <1>13 DEF p
  <2>2. QED
    BY <1>13, <1>15, <2>1 DEF SplitJob, SplitPlace
<1>17. ~full => SplitJob(growing)
  <2>1. ~full => /\ growing.pos < growing.docLen
                 /\ growing.written * growing.partSize + growing.filled = growing.pos
                 /\ growing.filled < growing.partSize
    BY <1>9, <1>14 DEF p, q
  <2>2. QED
    BY <1>14, <1>15, <2>1 DEF SplitJob, SplitPlace
<1>18. /\ Append(out, current) \in Seq(Seq(Nat)) /\ Len(Append(out, current)) = Len(out) + 1
       /\ Len(out) \in Nat
  BY <1>4, <1>10
<1>19. SplitLoop(after, j)
  <2>1. CASE full
    <3>1. after = [ok |-> TRUE, left |-> left - n, out |-> Append(out, current), job |-> named]
      BY <1>6, <2>1
    <3>2. SplitJob(named) /\ named.written = j.written + Len(Append(out, current))
      <4>. DEFINE longer == Append(out, current)
      <4>1. Len(longer) = Len(out) + 1
        BY <1>18
      <4>. HIDE DEF longer
      <4>2. named.written = j.written + Len(longer)
        <5>. DEFINE k == Len(out)
                    w == j.written
        <5>1. w \in Nat /\ k \in Nat /\ Len(longer) = k + 1 /\ named.written = (w + k) + 1
          BY <1>4, <1>13, <1>18, <4>1
        <5>. HIDE DEF k, w
        <5>2. named.written = w + (k + 1)
          BY <5>1
        <5>3. QED
          BY <5>1, <5>2 DEF w
      <4>3. QED
        BY <1>16, <2>1, <4>2 DEF longer
    <3>3. QED
      BY <1>11, <1>13, <1>18, <3>1, <3>2 DEF SplitLoop
  <2>2. CASE ~full
    <3>1. after = [ok |-> TRUE, left |-> left - n, out |-> out, job |-> growing]
      BY <1>6, <2>2
    <3>2. SplitJob(growing) /\ growing.written = j.written + Len(out)
      BY <1>4, <1>14, <1>17, <2>2
    <3>3. QED
      BY <1>4, <1>11, <1>14, <3>1, <3>2 DEF SplitLoop
  <2>3. QED
    BY <2>1, <2>2
<1>20. QED
  BY <1>1, <1>2, <1>19

\* A sequence that is one and then another is their concatenation.
LEMMA AppendedIs ==
  ASSUME NEW s \in Seq(Nat), NEW t \in Seq(Nat), NEW u \in Seq(Nat), Len(u) = Len(s) + Len(t),
         \A i \in 1 .. Len(s) : u[i] = s[i], \A i \in 1 .. Len(t) : u[Len(s) + i] = t[i]
  PROVE  s \o t = u
<1>1. s \o t \in Seq(Nat) /\ Len(s \o t) = Len(u)
  OBVIOUS
<1>2. ASSUME NEW i \in 1 .. Len(u) PROVE (s \o t)[i] = u[i]
  <2>1. CASE i <= Len(s)
    BY <2>1
  <2>2. CASE i > Len(s)
    <3>1. i - Len(s) \in 1 .. Len(t) /\ Len(s) + (i - Len(s)) = i
      BY <2>2
    <3>2. (s \o t)[i] = t[i - Len(s)]
      BY <2>2
    <3>3. QED
      BY <3>1, <3>2
  <2>3. QED
    BY <2>1, <2>2
<1>3. QED
  BY <1>1, <1>2

\* Two ranges of a document that meet are one range.
LEMMA SlicesMeet ==
  ASSUME NEW doc \in Seq(Nat), NEW at \in Nat, NEW m \in Nat, NEW n \in Nat, at + m + n <= Len(doc)
  PROVE  Slice(doc, at, m) \o Slice(doc, at + m, n) = Slice(doc, at, m + n)
<1>. DEFINE s == Slice(doc, at, m)
            t == Slice(doc, at + m, n)
            u == Slice(doc, at, m + n)
<1>1. at + m \in Nat /\ m + n \in Nat /\ at + m <= Len(doc) /\ at + (m + n) <= Len(doc) /\ (at + m) + n <= Len(doc)
  OBVIOUS
<1>2. s \in Seq(Nat) /\ Len(s) = m /\ \A i \in 1 .. m : s[i] = doc[at + i]
  BY <1>1, SliceIs
<1>3. t \in Seq(Nat) /\ Len(t) = n /\ \A i \in 1 .. n : t[i] = doc[(at + m) + i]
  BY <1>1, SliceIs
<1>4. u \in Seq(Nat) /\ Len(u) = m + n /\ \A i \in 1 .. m + n : u[i] = doc[at + i]
  BY <1>1, SliceIs
<1>. HIDE DEF s, t, u
<1>5. \A i \in 1 .. m : u[i] = s[i]
  <2>1. \A i \in 1 .. m : i \in 1 .. m + n
    OBVIOUS
  <2>2. QED
    BY <1>2, <1>4, <2>1, Zenon
<1>6. ASSUME NEW i \in 1 .. n PROVE u[m + i] = t[i]
  <2>1. m + i \in 1 .. m + n /\ at + (m + i) = (at + m) + i
    OBVIOUS
  <2>2. u[m + i] = doc[at + (m + i)]
    BY <1>4, <2>1, Zenon
  <2>3. QED
    BY <1>3, <2>1, <2>2, Zenon
<1>7. s \o t = u
  BY ONLY <1>2, <1>3, <1>4, <1>5, <1>6, m \in Nat, n \in Nat, AppendedIs
<1>8. QED
  BY <1>7 DEF s, t, u

\* The part under construction is the bytes of doc from its start on.
Filled(j, doc) == j.docLen = Len(doc) /\ j.current = Slice(doc, j.written * j.partSize, j.filled)
PartOf(doc, k, size) == Slice(doc, (k - 1) * size, size)

\* So it is in got, and the parts named since j are the next ones of doc.
SplitTells(got, j, doc) ==
  /\ Filled(got.job, doc) /\ got.job.partSize = j.partSize
  /\ \A k \in 1 .. Len(got.out) : got.out[k] = PartOf(doc, j.written + k, j.partSize)

\* A piece continues the part under construction where it ended, and a part that
\* gets its name has all of its bytes.
LEMMA SplitPieceTells ==
  ASSUME NEW doc \in Seq(Nat), NEW ioFails, NEW j, j.written \in Nat,
         NEW acc, SplitLoop(acc, j), acc.left # 0, acc.job.pos < acc.job.docLen, SplitTells(acc, j, doc)
  PROVE  SplitTells(SplitPiece(acc, doc, ioFails), j, doc)
<1>. DEFINE b == acc.job
            n == Least(Least(b.partSize - b.filled, acc.left), b.docLen - b.pos)
            data == Slice(doc, b.pos, n)
            current == b.current \o data
            full == b.filled + n = b.partSize \/ b.pos + n = b.docLen
            named == [b EXCEPT !.pos = b.pos + n, !.open = FALSE, !.current = <<>>, !.filled = 0, !.written = @ + 1]
            growing == [b EXCEPT !.pos = b.pos + n, !.open = TRUE, !.current = current, !.filled = @ + n]
            failed == [acc EXCEPT !.ok = FALSE, !.left = 0]
            after == [ok |-> TRUE, left |-> acc.left - n,
                      out |-> IF full THEN Append(acc.out, current) ELSE acc.out,
                      job |-> IF full THEN named ELSE growing]
<1>1. SplitPiece(acc, doc, ioFails) = IF ~IsClean(data) \/ ioFails THEN failed ELSE after
  BY DEF SplitPiece
<1>2. /\ acc \in [ok : BOOLEAN, left : Nat, out : Seq(Seq(Nat)), job : SplitJobs] /\ SplitPlace(b)
      /\ b.written = j.written + Len(acc.out)
  BY DEF SplitLoop, SplitJob
<1>3. SplitTells(failed, j, doc)
  <2>1. failed.job = acc.job /\ failed.out = acc.out
    BY <1>2
  <2>. HIDE DEF failed
  <2>2. QED
    BY <2>1 DEF SplitTells
<1>. DEFINE size == b.partSize
            w == b.written
            x == w * size
            f == b.filled
            out == acc.out
            left == acc.left
            pos == b.pos
            len == b.docLen
<1>4. /\ size \in Nat \ {0} /\ w \in Nat /\ f \in Nat /\ out \in Seq(Seq(Nat)) /\ left \in Nat \ {0} /\ pos \in Nat
      /\ len \in Nat /\ pos < len /\ x + f = pos /\ f < size /\ w = j.written + Len(out) /\ b \in SplitJobs
  BY <1>2 DEF SplitPlace, SplitJobs
<1>5. /\ len = Len(doc) /\ b.current = Slice(doc, x, f) /\ j.partSize = size
      /\ \A k \in 1 .. Len(out) : out[k] = PartOf(doc, j.written + k, size)
  BY DEF SplitTells, Filled
<1>6. x \in Nat /\ n \in Nat /\ f + n <= size /\ pos + n <= len /\ x + f + n <= len
  <2>1. x \in Nat
    BY <1>4
  <2>2. n = Least(Least(size - f, left), len - pos)
    OBVIOUS
  <2>. HIDE DEF x, f, size, pos, len, left, n
  <2>3. QED
    BY <1>4, <2>1, <2>2 DEF Least
<1>7. current = Slice(doc, x, f + n)
  <2>1. data = Slice(doc, x + f, n) /\ b.current = Slice(doc, x, f)
    BY <1>4, <1>5
  <2>2. x \in Nat /\ f \in Nat /\ n \in Nat /\ x + f + n <= Len(doc)
    BY <1>4, <1>5, <1>6
  <2>. DEFINE c == b.current
  <2>3. current = c \o data /\ c = Slice(doc, x, f)
    BY <2>1
  <2>. HIDE DEF x, f, n, data, current, c
  <2>4. Slice(doc, x, f) \o Slice(doc, x + f, n) = Slice(doc, x, f + n)
    BY ONLY <2>2, doc \in Seq(Nat), SlicesMeet
  <2>5. QED
    BY <2>1, <2>3, <2>4
<1>8. /\ full => /\ named.docLen = len /\ named.current = <<>> /\ named.filled = 0 /\ named.written = w + 1
                 /\ named.partSize = size
      /\ growing.docLen = len /\ growing.current = current /\ growing.filled = f + n /\ growing.written = w
      /\ growing.partSize = size
  <2>. DEFINE p == b.pos + n
              q == b.filled + n
              v == w + 1
  <2>1. named = [b EXCEPT !.pos = p, !.open = FALSE, !.current = <<>>, !.filled = 0, !.written = v]
          /\ growing = [b EXCEPT !.pos = p, !.open = TRUE, !.current = current, !.filled = q]
    OBVIOUS
  <2>2. /\ b = [kind |-> b.kind, partSize |-> b.partSize, docLen |-> b.docLen, pos |-> b.pos, open |-> b.open,
                current |-> b.current, filled |-> b.filled, written |-> b.written]
    BY <1>4 DEF SplitJobs
  <2>. HIDE DEF p, q, v, current, named, growing, b
  <2>3. QED
    BY <2>1, <2>2 DEF v, q
<1>. HIDE DEF b, named, growing, failed, data, current
<1>9. ~full => SplitTells(after, j, doc)
  <2>1. SUFFICES ASSUME ~full PROVE SplitTells(after, j, doc)
    OBVIOUS
  <2>2. after.out = out /\ after.job = growing
    BY <2>1
  <2>. HIDE DEF after, full
  <2>3. Filled(growing, doc)
    BY <1>5, <1>7, <1>8 DEF Filled
  <2>4. QED
    BY <1>5, <1>8, <2>2, <2>3 DEF SplitTells
<1>10. full => SplitTells(after, j, doc)
  <2>1. SUFFICES ASSUME full PROVE SplitTells(after, j, doc)
    OBVIOUS
  <2>2. after.out = Append(out, current) /\ after.job = named
    BY <2>1
  <2>3. f + n = size \/ x + f + n = len
    BY <1>4, <2>1
  <2>4. current = Slice(doc, x, size)
    <3>1. CASE f + n = size
      BY <1>7, <3>1
    <3>2. CASE x + f + n = len
      <4>1. Least(x + size, Len(doc)) = Len(doc) /\ Least(x + (f + n), Len(doc)) = Len(doc)
        <5>. HIDE DEF x, f, size, n, len
        <5>1. QED
          BY <1>4, <1>5, <1>6, <3>2 DEF Least
      <4>. HIDE DEF x, f, size, n, len
      <4>2. QED
        BY <1>7, <4>1 DEF Slice
    <3>3. QED
      BY <2>3, <3>1, <3>2
  <2>5. Filled(named, doc)
    <3>1. (w + 1) * size \in Nat
      BY <1>4
    <3>. DEFINE y == (w + 1) * size
                e == Slice(doc, y, 0)
    <3>2. e \in Seq(Nat) /\ Len(e) <= 0
      <4>. HIDE DEF y
      <4>1. y \in Nat /\ 0 \in Nat
        BY <3>1 DEF y
      <4>2. QED
        BY <4>1, SliceIs
    <3>. HIDE DEF e
    <3>3. e = <<>>
      BY <3>2
    <3>. HIDE DEF w, size, len, full
    <3>4. named.docLen = Len(doc) /\ named.current = Slice(doc, named.written * named.partSize, named.filled)
      BY <1>5, <1>8, <2>1, <3>3 DEF e, y
    <3>5. QED
      BY <3>4 DEF Filled
  <2>6. ASSUME NEW k \in 1 .. Len(Append(out, current)) PROVE Append(out, current)[k] = PartOf(doc, j.written + k, size)
    <3>. DEFINE m == Len(out)
    <3>1. m \in Nat /\ Len(Append(out, current)) = m + 1
      BY <1>4
    <3>2. CASE k \in 1 .. m
      <4>1. Append(out, current)[k] = out[k]
        BY <1>4, <3>2
      <4>2. QED
        BY <1>5, <3>2, <4>1
    <3>3. CASE k \notin 1 .. m
      <4>1. k = m + 1
        <5>. HIDE DEF m
        <5>1. QED
          BY <3>1, <3>3
      <4>2. Append(out, current)[k] = current
        BY <1>4, <4>1
      <4>3. (j.written + k) - 1 = w
        <5>. DEFINE jw == j.written
        <5>1. w = jw + m /\ jw \in Nat /\ m \in Nat
          BY <1>4
        <5>. HIDE DEF m, w, jw
        <5>2. (jw + k) - 1 = w
          BY <4>1, <5>1
        <5>3. QED
          BY <5>2 DEF jw
      <4>. HIDE DEF m, w
      <4>4. QED
        BY <2>4, <4>2, <4>3 DEF PartOf
    <3>4. QED
      BY <3>2, <3>3
  <2>. HIDE DEF after, full, out, size
  <2>7. QED
    BY <1>5, <1>8, <2>1, <2>2, <2>5, <2>6 DEF SplitTells
<1>. HIDE DEF after, full
<1>11. QED
  BY <1>1, <1>3, <1>9, <1>10

\* A step of a split names the parts that it counts, each with its bytes, and
\* ends with the last one.
LEMMA SplitStepKeeps ==
  ASSUME NEW doc \in Seq(Nat), NEW budget \in Nat, NEW failAt, NEW j, SplitJob(j)
  PROVE  LET st == SplitStep(j, doc, budget, failAt)
         IN  /\ SplitJob(st.job) /\ st.job.written >= j.written
             /\ st.kind = "Went" => /\ st.out \in Seq(Seq(Nat)) /\ st.job.written = j.written + Len(st.out)
                                    /\ st.scanned \in Int
                                    /\ st.finished => SplitFinished(st.job)
                                    /\ Filled(j, doc) => SplitTells(st, j, doc)
<1>. DEFINE n == Least(Most(budget, 1), WINDOW)
            first == [ok |-> TRUE, left |-> n, out |-> <<>>, job |-> j]
            Turn(acc, i) ==
              IF acc.left = 0 \/ acc.job.pos >= acc.job.docLen THEN acc ELSE SplitPiece(acc, doc, i = failAt)
            Turned(acc, i) == CHOOSE r \in {Turn(x, i) : x \in {acc}} : TRUE
            Body(g) == [i \in 0 .. n |-> IF i = 0 THEN first ELSE Turned(g[i - 1], i)]
            f == CHOOSE g : g = Body(g)
            Keeps(acc) == SplitLoop(acc, j) /\ (Filled(j, doc) => SplitTells(acc, j, doc))
            last == f[n]
            st == SplitStep(j, doc, budget, failAt)
<1>1. st = IF SplitFinished(j) THEN Done(j)
           ELSE IF last.ok THEN Went(last.job, last.out, last.job.pos - j.pos, SplitFinished(last.job))
           ELSE Failed(last.job)
  <2>. DEFINE Op(acc) == IF acc.ok THEN Went(acc.job, acc.out, acc.job.pos - j.pos, SplitFinished(acc.job))
                         ELSE Failed(acc.job)
  <2>1. st = IF SplitFinished(j) THEN Done(j) ELSE CHOOSE r \in {Op(v) : v \in {last}} : TRUE
    BY DEF SplitStep, Repeat, With
  <2>. HIDE DEF Op, last, st
  <2>2. (CHOOSE r \in {Op(v) : v \in {last}} : TRUE) = Op(last)
    OBVIOUS
  <2>3. QED
    BY <2>1, <2>2 DEF Op
<1>2. n \in Nat
  BY WindowAssumption DEF Least, Most
<1>3. \A acc, i : Turned(acc, i) = Turn(acc, i)
  <2>. HIDE DEF Turn
  <2>1. QED
    OBVIOUS
<1>0. j \in SplitJobs /\ j.written \in Nat /\ j.pos \in Nat
  BY DEF SplitJob, SplitJobs
<1>4. ASSUME NEW acc, NEW i, Keeps(acc) PROVE Keeps(Turn(acc, i))
  <2>1. CASE acc.left = 0 \/ acc.job.pos >= acc.job.docLen
    BY <1>4, <2>1
  <2>2. CASE ~(acc.left = 0 \/ acc.job.pos >= acc.job.docLen)
    <3>1. acc.left # 0 /\ acc.job.pos < acc.job.docLen
      BY <1>4, <2>2, SMTT(40) DEF SplitLoop, SplitJob, SplitJobs
    <3>2. SplitLoop(SplitPiece(acc, doc, i = failAt), j)
      BY <1>0, <1>4, <3>1, SplitPieceKeeps
    <3>3. Filled(j, doc) => SplitTells(SplitPiece(acc, doc, i = failAt), j, doc)
      BY <1>0, <1>4, <3>1, SplitPieceTells
    <3>4. QED
      BY <2>2, <3>2, <3>3
  <2>3. QED
    BY <2>1, <2>2
<1>5. Keeps(first)
  <2>1. <<>> \in Seq(Seq(Nat)) /\ Len(<<>>) = 0
    OBVIOUS
  <2>2. first.out = <<>> /\ first.job = j
    OBVIOUS
  <2>3. SplitLoop(first, j)
    BY <1>0, <1>2, <2>1 DEF SplitLoop
  <2>. HIDE DEF first
  <2>4. Filled(j, doc) => SplitTells(first, j, doc)
    BY <2>1, <2>2 DEF SplitTells
  <2>5. QED
    BY <2>3, <2>4
<1>6. SUFFICES Keeps(f[n])
  <2>0. Filled(j, doc) => SplitTells(last, j, doc)
    BY <1>6, Zenon
  <2>1. last \in [ok : BOOLEAN, left : Nat, out : Seq(Seq(Nat)), job : SplitJobs] /\ SplitJob(last.job) /\ last.out \in Seq(Seq(Nat)) /\ last.job.written = j.written + Len(last.out)
    BY <1>6, Zenon DEF SplitLoop
  <2>. HIDE DEF last
  <2>2. last.job.pos \in Nat /\ last.job.written >= j.written
    <3>. DEFINE g == last.job
                k == Len(last.out)
    <3>1. g \in SplitJobs /\ g.written = j.written + k /\ k \in Nat
      BY <2>1 DEF SplitJob
    <3>. HIDE DEF g, k
    <3>2. g.pos \in Nat
      BY <3>1 DEF SplitJobs
    <3>3. g.written >= j.written
      BY <1>0, <3>1
    <3>4. QED
      BY <3>2, <3>3 DEF g
  <2>3. CASE SplitFinished(j)
    <3>1. st.job = j /\ st.out = <<>> /\ st.scanned = 0
      BY <1>1, <2>3 DEF Done, Went
    <3>. HIDE DEF st
    <3>2. Len(st.out) = 0
      BY <3>1
    <3>3. Filled(j, doc) => SplitTells(st, j, doc)
      <4>1. \A k \in 1 .. Len(st.out) : FALSE
        BY <3>2
      <4>. HIDE DEF SplitTells
      <4>2. QED
        BY <3>1, <4>1, Zenon DEF SplitTells
    <3>4. QED
      BY <1>0, <2>3, <3>1, <3>3 DEF st
  <2>4. CASE ~SplitFinished(j) /\ last.ok
    <3>1. st.job = last.job /\ st.out = last.out /\ st.scanned = last.job.pos - j.pos
          /\ st.finished = SplitFinished(last.job)
      BY <1>1, <2>4 DEF Went
    <3>. HIDE DEF st
    <3>2. Filled(j, doc) => SplitTells(st, j, doc)
      BY <2>0, <3>1 DEF SplitTells
    <3>3. QED
      BY <1>0, <2>1, <2>2, <3>1, <3>2 DEF st
  <2>5. CASE ~SplitFinished(j) /\ ~last.ok
    <3>1. st.job = last.job /\ st.kind = "Failed"
      BY <1>1, <2>5 DEF Failed
    <3>. HIDE DEF st
    <3>2. QED
      BY <1>0, <2>1, <2>2, <3>1 DEF st
  <2>6. QED
    BY <2>3, <2>4, <2>5
<1>. HIDE DEF Turn, Turned, first, n, Keeps
<1>8. f = Body(f)
  <2>. DEFINE T == {m \in Nat : \E g : g = [i \in 0 .. m |-> IF i = 0 THEN first ELSE Turned(g[i - 1], i)]}
  <2>1. 0 \in T
    <3>1. [i \in 0 .. 0 |-> first] = [i \in 0 .. 0 |-> IF i = 0 THEN first ELSE Turned([k \in 0 .. 0 |-> first][i - 1], i)]
      OBVIOUS
    <3>2. QED
      BY <3>1
  <2>2. ASSUME NEW m \in Nat, m \in T PROVE m + 1 \in T
    <3>1. PICK g : g = [i \in 0 .. m |-> IF i = 0 THEN first ELSE Turned(g[i - 1], i)]
      BY <2>2
    <3>. DEFINE h == [i \in 0 .. (m + 1) |-> IF i <= m THEN g[i] ELSE Turned(g[m], m + 1)]
    <3>2. ASSUME NEW i \in 0 .. (m + 1) PROVE h[i] = IF i = 0 THEN first ELSE Turned(h[i - 1], i)
      <4>1. CASE i <= m
        <5>1. i \in 0 .. m /\ (i # 0 => i - 1 \in 0 .. (m + 1) /\ i - 1 <= m)
          BY <4>1
        <5>2. h[i] = g[i] /\ (i # 0 => h[i - 1] = g[i - 1])
          BY <4>1, <5>1
        <5>3. g[i] = IF i = 0 THEN first ELSE Turned(g[i - 1], i)
          BY <3>1, <5>1
        <5>. HIDE DEF h
        <5>4. QED
          BY <5>2, <5>3
      <4>2. CASE ~(i <= m)
        <5>1. i = m + 1 /\ i # 0 /\ i - 1 = m /\ m \in 0 .. (m + 1) /\ m <= m
          BY <4>2
        <5>2. h[i] = Turned(g[m], m + 1) /\ h[m] = g[m]
          BY <4>2, <5>1
        <5>. HIDE DEF h
        <5>3. QED
          BY <5>1, <5>2
      <4>3. QED
        BY <4>1, <4>2
    <3>3. h = [i \in 0 .. (m + 1) |-> IF i = 0 THEN first ELSE Turned(h[i - 1], i)]
      <4>1. h = [i \in 0 .. (m + 1) |-> h[i]]
        OBVIOUS
      <4>. HIDE DEF h
      <4>2. QED
        BY <3>2, <4>1
    <3>. HIDE DEF h
    <3>4. QED
      BY <3>3
  <2>3. n \in T
    <3>. HIDE DEF T
    <3>1. QED
      BY <1>2, <2>1, <2>2, SetInduction
  <2>4. QED
    BY <2>3
<1>. HIDE DEF f
<1>9. f[0] = first /\ \A i \in 1 .. n : f[i] = Turn(f[i - 1], i)
  <2>1. 0 \in 0 .. n /\ \A i \in 1 .. n : i \in 0 .. n /\ i # 0
    BY <1>2
  <2>2. QED
    BY <1>3, <1>8, <2>1
<1>10. \A i \in 0 .. n : i \in {k \in 0 .. n : Keeps(f[k])}
  <2>. DEFINE S == {k \in 0 .. n : Keeps(f[k])}
  <2>1. 0 \in S
    BY <1>2, <1>5, <1>9
  <2>2. ASSUME NEW k \in 1 .. n, k - 1 \in S PROVE k \in S
    BY <1>2, <1>4, <1>9, <2>2
  <2>. HIDE DEF S
  <2>3. \A k \in 0 .. n : k \in S
    BY <1>2, <2>1, <2>2, PrefixInduction
  <2>4. QED
    BY <2>3 DEF S
<1>11. QED
  BY <1>2, <1>10

\* What the loop over the inputs of a join carries along.
JoinLoop(acc, paths) ==
  /\ acc \in [left : Nat,
              job : [kind : {"Concat"}, inputs : Seq(paths \ {"out"}), index : Nat \ {0}, pos : Nat, written : Seq(Nat)]]
  /\ acc.job.index <= Len(acc.job.inputs) + 1

\* One read of a join keeps its place among the files (core/src/transform.rs).
LEMMA JoinReadKeeps ==
  ASSUME NEW paths, NEW data, \A f \in paths \ {"out"} : data[f] \in Seq(Nat), NEW acc, JoinLoop(acc, paths)
  PROVE  JoinLoop(JoinRead(acc, data), paths)
<1>. DEFINE Jobs == [kind : {"Concat"}, inputs : Seq(paths \ {"out"}), index : Nat \ {0}, pos : Nat, written : Seq(Nat)]
            j == acc.job
            left == acc.left
            read == Slice(data[j.inputs[j.index]], j.pos, left)
            next == [acc EXCEPT !.job.index = @ + 1, !.job.pos = 0]
            grown == [job |-> [j EXCEPT !.pos = @ + Len(read), !.written = @ \o read], left |-> left - Len(read)]
<1>1. JoinRead(acc, data) = IF left = 0 \/ JoinFinished(j) THEN acc ELSE IF read = <<>> THEN next ELSE grown
  BY DEF JoinRead
<1>2. acc \in [left : Nat, job : Jobs] /\ j \in Jobs /\ left \in Nat /\ j.index <= Len(j.inputs) + 1
  BY DEF JoinLoop
<1>3. JoinLoop(acc, paths)
  OBVIOUS
<1>4. ASSUME ~(left = 0 \/ JoinFinished(j))
      PROVE  JoinLoop(next, paths) /\ JoinLoop(grown, paths)
  <2>0. next = [acc EXCEPT !.job = [j EXCEPT !.index = @ + 1, !.pos = 0]]
    BY <1>2
  <2>. HIDE DEF next
  <2>1. /\ j.inputs \in Seq(paths \ {"out"}) /\ j.index \in Nat \ {0} /\ j.pos \in Nat /\ j.written \in Seq(Nat)
        /\ j.kind = "Concat"
    BY <1>2
  <2>. DEFINE moved == [j EXCEPT !.index = @ + 1, !.pos = 0]
  <2>2. moved \in Jobs /\ moved.index = j.index + 1 /\ moved.inputs = j.inputs
    <3>. DEFINE i == j.index + 1
    <3>1. i \in Nat \ {0} /\ moved = [j EXCEPT !.index = i, !.pos = 0]
      BY <2>1
    <3>. HIDE DEF i, j, moved
    <3>2. moved \in Jobs /\ moved.index = i /\ moved.inputs = j.inputs
      BY <1>2, <3>1
    <3>3. QED
      BY <3>2 DEF i
  <2>. DEFINE n == Len(j.inputs)
  <2>3. n \in Nat /\ j.index <= n
    BY <1>4, <2>1 DEF JoinFinished
  <2>4. JoinLoop(next, paths)
    <3>. HIDE DEF moved, j
    <3>1. next \in [left : Nat, job : Jobs] /\ next.job = moved
      BY <1>2, <2>0, <2>2 DEF moved
    <3>. HIDE DEF next, Jobs
    <3>2. next.job.index <= Len(next.job.inputs) + 1
      BY <2>1, <2>2, <2>3, <3>1
    <3>3. QED
      BY <3>1, <3>2 DEF JoinLoop, Jobs
  <2>5. read \in Seq(Nat) /\ Len(read) <= left
    <3>1. j.inputs[j.index] \in paths \ {"out"}
      BY <2>1, <2>3
    <3>. DEFINE d == data[j.inputs[j.index]]
    <3>2. d \in Seq(Nat)
      BY <3>1
    <3>. HIDE DEF d
    <3>3. Slice(d, j.pos, left) \in Seq(Nat) /\ Len(Slice(d, j.pos, left)) <= left
      BY <1>2, <2>1, <3>2, SliceIs
    <3>4. QED
      BY <3>3 DEF d
  <2>. HIDE DEF read
  <2>6. Len(read) \in Nat /\ left - Len(read) \in Nat /\ j.pos + Len(read) \in Nat /\ j.written \o read \in Seq(Nat)
    BY <1>2, <2>1, <2>5
  <2>7. JoinLoop(grown, paths)
    <3>. DEFINE p == j.pos + Len(read)
                w == j.written \o read
                more == [j EXCEPT !.pos = p, !.written = w]
                rest == left - Len(read)
    <3>1. grown = [job |-> more, left |-> rest] /\ p \in Nat /\ w \in Seq(Nat) /\ rest \in Nat
      BY <2>6
    <3>. HIDE DEF p, w, j, grown, rest
    <3>2. more \in Jobs /\ more.index = j.index /\ more.inputs = j.inputs
      BY <1>2, <3>1
    <3>. HIDE DEF more, Jobs
    <3>3. grown \in [left : Nat, job : Jobs] /\ grown.job = more
      BY <3>1, <3>2
    <3>4. QED
      BY <1>2, <3>2, <3>3 DEF JoinLoop, Jobs
  <2>8. QED
    BY <2>4, <2>7
<1>. HIDE DEF next, grown
<1>5. QED
  BY <1>1, <1>3, <1>4

\* What is joined of the inputs ss, the sums of which are r: those before the open
\* one, and of that one what was read.
Inputs(inputs, data) == [i \in DOMAIN inputs |-> data[inputs[i]]]
SumsOf(ss, r) ==
  /\ r \in [0 .. Len(ss) -> Seq(Nat)] /\ r[0] = <<>>
  /\ \A k \in 1 .. Len(ss) : r[k] = r[k - 1] \o ss[k]
JoinTells(j, ss, r) ==
  IF j.index > Len(ss) THEN j.written = r[Len(ss)]
  ELSE j.pos <= Len(ss[j.index]) /\ j.written = r[j.index - 1] \o Slice(ss[j.index], 0, j.pos)

\* What a join has is what it read of its inputs, in order; all of it comes to
\* their concatenation.
JoinedSoFar(j, data) ==
  LET ss == Inputs(j.inputs, data)
  IN  \E r : SumsOf(ss, r) /\ r[Len(ss)] = FlattenSeq(ss) /\ JoinTells(j, ss, r)

\* A read continues the open input where it was left, and goes on to the next one
\* when it is at the end.
LEMMA JoinReadTells ==
  ASSUME NEW paths, NEW data, \A f \in paths \ {"out"} : data[f] \in Seq(Nat), NEW acc, JoinLoop(acc, paths),
         JoinedSoFar(acc.job, data)
  PROVE  LET next == JoinRead(acc, data).job
         IN  next.inputs = acc.job.inputs /\ JoinedSoFar(next, data)
<1>. SUFFICES ASSUME NEW ss \in Seq(Seq(Nat)), ss = Inputs(acc.job.inputs, data),
                     NEW r, SumsOf(ss, r), r[Len(ss)] = FlattenSeq(ss), JoinTells(acc.job, ss, r)
              PROVE  LET next == JoinRead(acc, data).job
                     IN  next.inputs = acc.job.inputs /\ JoinTells(next, ss, r)
  <2>. DEFINE inputs == acc.job.inputs
              ss == Inputs(inputs, data)
              next == JoinRead(acc, data).job
  <2>1. inputs \in Seq(paths \ {"out"})
    BY DEF JoinLoop
  <2>2. ss = [i \in DOMAIN inputs |-> data[inputs[i]]]
    BY DEF Inputs
  <2>3. PICK r : SumsOf(ss, r) /\ r[Len(ss)] = FlattenSeq(ss) /\ JoinTells(acc.job, ss, r)
    BY DEF JoinedSoFar
  <2>4. ss \in Seq(Seq(Nat))
    <3>. HIDE DEF inputs, ss
    <3>1. \A i \in 1 .. Len(inputs) : data[inputs[i]] \in Seq(Nat)
      BY <2>1
    <3>2. QED
      BY <2>1, <2>2, <3>1
  <2>5. ss = Inputs(acc.job.inputs, data)
    OBVIOUS
  <2>. HIDE DEF ss, next, inputs
  <2>6. next.inputs = acc.job.inputs /\ JoinTells(next, ss, r)
    BY <2>3, <2>4, <2>5 DEF next
  <2>7. JoinedSoFar(next, data)
    BY <2>3, <2>5, <2>6 DEF JoinedSoFar
  <2>8. QED
    BY <2>6, <2>7 DEF next
<1>. DEFINE Jobs == [kind : {"Concat"}, inputs : Seq(paths \ {"out"}), index : Nat \ {0}, pos : Nat, written : Seq(Nat)]
            j == acc.job
            left == acc.left
            read == Slice(data[j.inputs[j.index]], j.pos, left)
            next == [acc EXCEPT !.job.index = @ + 1, !.job.pos = 0]
            grown == [job |-> [j EXCEPT !.pos = @ + Len(read), !.written = @ \o read], left |-> left - Len(read)]
<1>1. JoinRead(acc, data) = IF left = 0 \/ JoinFinished(j) THEN acc ELSE IF read = <<>> THEN next ELSE grown
  BY DEF JoinRead
<1>2. acc \in [left : Nat, job : Jobs] /\ j \in Jobs /\ left \in Nat /\ j.index <= Len(j.inputs) + 1
  BY DEF JoinLoop
<1>3. /\ j.inputs \in Seq(paths \ {"out"}) /\ j.index \in Nat \ {0} /\ j.pos \in Nat /\ j.written \in Seq(Nat)
  BY <1>2
<1>4. Len(ss) = Len(j.inputs) /\ Len(ss) \in Nat
  BY <1>3 DEF Inputs
<1>5. SUFFICES ASSUME ~(left = 0 \/ JoinFinished(j))
               PROVE  /\ read = <<>> => next.job.inputs = j.inputs /\ JoinTells(next.job, ss, r)
                      /\ read # <<>> => grown.job.inputs = j.inputs /\ JoinTells(grown.job, ss, r)
  BY <1>1
<1>. DEFINE i == j.index
            pos == j.pos
            d == ss[i]
            n == Len(read)
<1>6. i \in 1 .. Len(ss) /\ left \in Nat \ {0} /\ pos \in Nat
  BY <1>2, <1>3, <1>4, <1>5 DEF JoinFinished
<1>7. d \in Seq(Nat) /\ read = Slice(d, pos, left)
  <2>1. d = data[j.inputs[i]]
    BY <1>4, <1>6 DEF Inputs
  <2>2. d \in Seq(Nat)
    BY <1>6
  <2>3. QED
    BY <2>1, <2>2
<1>8. pos <= Len(d) /\ j.written = r[i - 1] \o Slice(d, 0, pos)
  <2>1. ~(i > Len(ss))
    BY <1>4, <1>6
  <2>2. QED
    BY <2>1 DEF JoinTells
<1>9. r[i - 1] \in Seq(Nat) /\ r[i] = r[i - 1] \o d /\ r[i] \in Seq(Nat)
  <2>1. i - 1 \in 0 .. Len(ss) /\ i \in 0 .. Len(ss)
    BY <1>4, <1>6
  <2>. HIDE DEF i, d
  <2>2. QED
    BY <1>6, <2>1 DEF SumsOf, d
<1>10. /\ n \in Nat /\ n <= left /\ pos + n <= Len(d) /\ read = Slice(d, pos, n)
       /\ n = 0 => pos = Len(d)
       /\ read \in Seq(Nat)
  <2>1. n = (IF pos + left <= Len(d) THEN left ELSE Len(d) - pos) /\ Len(d) \in Nat /\ read \in Seq(Nat)
    <3>. HIDE DEF d, read, pos, left
    <3>1. read \in Seq(Nat) /\ Len(read) = IF pos + left <= Len(d) THEN left ELSE Most(Len(d) - pos, 0)
      BY <1>6, <1>7, SliceIs
    <3>2. Len(d) \in Nat /\ pos <= Len(d)
      BY <1>7, <1>8
    <3>3. QED
      BY <1>6, <3>1, <3>2 DEF Most
  <2>. HIDE DEF d, pos, left, n
  <2>2. n \in Nat /\ n <= left /\ pos + n <= Len(d) /\ (n = 0 => pos = Len(d))
    BY <1>6, <1>8, <2>1
  <2>3. Least(pos + n, Len(d)) = Least(pos + left, Len(d))
    BY <1>6, <1>8, <2>1 DEF Least
  <2>4. Slice(d, pos, n) = Slice(d, pos, left)
    BY <2>3 DEF Slice
  <2>. HIDE DEF read
  <2>5. QED
    BY <1>7, <2>1, <2>2, <2>4
<1>11. Slice(d, 0, Len(d)) = d
  <2>. HIDE DEF d
  <2>1. QED
    BY <1>7 DEF Slice, Least
<1>12. ASSUME read = <<>> PROVE next.job.inputs = j.inputs /\ JoinTells(next.job, ss, r)
  <2>1. next.job.inputs = j.inputs /\ next.job.index = i + 1 /\ next.job.pos = 0 /\ next.job.written = j.written
    <3>1. next = [acc EXCEPT !.job = [j EXCEPT !.index = @ + 1, !.pos = 0]]
      BY <1>2
    <3>2. QED
      BY <1>2, <3>1
  <2>2. j.written = r[i]
    <3>1. pos = Len(d)
      BY <1>10, <1>12
    <3>. HIDE DEF d, i, pos
    <3>2. QED
      BY <1>8, <1>9, <1>11, <3>1
  <2>3. i + 1 <= Len(ss) => 0 <= Len(ss[i + 1]) /\ r[i] \o Slice(ss[i + 1], 0, 0) = r[i]
    <3>1. SUFFICES ASSUME i + 1 <= Len(ss) PROVE 0 <= Len(ss[i + 1]) /\ r[i] \o Slice(ss[i + 1], 0, 0) = r[i]
      OBVIOUS
    <3>. DEFINE e == ss[i + 1]
    <3>2. e \in Seq(Nat)
      BY <1>4, <1>6, <3>1
    <3>. HIDE DEF e, i
    <3>3. Slice(e, 0, 0) \in Seq(Nat) /\ Len(Slice(e, 0, 0)) <= 0
      BY <3>2, SliceIs
    <3>4. Slice(e, 0, 0) = <<>>
      BY <3>3
    <3>5. r[i] \o <<>> = r[i]
      BY <1>9
    <3>6. 0 <= Len(e)
      BY <3>2
    <3>7. QED
      BY <3>4, <3>5, <3>6 DEF e
  <2>4. (i + 1) - 1 = i /\ (~(i + 1 <= Len(ss)) => i = Len(ss)) /\ (i + 1 > Len(ss) <=> ~(i + 1 <= Len(ss)))
    BY <1>4, <1>6
  <2>. HIDE DEF next, i
  <2>5. QED
    BY <2>1, <2>2, <2>3, <2>4 DEF JoinTells
<1>13. ASSUME read # <<>> PROVE grown.job.inputs = j.inputs /\ JoinTells(grown.job, ss, r)
  <2>1. /\ grown.job.inputs = j.inputs /\ grown.job.index = i /\ grown.job.pos = pos + n
        /\ grown.job.written = j.written \o read
    <3>. DEFINE p == j.pos + Len(read)
                w == j.written \o read
                more == [j EXCEPT !.pos = p, !.written = w]
    <3>1. grown.job = more
      OBVIOUS
    <3>. HIDE DEF p, w
    <3>2. more.inputs = j.inputs /\ more.index = i /\ more.pos = p /\ more.written = w
      BY <1>2
    <3>3. QED
      BY <3>1, <3>2 DEF p, w
  <2>2. (r[i - 1] \o Slice(d, 0, pos)) \o read = r[i - 1] \o Slice(d, 0, pos + n)
    <3>. HIDE DEF d, read, pos, n, i
    <3>1. Slice(d, 0, pos) \in Seq(Nat)
      BY <1>6, <1>7, SliceIs
    <3>2. 0 + pos + n <= Len(d) /\ 0 + pos = pos
      BY <1>6, <1>10
    <3>3. Slice(d, 0, pos) \o Slice(d, 0 + pos, n) = Slice(d, 0, pos + n)
      <4>1. d \in Seq(Nat) /\ 0 \in Nat /\ pos \in Nat /\ n \in Nat
        BY <1>6, <1>7, <1>10
      <4>2. QED
        BY ONLY <3>2, <4>1, SlicesMeet
    <3>4. (r[i - 1] \o Slice(d, 0, pos)) \o read = r[i - 1] \o (Slice(d, 0, pos) \o read)
      <4>. DEFINE x == r[i - 1]
                  y == Slice(d, 0, pos)
      <4>1. x \in Seq(Nat) /\ y \in Seq(Nat) /\ read \in Seq(Nat)
        BY <1>9, <1>10, <3>1
      <4>. HIDE DEF x, y
      <4>2. (x \o y) \o read = x \o (y \o read)
        BY ONLY <4>1, ConcatAssociative
      <4>3. QED
        BY <4>2 DEF x, y
    <3>5. QED
      BY <1>10, <3>2, <3>3, <3>4
  <2>3. ~(i > Len(ss))
    BY <1>4, <1>6
  <2>. HIDE DEF grown, i, d, pos, n, read
  <2>4. QED
    BY <1>8, <1>10, <2>1, <2>2, <2>3 DEF JoinTells, d
<1>14. QED
  BY <1>12, <1>13

\* A step of a join reads on in its inputs, and ends after the last one.
LEMMA JoinStepKeeps ==
  ASSUME NEW paths, NEW data, \A x \in paths \ {"out"} : data[x] \in Seq(Nat),
         NEW budget \in Nat, NEW ioFails, NEW j, JoinJob(j, paths)
  PROVE  LET st == JoinStep(j, data, budget, ioFails)
         IN  /\ JoinJob(st.job, paths)
             /\ st.kind = "Went" =>
                  /\ st.scanned \in Int
                  /\ st.finished => JoinFinished(st.job)
                  /\ JoinedSoFar(j, data) => st.job.inputs = j.inputs /\ JoinedSoFar(st.job, data)
<1>. DEFINE left == Least(Most(budget, 1), WINDOW)
            n == left + Len(j.inputs)
            first == [job |-> j, left |-> left]
            Turn(acc, i) == JoinRead(acc, data)
            Turned(acc, i) == CHOOSE r \in {Turn(x, i) : x \in {acc}} : TRUE
            Body(g) == [i \in 0 .. n |-> IF i = 0 THEN first ELSE Turned(g[i - 1], i)]
            f == CHOOSE g : g = Body(g)
            Tells(acc) == JoinedSoFar(j, data) => acc.job.inputs = j.inputs /\ JoinedSoFar(acc.job, data)
            Keeps(acc) == JoinLoop(acc, paths) /\ Tells(acc)
            last == f[n]
            st == JoinStep(j, data, budget, ioFails)
<1>0. j.inputs \in Seq(paths \ {"out"}) /\ j.written \in Seq(Nat)
  BY DEF JoinJob
<1>1. st = IF JoinFinished(j) THEN Done(j) ELSE IF ioFails THEN Failed(j)
           ELSE Went(last.job, <<>>, Len(last.job.written) - Len(j.written), JoinFinished(last.job))
  <2>. DEFINE Op(acc) == Went(acc.job, <<>>, Len(acc.job.written) - Len(j.written), JoinFinished(acc.job))
  <2>1. st = IF JoinFinished(j) THEN Done(j) ELSE IF ioFails THEN Failed(j)
             ELSE CHOOSE r \in {Op(v) : v \in {last}} : TRUE
    BY DEF JoinStep, Repeat, With
  <2>. HIDE DEF Op, last, st
  <2>2. (CHOOSE r \in {Op(v) : v \in {last}} : TRUE) = Op(last)
    OBVIOUS
  <2>3. QED
    BY <2>1, <2>2 DEF Op
<1>2. left \in Nat /\ n \in Nat
  <2>1. left \in Nat
    BY WindowAssumption DEF Least, Most
  <2>. HIDE DEF left
  <2>2. Len(j.inputs) \in Nat
    BY <1>0
  <2>3. QED
    BY <2>1, <2>2
<1>3. \A acc, i : Turned(acc, i) = Turn(acc, i)
  <2>. HIDE DEF Turn
  <2>1. QED
    OBVIOUS
<1>4. ASSUME NEW acc, NEW i, Keeps(acc) PROVE Keeps(Turn(acc, i))
  <2>1. JoinLoop(acc, paths) /\ Tells(acc)
    BY <1>4
  <2>2. JoinLoop(JoinRead(acc, data), paths)
    BY <2>1, JoinReadKeeps
  <2>3. Tells(JoinRead(acc, data))
    BY <2>1, JoinReadTells
  <2>4. QED
    BY <2>2, <2>3
<1>5. Keeps(first)
  <2>. HIDE DEF left
  <2>1. QED
    BY <1>2 DEF JoinLoop, JoinJob
<1>6. SUFFICES Keeps(f[n])
  <2>0. JoinLoop(last, paths) /\ Tells(last)
    BY <1>6, Zenon
  <2>. HIDE DEF last
  <2>1. JoinJob(last.job, paths) /\ last.job.written \in Seq(Nat)
    BY <2>0 DEF JoinLoop, JoinJob
  <2>2. CASE JoinFinished(j)
    <3>1. st.job = j /\ st.scanned = 0
      BY <1>1, <2>2 DEF Done, Went
    <3>. HIDE DEF st
    <3>2. QED
      BY <2>2, <3>1 DEF st
  <2>3. CASE ~JoinFinished(j) /\ ~ioFails
    <3>1. st.job = last.job /\ st.scanned = Len(last.job.written) - Len(j.written)
          /\ st.finished = JoinFinished(last.job)
      BY <1>1, <2>3 DEF Went
    <3>. HIDE DEF st
    <3>2. Len(last.job.written) \in Nat /\ Len(j.written) \in Nat
      BY <1>0, <2>1
    <3>3. QED
      BY <2>0, <2>1, <3>1, <3>2 DEF st
  <2>4. CASE ~JoinFinished(j) /\ ioFails
    <3>1. st.job = j /\ st.kind = "Failed"
      BY <1>1, <2>4 DEF Failed
    <3>. HIDE DEF st
    <3>2. QED
      BY <3>1 DEF st
  <2>5. QED
    BY <2>2, <2>3, <2>4
<1>. HIDE DEF Turn, Turned, first, n, Keeps
<1>8. f = Body(f)
  <2>. DEFINE T == {m \in Nat : \E g : g = [i \in 0 .. m |-> IF i = 0 THEN first ELSE Turned(g[i - 1], i)]}
  <2>1. 0 \in T
    <3>1. [i \in 0 .. 0 |-> first] = [i \in 0 .. 0 |-> IF i = 0 THEN first ELSE Turned([k \in 0 .. 0 |-> first][i - 1], i)]
      OBVIOUS
    <3>2. QED
      BY <3>1
  <2>2. ASSUME NEW m \in Nat, m \in T PROVE m + 1 \in T
    <3>1. PICK g : g = [i \in 0 .. m |-> IF i = 0 THEN first ELSE Turned(g[i - 1], i)]
      BY <2>2
    <3>. DEFINE h == [i \in 0 .. (m + 1) |-> IF i <= m THEN g[i] ELSE Turned(g[m], m + 1)]
    <3>2. ASSUME NEW i \in 0 .. (m + 1) PROVE h[i] = IF i = 0 THEN first ELSE Turned(h[i - 1], i)
      <4>1. CASE i <= m
        <5>1. i \in 0 .. m /\ (i # 0 => i - 1 \in 0 .. (m + 1) /\ i - 1 <= m)
          BY <4>1
        <5>2. h[i] = g[i] /\ (i # 0 => h[i - 1] = g[i - 1])
          BY <4>1, <5>1
        <5>3. g[i] = IF i = 0 THEN first ELSE Turned(g[i - 1], i)
          BY <3>1, <5>1
        <5>. HIDE DEF h
        <5>4. QED
          BY <5>2, <5>3
      <4>2. CASE ~(i <= m)
        <5>1. i = m + 1 /\ i # 0 /\ i - 1 = m /\ m \in 0 .. (m + 1) /\ m <= m
          BY <4>2
        <5>2. h[i] = Turned(g[m], m + 1) /\ h[m] = g[m]
          BY <4>2, <5>1
        <5>. HIDE DEF h
        <5>3. QED
          BY <5>1, <5>2
      <4>3. QED
        BY <4>1, <4>2
    <3>3. h = [i \in 0 .. (m + 1) |-> IF i = 0 THEN first ELSE Turned(h[i - 1], i)]
      <4>1. h = [i \in 0 .. (m + 1) |-> h[i]]
        OBVIOUS
      <4>. HIDE DEF h
      <4>2. QED
        BY <3>2, <4>1
    <3>. HIDE DEF h
    <3>4. QED
      BY <3>3
  <2>3. n \in T
    <3>. HIDE DEF T
    <3>1. QED
      BY <1>2, <2>1, <2>2, SetInduction
  <2>4. QED
    BY <2>3
<1>. HIDE DEF f
<1>9. f[0] = first /\ \A i \in 1 .. n : f[i] = Turn(f[i - 1], i)
  <2>1. 0 \in 0 .. n /\ \A i \in 1 .. n : i \in 0 .. n /\ i # 0
    BY <1>2
  <2>2. QED
    BY <1>3, <1>8, <2>1
<1>10. \A i \in 0 .. n : i \in {k \in 0 .. n : Keeps(f[k])}
  <2>. DEFINE S == {k \in 0 .. n : Keeps(f[k])}
  <2>1. 0 \in S
    BY <1>2, <1>5, <1>9
  <2>2. ASSUME NEW k \in 1 .. n, k - 1 \in S PROVE k \in S
    BY <1>2, <1>4, <1>9, <2>2
  <2>. HIDE DEF S
  <2>3. \A k \in 0 .. n : k \in S
    BY <1>2, <2>1, <2>2, PrefixInduction
  <2>4. QED
    BY <2>3 DEF S
<1>11. QED
  BY <1>2, <1>10

-----------------------------------------------------------------------------
(* A step of the job of a panel. *)

\* k is a job over the range of j, with the same reach beyond its windows.
SameRange(j, k) ==
  /\ k.kind = j.kind /\ k.cursor.end = j.cursor.end
  /\ j.kind = "Magic" /\ "maxSpan" \in DOMAIN j => "maxSpan" \in DOMAIN k /\ k.maxSpan = j.maxSpan

\* How a step leaves the job of a panel: a job of the same kind, and for a split
\* the parts that it named.
StepKeeps(j, st, paths) ==
  /\ st.kind = "Went" =>
       /\ st.scanned \in Int
       /\ j.kind \in AnalysisKinds => AnalysisJob(st.job) /\ SameRange(j, st.job)
       /\ j.kind \notin AnalysisKinds => ToolJob(st.job, paths) /\ st.job.kind = j.kind
       /\ j.kind = "Split" => st.out \in Seq(Seq(Nat)) /\ st.job.written = j.written + Len(st.out)
  /\ st.kind = "Failed" => /\ j.kind \notin AnalysisKinds => st.job = j \/ (SplitJob(st.job) /\ SplitJob(j) /\ st.job.written >= j.written)

\* A step of an analysis leaves a job of the same panel, at a cursor of its range.
LEMMA AnalysisStepKeeps ==
  ASSUME NEW j, AnalysisJob(j), NEW doc \in Seq(Nat), NEW budget \in Nat, NEW paths,
         NEW st, \/ j.kind = "Digest" /\ st = DigestStep(j, doc, budget)
                 \/ j.kind = "Strings" /\ st = StringsStep(j, doc, budget)
                 \/ j.kind = "Stats" /\ st = StatsStep(j, doc, budget)
                 \/ j.kind = "Magic" /\ st = MagicStep(j, doc, budget)
  PROVE  st.kind = "Went" => st.scanned \in Int /\ AnalysisJob(st.job) /\ SameRange(j, st.job)
<1>. DEFINE n == NextLen(j.cursor, budget, 1)
            cursor == Advanced(j.cursor, n)
            pos == j.cursor.pos
<1>1. {"kind", "cursor"} \subseteq DOMAIN j /\ j.cursor \in Cursors /\ j.kind \in AnalysisKinds
  BY DEF AnalysisJob, CursorJob
<1>2. n \in Nat /\ cursor \in Cursors /\ pos \in Nat /\ cursor.end = j.cursor.end
  <2>1. n \in Nat
    BY <1>1, NextLenIs
  <2>. HIDE DEF n
  <2>2. Advanced(j.cursor, n) \in Cursors /\ Advanced(j.cursor, n).end = j.cursor.end
    BY <1>1, <2>1, AdvancedIs DEF Advanced, Cursors
  <2>3. QED
    BY <1>1, <2>1, <2>2 DEF Cursors
<1>3. Slice(doc, pos, n) \in Seq(Nat)
  <2>. HIDE DEF n, pos
  <2>1. QED
    BY <1>2, SliceIs
<1>4. n = NextLen(j.cursor, budget, 1) /\ cursor = Advanced(j.cursor, n) /\ pos = j.cursor.pos
  OBVIOUS
<1>. HIDE DEF cursor
<1>5. CASE j.kind = "Digest"
  <2>. DEFINE after == [j EXCEPT !.hashers = [i \in DOMAIN @ |-> Updated(@[i], Slice(doc, j.cursor.pos, n))],
                                 !.cursor = Advanced(@, n)]
  <2>1. st = IF IsDone(j.cursor) THEN Done(j) ELSE IF ~IsClean(Slice(doc, j.cursor.pos, n)) THEN Failed(j)
             ELSE Went(after, <<>>, n, IsDone(after.cursor))
    BY <1>5 DEF DigestStep
  <2>. HIDE DEF n
  <2>2. {"kind", "cursor"} \subseteq DOMAIN after /\ after.cursor = cursor /\ after.kind = j.kind
    BY <1>1, <1>4
  <2>. HIDE DEF after
  <2>3. AnalysisJob(after) /\ SameRange(j, after) /\ SameRange(j, j)
    BY <1>1, <1>2, <1>5, <2>2 DEF AnalysisJob, CursorJob, SameRange
  <2>4. QED
    BY <1>2, <2>1, <2>3 DEF Done, Went, Failed
<1>6. CASE j.kind = "Strings"
  <2>1. PICK scanners, out : st = IF IsDone(j.cursor) THEN Done(j)
             ELSE Went([j EXCEPT !.scanners = scanners, !.cursor = cursor], out, n, IsDone(cursor))
    <3>. DEFINE data == Shown(Slice(doc, j.cursor.pos, n))
                final(fed) == IF IsDone(cursor) THEN RunFound(fed.scanner.run, fed.scanner.enc, j.minChars) ELSE <<>>
                Scan(acc, i) ==
                  With(Feed(j.scanners[i], j.cursor.pos, data, j.minChars),
                       LAMBDA fed : [scanners |-> Append(acc.scanners, fed.scanner),
                                     out |-> acc.out \o fed.out, last |-> acc.last \o final(fed)])
                Op(acc) == Went([j EXCEPT !.scanners = acc.scanners, !.cursor = cursor],
                                acc.out \o acc.last, n, IsDone(cursor))
                scanned == OverIndices(Scan, [scanners |-> <<>>, out |-> <<>>, last |-> <<>>], j.scanners)
    <3>1. st = IF IsDone(j.cursor) THEN Done(j) ELSE CHOOSE r \in {Op(v) : v \in {scanned}} : TRUE
      BY <1>6 DEF StringsStep, With, cursor
    <3>. HIDE DEF Op, scanned
    <3>2. (CHOOSE r \in {Op(v) : v \in {scanned}} : TRUE) = Op(scanned)
      OBVIOUS
    <3>3. st = IF IsDone(j.cursor) THEN Done(j) ELSE Op(scanned)
      BY <3>1, <3>2
    <3>4. QED
      BY <3>3 DEF Op
  <2>. DEFINE after == [j EXCEPT !.scanners = scanners, !.cursor = cursor]
  <2>. HIDE DEF n
  <2>2. {"kind", "cursor"} \subseteq DOMAIN after /\ after.cursor = cursor /\ after.kind = j.kind
    BY <1>1
  <2>3. st = IF IsDone(j.cursor) THEN Done(j) ELSE Went(after, out, n, IsDone(cursor))
    BY <2>1
  <2>. HIDE DEF after
  <2>4. AnalysisJob(after) /\ SameRange(j, after) /\ SameRange(j, j)
    BY <1>1, <1>2, <1>6, <2>2 DEF AnalysisJob, CursorJob, SameRange
  <2>5. QED
    BY <1>2, <2>3, <2>4 DEF Done, Went, Failed
<1>7. CASE j.kind = "Stats"
  <2>. DEFINE data == Slice(doc, pos, n)
              accounted == Accounted(j, pos, data)
              after == [accounted EXCEPT !.cursor = Advanced(@, n)]
  <2>1. st = IF IsDone(j.cursor) THEN Done(j) ELSE IF Len(data) < n THEN Panics(j)
             ELSE IF IsDone(after.cursor) THEN Went(CloseBlock(after), <<>>, n, TRUE)
             ELSE Went(after, <<>>, n, FALSE)
    BY <1>7 DEF StatsStep, Accounted
  <2>2. {"kind", "cursor"} \subseteq DOMAIN accounted /\ accounted.kind = j.kind /\ accounted.cursor = j.cursor
    <3>. HIDE DEF n, pos, data
    <3>1. data \in Seq(Nat)
      BY <1>3 DEF data
    <3>2. QED
      BY <1>1, <3>1, AccountedKeeps
  <2>. HIDE DEF accounted, n
  <2>3. {"kind", "cursor"} \subseteq DOMAIN after /\ after.cursor = cursor /\ after.kind = j.kind
    BY <1>4, <2>2
  <2>. HIDE DEF after
  <2>4. AnalysisJob(after) /\ SameRange(j, after) /\ SameRange(j, j)
    BY <1>1, <1>2, <1>7, <2>3 DEF AnalysisJob, CursorJob, SameRange
  <2>. DEFINE closed == CloseBlock(after)
  <2>5. {"kind", "cursor"} \subseteq DOMAIN closed /\ closed.cursor = cursor /\ closed.kind = j.kind
    BY <2>3 DEF CloseBlock
  <2>. HIDE DEF closed
  <2>6. AnalysisJob(closed) /\ SameRange(j, closed)
    BY <1>1, <1>2, <1>7, <2>5 DEF AnalysisJob, CursorJob, SameRange
  <2>7. st = IF IsDone(j.cursor) THEN Done(j) ELSE IF Len(data) < n THEN Panics(j)
             ELSE IF IsDone(after.cursor) THEN Went(closed, <<>>, n, TRUE)
             ELSE Went(after, <<>>, n, FALSE)
    BY <2>1 DEF closed
  <2>. HIDE DEF data
  <2>8. QED
    BY <1>2, <2>4, <2>6, <2>7 DEF Done, Went, Panics
<1>8. CASE j.kind = "Magic"
  <2>1. PICK out : \/ st = Done(j) \/ st = Panics(j)
                   \/ st = Went([j EXCEPT !.cursor = cursor], out, n, IsDone(cursor))
    <3>. DEFINE read == Slice(doc, pos, Least(n + j.maxSpan - 1, Remaining(j.cursor)))
                hay(i) == SubSeq(read, i, Len(read))
                hits(i) == SelectSeq(Swept, LAMBDA k :
                             /\ SignatureMatches(SIGNATURES[k], Shown(hay(i)))
                             /\ IsClean(Slice(hay(i), 0, Span(SIGNATURES[k]))))
                list == FlattenSeq([i \in 1 .. n |-> [h \in DOMAIN hits(i) |-> <<pos + i - 1, hits(i)[h]>>]])
    <3>1. st = IF IsDone(j.cursor) THEN Done(j) ELSE IF Len(read) < n THEN Panics(j)
               ELSE Went([j EXCEPT !.cursor = cursor], list, n, IsDone(cursor))
      BY <1>8 DEF MagicStep, cursor
    <3>. HIDE DEF list, n, read
    <3>2. QED
      BY <3>1
  <2>. DEFINE after == [j EXCEPT !.cursor = cursor]
  <2>. HIDE DEF n
  <2>2. /\ {"kind", "cursor"} \subseteq DOMAIN after /\ after.cursor = cursor /\ after.kind = j.kind
        /\ "maxSpan" \in DOMAIN j => "maxSpan" \in DOMAIN after /\ after.maxSpan = j.maxSpan
    BY <1>1
  <2>3. st = Done(j) \/ st = Panics(j) \/ st = Went(after, out, n, IsDone(cursor))
    BY <2>1
  <2>. HIDE DEF after
  <2>4. AnalysisJob(after) /\ SameRange(j, after) /\ SameRange(j, j)
    BY <1>1, <1>2, <2>2 DEF AnalysisJob, CursorJob, SameRange
  <2>5. QED
    BY <1>2, <2>3, <2>4 DEF Done, Went, Panics
<1>9. QED
  BY <1>1, <1>5, <1>6, <1>7, <1>8 DEF AnalysisKinds

\* A step of a report goes on with the same report, and fails as it was.
LEMMA ExportStepKeeps ==
  ASSUME NEW j, ExportJob(j), NEW doc \in Seq(Nat), NEW budget \in Nat,
         NEW st, st = ExportStep(j, doc, budget)
  PROVE  /\ st.kind = "Went" => st.scanned \in Int /\ ExportJob(st.job)
         /\ st.kind = "Failed" => st.job = j
<1>. DEFINE n == NextLen(j.cursor, budget, j.cols)
            cursor == Advanced(j.cursor, n)
            done == IsDone(cursor)
            after == [j EXCEPT !.cursor = cursor, !.headerDone = TRUE, !.finished = done]
<1>1. {"kind", "cursor", "cols"} \subseteq DOMAIN j /\ j.cursor \in Cursors /\ j.kind = "Export" /\ j.cols \in Nat \ {0}
  BY DEF ExportJob, CursorJob
<1>2. n \in Nat /\ cursor \in Cursors
  <2>1. n \in Nat
    BY <1>1, NextLenIs
  <2>. HIDE DEF n
  <2>2. QED
    BY <1>1, <2>1, AdvancedIs
<1>3. PICK out : st = Done(j) \/ st = Failed(j) \/ st = Went(after, out, n, after.finished)
  <2>. DEFINE data == Slice(doc, j.cursor.pos, n)
              head == IF j.headerDone THEN <<>> ELSE Header(j.fmt, Total(j.cursor))
              body == IF IsDone(j.cursor) THEN <<>>
                      ELSE IF IsDump(j.fmt) THEN DumpChunk(j, j.cursor.pos, data)
                      ELSE LiteralChunk(j, j.cursor.pos, data)
              foot == IF IsDone(cursor) THEN Footer(j.fmt) ELSE <<>>
  <2>1. st = IF j.finished THEN Done(j) ELSE IF ~IsClean(data) THEN Failed(j)
             ELSE Went(after, head \o body \o foot, n, after.finished)
    BY DEF ExportStep
  <2>. HIDE DEF after, data, head, body, foot, n
  <2>2. QED
    BY <2>1
<1>. HIDE DEF n, cursor, done
<1>4. /\ {"kind", "cursor", "cols"} \subseteq DOMAIN after /\ after.cursor = cursor
      /\ after.kind = j.kind /\ after.cols = j.cols
  BY <1>1
<1>. HIDE DEF after
<1>5. ExportJob(after)
  BY <1>1, <1>2, <1>4 DEF ExportJob, CursorJob
<1>6. QED
  BY <1>2, <1>3, <1>5 DEF Done, Went, Failed

\* A step of a record file goes on with the same file, and fails as it was.
LEMMA RecordsStepKeeps ==
  ASSUME NEW j, RecordJob(j), NEW doc \in Seq(Nat), NEW budget \in Nat,
         NEW st, st = RecordsStep(j, doc, budget)
  PROVE  /\ st.kind = "Went" => st.scanned \in Int /\ RecordJob(st.job)
         /\ st.kind = "Failed" => st.job = j
<1>. DEFINE n == NextLen(j.cursor, budget, j.recLen)
            cursor == Advanced(j.cursor, n)
            done == IsDone(cursor)
            data == Slice(doc, j.cursor.pos, n)
            records == RecordsFrom(j, j.base + (j.cursor.pos - j.cursor.start), data)
            after == [records.job EXCEPT !.cursor = cursor, !.headerDone = TRUE, !.finished = done]
<1>1. {"kind", "cursor", "recLen"} \subseteq DOMAIN j /\ j.cursor \in Cursors /\ j.kind = "Record" /\ j.recLen \in Nat \ {0}
  BY DEF RecordJob, CursorJob
<1>2. n \in Nat /\ cursor \in Cursors
  <2>1. n \in Nat
    BY <1>1, NextLenIs
  <2>. HIDE DEF n
  <2>2. QED
    BY <1>1, <2>1, AdvancedIs
<1>3. data \in Seq(Nat)
  <2>. DEFINE pos == j.cursor.pos
  <2>1. pos \in Nat
    BY <1>1 DEF Cursors
  <2>. HIDE DEF pos, n
  <2>2. Slice(doc, pos, n) \in Seq(Nat)
    BY <1>2, <2>1, SliceIs
  <2>3. QED
    BY <2>2 DEF pos
<1>4. PICK out : st = Done(j) \/ st = Failed(j) \/ st = Went(after, out, n, done)
  <2>. DEFINE head == IF j.headerDone THEN <<>> ELSE RecordHeader(j.fmt)
              foot(job) == IF IsDone(cursor) THEN Terminators(job) ELSE <<>>
              Op(r) == Went([r.job EXCEPT !.cursor = cursor, !.headerDone = TRUE, !.finished = IsDone(cursor)],
                            head \o r.out \o foot(r.job), n, IsDone(cursor))
  <2>1. st = IF j.finished THEN Done(j) ELSE IF ~IsClean(data) THEN Failed(j)
             ELSE CHOOSE r \in {Op(v) : v \in {records}} : TRUE
    BY DEF RecordsStep, With
  <2>2. Op(records) = Went(after, head \o records.out \o foot(records.job), n, done)
    OBVIOUS
  <2>. HIDE DEF Op, records, n, cursor
  <2>3. (CHOOSE r \in {Op(v) : v \in {records}} : TRUE) = Op(records)
    OBVIOUS
  <2>. DEFINE all == head \o records.out \o foot(records.job)
  <2>4. Op(records) = Went(after, all, n, done)
    BY <2>2
  <2>. HIDE DEF all, after, data, done
  <2>5. QED
    BY <2>1, <2>3, <2>4
<1>. HIDE DEF n, cursor, done, data
<1>5. {"kind", "cursor", "recLen"} \subseteq DOMAIN records.job /\ records.job.kind = j.kind /\ records.job.recLen = j.recLen
  BY <1>1, <1>3, RecordsFromKeeps
<1>. DEFINE k == records.job
<1>6. after = [k EXCEPT !.cursor = cursor, !.headerDone = TRUE, !.finished = done]
  OBVIOUS
<1>7. {"kind", "cursor", "recLen"} \subseteq DOMAIN k /\ k.kind = j.kind /\ k.recLen = j.recLen
  BY <1>5
<1>. HIDE DEF k, records, after
<1>8. /\ {"kind", "cursor", "recLen"} \subseteq DOMAIN after /\ after.cursor = cursor
      /\ after.kind = j.kind /\ after.recLen = j.recLen
  BY <1>6, <1>7
<1>9. RecordJob(after)
  BY <1>1, <1>2, <1>8 DEF RecordJob, CursorJob
<1>10. QED
  BY <1>2, <1>4, <1>9 DEF Done, Went, Failed

\* One more step of the job of a panel, whatever its kind.
LEMMA StepOfKeeps ==
  ASSUME WorkTyped, NEW p \in Panels, turn.panel = p, NEW fault
  PROVE  StepKeeps(runner[p].job, StepOf(p, fault), DOMAIN files)
<1>. DEFINE j == runner[p].job
            doc == tabs[runner[p].tab]
            budget == turn.left
            written(st) == IF fault > 0 THEN Failed(j) ELSE st
            data == [f \in DOMAIN files |-> files[f].data]
            paths == DOMAIN files
            st0 == StepOf(p, fault)
<1>1. budget \in Nat /\ Busy(p) /\ runner[p].tab <= Len(tabs) /\ runner[p].tab \in Nat
        /\ (j.kind # "Concat" => runner[p].tab >= 1)
  BY DEF WorkTyped, TurnTyped, RunnerTyped
<1>2. j.kind # "Concat" => doc \in Seq(Nat)
  BY <1>1 DEF WorkTyped, TabsTyped
<1>3. \A f \in paths \ {"out"} : data[f] \in Seq(Nat)
  BY DEF WorkTyped, FilesTyped
<1>4. st0 = CASE j.kind = "Digest" -> DigestStep(j, doc, budget)
              [] j.kind = "Strings" -> StringsStep(j, doc, budget)
              [] j.kind = "Stats" -> StatsStep(j, doc, budget)
              [] j.kind = "Magic" -> MagicStep(j, doc, budget)
              [] j.kind = "Export" -> written(ExportStep(j, doc, budget))
              [] j.kind = "Record" -> written(RecordsStep(j, doc, budget))
              [] j.kind = "Split" -> SplitStep(j, doc, budget, fault)
              [] j.kind = "Concat" -> JoinStep(j, data, budget, fault > 0)
  BY DEF StepOf
<1>5. \/ AnalysisJob(j) \/ ExportJob(j) \/ RecordJob(j) \/ SplitJob(j) \/ JoinJob(j, paths)
  BY <1>1 DEF WorkTyped, RunnerTyped, ToolJob, Panels
<1>. HIDE DEF j, doc, budget, data, paths
<1>6. CASE AnalysisJob(j)
  <2>1. j.kind \in AnalysisKinds /\ j.kind # "Split"
    BY <1>6 DEF AnalysisJob, AnalysisKinds
  <2>2. \/ j.kind = "Digest" /\ st0 = DigestStep(j, doc, budget)
        \/ j.kind = "Strings" /\ st0 = StringsStep(j, doc, budget)
        \/ j.kind = "Stats" /\ st0 = StatsStep(j, doc, budget)
        \/ j.kind = "Magic" /\ st0 = MagicStep(j, doc, budget)
    <3>. HIDE DEF st0, written
    <3>1. QED
      BY <1>4, <2>1 DEF AnalysisKinds
  <2>. HIDE DEF st0
  <2>3. doc \in Seq(Nat)
    BY <1>2, <2>1 DEF AnalysisKinds
  <2>4. st0.kind = "Went" => st0.scanned \in Int /\ AnalysisJob(st0.job) /\ SameRange(j, st0.job)
    BY <1>1, <1>6, <2>2, <2>3, AnalysisStepKeeps
  <2>5. StepKeeps(j, st0, paths)
    BY <2>1, <2>4 DEF StepKeeps
  <2>6. QED
    BY <2>5 DEF j, st0, paths
<1>7. CASE ExportJob(j)
  <2>1. j.kind = "Export" /\ j.kind \notin AnalysisKinds /\ doc \in Seq(Nat)
    BY <1>2, <1>7 DEF ExportJob, AnalysisKinds
  <2>. DEFINE s == ExportStep(j, doc, budget)
  <2>2. st0 = IF fault > 0 THEN Failed(j) ELSE s
    <3>. HIDE DEF st0, s
    <3>1. QED
      BY <1>4, <2>1 DEF s
  <2>3. /\ s.kind = "Went" => s.scanned \in Int /\ ExportJob(s.job)
        /\ s.kind = "Failed" => s.job = j
    BY <1>1, <1>7, <2>1, ExportStepKeeps
  <2>. HIDE DEF st0, s
  <2>4. /\ st0.kind = "Went" => st0.scanned \in Int /\ ExportJob(st0.job)
        /\ st0.kind = "Failed" => st0.job = j
    BY <2>2, <2>3 DEF Failed
  <2>5. StepKeeps(j, st0, paths)
    BY <2>1, <2>4 DEF StepKeeps, ToolJob, ExportJob
  <2>6. QED
    BY <2>5 DEF j, st0, paths
<1>8. CASE RecordJob(j)
  <2>1. j.kind = "Record" /\ j.kind \notin AnalysisKinds /\ doc \in Seq(Nat)
    BY <1>2, <1>8 DEF RecordJob, AnalysisKinds
  <2>. DEFINE s == RecordsStep(j, doc, budget)
  <2>2. st0 = IF fault > 0 THEN Failed(j) ELSE s
    <3>. HIDE DEF st0, s
    <3>1. QED
      BY <1>4, <2>1 DEF s
  <2>3. /\ s.kind = "Went" => s.scanned \in Int /\ RecordJob(s.job)
        /\ s.kind = "Failed" => s.job = j
    BY <1>1, <1>8, <2>1, RecordsStepKeeps
  <2>. HIDE DEF st0, s
  <2>4. /\ st0.kind = "Went" => st0.scanned \in Int /\ RecordJob(st0.job)
        /\ st0.kind = "Failed" => st0.job = j
    BY <2>2, <2>3 DEF Failed
  <2>5. StepKeeps(j, st0, paths)
    BY <2>1, <2>4 DEF StepKeeps, ToolJob, RecordJob
  <2>6. QED
    BY <2>5 DEF j, st0, paths
<1>9. CASE SplitJob(j)
  <2>1. j.kind = "Split" /\ j.kind \notin AnalysisKinds /\ doc \in Seq(Nat)
    BY <1>2, <1>9 DEF SplitJob, SplitJobs, AnalysisKinds
  <2>2. st0 = SplitStep(j, doc, budget, fault)
    <3>. HIDE DEF st0, written
    <3>1. QED
      BY <1>4, <2>1
  <2>. HIDE DEF st0
  <2>3. /\ SplitJob(st0.job) /\ st0.job.written >= j.written
        /\ st0.kind = "Went" => /\ st0.out \in Seq(Seq(Nat)) /\ st0.job.written = j.written + Len(st0.out)
                               /\ st0.scanned \in Int
    BY <1>1, <1>9, <2>1, <2>2, SplitStepKeeps
  <2>4. st0.job.kind = "Split"
    BY <2>3 DEF SplitJob, SplitJobs
  <2>5. StepKeeps(j, st0, paths)
    BY <1>9, <2>1, <2>3, <2>4 DEF StepKeeps, ToolJob
  <2>6. QED
    BY <2>5 DEF j, st0, paths
<1>10. CASE JoinJob(j, paths)
  <2>1. j.kind = "Concat" /\ j.kind \notin AnalysisKinds /\ j.kind # "Split"
    BY <1>10 DEF JoinJob, AnalysisKinds
  <2>. DEFINE fails == fault > 0
  <2>2. st0 = JoinStep(j, data, budget, fails)
    <3>. HIDE DEF st0, written
    <3>1. QED
      BY <1>4, <2>1
  <2>. HIDE DEF fails
  <2>3. JoinJob(st0.job, paths) /\ (st0.kind = "Went" => st0.scanned \in Int)
    <3>. HIDE DEF st0
    <3>1. QED
      BY <1>1, <1>3, <1>10, <2>2, JoinStepKeeps
  <2>4. st0.kind = "Failed" => st0.job = j
    <3>. DEFINE Op(acc) == Went(acc.job, <<>>, Len(acc.job.written) - Len(j.written), JoinFinished(acc.job))
                left == Least(Most(budget, 1), WINDOW)
                acc0 == Repeat(LAMBDA acc, i : JoinRead(acc, data), [job |-> j, left |-> left], left + Len(j.inputs))
    <3>1. st0 = IF JoinFinished(j) THEN Done(j) ELSE IF fails THEN Failed(j)
               ELSE CHOOSE r \in {Op(v) : v \in {acc0}} : TRUE
      BY <2>2 DEF JoinStep, With
    <3>2. \A v : Op(v).kind = "Went"
      BY DEF Went
    <3>. HIDE DEF Op, acc0, st0
    <3>3. (CHOOSE r \in {Op(v) : v \in {acc0}} : TRUE) = Op(acc0)
      OBVIOUS
    <3>4. QED
      BY <3>1, <3>2, <3>3 DEF Done, Went, Failed
  <2>. HIDE DEF st0
  <2>5. st0.job.kind = "Concat"
    BY <2>3 DEF JoinJob
  <2>6. StepKeeps(j, st0, paths)
    BY <2>1, <2>3, <2>4, <2>5 DEF StepKeeps, ToolJob
  <2>7. QED
    BY <2>6 DEF j, st0, paths
<1>11. QED
  BY <1>5, <1>6, <1>7, <1>8, <1>9, <1>10

-----------------------------------------------------------------------------
(* What a job has on the disk. *)

\* The parts that a document has reach over it: no part begins past its end.
LEMMA PartsReach ==
  ASSUME NEW len \in Nat \ {0}, NEW size \in Nat \ {0}
  PROVE  /\ PartsOf(len, size) \in Nat
         /\ \A k \in Nat : k * size < len => k <= PartsOf(len, size)
<1>. DEFINE a == len + size - 1
            q == a \div size
<1>1. a \in Nat /\ q \in Nat
  OBVIOUS
<1>2. a < (q + 1) * size
  OBVIOUS
<1>3. ASSUME NEW k \in Nat, k * size < len PROVE k <= q
  <2>1. SUFFICES ASSUME k >= q + 1 PROVE FALSE
    <3>. HIDE DEF q
    <3>1. QED
      BY <1>1, <1>3
  <2>2. k * size >= (q + 1) * size
    <3>. HIDE DEF q
    <3>1. PICK d \in Nat : k = (q + 1) + d
      <4>1. k - (q + 1) \in Nat /\ k = (q + 1) + (k - (q + 1))
        BY <1>1, <1>3, <2>1
      <4>2. QED
        BY <4>1
    <3>2. k * size = (q + 1) * size + d * size /\ d * size \in Nat
      BY <1>1, <3>1
    <3>. DEFINE x == k * size
                y == (q + 1) * size
                z == d * size
    <3>3. x = y + z /\ z \in Nat /\ y \in Nat
      BY <1>1, <3>2
    <3>. HIDE DEF x, y, z
    <3>4. x >= y
      BY <3>3
    <3>5. QED
      BY <3>4 DEF x, y
  <2>. DEFINE x == k * size
              y == (q + 1) * size
  <2>3. x >= y /\ x < len /\ a < y /\ x \in Nat /\ y \in Nat
    BY <1>1, <1>2, <1>3, <2>2
  <2>. HIDE DEF x, y, q
  <2>4. QED
    BY <2>3
<1>. HIDE DEF q
<1>4. QED
  BY <1>1, <1>3 DEF PartsOf, q

\* There are at most MAX_PARTS parts, each of which has a name.
LEMMA PartsHaveNames ==
  ASSUME NEW j, SplitJob(j)
  PROVE  j.written \in Nat /\ j.written <= MAX_PARTS
<1>. DEFINE parts == PartsOf(j.docLen, j.partSize)
<1>1. parts \in Nat /\ parts <= MAX_PARTS
  BY PartsReach DEF SplitJob, SplitJobs
<1>2. CASE j.pos < j.docLen
  <2>1. j.written * j.partSize < j.docLen
    <3>. DEFINE x == j.written * j.partSize
    <3>1. x + j.filled = j.pos /\ x \in Nat
      BY <1>2 DEF SplitJob, SplitJobs, SplitPlace
    <3>. HIDE DEF x
    <3>2. x < j.docLen
      BY <1>2, <3>1 DEF SplitJob, SplitJobs
    <3>3. QED
      BY <3>2 DEF x
  <2>2. j.written <= parts
    BY <2>1, PartsReach DEF SplitJob, SplitJobs
  <2>. HIDE DEF parts
  <2>3. QED
    BY <1>1, <2>2, WorkbenchAssumption DEF SplitJob, SplitJobs
<1>3. CASE ~(j.pos < j.docLen)
  <2>1. j.written = parts
    BY <1>3 DEF SplitJob, SplitJobs, SplitPlace
  <2>. HIDE DEF parts
  <2>2. QED
    BY <1>1, <2>1
<1>4. QED
  BY <1>2, <1>3

\* What a job may have on the disk is what its kind names: the parts of a split
\* have names, since there are at most MAX_PARTS of them.
LEMMA OutputsAreOwn ==
  ASSUME NEW j, NEW paths, ToolJob(j, paths), NEW goal, goal.kind = j.kind
  PROVE  OutputsOf(j) \subseteq OwnOutputs(goal)
<1>1. CASE j.kind \in {"Export", "Record"}
  BY <1>1 DEF OutputsOf, OwnOutputs
<1>2. CASE j.kind = "Split"
  <2>1. SplitJob(j)
    BY <1>2 DEF ToolJob, ExportJob, RecordJob, JoinJob
  <2>2. j.written \in Nat /\ j.written <= MAX_PARTS
    BY <2>1, PartsHaveNames
  <2>3. \A k \in 1 .. j.written : PartNames[k] \in ToSet(PartNames)
    <3>1. \A k \in 1 .. j.written : k \in DOMAIN PartNames
      BY <2>2, WorkbenchAssumption
    <3>2. QED
      BY <3>1 DEF ToSet
  <2>4. QED
    BY <1>2, <2>3 DEF OutputsOf, OwnOutputs
<1>3. CASE j.kind \notin {"Export", "Record", "Split"}
  BY <1>3 DEF OutputsOf
<1>4. QED
  BY <1>1, <1>2, <1>3

\* Only the tools panel writes files: what does not touch its job, nor the disk,
\* keeps both properties of the outputs.
LEMMA UndisturbedKeeps ==
  ASSUME OnlyItsOutputs, NothingHalfWritten, files' = files, abandoned \subseteq abandoned',
         runner'["Tools"].job = runner["Tools"].job, runner'["Tools"].goal = runner["Tools"].goal,
         runner'["Tools"].status = runner["Tools"].status
  PROVE  OnlyItsOutputs' /\ NothingHalfWritten'
<1>1. Busy("Tools")' <=> Busy("Tools")
  BY DEF Busy
<1>2. OnlyItsOutputs'
  BY <1>1 DEF OnlyItsOutputs
<1>3. NothingHalfWritten'
  BY <1>1 DEF NothingHalfWritten
<1>4. QED
  BY <1>2, <1>3

\* A job of the tools panel is one.
LEMMA ToolIsBusy ==
  ASSUME NEW j, NEW paths, ToolJob(j, paths) \/ AnalysisJob(j)
  PROVE  /\ j # NoJob /\ j.kind \in {"Export", "Record", "Split", "Concat"} \cup AnalysisKinds
         /\ ToolJob(j, paths) => j.kind \notin AnalysisKinds
         /\ AnalysisJob(j) => j.kind \in AnalysisKinds
<1>1. NoJob.kind = "None"
  BY DEF NoJob
<1>2. j.kind \in {"Export", "Record", "Split", "Concat"} \cup AnalysisKinds
  BY DEF ToolJob, AnalysisJob, ExportJob, RecordJob, SplitJob, SplitJobs, JoinJob, AnalysisKinds
<1>3. ToolJob(j, paths) => j.kind \notin AnalysisKinds
  BY DEF ToolJob, ExportJob, RecordJob, SplitJob, SplitJobs, JoinJob, AnalysisKinds
<1>4. AnalysisJob(j) => j.kind \in AnalysisKinds
  BY DEF AnalysisJob
<1>5. j # NoJob
  BY <1>1, <1>2 DEF AnalysisKinds
<1>6. QED
  BY <1>2, <1>3, <1>4, <1>5

-----------------------------------------------------------------------------
(* How the runner of a panel changes. *)

\* What becomes of a runner.
Left(r, x, s) == [r EXCEPT !.job = x, !.status = s]
GoneOn(r, x, f) == [r EXCEPT !.job = x, !.found = f]
Told(r, x, s, f, w) == [r EXCEPT !.job = x, !.status = s, !.found = f, !.shown = w]
CancelledAs(r, x) == [r EXCEPT !.cancelled = x]
TouchedAs(r, x) == [r EXCEPT !.touched = x]

\* A runner stays a record: a job that goes, with a status.
LEMMA LeftIs ==
  ASSUME NEW r, IsRunner(r), NEW x, NEW s
  PROVE  /\ IsRunner(Left(r, x, s))
         /\ Left(r, x, s).job = x
         /\ Left(r, x, s).status = s
         /\ Left(r, x, s).goal = r.goal
         /\ Left(r, x, s).tab = r.tab
         /\ Left(r, x, s).shown = r.shown
         /\ Left(r, x, s).touched = r.touched
<1>. DEFINE e1 == [job |-> x, tab |-> r.tab, cancelled |-> r.cancelled, status |-> r.status, found |-> r.found,
                   shown |-> r.shown, goal |-> r.goal, touched |-> r.touched]
            e2 == [job |-> x, tab |-> r.tab, cancelled |-> r.cancelled, status |-> s, found |-> r.found,
                   shown |-> r.shown, goal |-> r.goal, touched |-> r.touched]
<1>1. [r EXCEPT !.job = x] = e1
  BY DEF IsRunner
<1>2. [e1 EXCEPT !.status = s] = e2
  OBVIOUS
<1>3. Left(r, x, s) = e2
  <2>. HIDE DEF e1, e2
  <2>1. QED
    BY <1>1, <1>2 DEF Left
<1>4. QED
  BY <1>3 DEF IsRunner

\* A runner stays a record: a job that goes on, with the list so far.
LEMMA GoneOnIs ==
  ASSUME NEW r, IsRunner(r), NEW x, NEW f
  PROVE  /\ IsRunner(GoneOn(r, x, f))
         /\ GoneOn(r, x, f).job = x
         /\ GoneOn(r, x, f).status = r.status
         /\ GoneOn(r, x, f).goal = r.goal
         /\ GoneOn(r, x, f).tab = r.tab
         /\ GoneOn(r, x, f).shown = r.shown
         /\ GoneOn(r, x, f).touched = r.touched
<1>. DEFINE e1 == [job |-> x, tab |-> r.tab, cancelled |-> r.cancelled, status |-> r.status, found |-> r.found,
                   shown |-> r.shown, goal |-> r.goal, touched |-> r.touched]
            e2 == [job |-> x, tab |-> r.tab, cancelled |-> r.cancelled, status |-> r.status, found |-> f,
                   shown |-> r.shown, goal |-> r.goal, touched |-> r.touched]
<1>1. [r EXCEPT !.job = x] = e1
  BY DEF IsRunner
<1>2. [e1 EXCEPT !.found = f] = e2
  OBVIOUS
<1>3. GoneOn(r, x, f) = e2
  <2>. HIDE DEF e1, e2
  <2>1. QED
    BY <1>1, <1>2 DEF GoneOn
<1>4. QED
  BY <1>3 DEF IsRunner

\* A runner stays a record: a job that ends, with its result.
LEMMA ToldIs ==
  ASSUME NEW r, IsRunner(r), NEW x, NEW s, NEW f, NEW w
  PROVE  /\ IsRunner(Told(r, x, s, f, w))
         /\ Told(r, x, s, f, w).job = x
         /\ Told(r, x, s, f, w).status = s
         /\ Told(r, x, s, f, w).goal = r.goal
         /\ Told(r, x, s, f, w).tab = r.tab
         /\ Told(r, x, s, f, w).shown = w
         /\ Told(r, x, s, f, w).touched = r.touched
<1>. DEFINE e1 == [job |-> x, tab |-> r.tab, cancelled |-> r.cancelled, status |-> r.status, found |-> r.found,
                   shown |-> r.shown, goal |-> r.goal, touched |-> r.touched]
            e2 == [job |-> x, tab |-> r.tab, cancelled |-> r.cancelled, status |-> s, found |-> r.found,
                   shown |-> r.shown, goal |-> r.goal, touched |-> r.touched]
            e3 == [job |-> x, tab |-> r.tab, cancelled |-> r.cancelled, status |-> s, found |-> f,
                   shown |-> r.shown, goal |-> r.goal, touched |-> r.touched]
            e4 == [job |-> x, tab |-> r.tab, cancelled |-> r.cancelled, status |-> s, found |-> f, shown |-> w,
                   goal |-> r.goal, touched |-> r.touched]
<1>1. [r EXCEPT !.job = x] = e1
  BY DEF IsRunner
<1>2. [e1 EXCEPT !.status = s] = e2
  OBVIOUS
<1>3. [e2 EXCEPT !.found = f] = e3
  OBVIOUS
<1>4. [e3 EXCEPT !.shown = w] = e4
  OBVIOUS
<1>5. Told(r, x, s, f, w) = e4
  <2>. HIDE DEF e1, e2, e3, e4
  <2>1. QED
    BY <1>1, <1>2, <1>3, <1>4 DEF Told
<1>6. QED
  BY <1>5 DEF IsRunner

\* A runner stays a record: a job that is cancelled.
LEMMA CancelledAsIs ==
  ASSUME NEW r, IsRunner(r), NEW x
  PROVE  /\ IsRunner(CancelledAs(r, x))
         /\ CancelledAs(r, x).job = r.job
         /\ CancelledAs(r, x).status = r.status
         /\ CancelledAs(r, x).goal = r.goal
         /\ CancelledAs(r, x).tab = r.tab
         /\ CancelledAs(r, x).shown = r.shown
         /\ CancelledAs(r, x).touched = r.touched
<1>. DEFINE e1 == [job |-> r.job, tab |-> r.tab, cancelled |-> x, status |-> r.status, found |-> r.found,
                   shown |-> r.shown, goal |-> r.goal, touched |-> r.touched]
<1>1. [r EXCEPT !.cancelled = x] = e1
  BY DEF IsRunner
<1>2. CancelledAs(r, x) = e1
  <2>. HIDE DEF e1
  <2>1. QED
    BY <1>1 DEF CancelledAs
<1>3. QED
  BY <1>2 DEF IsRunner

\* A runner stays a record: a job whose tab changed.
LEMMA TouchedAsIs ==
  ASSUME NEW r, IsRunner(r), NEW x
  PROVE  /\ IsRunner(TouchedAs(r, x))
         /\ TouchedAs(r, x).job = r.job
         /\ TouchedAs(r, x).status = r.status
         /\ TouchedAs(r, x).goal = r.goal
         /\ TouchedAs(r, x).tab = r.tab
         /\ TouchedAs(r, x).shown = r.shown
         /\ TouchedAs(r, x).touched = x
<1>. DEFINE e1 == [job |-> r.job, tab |-> r.tab, cancelled |-> r.cancelled, status |-> r.status,
                   found |-> r.found, shown |-> r.shown, goal |-> r.goal, touched |-> x]
<1>1. [r EXCEPT !.touched = x] = e1
  BY DEF IsRunner
<1>2. TouchedAs(r, x) = e1
  <2>. HIDE DEF e1
  <2>1. QED
    BY <1>1 DEF TouchedAs
<1>3. QED
  BY <1>2 DEF IsRunner

-----------------------------------------------------------------------------
(* A job that starts. *)

\* A split that is allowed begins with no part.
LEMMA NewSplitIs ==
  ASSUME NEW len \in Nat, NEW size \in Nat, SplitAllowed(len, size), NEW paths
  PROVE  ToolJob(NewSplit(len, size), paths)
<1>. DEFINE j == NewSplit(len, size)
<1>1. size \in Nat \ {0} /\ len \in Nat \ {0} /\ PartsOf(len, size) <= MAX_PARTS
  BY DEF SplitAllowed
<1>2. j \in SplitJobs /\ j.pos = 0 /\ j.docLen = len /\ j.partSize = size /\ j.filled = 0 /\ j.written = 0
  BY <1>1 DEF NewSplit, SplitJobs
<1>. HIDE DEF j
<1>3. SplitPlace(j)
  <2>1. 0 * size + 0 = 0
    BY <1>1
  <2>2. QED
    BY <1>1, <1>2, <2>1 DEF SplitPlace
<1>4. SplitJob(j)
  BY <1>1, <1>2, <1>3 DEF SplitJob
<1>5. QED
  BY <1>4 DEF ToolJob, j

\* The output of a join that is allowed is none of its inputs.
LEMMA NewJoinIs ==
  ASSUME NEW paths, NEW inputs \in Seq(paths), JoinAllowed(inputs, "out")
  PROVE  ToolJob(NewJoin(inputs), paths)
<1>1. \A i \in 1 .. Len(inputs) : inputs[i] \in paths \ {"out"}
  BY DEF JoinAllowed
<1>2. Len(inputs) \in Nat /\ inputs = [i \in 1 .. Len(inputs) |-> inputs[i]]
  OBVIOUS
<1>3. inputs \in Seq(paths \ {"out"})
  BY <1>1, <1>2
<1>4. NewJoin(inputs) \in [kind : {"Concat"}, inputs : Seq(paths \ {"out"}), index : Nat \ {0}, pos : Nat, written : Seq(Nat)]
  BY <1>3 DEF NewJoin
<1>5. NewJoin(inputs).index = 1 /\ NewJoin(inputs).inputs = inputs
  BY DEF NewJoin
<1>6. JoinJob(NewJoin(inputs), paths)
  BY <1>2, <1>4, <1>5 DEF JoinJob
<1>7. QED
  BY <1>6 DEF ToolJob

\* A text begins with the cursor at the start of its range.
LEMMA NewTextsAre ==
  ASSUME NEW lo \in Nat, NEW hi \in Nat, NEW len \in Nat, NEW paths
  PROVE  /\ \A fmt, offset : \A cols \in Nat : ToolJob(NewExport(fmt, cols, offset, lo, hi, len), paths)
         /\ \A fmt, base : \A recLen \in Nat : ToolJob(NewRecords(fmt, lo, hi, base, recLen, len), paths)
<1>1. CursorOver(lo, hi, len, EXPORT_WINDOW) \in Cursors /\ CursorOver(lo, hi, len, RECORD_WINDOW) \in Cursors
  <2>1. EXPORT_WINDOW \in Nat \ {0} /\ RECORD_WINDOW \in Nat \ {0}
    BY WorkbenchAssumption
  <2>2. QED
    BY <2>1, CursorIs
<1>2. ASSUME NEW fmt, NEW offset, NEW cols \in Nat PROVE ToolJob(NewExport(fmt, cols, offset, lo, hi, len), paths)
  <2>1. Most(cols, 1) \in Nat \ {0}
    BY DEF Most
  <2>2. QED
    BY <1>1, <2>1 DEF ToolJob, ExportJob, CursorJob, NewExport
<1>3. ASSUME NEW fmt, NEW base, NEW recLen \in Nat PROVE ToolJob(NewRecords(fmt, lo, hi, base, recLen, len), paths)
  <2>1. Least(Most(recLen, 1), MAX_REC_LEN) \in Nat \ {0}
    BY WorkbenchAssumption DEF Most, Least
  <2>2. QED
    BY <1>1, <2>1 DEF ToolJob, RecordJob, CursorJob, NewRecords
<1>4. QED
  BY <1>2, <1>3

\* An analysis begins with the cursor at the start of its range.
LEMMA NewAnalysisIs ==
  ASSUME NEW ask, ask.kind \in AnalysisKinds, NEW doc \in Seq(Nat), NEW lo \in Nat, NEW hi \in Nat
  PROVE  AnalysisJob(AnalysisOf(ask, doc, <<lo, hi>>))
<1>1. \A a \in Nat, b \in Nat : CursorOver(a, b, Len(doc), WINDOW) \in Cursors
  BY CursorIs, WindowAssumption
<1>2. CASE ask.kind = "Digest"
  <2>. DEFINE job == NewDigest(ask.algos, lo, hi, Len(doc))
  <2>1. AnalysisOf(ask, doc, <<lo, hi>>) = job
    BY <1>2 DEF AnalysisOf
  <2>2. {"kind", "cursor"} \subseteq DOMAIN job /\ job.kind = "Digest" /\ job.cursor = CursorOver(lo, hi, Len(doc), WINDOW)
    BY DEF NewDigest
  <2>. HIDE DEF job
  <2>3. job.cursor \in Cursors
    BY <1>1, <2>2
  <2>4. QED
    BY <2>1, <2>2, <2>3 DEF AnalysisJob, CursorJob, AnalysisKinds
<1>3. CASE ask.kind = "Strings"
  <2>. DEFINE job == NewStrings(ask.encodings, ask.minChars, 0, Len(doc), Len(doc))
  <2>1. AnalysisOf(ask, doc, <<lo, hi>>) = job
    BY <1>3 DEF AnalysisOf
  <2>2. {"kind", "cursor"} \subseteq DOMAIN job /\ job.kind = "Strings" /\ job.cursor = CursorOver(0, Len(doc), Len(doc), WINDOW)
    BY DEF NewStrings
  <2>. HIDE DEF job
  <2>3. job.cursor \in Cursors
    BY <1>1, <2>2
  <2>4. QED
    BY <2>1, <2>2, <2>3 DEF AnalysisJob, CursorJob, AnalysisKinds
<1>4. CASE ask.kind = "Stats"
  <2>. DEFINE job == NewStats(0, Len(doc), Len(doc), ask.blockSize)
  <2>1. AnalysisOf(ask, doc, <<lo, hi>>) = job
    BY <1>4 DEF AnalysisOf
  <2>2. {"kind", "cursor"} \subseteq DOMAIN job /\ job.kind = "Stats" /\ job.cursor = CursorOver(0, Len(doc), Len(doc), WINDOW)
    BY DEF NewStats
  <2>. HIDE DEF job
  <2>3. job.cursor \in Cursors
    BY <1>1, <2>2
  <2>4. QED
    BY <2>1, <2>2, <2>3 DEF AnalysisJob, CursorJob, AnalysisKinds
<1>5. CASE ask.kind = "Magic"
  <2>. DEFINE job == NewMagic(0, Len(doc), Len(doc))
  <2>1. AnalysisOf(ask, doc, <<lo, hi>>) = job
    BY <1>5 DEF AnalysisOf
  <2>2. {"kind", "cursor"} \subseteq DOMAIN job /\ job.kind = "Magic" /\ job.cursor = CursorOver(0, Len(doc), Len(doc), WINDOW)
    BY DEF NewMagic
  <2>. HIDE DEF job
  <2>3. job.cursor \in Cursors
    BY <1>1, <2>2
  <2>4. QED
    BY <2>1, <2>2, <2>3 DEF AnalysisJob, CursorJob, AnalysisKinds
<1>6. QED
  BY <1>2, <1>3, <1>4, <1>5 DEF AnalysisKinds

-----------------------------------------------------------------------------
(* The actions of the two panels that write. *)

\* The runner of one panel changes, the other stays.
LEMMA RunnerTakes ==
  ASSUME NEW p \in Panels, RunnerTyped, NEW r, IsRunner(r), runner' = [runner EXCEPT ![p] = r]
  PROVE  /\ runner' = [q \in Panels |-> runner'[q]]
         /\ \A q \in Panels : IsRunner(runner'[q])
         /\ runner'[p] = r
         /\ \A q \in Panels \ {p} : runner'[q] = runner[q]
<1>1. runner = [q \in Panels |-> runner[q]] /\ \A q \in Panels : IsRunner(runner[q])
  BY DEF RunnerTyped
<1>2. runner' = [q \in Panels |-> IF q = p THEN r ELSE runner[q]]
  BY <1>1
<1>3. QED
  BY <1>1, <1>2

\* A panel whose job is gone.
LEMMA LetGoKeeps ==
  ASSUME NEW p \in Panels, RunnerTyped, NEW r, IsRunner(r), r.job = NoJob, runner' = [runner EXCEPT ![p] = r],
         DOMAIN files' = DOMAIN files
  PROVE  /\ RunnerTyped' /\ ~Busy(p)' /\ runner'[p] = r /\ \A q \in Panels \ {p} : runner'[q] = runner[q]
<1>1. /\ runner' = [q \in Panels |-> runner'[q]]
      /\ \A q \in Panels : IsRunner(runner'[q])
      /\ runner'[p] = r
      /\ \A q \in Panels \ {p} : runner'[q] = runner[q]
  BY RunnerTakes
<1>2. ~Busy(p)' /\ \A q \in Panels \ {p} : Busy(q)' <=> Busy(q)
  BY <1>1 DEF Busy
<1>3. RunnerTyped'
  <2>1. \A q \in Panels : Busy(q)' => q # p /\ Busy(q) /\ runner'[q] = runner[q]
    BY <1>1, <1>2
  <2>2. "Analyze" \in Panels /\ "Tools" \in Panels
    BY DEF Panels
  <2>3. \A q \in Panels : Busy(q)' => runner'[q].tab \in Nat /\ (runner'[q].job.kind # "Concat" => runner'[q].tab >= 1)
    BY <2>1 DEF RunnerTyped
  <2>4. Busy("Analyze")' => AnalysisJob(runner'["Analyze"].job)
    BY <2>1, <2>2 DEF RunnerTyped
  <2>5. Busy("Tools")' => /\ ToolJob(runner'["Tools"].job, DOMAIN files')
                          /\ runner'["Tools"].goal.kind = runner'["Tools"].job.kind
    BY <2>1, <2>2 DEF RunnerTyped
  <2>6. QED
    BY <1>1, <2>3, <2>4, <2>5 DEF RunnerTyped
<1>4. QED
  BY <1>1, <1>2, <1>3

\* A panel whose job goes on or begins.
LEMMA JobKeeps ==
  ASSUME NEW p \in Panels, RunnerTyped, NEW r, IsRunner(r), runner' = [runner EXCEPT ![p] = r],
         DOMAIN files' = DOMAIN files, r.tab \in Nat, r.job.kind # "Concat" => r.tab >= 1,
         p = "Analyze" => AnalysisJob(r.job),
         p = "Tools" => ToolJob(r.job, DOMAIN files) /\ r.goal.kind = r.job.kind
  PROVE  /\ RunnerTyped' /\ Busy(p)' /\ runner'[p] = r /\ \A q \in Panels \ {p} : runner'[q] = runner[q]
<1>1. /\ runner' = [q \in Panels |-> runner'[q]]
      /\ \A q \in Panels : IsRunner(runner'[q])
      /\ runner'[p] = r
      /\ \A q \in Panels \ {p} : runner'[q] = runner[q]
  BY RunnerTakes
<1>2. \A q \in Panels \ {p} : Busy(q)' <=> Busy(q)
  BY <1>1 DEF Busy
<1>3. r.job # NoJob
  BY ToolIsBusy DEF Panels
<1>4. Busy(p)'
  BY <1>1, <1>3 DEF Busy
<1>5. RunnerTyped'
  <2>1. \A q \in Panels : q # p /\ Busy(q)' => Busy(q) /\ runner'[q] = runner[q]
    BY <1>1, <1>2
  <2>2. "Analyze" \in Panels /\ "Tools" \in Panels
    BY DEF Panels
  <2>3. \A q \in Panels : Busy(q)' => runner'[q].tab \in Nat /\ (runner'[q].job.kind # "Concat" => runner'[q].tab >= 1)
    BY <1>1, <2>1 DEF RunnerTyped
  <2>4. Busy("Analyze")' => AnalysisJob(runner'["Analyze"].job)
    BY <1>1, <2>1, <2>2 DEF RunnerTyped
  <2>5. Busy("Tools")' => /\ ToolJob(runner'["Tools"].job, DOMAIN files')
                          /\ runner'["Tools"].goal.kind = runner'["Tools"].job.kind
    BY <1>1, <2>1, <2>2 DEF RunnerTyped
  <2>6. QED
    BY <1>1, <2>3, <2>4, <2>5 DEF RunnerTyped
<1>6. QED
  BY <1>1, <1>4, <1>5

\* What a job that starts leaves in its runner.
LEMMA StartedIs ==
  ASSUME NEW job, NEW tab, NEW goal
  PROVE  [IdleRunner EXCEPT !.job = job, !.tab = tab, !.status = "processing", !.goal = goal] =
           [job |-> job, tab |-> tab, cancelled |-> FALSE, status |-> "processing", found |-> <<>>,
            shown |-> Nothing, goal |-> goal, touched |-> FALSE]
<1>1. IsRunner(IdleRunner)
  BY DEF IdleRunner, IsRunner
<1>2. IdleRunner.cancelled = FALSE /\ IdleRunner.found = <<>> /\ IdleRunner.shown = Nothing /\ IdleRunner.touched = FALSE
  BY DEF IdleRunner
<1>. DEFINE s == "processing"
            r == IdleRunner
<1>3. IsRunner(r) /\ r.cancelled = FALSE /\ r.found = <<>> /\ r.shown = Nothing /\ r.touched = FALSE
  BY <1>1, <1>2
<1>. DEFINE e1 == [job |-> job, tab |-> r.tab, cancelled |-> r.cancelled, status |-> r.status, found |-> r.found,
                     shown |-> r.shown, goal |-> r.goal, touched |-> r.touched]
            e2 == [job |-> job, tab |-> tab, cancelled |-> r.cancelled, status |-> r.status, found |-> r.found,
                     shown |-> r.shown, goal |-> r.goal, touched |-> r.touched]
            e3 == [job |-> job, tab |-> tab, cancelled |-> r.cancelled, status |-> s, found |-> r.found,
                     shown |-> r.shown, goal |-> r.goal, touched |-> r.touched]
            e4 == [job |-> job, tab |-> tab, cancelled |-> r.cancelled, status |-> s, found |-> r.found,
                     shown |-> r.shown, goal |-> goal, touched |-> r.touched]
<1>. HIDE DEF s, r
<1>4. [r EXCEPT !.job = job] = e1
  BY <1>3 DEF IsRunner
<1>5. [e1 EXCEPT !.tab = tab] = e2
  OBVIOUS
<1>6. [e2 EXCEPT !.status = s] = e3
  OBVIOUS
<1>7. [e3 EXCEPT !.goal = goal] = e4
  OBVIOUS
<1>8. [r EXCEPT !.job = job, !.tab = tab, !.status = s, !.goal = goal] = e4
  <2>. HIDE DEF e1, e2, e3, e4
  <2>1. QED
    BY <1>4, <1>5, <1>6, <1>7
<1>9. QED
  BY <1>3, <1>8 DEF s, r

\* Panels and frames: nothing but a step moves the turn.
LEMMA TurnStays ==
  ASSUME WorkTyped, BetweenFrames, turn' = turn
  PROVE  TurnTyped'
<1>1. turn.panel = "None" /\ turn \in [panel : Panels \cup {"None", "Panicked", "Compare"}, left : Nat]
  BY DEF WorkTyped, TurnTyped, BetweenFrames
<1>2. QED
  BY <1>1 DEF TurnTyped, Panels

\* A turn that is over.
LEMMA IdleIsTyped ==
  ASSUME turn' = Idle \/ turn' = [panel |-> "Panicked", left |-> 0] \/ (turn' = [panel |-> "Compare", left |-> FRAME_BUDGET])
  PROVE  TurnTyped'
<1>1. FRAME_BUDGET \in Nat
  BY WorkbenchAssumption
<1>2. QED
  BY <1>1 DEF TurnTyped, Panels, Idle

\* Starting an analysis.
LEMMA AnalyzeKeeps ==
  ASSUME WorkInv, NEW ask \in AnalysisJobs, NEW tab \in DOMAIN tabs, NEW sel \in SelectionsOf(tabs[tab]),
         Analyze(tab, ask, sel)
  PROVE  WorkInv'
<1>. DEFINE doc == tabs[tab]
            r == IF ask.kind = "Digest" THEN TabRange(doc, sel) ELSE <<0, Len(doc)>>
            job == AnalysisOf(ask, doc, r)
            goal == GoalOf(ask, doc, r, files)
            after == [job |-> job, tab |-> tab, cancelled |-> FALSE, status |-> "processing", found |-> <<>>,
                      shown |-> Nothing, goal |-> goal, touched |-> FALSE]
<1>1. /\ WorkTyped /\ OnlyItsOutputs /\ NothingHalfWritten
      /\ BetweenFrames /\ Started("Analyze", job, tab, goal)
      /\ tabs' = tabs /\ files' = files /\ compare' = compare /\ turn' = turn /\ abandoned' = abandoned
  BY DEF WorkInv, Analyze
<1>2. doc \in Seq(Nat) /\ tab \in Nat /\ tab >= 1
  BY <1>1 DEF WorkTyped, TabsTyped
<1>3. AnalysisJob(job)
  <2>1. PICK lo \in Nat, hi \in Nat : r = <<lo, hi>>
    <3>1. sel = <<>> \/ sel \in Nat \X Nat
      BY WorkbenchAssumption DEF SelectionsOf
    <3>2. CASE sel \in Nat \X Nat
      BY <1>2, <3>2 DEF TabRange
    <3>3. CASE sel = <<>>
      <4>1. r = <<0, Len(doc)>> /\ Len(doc) \in Nat /\ 0 \in Nat
        BY <1>2, <3>3 DEF TabRange
      <4>. HIDE DEF r, doc
      <4>2. QED
        BY <4>1
    <3>4. QED
      BY <3>1, <3>2, <3>3
  <2>2. AnalysisJob(AnalysisOf(ask, doc, <<lo, hi>>))
    BY <1>2, NewAnalysisIs, WorkbenchAssumption DEF AnalysisKinds
  <2>. HIDE DEF doc, r
  <2>3. QED
    BY <2>1, <2>2
<1>4. runner' = [runner EXCEPT !["Analyze"] = after]
  <2>1. runner' = [runner EXCEPT !["Analyze"] = [IdleRunner EXCEPT !.job = job, !.tab = tab, !.status = "processing", !.goal = goal]]
    BY <1>1 DEF Started
  <2>. HIDE DEF job, goal
  <2>2. QED
    BY <2>1, StartedIs
<1>. HIDE DEF job, goal, doc, r
<1>5. IsRunner(after) /\ after.job = job /\ after.tab = tab
  BY DEF IsRunner
<1>. HIDE DEF after
<1>6. "Analyze" \in Panels /\ "Tools" \in Panels \ {"Analyze"} /\ "Analyze" # "Tools"
  BY DEF Panels
<1>7. RunnerTyped' /\ runner'["Tools"] = runner["Tools"]
  BY <1>1, <1>2, <1>3, <1>4, <1>5, <1>6, JobKeeps DEF WorkTyped
<1>8. TabsTyped' /\ FilesTyped' /\ TurnTyped'
  BY <1>1, TurnStays DEF WorkTyped, TabsTyped, FilesTyped
<1>9. OnlyItsOutputs' /\ NothingHalfWritten'
  BY <1>1, <1>7, UndisturbedKeeps
<1>10. QED
  BY <1>7, <1>8, <1>9 DEF WorkInv, WorkTyped

\* A selection, or the document, as a range.
LEMMA TabRangeIs ==
  ASSUME NEW doc \in Seq(Nat), NEW sel \in SelectionsOf(doc)
  PROVE  \E lo, hi \in Nat : TabRange(doc, sel) = <<lo, hi>>
<1>1. sel = <<>> \/ sel \in Nat \X Nat
  BY WorkbenchAssumption DEF SelectionsOf
<1>2. CASE sel \in Nat \X Nat
  BY <1>2 DEF TabRange
<1>3. CASE sel = <<>>
  <2>1. TabRange(doc, sel) = <<0, Len(doc)>> /\ Len(doc) \in Nat /\ 0 \in Nat
    BY <1>3 DEF TabRange
  <2>2. QED
    BY <2>1
<1>4. QED
  BY <1>1, <1>2, <1>3

\* A tool that starts: what it is to leave as it was is on the disk, but for
\* the file it has just created, and the outputs of the job it replaces.
LEMMA ToolStarts ==
  ASSUME WorkInv, BetweenFrames, Replaces, NEW job, NEW tab \in Nat, NEW goal,
         Started("Tools", job, tab, goal), ToolJob(job, DOMAIN files), goal.kind = job.kind, goal.files = files,
         job.kind # "Concat" => tab >= 1,
         \/ files' = files
         \/ job.kind \in TextKinds /\ files' = [files EXCEPT !["out"] = File(<<>>)],
         tabs' = tabs, turn' = turn
  PROVE  WorkInv'
<1>. DEFINE after == [job |-> job, tab |-> tab, cancelled |-> FALSE, status |-> "processing", found |-> <<>>,
                      shown |-> Nothing, goal |-> goal, touched |-> FALSE]
<1>1. WorkTyped /\ OnlyItsOutputs /\ NothingHalfWritten
  BY DEF WorkInv
<1>2. runner' = [runner EXCEPT !["Tools"] = after]
  BY StartedIs DEF Started
<1>3. IsRunner(after) /\ after.job = job /\ after.tab = tab /\ after.goal = goal
  BY DEF IsRunner
<1>. HIDE DEF after
<1>4. "Tools" \in Panels /\ "Tools" # "Analyze"
  BY DEF Panels
<1>5. DOMAIN files' = DOMAIN files /\ \A f \in DOMAIN files : files'[f] = files[f] \/ (f = "out" /\ job.kind \in TextKinds)
  OBVIOUS
<1>6. RunnerTyped' /\ Busy("Tools")' /\ runner'["Tools"] = after
  BY <1>1, <1>2, <1>3, <1>4, <1>5, JobKeeps DEF WorkTyped
<1>7. FilesTyped'
  BY <1>1, <1>5 DEF WorkTyped, FilesTyped
<1>8. TabsTyped' /\ TurnTyped'
  BY <1>1, TurnStays DEF WorkTyped, TabsTyped
<1>9. OnlyItsOutputs'
  <2>1. ASSUME NEW f \in DOMAIN files PROVE files'[f] = goal.files[f] \/ f \in OutputsOf(job)
    BY <1>5 DEF OutputsOf, TextKinds
  <2>2. QED
    BY <1>3, <1>5, <1>6, <2>1 DEF OnlyItsOutputs
<1>10. NothingHalfWritten'
  BY <1>6 DEF NothingHalfWritten
<1>11. QED
  BY <1>6, <1>7, <1>8, <1>9, <1>10 DEF WorkInv, WorkTyped

\* A tool that starts has only its output on the disk, and the outputs of the job
\* it replaces are abandoned (gui/src/tools.rs).
LEMMA UseToolKeeps ==
  ASSUME WorkInv, NEW ask \in ToolJobs, NEW tab \in DOMAIN tabs, NEW sel \in SelectionsOf(tabs[tab]),
         UseTool(tab, ask, sel)
  PROVE  WorkInv'
<1>. DEFINE doc == tabs[tab]
            r == TabRange(doc, sel)
<1>1. /\ BetweenFrames /\ Replaces /\ tabs' = tabs /\ turn' = turn
      /\ StartExport(tab, ask, sel) \/ StartRecord(tab, ask, sel) \/ StartSplit(tab, ask, sel) \/ StartConcat(tab, ask, sel)
  BY DEF UseTool
<1>2. WorkTyped
  BY DEF WorkInv
<1>3. doc \in Seq(Nat) /\ tab \in Nat /\ tab >= 1
  BY <1>2 DEF WorkTyped, TabsTyped
<1>4. PICK lo, hi \in Nat : r = <<lo, hi>>
  BY <1>3, TabRangeIs
<1>5. r[1] = lo /\ r[2] = hi
  BY <1>4
<1>6. \A range : GoalOf(ask, doc, range, files).kind = ask.kind /\ GoalOf(ask, doc, range, files).files = files
  BY DEF GoalOf
<1>7. CASE StartExport(tab, ask, sel)
  <2>. DEFINE job == NewExport(ask.fmt, ask.cols, ask.offset, r[1], r[2], Len(doc))
              goal == GoalOf(ask, doc, r, files)
  <2>1. ask.kind = "Export" /\ Started("Tools", job, tab, goal) /\ files' = [files EXCEPT !["out"] = File(<<>>)]
    BY <1>7 DEF StartExport
  <2>2. ToolJob(job, DOMAIN files)
    <3>1. ask.cols \in Nat /\ Len(doc) \in Nat
      BY <1>3, <2>1, WorkbenchAssumption
    <3>. HIDE DEF doc, r
    <3>2. QED
      BY <1>5, <3>1, NewTextsAre
  <2>3. job.kind = "Export"
    BY DEF NewExport
  <2>4. goal.kind = "Export" /\ goal.files = files
    BY <1>6, <2>1
  <2>. HIDE DEF job, goal
  <2>5. QED
    BY <1>1, <1>3, <2>1, <2>2, <2>3, <2>4, ToolStarts DEF TextKinds
<1>8. CASE StartRecord(tab, ask, sel)
  <2>. DEFINE job == NewRecords(ask.fmt, r[1], r[2], ask.base, ask.recLen, Len(doc))
              goal == GoalOf(ask, doc, r, files)
  <2>1. ask.kind = "Record" /\ Started("Tools", job, tab, goal) /\ files' = [files EXCEPT !["out"] = File(<<>>)]
    BY <1>8 DEF StartRecord
  <2>2. ToolJob(job, DOMAIN files)
    <3>1. ask.recLen \in Nat /\ Len(doc) \in Nat
      BY <1>3, <2>1, WorkbenchAssumption
    <3>. HIDE DEF doc, r
    <3>2. QED
      BY <1>5, <3>1, NewTextsAre
  <2>3. job.kind = "Record"
    BY DEF NewRecords
  <2>4. goal.kind = "Record" /\ goal.files = files
    BY <1>6, <2>1
  <2>. HIDE DEF job, goal
  <2>5. QED
    BY <1>1, <1>3, <2>1, <2>2, <2>3, <2>4, ToolStarts DEF TextKinds
<1>9. CASE StartSplit(tab, ask, sel)
  <2>. DEFINE job == NewSplit(Len(doc), ask.partSize)
              goal == GoalOf(ask, doc, <<0, Len(doc)>>, files)
  <2>1. ask.kind = "Split" /\ SplitAllowed(Len(doc), ask.partSize) /\ Started("Tools", job, tab, goal) /\ files' = files
    BY <1>9 DEF StartSplit
  <2>2. ToolJob(job, DOMAIN files)
    <3>1. ask.partSize \in Nat /\ Len(doc) \in Nat
      BY <1>3, <2>1, WorkbenchAssumption
    <3>. HIDE DEF doc, r
    <3>2. QED
      BY <2>1, <3>1, NewSplitIs
  <2>3. job.kind = "Split"
    BY DEF NewSplit
  <2>4. goal.kind = "Split" /\ goal.files = files
    BY <1>6, <2>1
  <2>. HIDE DEF job, goal
  <2>5. QED
    BY <1>1, <1>3, <2>1, <2>2, <2>3, <2>4, ToolStarts
<1>10. CASE StartConcat(tab, ask, sel)
  <2>. DEFINE job == NewJoin(ask.inputs)
              goal == GoalOf(ask, <<>>, <<0, 0>>, files)
  <2>1. ask.kind = "Concat" /\ JoinAllowed(ask.inputs, "out") /\ Started("Tools", job, 0, goal) /\ files' = files
    BY <1>10 DEF StartConcat
  <2>2. ToolJob(job, DOMAIN files)
    <3>1. ask.inputs \in Seq(DOMAIN files)
      BY <1>2, <2>1, WorkbenchAssumption DEF WorkTyped, FilesTyped
    <3>2. QED
      BY <2>1, <3>1, NewJoinIs
  <2>3. job.kind = "Concat"
    BY DEF NewJoin
  <2>4. goal.kind = "Concat" /\ goal.files = files
    BY <2>1 DEF GoalOf
  <2>. HIDE DEF job, goal
  <2>5. QED
    BY <1>1, <2>1, <2>2, <2>3, <2>4, ToolStarts
<1>11. QED
  BY <1>1, <1>7, <1>8, <1>9, <1>10

\* Undoing what a job left touches nothing else.
LEMMA CleanedIs ==
  ASSUME FilesTyped, NEW j, files' = CleanedUp(files, j)
  PROVE  FilesTyped' /\ DOMAIN files' = DOMAIN files
<1>1. DOMAIN files' = DOMAIN files /\ \A f \in DOMAIN files : files'[f] = files[f] \/ files'[f] = NoFile
  BY DEF CleanedUp
<1>2. NoFile.data \in Seq(Nat)
  BY DEF NoFile
<1>3. QED
  BY <1>1, <1>2 DEF FilesTyped

\* A job of the tools panel that is interrupted leaves the disk as it found it.
LEMMA InterruptedIsClean ==
  ASSUME OnlyItsOutputs, Busy("Tools"), NEW j,
         OutputsOf(runner["Tools"].job) \subseteq OutputsOf(j), OutputsOf(j) \subseteq OwnOutputs(runner["Tools"].goal),
         files' = CleanedUp(files, j), abandoned' = abandoned,
         ~Busy("Tools")', runner'["Tools"].goal = runner["Tools"].goal
  PROVE  OnlyItsOutputs' /\ NothingHalfWritten'
<1>1. OnlyItsOutputs'
  BY DEF OnlyItsOutputs
<1>2. DOMAIN files' = DOMAIN files
  BY DEF CleanedUp
<1>3. ASSUME NEW f \in DOMAIN files \ abandoned
      PROVE  \/ files'[f] = runner["Tools"].goal.files[f]
             \/ f \in OwnOutputs(runner["Tools"].goal) /\ files'[f] = NoFile
  <2>1. CASE f \in OutputsOf(j)
    <3>1. files'[f] = NoFile
      BY <2>1 DEF CleanedUp
    <3>2. QED
      BY <2>1, <3>1
  <2>2. CASE f \notin OutputsOf(j)
    <3>1. files'[f] = files[f]
      BY <2>2 DEF CleanedUp
    <3>2. files[f] = runner["Tools"].goal.files[f]
      BY <2>2 DEF OnlyItsOutputs
    <3>3. QED
      BY <3>1, <3>2
  <2>3. QED
    BY <2>1, <2>2
<1>4. NothingHalfWritten'
  BY <1>2, <1>3 DEF NothingHalfWritten
<1>5. QED
  BY <1>1, <1>4

\* A job that is taken from its panel between two frames, or by a step that
\* fails: j is the job whose outputs are undone.
LEMMA InterruptedKeeps ==
  ASSUME WorkInv, NEW p \in Panels, Busy(p), NEW s, Ended(p, s), NEW j,
         j = runner[p].job \/ (SplitJob(j) /\ SplitJob(runner[p].job) /\ j.written >= runner[p].job.written),
         files' = IF p = "Tools" THEN CleanedUp(files, j) ELSE files,
         tabs' = tabs, abandoned' = abandoned, turn' = Idle \/ (BetweenFrames /\ turn' = turn)
  PROVE  WorkInv'
<1>. DEFINE after == [runner[p] EXCEPT !.job = NoJob, !.status = s]
<1>1. WorkTyped /\ OnlyItsOutputs /\ NothingHalfWritten
  BY DEF WorkInv
<1>2. runner' = [runner EXCEPT ![p] = after]
  BY DEF Ended
<1>3. IsRunner(after) /\ after.job = NoJob /\ after.goal = runner[p].goal
  <2>1. IsRunner(runner[p])
    BY <1>1 DEF WorkTyped, RunnerTyped
  <2>2. after = Left(runner[p], NoJob, s)
    BY DEF Left
  <2>. HIDE DEF after
  <2>3. QED
    BY <2>1, <2>2, LeftIs
<1>. HIDE DEF after
<1>4. FilesTyped' /\ DOMAIN files' = DOMAIN files
  <2>1. FilesTyped
    BY <1>1 DEF WorkTyped
  <2>2. CASE p = "Tools"
    BY <2>1, <2>2, CleanedIs
  <2>3. CASE p # "Tools"
    BY <2>1, <2>3 DEF FilesTyped
  <2>4. QED
    BY <2>2, <2>3
<1>5. /\ RunnerTyped' /\ ~Busy(p)' /\ runner'[p] = after /\ \A q \in Panels \ {p} : runner'[q] = runner[q]
  BY <1>1, <1>2, <1>3, <1>4, LetGoKeeps DEF WorkTyped
<1>6. TabsTyped' /\ TurnTyped'
  BY <1>1, TurnStays, IdleIsTyped DEF WorkTyped, TabsTyped
<1>7. OnlyItsOutputs' /\ NothingHalfWritten'
  <2>1. CASE p = "Tools"
    <3>. DEFINE k == runner["Tools"].job
                goal == runner["Tools"].goal
    <3>1. ToolJob(k, DOMAIN files) /\ goal.kind = k.kind
      BY <1>1, <2>1 DEF WorkTyped, RunnerTyped
    <3>2. j = k \/ (SplitJob(j) /\ SplitJob(k) /\ j.written >= k.written)
      BY <2>1
    <3>. HIDE DEF k, goal
    <3>3. ToolJob(j, DOMAIN files) /\ j.kind = k.kind
      BY <3>1, <3>2 DEF ToolJob, SplitJob, SplitJobs
    <3>4. OutputsOf(j) \subseteq OwnOutputs(goal)
      BY <3>1, <3>3, OutputsAreOwn
    <3>5. OutputsOf(k) \subseteq OutputsOf(j)
      <4>1. CASE j = k
        BY <4>1
      <4>2. CASE SplitJob(j) /\ SplitJob(k) /\ j.written >= k.written
        <5>1. 1 .. k.written \subseteq 1 .. j.written /\ k.kind = "Split" /\ j.kind = "Split"
          BY <4>2 DEF SplitJob, SplitJobs
        <5>2. QED
          BY <5>1 DEF OutputsOf
      <4>3. QED
        BY <3>2, <4>1, <4>2
    <3>6. files' = CleanedUp(files, j)
      BY <2>1
    <3>7. runner'["Tools"].goal = runner["Tools"].goal /\ Busy("Tools") /\ ~Busy("Tools")'
      BY <1>3, <1>5, <2>1
    <3>8. QED
      BY <1>1, <3>4, <3>5, <3>6, <3>7, InterruptedIsClean DEF k, goal
  <2>2. CASE p # "Tools"
    <3>1. runner'["Tools"] = runner["Tools"]
      BY <1>5, <2>2 DEF Panels
    <3>2. files' = files
      BY <2>2
    <3>3. QED
      BY <1>1, <3>1, <3>2, UndisturbedKeeps
  <2>3. QED
    BY <2>1, <2>2
<1>8. QED
  BY <1>4, <1>5, <1>6, <1>7 DEF WorkInv, WorkTyped

\* What only marks the jobs as cancelled or touched.
LEMMA MarkedKeeps ==
  ASSUME WorkInv, runner' = [q \in Panels |-> runner'[q]],
         \A q \in Panels : /\ IsRunner(runner'[q]) /\ runner'[q].job = runner[q].job /\ runner'[q].tab = runner[q].tab
                           /\ runner'[q].goal = runner[q].goal /\ runner'[q].status = runner[q].status,
         files' = files, abandoned' = abandoned, TabsTyped', TurnTyped'
  PROVE  WorkInv'
<1>1. WorkTyped /\ OnlyItsOutputs /\ NothingHalfWritten
  BY DEF WorkInv
<1>2. "Analyze" \in Panels /\ "Tools" \in Panels
  BY DEF Panels
<1>3. \A q \in Panels : Busy(q)' <=> Busy(q)
  BY DEF Busy
<1>4. RunnerTyped'
  <2>1. \A q \in Panels : Busy(q)' => runner'[q].tab \in Nat /\ (runner'[q].job.kind # "Concat" => runner'[q].tab >= 1)
    BY <1>1, <1>3 DEF WorkTyped, RunnerTyped
  <2>2. Busy("Analyze")' => AnalysisJob(runner'["Analyze"].job)
    BY <1>1, <1>2, <1>3 DEF WorkTyped, RunnerTyped
  <2>3. Busy("Tools")' => /\ ToolJob(runner'["Tools"].job, DOMAIN files')
                          /\ runner'["Tools"].goal.kind = runner'["Tools"].job.kind
    BY <1>1, <1>2, <1>3 DEF WorkTyped, RunnerTyped
  <2>4. QED
    BY <2>1, <2>2, <2>3 DEF RunnerTyped
<1>5. FilesTyped'
  BY <1>1 DEF WorkTyped, FilesTyped
<1>6. OnlyItsOutputs' /\ NothingHalfWritten'
  BY <1>1, <1>2, UndisturbedKeeps
<1>7. QED
  BY <1>4, <1>5, <1>6 DEF WorkInv, WorkTyped

\* What leaves the jobs as they are.
LEMMA MarkedStill ==
  ASSUME WorkInv, runner' = runner, files' = files, abandoned' = abandoned, tabs' = tabs, TurnTyped'
  PROVE  WorkInv'
<1>1. runner = [q \in Panels |-> runner[q]] /\ (\A q \in Panels : IsRunner(runner[q])) /\ TabsTyped
  BY DEF WorkInv, WorkTyped, RunnerTyped
<1>2. TabsTyped'
  BY <1>1 DEF TabsTyped
<1>3. runner' = [q \in Panels |-> runner'[q]]
  BY <1>1
<1>4. QED
  BY <1>1, <1>2, <1>3, MarkedKeeps

\* The tabs stay documents, whatever is typed in one, and when one is closed.
LEMMA TabsStayTyped ==
  ASSUME TabsTyped, NEW i \in DOMAIN tabs
  PROVE  /\ \A doc \in {<<65>> \o tabs[i], SubSeq(tabs[i], 1, Len(tabs[i]) - 1)} : [tabs EXCEPT ![i] = doc] \in Seq(Seq(Nat))
         /\ RemoveAt(tabs, i) \in Seq(Seq(Nat))
<1>. DEFINE d == tabs[i]
<1>1. tabs \in Seq(Seq(Nat)) /\ d \in Seq(Nat) /\ i \in 1 .. Len(tabs)
  BY DEF TabsTyped
<1>2. <<65>> \o d \in Seq(Nat) /\ SubSeq(d, 1, Len(d) - 1) \in Seq(Nat)
  <2>. HIDE DEF d
  <2>1. <<65>> \in Seq(Nat)
    OBVIOUS
  <2>2. SubSeq(d, 1, Len(d) - 1) \in Seq(Nat)
    <3>1. CASE Len(d) = 0
      BY <1>1, <3>1
    <3>2. CASE Len(d) # 0
      BY <1>1, <3>2
    <3>3. QED
      BY <3>1, <3>2
  <2>3. QED
    BY <1>1, <2>1, <2>2
<1>3. \A x \in Seq(Nat) : [tabs EXCEPT ![i] = x] \in Seq(Seq(Nat))
  BY <1>1
<1>4. RemoveAt(tabs, i) \in Seq(Seq(Nat))
  <2>. DEFINE S == Seq(Nat)
  <2>1. tabs \in Seq(S)
    BY <1>1
  <2>. HIDE DEF S
  <2>2. SubSeq(tabs, 1, i - 1) \in Seq(S) /\ SubSeq(tabs, i + 1, Len(tabs)) \in Seq(S)
    BY <1>1, <2>1
  <2>3. SubSeq(tabs, 1, i - 1) \o SubSeq(tabs, i + 1, Len(tabs)) \in Seq(S)
    BY <2>2
  <2>4. QED
    BY <2>3 DEF RemoveAt, S
<1>. HIDE DEF d
<1>5. QED
  BY <1>2, <1>3, <1>4 DEF d

\* What a step writes goes to the names that the job has after it.
LEMMA WrittenIs ==
  ASSUME WorkTyped, NEW p \in Panels, Busy(p), NEW st, StepKeeps(runner[p].job, st, DOMAIN files), st.kind = "Went"
  PROVE  /\ DOMAIN Written(p, st) = DOMAIN files
         /\ \A f \in DOMAIN files \ {"out"} : Written(p, st)[f].data \in Seq(Nat)
         /\ p = "Analyze" => Written(p, st) = files
         /\ p = "Tools" => /\ OutputsOf(runner[p].job) \subseteq OutputsOf(st.job)
                           /\ \A f \in DOMAIN files : Written(p, st)[f] = files[f] \/ f \in OutputsOf(st.job)
<1>. DEFINE j == runner[p].job
            disk == Written(p, st)
            NamedBy(f) == {k \in DOMAIN st.out : PartNames[j.written + k] = f}
<1>1. \A f \in DOMAIN files \ {"out"} : files[f].data \in Seq(Nat)
  BY DEF WorkTyped, FilesTyped
<1>2. /\ p = "Analyze" => AnalysisJob(j)
      /\ p = "Tools" => ToolJob(j, DOMAIN files)
      /\ p = "Analyze" \/ p = "Tools"
  BY DEF WorkTyped, RunnerTyped, Panels
<1>3. /\ j.kind \in {"Export", "Record", "Split", "Concat"} \cup AnalysisKinds
      /\ p = "Tools" => j.kind \notin AnalysisKinds
      /\ p = "Analyze" => j.kind \in AnalysisKinds
  BY <1>2, ToolIsBusy
<1>4. /\ p = "Tools" => ToolJob(st.job, DOMAIN files) /\ st.job.kind = j.kind
      /\ j.kind = "Split" => st.out \in Seq(Seq(Nat)) /\ st.job.written = j.written + Len(st.out)
  BY <1>3 DEF StepKeeps
<1>5. disk = CASE j.kind \in {"Export", "Record"} -> [files EXCEPT !["out"].data = @ \o st.out]
        [] j.kind = "Split" ->
             [f \in DOMAIN files |->
                IF NamedBy(f) = {} THEN files[f] ELSE File(st.out[CHOOSE k \in NamedBy(f) : TRUE])]
        [] OTHER -> files
  BY DEF Written
<1>. HIDE DEF disk, j
<1>6. CASE j.kind \in {"Export", "Record"}
  <2>1. disk = [files EXCEPT !["out"].data = @ \o st.out]
    BY <1>5, <1>6
  <2>2. DOMAIN disk = DOMAIN files /\ \A f \in DOMAIN files \ {"out"} : disk[f] = files[f]
    BY <2>1
  <2>3. p = "Tools"
    BY <1>2, <1>3, <1>6 DEF AnalysisKinds
  <2>4. OutputsOf(j) = {"out"} /\ OutputsOf(st.job) = {"out"}
    BY <1>4, <1>6, <2>3 DEF OutputsOf
  <2>5. QED
    BY <1>1, <2>2, <2>3, <2>4 DEF disk, j
<1>7. CASE j.kind = "Split"
  <2>1. disk = [f \in DOMAIN files |->
                IF NamedBy(f) = {} THEN files[f] ELSE File(st.out[CHOOSE k \in NamedBy(f) : TRUE])]
    BY <1>5, <1>7
  <2>2. p = "Tools"
    BY <1>2, <1>3, <1>7 DEF AnalysisKinds
  <2>3. SplitJob(j) /\ SplitJob(st.job)
    BY <1>2, <1>4, <1>7, <2>2 DEF ToolJob, ExportJob, RecordJob, JoinJob
  <2>4. j.written \in Nat /\ st.job.written = j.written + Len(st.out) /\ st.out \in Seq(Seq(Nat))
    BY <1>4, <1>7, <2>3 DEF SplitJob, SplitJobs
  <2>5. /\ OutputsOf(j) = {PartNames[k] : k \in 1 .. j.written}
        /\ OutputsOf(st.job) = {PartNames[k] : k \in 1 .. st.job.written}
    BY <1>4, <1>7, <2>2 DEF OutputsOf
  <2>6. OutputsOf(j) \subseteq OutputsOf(st.job)
    <3>1. 1 .. j.written \subseteq 1 .. st.job.written
      BY <2>4
    <3>2. QED
      BY <2>5, <3>1
  <2>7. ASSUME NEW f \in DOMAIN files
        PROVE  /\ disk[f] = files[f] \/ f \in OutputsOf(st.job)
               /\ f # "out" => disk[f].data \in Seq(Nat)
    <3>1. CASE NamedBy(f) = {}
      BY <1>1, <2>1, <3>1
    <3>2. CASE NamedBy(f) # {}
      <4>1. PICK k \in NamedBy(f) : disk[f] = File(st.out[k])
        BY <2>1, <3>2
      <4>2. k \in 1 .. Len(st.out) /\ f = PartNames[j.written + k]
        BY <2>4, <4>1
      <4>3. j.written + k \in 1 .. st.job.written
        BY <2>4, <4>2
      <4>4. st.out[k] \in Seq(Nat)
        BY <2>4, <4>2
      <4>5. disk[f].data = st.out[k]
        BY <4>1 DEF File
      <4>6. QED
        BY <2>5, <4>2, <4>3, <4>4, <4>5
    <3>3. QED
      BY <3>1, <3>2
  <2>8. DOMAIN disk = DOMAIN files
    BY <2>1
  <2>9. QED
    BY <2>2, <2>6, <2>7, <2>8 DEF disk, j
<1>8. CASE j.kind \notin {"Export", "Record", "Split"}
  <2>1. disk = files
    BY <1>5, <1>8
  <2>2. OutputsOf(j) = {}
    BY <1>8 DEF OutputsOf
  <2>3. QED
    BY <1>1, <2>1, <2>2 DEF disk, j
<1>9. QED
  BY <1>6, <1>7, <1>8

\* A frame that has some of its budget left.
LEMMA SpentIs ==
  ASSUME TurnTyped, NEW scanned \in Int
  PROVE  /\ Spent(scanned) \in [panel : Panels \cup {"None", "Panicked", "Compare"}, left : Nat]
         /\ Spent(scanned).panel \in {turn.panel, "None"}
<1>. DEFINE left == turn.left - Most(scanned, 1)
<1>1. turn \in [panel : Panels \cup {"None", "Panicked", "Compare"}, left : Nat]
  BY DEF TurnTyped
<1>2. left \in Int
  BY <1>1 DEF Most
<1>3. Spent(scanned) = IF left > 0 THEN [turn EXCEPT !.left = left] ELSE Idle
  BY DEF Spent
<1>. HIDE DEF left
<1>4. QED
  BY <1>1, <1>2, <1>3 DEF Idle

\* A step after which the job goes on.
LEMMA GoesOnKeeps ==
  ASSUME WorkInv, NEW p \in Panels, Busy(p), turn.panel = p, NEW st, StepKeeps(runner[p].job, st, DOMAIN files),
         JobGoesOn(p, st), tabs' = tabs, abandoned' = abandoned
  PROVE  WorkInv'
<1>. DEFINE j == runner[p].job
            list == Listed(p, st)
            after == [runner[p] EXCEPT !.job = st.job, !.found = list]
<1>1. WorkTyped /\ OnlyItsOutputs /\ NothingHalfWritten
  BY DEF WorkInv
<1>2. /\ st.kind = "Went" /\ files' = Written(p, st) /\ turn' = Spent(st.scanned)
      /\ runner' = [runner EXCEPT ![p] = after]
  BY DEF JobGoesOn
<1>3. IsRunner(after) /\ after.job = st.job /\ after.goal = runner[p].goal /\ after.tab = runner[p].tab
  <2>1. IsRunner(runner[p])
    BY <1>1 DEF WorkTyped, RunnerTyped
  <2>2. after = GoneOn(runner[p], st.job, list)
    BY DEF GoneOn
  <2>. HIDE DEF after, list
  <2>3. QED
    BY <2>1, <2>2, GoneOnIs
<1>. HIDE DEF after
<1>4. /\ DOMAIN files' = DOMAIN files
      /\ \A f \in DOMAIN files \ {"out"} : files'[f].data \in Seq(Nat)
      /\ p = "Analyze" => files' = files
      /\ p = "Tools" => /\ OutputsOf(j) \subseteq OutputsOf(st.job)
                        /\ \A f \in DOMAIN files : files'[f] = files[f] \/ f \in OutputsOf(st.job)
  BY <1>1, <1>2, WrittenIs
<1>5. /\ p = "Analyze" => AnalysisJob(j)
      /\ p = "Tools" => ToolJob(j, DOMAIN files) /\ runner[p].goal.kind = j.kind
      /\ p = "Analyze" \/ p = "Tools"
      /\ runner[p].tab \in Nat /\ (j.kind # "Concat" => runner[p].tab >= 1)
      /\ runner[p].tab <= Len(tabs)
  BY <1>1 DEF WorkTyped, RunnerTyped, TurnTyped, Panels
<1>6. /\ p = "Tools" => j.kind \notin AnalysisKinds
      /\ p = "Analyze" => j.kind \in AnalysisKinds
  BY <1>5, ToolIsBusy
<1>7. /\ st.scanned \in Int
      /\ p = "Analyze" => AnalysisJob(st.job)
      /\ p = "Tools" => ToolJob(st.job, DOMAIN files) /\ st.job.kind = j.kind
  BY <1>2, <1>6 DEF StepKeeps
<1>8. after.tab \in Nat /\ (after.job.kind # "Concat" => after.tab >= 1)
  <2>1. j.kind = "Concat" => st.job.kind = "Concat"
    BY <1>5, <1>6, <1>7 DEF AnalysisKinds
  <2>2. QED
    BY <1>3, <1>5, <2>1
<1>9. RunnerTyped' /\ Busy(p)' /\ runner'[p] = after /\ \A q \in Panels \ {p} : runner'[q] = runner[q]
  <2>1. /\ p = "Analyze" => AnalysisJob(after.job)
        /\ p = "Tools" => ToolJob(after.job, DOMAIN files) /\ after.goal.kind = after.job.kind
    BY <1>3, <1>5, <1>7
  <2>2. RunnerTyped
    BY <1>1 DEF WorkTyped
  <2>3. QED
    BY <1>2, <1>3, <1>4, <1>8, <2>1, <2>2, JobKeeps
<1>10. FilesTyped' /\ TabsTyped'
  BY <1>1, <1>4 DEF WorkTyped, FilesTyped, TabsTyped
<1>11. TurnTyped'
  <2>1. /\ Spent(st.scanned) \in [panel : Panels \cup {"None", "Panicked", "Compare"}, left : Nat]
        /\ Spent(st.scanned).panel \in {p, "None"}
    BY <1>1, <1>7, SpentIs DEF WorkTyped
  <2>2. "None" \notin Panels
    BY DEF Panels
  <2>3. QED
    BY <1>2, <1>3, <1>5, <1>9, <2>1, <2>2 DEF TurnTyped
<1>12. OnlyItsOutputs' /\ NothingHalfWritten'
  <2>1. CASE p = "Tools"
    <3>1. OnlyItsOutputs'
      BY <1>1, <1>3, <1>4, <1>9, <2>1 DEF OnlyItsOutputs
    <3>2. NothingHalfWritten'
      BY <1>9, <2>1 DEF NothingHalfWritten
    <3>3. QED
      BY <3>1, <3>2
  <2>2. CASE p = "Analyze"
    <3>1. runner'["Tools"] = runner["Tools"]
      BY <1>9, <2>2 DEF Panels
    <3>2. QED
      BY <1>1, <1>4, <2>2, <3>1, UndisturbedKeeps
  <2>3. QED
    BY <1>5, <2>1, <2>2
<1>13. QED
  BY <1>9, <1>10, <1>11, <1>12 DEF WorkInv, WorkTyped

\* A step with which the job ends.
LEMMA EndsKeeps ==
  ASSUME WorkInv, NEW p \in Panels, Busy(p), NEW st, StepKeeps(runner[p].job, st, DOMAIN files),
         JobEnds(p, st), tabs' = tabs, abandoned' = abandoned
  PROVE  WorkInv'
<1>. DEFINE j == runner[p].job
            list == Listed(p, st)
            shown == [kind |-> "Result", value |-> ResultOf(p, st), truncated |-> Len(Listed(p, st)) > MAX_RESULTS]
            done == "finished"
            after == [runner[p] EXCEPT !.job = NoJob, !.status = done, !.found = list, !.shown = shown]
<1>1. WorkTyped /\ OnlyItsOutputs /\ NothingHalfWritten
  BY DEF WorkInv
<1>2. /\ st.kind = "Went" /\ turn' = Idle
      /\ files' = IF j.kind = "Concat" THEN [Written(p, st) EXCEPT !["out"] = File(st.job.written)] ELSE Written(p, st)
      /\ runner' = [runner EXCEPT ![p] = after]
  BY DEF JobEnds, Reported
<1>3. IsRunner(after) /\ after.job = NoJob /\ after.status = "finished"
  <2>1. IsRunner(runner[p])
    BY <1>1 DEF WorkTyped, RunnerTyped
  <2>2. after = Told(runner[p], NoJob, done, list, shown)
    BY DEF Told
  <2>. HIDE DEF after, list, shown, done
  <2>3. QED
    BY <2>1, <2>2, ToldIs DEF done
<1>. HIDE DEF after
<1>4. /\ DOMAIN Written(p, st) = DOMAIN files
      /\ \A f \in DOMAIN files \ {"out"} : Written(p, st)[f].data \in Seq(Nat)
      /\ p = "Analyze" => Written(p, st) = files
  BY <1>1, <1>2, WrittenIs
<1>5. p = "Analyze" => j.kind # "Concat"
  BY <1>1 DEF WorkTyped, RunnerTyped, AnalysisJob, AnalysisKinds
<1>6. /\ DOMAIN files' = DOMAIN files
      /\ \A f \in DOMAIN files \ {"out"} : files'[f].data \in Seq(Nat)
      /\ p = "Analyze" => files' = files
  BY <1>2, <1>4, <1>5
<1>7. RunnerTyped' /\ ~Busy(p)' /\ runner'[p] = after /\ \A q \in Panels \ {p} : runner'[q] = runner[q]
  BY <1>1, <1>2, <1>3, <1>6, LetGoKeeps DEF WorkTyped
<1>8. FilesTyped' /\ TabsTyped' /\ TurnTyped'
  BY <1>1, <1>2, <1>6, IdleIsTyped DEF WorkTyped, FilesTyped, TabsTyped
<1>9. OnlyItsOutputs' /\ NothingHalfWritten'
  <2>1. CASE p = "Tools"
    <3>1. OnlyItsOutputs'
      BY <1>7, <2>1 DEF OnlyItsOutputs
    <3>2. NothingHalfWritten'
      BY <1>3, <1>7, <2>1 DEF NothingHalfWritten
    <3>3. QED
      BY <3>1, <3>2
  <2>2. CASE p = "Analyze"
    <3>1. runner'["Tools"] = runner["Tools"]
      BY <1>7, <2>2 DEF Panels
    <3>2. QED
      BY <1>1, <1>6, <2>2, <3>1, UndisturbedKeeps
  <2>3. QED
    BY <2>1, <2>2 DEF Panels
<1>10. QED
  BY <1>7, <1>8, <1>9 DEF WorkInv, WorkTyped

\* The panels open with nothing to do.
LEMMA WorkInitially == WInit => WorkInv
<1>. SUFFICES ASSUME WInit PROVE WorkInv
  OBVIOUS
<1>1. tabs \in TabSets /\ files \in FileSets /\ runner = [p \in Panels |-> IdleRunner] /\ turn = Idle
  BY DEF WInit
<1>2. TabsTyped /\ FilesTyped
  BY <1>1, WorkbenchAssumption DEF TabsTyped, FilesTyped
<1>3. \A p \in Panels : ~Busy(p) /\ IsRunner(runner[p]) /\ runner[p].status = ""
  BY <1>1 DEF Busy, IdleRunner, IsRunner
<1>4. "Analyze" \in Panels /\ "Tools" \in Panels
  BY DEF Panels
<1>5. RunnerTyped
  BY <1>1, <1>3, <1>4 DEF RunnerTyped
<1>6. TurnTyped
  BY <1>1 DEF TurnTyped, Idle, Panels
<1>7. OnlyItsOutputs /\ NothingHalfWritten
  BY <1>3, <1>4 DEF OnlyItsOutputs, NothingHalfWritten
<1>8. QED
  BY <1>2, <1>5, <1>6, <1>7 DEF WorkInv, WorkTyped

\* A step of a frame, whatever it comes to and whatever the disk does.
LEMMA StepKeepsWork ==
  ASSUME WorkInv, NEW p \in Panels, Step(p)
  PROVE  WorkInv'
<1>1. turn.panel = p /\ tabs' = tabs /\ abandoned' = abandoned
  BY DEF Step
<1>2. PICK fault \in Faults(p) :
        \E st \in {StepOf(p, fault)} :
          JobGoesOn(p, st) \/ JobFails(p, st) \/ JobPanics(p, st) \/ JobEnds(p, st) \/ SealingFails(p, st)
  BY DEF Step
<1>. DEFINE st == StepOf(p, fault)
<1>3. JobGoesOn(p, st) \/ JobFails(p, st) \/ JobPanics(p, st) \/ JobEnds(p, st) \/ SealingFails(p, st)
  BY <1>2
<1>4. WorkTyped /\ Busy(p)
  BY <1>1 DEF WorkInv, WorkTyped, TurnTyped
<1>5. StepKeeps(runner[p].job, st, DOMAIN files)
  <2>1. fault \in Nat
    BY <1>2 DEF Faults
  <2>2. QED
    BY <1>1, <1>4, <2>1, StepOfKeeps
<1>. HIDE DEF st
<1>6. CASE JobGoesOn(p, st)
  BY <1>1, <1>4, <1>5, <1>6, GoesOnKeeps
<1>7. CASE JobEnds(p, st)
  BY <1>1, <1>4, <1>5, <1>7, EndsKeeps
<1>8. CASE JobFails(p, st)
  <2>1. /\ st.kind = "Failed" /\ turn' = Idle /\ Ended(p, "failed")
        /\ files' = IF p = "Tools" THEN CleanedUp(files, st.job) ELSE files
    BY <1>8 DEF JobFails
  <2>. DEFINE j == IF p = "Tools" THEN st.job ELSE runner[p].job
  <2>2. j = runner[p].job \/ (SplitJob(j) /\ SplitJob(runner[p].job) /\ j.written >= runner[p].job.written)
    <3>1. p = "Tools" => runner[p].job.kind \notin AnalysisKinds
      BY <1>4, ToolIsBusy DEF WorkTyped, RunnerTyped
    <3>2. QED
      BY <1>5, <2>1, <3>1 DEF StepKeeps
  <2>3. files' = IF p = "Tools" THEN CleanedUp(files, j) ELSE files
    BY <2>1
  <2>. HIDE DEF j
  <2>4. QED
    BY <1>1, <1>4, <2>1, <2>2, <2>3, InterruptedKeeps
<1>9. CASE SealingFails(p, st)
  <2>1. /\ runner[p].job.kind \in {"Export", "Record", "Concat"} /\ turn' = Idle /\ Ended(p, "failed")
        /\ files' = CleanedUp(files, runner[p].job)
    BY <1>9 DEF SealingFails
  <2>2. p = "Tools"
    <3>1. p = "Analyze" => runner[p].job.kind \in AnalysisKinds
      BY <1>4, ToolIsBusy DEF WorkTyped, RunnerTyped
    <3>2. QED
      BY <2>1, <3>1 DEF AnalysisKinds, Panels
  <2>3. QED
    BY <1>1, <1>4, <2>1, <2>2, InterruptedKeeps
<1>10. CASE JobPanics(p, st)
  <2>1. turn' = [panel |-> "Panicked", left |-> 0] /\ files' = files /\ runner' = runner
    BY <1>10 DEF JobPanics
  <2>2. TurnTyped'
    BY <2>1, IdleIsTyped
  <2>3. QED
    BY <1>1, <2>1, <2>2, MarkedStill
<1>11. QED
  BY <1>3, <1>6, <1>7, <1>8, <1>9, <1>10

\* The actions that leave the panels alone, and those that mark their jobs.
LEMMA OthersKeep ==
  ASSUME WorkInv, NEW p \in Panels
  PROVE  /\ TakeJob(p) => WorkInv'
         /\ DropCancelled(p) \/ DropOrphan(p) => WorkInv'
         /\ Cancel(p) => WorkInv'
<1>0. WorkTyped
  BY DEF WorkInv
<1>1. ASSUME TakeJob(p) PROVE WorkInv'
  <2>1. /\ Busy(p) /\ runner[p].tab <= Len(tabs) /\ turn' = [panel |-> p, left |-> FRAME_BUDGET]
        /\ tabs' = tabs /\ files' = files /\ runner' = runner /\ abandoned' = abandoned
    BY <1>0, <1>1 DEF TakeJob, WorkTyped, TabsTyped
  <2>2. TurnTyped'
    <3>1. FRAME_BUDGET \in Nat
      BY WorkbenchAssumption
    <3>2. QED
      BY <2>1, <3>1 DEF TurnTyped, Busy
  <2>3. QED
    BY <2>1, <2>2, MarkedStill
<1>2. ASSUME DropCancelled(p) \/ DropOrphan(p) PROVE WorkInv'
  <2>1. PICK s : /\ BetweenFrames /\ Busy(p) /\ Ended(p, s) /\ tabs' = tabs /\ turn' = turn /\ abandoned' = abandoned
                 /\ files' = IF p = "Tools" THEN CleanedUp(files, runner[p].job) ELSE files
    BY <1>2 DEF DropCancelled, DropOrphan
  <2>2. QED
    BY <2>1, InterruptedKeeps
<1>3. ASSUME Cancel(p) PROVE WorkInv'
  <2>. DEFINE yes == TRUE
              after == [runner[p] EXCEPT !.cancelled = yes]
  <2>1. /\ BetweenFrames /\ runner' = [runner EXCEPT ![p] = after]
        /\ tabs' = tabs /\ files' = files /\ turn' = turn /\ abandoned' = abandoned
    BY <1>3 DEF Cancel
  <2>2. RunnerTyped /\ IsRunner(runner[p])
    BY <1>0 DEF WorkTyped, RunnerTyped
  <2>3. /\ IsRunner(after) /\ after.job = runner[p].job /\ after.tab = runner[p].tab
        /\ after.goal = runner[p].goal /\ after.status = runner[p].status
    <3>1. after = CancelledAs(runner[p], yes)
      BY DEF CancelledAs
    <3>. HIDE DEF after, yes
    <3>2. QED
      BY <2>2, <3>1, CancelledAsIs
  <2>. HIDE DEF after
  <2>4. /\ runner' = [q \in Panels |-> runner'[q]]
        /\ \A q \in Panels : IsRunner(runner'[q])
        /\ runner'[p] = after
        /\ \A q \in Panels \ {p} : runner'[q] = runner[q]
    BY <2>1, <2>2, <2>3, RunnerTakes
  <2>5. TurnTyped' /\ TabsTyped'
    BY <1>0, <2>1, TurnStays DEF WorkTyped, TabsTyped
  <2>6. \A q \in Panels : /\ IsRunner(runner'[q]) /\ runner'[q].job = runner[q].job /\ runner'[q].tab = runner[q].tab
                          /\ runner'[q].goal = runner[q].goal /\ runner'[q].status = runner[q].status
    BY <2>3, <2>4
  <2>7. QED
    BY <2>1, <2>4, <2>5, <2>6, MarkedKeeps
<1>4. QED
  BY <1>1, <1>2, <1>3

\* An edit, or a tab that is closed, under a job that runs (gui/src/app.rs).
LEMMA EditedKeeps ==
  ASSUME WorkInv, NEW i \in DOMAIN tabs, EditTab(i) \/ CloseTab(i)
  PROVE  WorkInv'
<1>0. WorkTyped
  BY DEF WorkInv
<1>1. PICK after \in Seq(Seq(Nat)) : Changes(after)
  BY <1>0, TabsStayTyped DEF EditTab, CloseTab, WorkTyped
<1>. DEFINE yes == TRUE
<1>2. /\ BetweenFrames /\ tabs' = after /\ runner' = [q \in Panels |-> [runner[q] EXCEPT !.touched = yes]]
      /\ files' = files /\ turn' = turn /\ abandoned' = abandoned
  BY <1>1 DEF Changes
<1>. HIDE DEF yes
<1>3. \A q \in Panels : IsRunner(runner[q]) /\ runner'[q] = TouchedAs(runner[q], yes)
  BY <1>0, <1>2 DEF WorkTyped, RunnerTyped, TouchedAs
<1>4. \A q \in Panels : /\ IsRunner(runner'[q]) /\ runner'[q].job = runner[q].job /\ runner'[q].tab = runner[q].tab
                        /\ runner'[q].goal = runner[q].goal /\ runner'[q].status = runner[q].status
  BY <1>3, TouchedAsIs
<1>5. runner' = [q \in Panels |-> runner'[q]]
  BY <1>2
<1>6. TabsTyped' /\ TurnTyped'
  BY <1>0, <1>2, TurnStays DEF TabsTyped
<1>7. QED
  BY <1>2, <1>4, <1>5, <1>6, MarkedKeeps

\* The comparison of two tabs has no part in it.
LEMMA ComparingKeeps ==
  ASSUME WorkInv, tabs' = tabs, files' = files, runner' = runner, abandoned' = abandoned,
         \/ turn' = turn \/ turn' = Idle \/ turn' = [panel |-> "Compare", left |-> FRAME_BUDGET]
         \/ turn.panel = "Compare" /\ \E scanned \in Int : turn' = Spent(scanned)
  PROVE  WorkInv'
<1>1. WorkTyped
  BY DEF WorkInv
<1>2. TurnTyped'
  <2>1. CASE turn' = turn
    BY <1>1, <2>1 DEF WorkTyped, TurnTyped, Busy
  <2>2. CASE turn' = Idle \/ turn' = [panel |-> "Compare", left |-> FRAME_BUDGET]
    BY <2>2, IdleIsTyped
  <2>3. CASE turn.panel = "Compare" /\ \E scanned \in Int : turn' = Spent(scanned)
    <3>1. /\ turn' \in [panel : Panels \cup {"None", "Panicked", "Compare"}, left : Nat]
          /\ turn'.panel \in {"Compare", "None"}
      BY <1>1, <2>3, SpentIs DEF WorkTyped
    <3>2. QED
      BY <3>1 DEF TurnTyped, Panels
  <2>4. QED
    BY <2>1, <2>2, <2>3
<1>3. QED
  BY <1>2, MarkedStill

-----------------------------------------------------------------------------
(* Where two documents differ. *)

\* The smallest of some naturals is one of them.
LEMMA MinIs ==
  ASSUME NEW S, S \subseteq Nat, S # {}
  PROVE  Min(S) \in S /\ \A y \in S : Min(S) <= y
<1>1. PICK x \in S : \A y \in S : ~ (<<y, x>> \in LT)
  BY LTWellFounded, WFMin
<1>2. \A y \in S : x <= y
  <2>1. \A y \in S : y \in Nat /\ x \in Nat /\ ~(y < x)
    BY <1>1 DEF LT
  <2>2. QED
    BY <2>1
<1>3. \E z \in S : \A y \in S : z <= y
  BY <1>2
<1>4. Min(S) = CHOOSE z \in S : \A y \in S : z <= y
  BY DEF Min
<1>5. QED
  BY <1>3, <1>4

\* ranges are the longest runs of the places of D below i.
RunsUpTo(ranges, D, i) ==
  /\ ranges \in Seq(Nat \X Nat) /\ Len(ranges) <= i
  /\ \A k \in 1 .. Len(ranges) :
       /\ ranges[k][1] < ranges[k][2] /\ ranges[k][2] <= i
       /\ \A p \in Nat : ranges[k][1] <= p /\ p < ranges[k][2] => p \in D
       /\ ranges[k][1] = 0 \/ ranges[k][1] - 1 \notin D
       /\ ranges[k][2] = i \/ ranges[k][2] \notin D
       /\ k < Len(ranges) => ranges[k][2] < i
  /\ \A p \in D : p < i => \E k \in 1 .. Len(ranges) : ranges[k][1] <= p /\ p < ranges[k][2]

\* A place that does not differ ends the last run.
LEMMA RunEnds ==
  ASSUME NEW i \in Nat, NEW D \in SUBSET Nat, NEW ranges, RunsUpTo(ranges, D, i), i \notin D
  PROVE  RunsUpTo(ranges, D, i + 1)
<1>1. /\ ranges \in Seq(Nat \X Nat) /\ Len(ranges) \in Nat
      /\ \A k \in 1 .. Len(ranges) : ranges[k][1] \in Nat /\ ranges[k][2] \in Nat
  BY DEF RunsUpTo
<1>2. \A p \in D : p < i + 1 => p < i
  OBVIOUS
<1>3. QED
  BY <1>1, <1>2 DEF RunsUpTo

\* A place that differs, and those up to e, go on with the last run or begin
\* another.
LEMMA RunGrows ==
  ASSUME NEW i \in Nat, NEW D \in SUBSET Nat, NEW ranges, RunsUpTo(ranges, D, i), NEW e \in Nat, i < e,
         \A p \in Nat : i <= p /\ p < e => p \in D, NEW last, last = ranges[Len(ranges)]
  PROVE  /\ ranges # <<>> /\ last[2] = i => RunsUpTo([ranges EXCEPT ![Len(ranges)] = <<last[1], e>>], D, e)
         /\ ~(ranges # <<>> /\ last[2] = i) => RunsUpTo(Append(ranges, <<i, e>>), D, e)
<1>. DEFINE n == Len(ranges)
<1>1. /\ ranges \in Seq(Nat \X Nat) /\ n \in Nat /\ n <= i
      /\ \A k \in 1 .. n : ranges[k][1] \in Nat /\ ranges[k][2] \in Nat
  BY DEF RunsUpTo
<1>2. /\ \A k \in 1 .. n :
           /\ ranges[k][1] < ranges[k][2] /\ ranges[k][2] <= i
           /\ \A p \in Nat : ranges[k][1] <= p /\ p < ranges[k][2] => p \in D
           /\ ranges[k][1] = 0 \/ ranges[k][1] - 1 \notin D
           /\ ranges[k][2] = i \/ ranges[k][2] \notin D
           /\ k < n => ranges[k][2] < i
      /\ \A p \in D : p < i => \E k \in 1 .. n : ranges[k][1] <= p /\ p < ranges[k][2]
  BY DEF RunsUpTo
<1>3. ASSUME ranges # <<>>, last[2] = i PROVE RunsUpTo([ranges EXCEPT ![n] = <<last[1], e>>], D, e)
  <2>. DEFINE longer == [ranges EXCEPT ![n] = <<last[1], e>>]
  <2>1. n \in 1 .. n /\ last[1] \in Nat /\ last[1] < i
    <3>1. n # 0
      BY <1>1, <1>3
    <3>2. n \in 1 .. n
      BY <1>1, <3>1
    <3>3. QED
      BY <1>1, <1>2, <1>3, <3>2
  <2>2. /\ longer \in Seq(Nat \X Nat) /\ Len(longer) = n
        /\ \A k \in 1 .. n : longer[k] = IF k = n THEN <<last[1], e>> ELSE ranges[k]
    BY <1>1, <2>1
  <2>3. /\ \A k \in 1 .. n : k # n => longer[k] = ranges[k] /\ k < n
        /\ longer[n][1] = last[1] /\ longer[n][2] = e
    BY <1>1, <2>1, <2>2
  <2>. HIDE DEF longer, n
  <2>4. ASSUME NEW k \in 1 .. n
        PROVE  /\ longer[k][1] < longer[k][2] /\ longer[k][2] <= e
               /\ \A p \in Nat : longer[k][1] <= p /\ p < longer[k][2] => p \in D
               /\ longer[k][1] = 0 \/ longer[k][1] - 1 \notin D
               /\ longer[k][2] = e \/ longer[k][2] \notin D
               /\ k < n => longer[k][2] < e
    <3>1. CASE k # n
      <4>1. longer[k] = ranges[k] /\ k < n
        BY <2>3, <3>1
      <4>. DEFINE x == ranges[k][2]
      <4>2. x < i /\ (x = i \/ x \notin D) /\ x \in Nat
        BY <1>1, <1>2, <4>1
      <4>. HIDE DEF x
      <4>3. x < e /\ x <= e /\ x \notin D
        BY <4>2
      <4>4. QED
        BY <1>2, <4>1, <4>2, <4>3 DEF x
    <3>2. CASE k = n
      <4>1. ranges[n] = last
        BY DEF n
      <4>2. \A p \in Nat : last[1] <= p /\ p < i => p \in D
        BY <1>2, <1>3, <2>1, <4>1
      <4>3. last[1] = 0 \/ last[1] - 1 \notin D
        BY <1>2, <2>1, <4>1
      <4>4. \A p \in Nat : last[1] <= p /\ p < e => p \in D
        BY <4>2
      <4>5. QED
        BY <1>1, <2>1, <2>3, <3>2, <4>3, <4>4
    <3>3. QED
      BY <3>1, <3>2
  <2>5. ASSUME NEW p \in D, p < e PROVE \E k \in 1 .. n : longer[k][1] <= p /\ p < longer[k][2]
    <3>1. CASE p < i
      <4>1. PICK k \in 1 .. n : ranges[k][1] <= p /\ p < ranges[k][2]
        BY <1>2, <3>1
      <4>2. longer[k][1] <= p /\ p < longer[k][2]
        <5>1. CASE k # n
          BY <2>3, <4>1, <5>1
        <5>2. CASE k = n
          BY <2>3, <2>5, <4>1, <5>2 DEF n
        <5>3. QED
          BY <5>1, <5>2
      <4>3. QED
        BY <4>2
    <3>2. CASE ~(p < i)
      <4>1. longer[n][1] <= p /\ p < longer[n][2]
        <5>1. p \in Nat
          OBVIOUS
        <5>2. QED
          BY <2>1, <2>3, <2>5, <3>2, <5>1
      <4>2. QED
        BY <2>1, <4>1
    <3>3. QED
      BY <3>1, <3>2
  <2>6. RunsUpTo(longer, D, e)
    BY <1>1, <2>2, <2>4, <2>5 DEF RunsUpTo
  <2>7. QED
    BY <2>6 DEF longer
<1>4. ASSUME ~(ranges # <<>> /\ last[2] = i) PROVE RunsUpTo(Append(ranges, <<i, e>>), D, e)
  <2>. DEFINE more == Append(ranges, <<i, e>>)
  <2>1. /\ more \in Seq(Nat \X Nat) /\ Len(more) = n + 1 /\ more[n + 1] = <<i, e>>
        /\ \A k \in 1 .. n : more[k] = ranges[k]
    BY <1>1
  <2>2. \A k \in 1 .. n : ranges[k][2] # i /\ ranges[k][2] \notin D /\ ranges[k][2] < i
    <3>1. ASSUME NEW k \in 1 .. n PROVE ranges[k][2] # i
      <4>1. CASE k < n
        BY <1>1, <1>2, <4>1
      <4>2. CASE ~(k < n)
        <5>1. k = n /\ ranges # <<>>
          BY <1>1, <4>2
        <5>2. QED
          BY <1>4, <5>1
      <4>3. QED
        BY <4>1, <4>2
    <3>2. QED
      BY <1>1, <1>2, <3>1
  <2>3. i = 0 \/ i - 1 \notin D
    <3>1. SUFFICES ASSUME i # 0, i - 1 \in D PROVE FALSE
      OBVIOUS
    <3>2. PICK k \in 1 .. n : ranges[k][1] <= i - 1 /\ i - 1 < ranges[k][2]
      BY <1>2, <3>1
    <3>3. QED
      BY <1>1, <2>2, <3>2
  <2>. HIDE DEF more, n
  <2>4. ASSUME NEW k \in 1 .. (n + 1)
        PROVE  /\ more[k][1] < more[k][2] /\ more[k][2] <= e
               /\ \A p \in Nat : more[k][1] <= p /\ p < more[k][2] => p \in D
               /\ more[k][1] = 0 \/ more[k][1] - 1 \notin D
               /\ more[k][2] = e \/ more[k][2] \notin D
               /\ k < n + 1 => more[k][2] < e
    <3>1. CASE k \in 1 .. n
      <4>1. more[k] = ranges[k]
        BY <2>1, <3>1
      <4>2. ranges[k][2] < e /\ ranges[k][2] <= e /\ ranges[k][2] \notin D
        BY <1>1, <2>2, <3>1
      <4>3. QED
        BY <1>2, <3>1, <4>1, <4>2
    <3>2. CASE k \notin 1 .. n
      <4>1. k = n + 1
        BY <1>1, <3>2
      <4>2. more[k][1] = i /\ more[k][2] = e
        BY <2>1, <4>1
      <4>3. QED
        BY <2>3, <4>1, <4>2
    <3>3. QED
      BY <3>1, <3>2
  <2>5. ASSUME NEW p \in D, p < e PROVE \E k \in 1 .. (n + 1) : more[k][1] <= p /\ p < more[k][2]
    <3>1. CASE p < i
      <4>1. PICK k \in 1 .. n : ranges[k][1] <= p /\ p < ranges[k][2]
        BY <1>2, <3>1
      <4>2. k \in 1 .. (n + 1) /\ more[k] = ranges[k]
        BY <1>1, <2>1
      <4>3. QED
        BY <4>1, <4>2
    <3>2. CASE ~(p < i)
      <4>1. n + 1 \in 1 .. (n + 1) /\ more[n + 1][1] = i /\ more[n + 1][2] = e
        BY <1>1, <2>1
      <4>2. more[n + 1][1] <= p /\ p < more[n + 1][2]
        <5>1. p \in Nat
          OBVIOUS
        <5>2. QED
          BY <2>5, <3>2, <4>1, <5>1
      <4>3. QED
        BY <4>1, <4>2
    <3>3. QED
      BY <3>1, <3>2
  <2>6. n + 1 <= e
    BY <1>1
  <2>7. RunsUpTo(more, D, e)
    BY <2>1, <2>4, <2>5, <2>6 DEF RunsUpTo
  <2>8. QED
    BY <2>7 DEF more
<1>5. QED
  BY <1>3, <1>4

\* Where two documents differ.
Places(a, b) == {p \in Nat : DifferAt(a, b, p)}

\* Past the end of the shorter document everything differs, and past the end of
\* the longer one nothing.
LEMMA PlacesAre ==
  ASSUME NEW a \in Seq(Nat), NEW b \in Seq(Nat)
  PROVE  /\ Least(Len(a), Len(b)) \in Nat /\ Most(Len(a), Len(b)) \in Nat
         /\ Least(Len(a), Len(b)) <= Most(Len(a), Len(b))
         /\ Least(Len(a), Len(b)) = Most(Len(a), Len(b)) <=> Len(a) = Len(b)
         /\ Least(Len(a), Len(b)) <= Len(a) /\ Least(Len(a), Len(b)) <= Len(b)
         /\ Most(Len(a), Len(b)) <= Len(a) + Len(b)
         /\ \A p \in Places(a, b) : p \in Nat /\ p < Most(Len(a), Len(b))
         /\ \A p \in Nat : Least(Len(a), Len(b)) <= p /\ p < Most(Len(a), Len(b)) => p \in Places(a, b)
         /\ \A p \in Nat : p < Least(Len(a), Len(b)) => (p \in Places(a, b) <=> Shown(a)[p + 1] # Shown(b)[p + 1])
<1>. DEFINE l == Least(Len(a), Len(b))
            m == Most(Len(a), Len(b))
<1>1. /\ l \in Nat /\ m \in Nat /\ l <= m /\ (l = m <=> Len(a) = Len(b)) /\ m <= Len(a) + Len(b)
      /\ l <= Len(a) /\ l <= Len(b)
  BY DEF Least, Most
<1>2. \A p \in Nat : p \in Places(a, b) <=> (p < m /\ (p >= l \/ Shown(a)[p + 1] # Shown(b)[p + 1]))
  BY DEF Places, DifferAt
<1>3. \A p \in Places(a, b) : p \in Nat
  BY DEF Places
<1>. HIDE DEF l, m
<1>4. /\ \A p \in Places(a, b) : p < m
      /\ \A p \in Nat : l <= p /\ p < m => p \in Places(a, b)
      /\ \A p \in Nat : p < l => (p \in Places(a, b) <=> Shown(a)[p + 1] # Shown(b)[p + 1])
  BY <1>1, <1>2, <1>3
<1>5. QED
  BY <1>1, <1>3, <1>4 DEF l, m

\* The runs of all the places that differ are the longest ranges.
LEMMA RunsAreRanges ==
  ASSUME NEW a \in Seq(Nat), NEW b \in Seq(Nat), NEW ranges,
         RunsUpTo(ranges, Places(a, b), Most(Len(a), Len(b)))
  PROVE  ToSet(ranges) = RangesThatDiffer(a, b)
<1>. DEFINE size == Most(Len(a), Len(b))
            D == Places(a, b)
<1>1. size \in Nat /\ D \subseteq Nat /\ (\A p \in D : p < size) /\ RunsUpTo(ranges, D, size)
  BY PlacesAre
<1>2. /\ ranges \in Seq(Nat \X Nat)
      /\ \A k \in 1 .. Len(ranges) :
           /\ ranges[k] \in Nat \X Nat
           /\ ranges[k][1] \in Nat /\ ranges[k][2] \in Nat
           /\ ranges[k][1] < ranges[k][2] /\ ranges[k][2] <= size
           /\ \A p \in Nat : ranges[k][1] <= p /\ p < ranges[k][2] => p \in D
           /\ ranges[k][1] = 0 \/ ranges[k][1] - 1 \notin D
           /\ ranges[k][2] \notin D
      /\ \A p \in D : \E k \in 1 .. Len(ranges) : ranges[k][1] <= p /\ p < ranges[k][2]
  <2>1. ranges \in Seq(Nat \X Nat)
    BY <1>1 DEF RunsUpTo
  <2>2. \A k \in 1 .. Len(ranges) : ranges[k] \in Nat \X Nat /\ ranges[k][1] \in Nat /\ ranges[k][2] \in Nat
    BY <2>1
  <2>. HIDE DEF size, D
  <2>3. size \notin D
    BY <1>1
  <2>4. QED
    BY <1>1, <2>1, <2>2, <2>3 DEF RunsUpTo
<1>3. RangesThatDiffer(a, b) =
        {r \in (0 .. size) \X (0 .. size) :
           /\ r[1] < r[2]
           /\ \A p \in r[1] .. r[2] - 1 : DifferAt(a, b, p)
           /\ r[1] = 0 \/ ~DifferAt(a, b, r[1] - 1)
           /\ ~DifferAt(a, b, r[2])}
  BY DEF RangesThatDiffer
<1>4. \A p \in Nat : p \in D <=> DifferAt(a, b, p)
  BY DEF Places
<1>. HIDE DEF size, D
<1>5. ToSet(ranges) = {ranges[k] : k \in 1 .. Len(ranges)}
  BY <1>2 DEF ToSet
<1>6. ASSUME NEW k \in 1 .. Len(ranges) PROVE ranges[k] \in RangesThatDiffer(a, b)
  <2>. DEFINE r == ranges[k]
  <2>1. /\ r \in Nat \X Nat /\ r[1] \in Nat /\ r[2] \in Nat /\ r[1] < r[2] /\ r[2] <= size
        /\ \A p \in Nat : r[1] <= p /\ p < r[2] => p \in D
        /\ r[1] = 0 \/ r[1] - 1 \notin D
        /\ r[2] \notin D
    BY <1>2
  <2>. HIDE DEF r
  <2>2. r \in (0 .. size) \X (0 .. size)
    <3>1. r[1] \in 0 .. size /\ r[2] \in 0 .. size /\ r = <<r[1], r[2]>>
      BY <1>1, <2>1
    <3>2. QED
      BY <3>1
  <2>3. \A p \in r[1] .. r[2] - 1 : DifferAt(a, b, p)
    BY <1>4, <2>1
  <2>4. (r[1] = 0 \/ ~DifferAt(a, b, r[1] - 1)) /\ ~DifferAt(a, b, r[2])
    <3>1. r[1] # 0 => r[1] - 1 \in Nat
      BY <2>1
    <3>2. QED
      BY <1>4, <2>1, <3>1
  <2>5. QED
    BY <1>3, <2>1, <2>2, <2>3, <2>4 DEF r
<1>7. ASSUME NEW r \in RangesThatDiffer(a, b) PROVE \E k \in 1 .. Len(ranges) : r = ranges[k]
  <2>1. /\ r \in (0 .. size) \X (0 .. size) /\ r[1] < r[2]
        /\ \A p \in r[1] .. r[2] - 1 : DifferAt(a, b, p)
        /\ r[1] = 0 \/ ~DifferAt(a, b, r[1] - 1)
        /\ ~DifferAt(a, b, r[2])
    BY <1>3
  <2>2. r[1] \in Nat /\ r[2] \in Nat /\ r = <<r[1], r[2]>>
    BY <1>1, <2>1
  <2>3. /\ \A p \in Nat : r[1] <= p /\ p < r[2] => p \in D
        /\ r[1] = 0 \/ r[1] - 1 \notin D
        /\ r[2] \notin D
    <3>1. \A p \in Nat : r[1] <= p /\ p < r[2] => p \in r[1] .. r[2] - 1
      BY <2>2
    <3>2. r[1] # 0 => r[1] - 1 \in Nat
      BY <2>2
    <3>3. QED
      BY <1>4, <2>1, <2>2, <3>1, <3>2
  <2>4. r[1] \in D
    BY <2>1, <2>2, <2>3
  <2>5. PICK k \in 1 .. Len(ranges) : ranges[k][1] <= r[1] /\ r[1] < ranges[k][2]
    BY <1>2, <2>4
  <2>6. ranges[k][1] = r[1]
    <3>1. SUFFICES ASSUME ranges[k][1] < r[1] PROVE FALSE
      BY <1>2, <2>2, <2>5
    <3>2. r[1] - 1 \in Nat /\ ranges[k][1] <= r[1] - 1 /\ r[1] - 1 < ranges[k][2] /\ r[1] # 0
      <4>1. ranges[k][1] \in Nat /\ ranges[k][2] \in Nat
        BY <1>2
      <4>2. QED
        BY <2>2, <2>5, <3>1, <4>1
    <3>3. QED
      BY <1>2, <2>3, <3>2
  <2>7. ranges[k][2] = r[2]
    <3>1. ~(ranges[k][2] < r[2])
      BY <1>2, <2>2, <2>3, <2>5
    <3>2. ~(r[2] < ranges[k][2])
      BY <1>2, <2>1, <2>2, <2>3, <2>5
    <3>3. QED
      BY <1>2, <2>2, <3>1, <3>2
  <2>8. ranges[k] = <<ranges[k][1], ranges[k][2]>>
    BY <1>2
  <2>9. QED
    BY <2>2, <2>6, <2>7, <2>8
<1>8. QED
  BY <1>5, <1>6, <1>7

\* What the loop over the common part carries along, after k places.
DiffLoop(acc, D, k) ==
  /\ acc \in [ranges : Seq(Nat \X Nat), truncated : BOOLEAN]
  /\ acc.truncated = FALSE /\ RunsUpTo(acc.ranges, D, k)

\* A place that differs, and those up to e.
LEMMA DifferingKeeps ==
  ASSUME NEW i \in Nat, NEW D \in SUBSET Nat, NEW acc, DiffLoop(acc, D, i), NEW e \in Nat, i < e,
         \A p \in Nat : i <= p /\ p < e => p \in D, NEW limit \in Nat, i < limit
  PROVE  DiffLoop(Differing(acc, i, e, limit), D, e)
<1>. DEFINE ranges == acc.ranges
            n == Len(ranges)
            last == ranges[n]
            longer == [ranges EXCEPT ![n] = <<last[1], e>>]
            more == Append(ranges, <<i, e>>)
<1>1. /\ acc \in [ranges : Seq(Nat \X Nat), truncated : BOOLEAN] /\ acc.truncated = FALSE
      /\ RunsUpTo(ranges, D, i) /\ ranges \in Seq(Nat \X Nat) /\ n \in Nat /\ n <= i
  BY SMTT(40) DEF DiffLoop, RunsUpTo
<1>2. /\ ranges # <<>> /\ last[2] = i => RunsUpTo(longer, D, e)
      /\ ~(ranges # <<>> /\ last[2] = i) => RunsUpTo(more, D, e)
  BY <1>1, RunGrows
<1>3. CASE ranges # <<>> /\ last[2] = i
  <2>1. Differing(acc, i, e, limit) = [acc EXCEPT !.ranges[Len(acc.ranges)][2] = e]
    BY <1>1, <1>3 DEF Differing
  <2>2. [acc EXCEPT !.ranges[Len(acc.ranges)][2] = e] = [acc EXCEPT !.ranges = longer]
    <3>1. n \in 1 .. n /\ last \in Nat \X Nat /\ n \in DOMAIN ranges
      BY <1>1, <1>3
    <3>2. last = <<last[1], last[2]>>
      BY <3>1
    <3>3. [last EXCEPT ![2] = e] = <<last[1], e>>
      <4>. DEFINE x == last[1]
                  y == last[2]
      <4>1. [<<x, y>> EXCEPT ![2] = e] = <<x, e>>
        OBVIOUS
      <4>2. QED
        BY <3>2, <4>1
    <3>4. [ranges EXCEPT ![n][2] = e] = [ranges EXCEPT ![n] = [last EXCEPT ![2] = e]]
      OBVIOUS
    <3>5. [acc EXCEPT !.ranges[Len(acc.ranges)][2] = e] = [acc EXCEPT !.ranges = [ranges EXCEPT ![n][2] = e]]
      OBVIOUS
    <3>6. QED
      BY <3>3, <3>4, <3>5
  <2>3. RunsUpTo(longer, D, e) /\ longer \in Seq(Nat \X Nat)
    BY <1>2, <1>3 DEF RunsUpTo
  <2>. HIDE DEF longer
  <2>4. DiffLoop([acc EXCEPT !.ranges = longer], D, e)
    BY <1>1, <2>3 DEF DiffLoop
  <2>5. QED
    BY <2>1, <2>2, <2>4
<1>4. CASE ~(ranges # <<>> /\ last[2] = i)
  <2>1. ~(n >= limit)
    BY <1>1
  <2>2. Differing(acc, i, e, limit) = [acc EXCEPT !.ranges = Append(@, <<i, e>>)]
    BY <1>1, <1>4, <2>1 DEF Differing
  <2>3. [acc EXCEPT !.ranges = Append(@, <<i, e>>)] = [acc EXCEPT !.ranges = more]
    OBVIOUS
  <2>4. RunsUpTo(more, D, e) /\ more \in Seq(Nat \X Nat)
    BY <1>2, <1>4 DEF RunsUpTo
  <2>. HIDE DEF more
  <2>5. DiffLoop([acc EXCEPT !.ranges = more], D, e)
    BY <1>1, <2>4 DEF DiffLoop
  <2>6. QED
    BY <2>2, <2>3, <2>5
<1>5. QED
  BY <1>3, <1>4

\* The list of ranges that differ is the longest runs of differing places, all of
\* them where the limit is as large as both documents together
\* (core/src/compare.rs, diff_ranges).
LEMMA DiffRangesAre ==
  ASSUME NEW a \in Seq(Nat), NEW b \in Seq(Nat)
  PROVE  ToSet(DiffRanges(a, b, Len(a) + Len(b)).ranges) = RangesThatDiffer(a, b)
<1>. DEFINE limit == Len(a) + Len(b)
            common == Least(Len(a), Len(b))
            size == Most(Len(a), Len(b))
            D == Places(a, b)
            n == Len(SubSeq(a, 1, common))
            first == [ranges |-> <<>>, truncated |-> FALSE]
            Turn(acc, i) == IF Shown(a)[i] # Shown(b)[i] THEN Differing(acc, i - 1, i, limit) ELSE acc
            Turned(acc, i) == CHOOSE r \in {Turn(x, i) : x \in {acc}} : TRUE
            Body(g) == [i \in 0 .. n |-> IF i = 0 THEN first ELSE Turned(g[i - 1], i)]
            f == CHOOSE g : g = Body(g)
            Keeps(acc, k) == DiffLoop(acc, D, k)
<1>1. DiffRanges(a, b, limit) = IF Len(a) = Len(b) THEN f[n] ELSE Differing(f[n], common, size, limit)
  BY DEF DiffRanges, OverIndices, Repeat, With
<1>20. /\ common \in Nat /\ size \in Nat /\ common <= size /\ (common = size <=> Len(a) = Len(b))
       /\ common <= Len(a) /\ common <= Len(b) /\ size <= limit /\ limit \in Nat
       /\ D \in SUBSET Nat
       /\ \A p \in Nat : common <= p /\ p < size => p \in D
       /\ \A p \in Nat : p < common => (p \in D <=> Shown(a)[p + 1] # Shown(b)[p + 1])
  BY PlacesAre
<1>21. n = common
  <2>. HIDE DEF common
  <2>1. QED
    BY <1>20
<1>2. n \in Nat
  BY <1>20, <1>21
<1>3. \A acc, i : Turned(acc, i) = Turn(acc, i)
  <2>. HIDE DEF Turn
  <2>1. QED
    OBVIOUS
<1>4. \A acc : \A i \in 1 .. n : Keeps(acc, i - 1) => Keeps(Turn(acc, i), i)
  <2>1. SUFFICES ASSUME NEW acc, NEW i \in 1 .. n, Keeps(acc, i - 1) PROVE Keeps(Turn(acc, i), i)
    OBVIOUS
  <2>. DEFINE q == i - 1
  <2>2. q \in Nat /\ i \in Nat /\ q < i /\ i = q + 1 /\ q < common /\ q < limit
    <3>. HIDE DEF common, limit, size, n
    <3>1. QED
      BY <1>20, <1>21
  <2>3. (q \in D <=> Shown(a)[i] # Shown(b)[i])
    <3>. HIDE DEF common, limit, size, n, D
    <3>1. QED
      BY <1>20, <2>2
  <2>. HIDE DEF common, limit, size, n, D
  <2>4. CASE Shown(a)[i] # Shown(b)[i]
    <3>1. \A p \in Nat : q <= p /\ p < i => p \in D
      <4>1. \A p \in Nat : q <= p /\ p < i => p = q
        BY <2>2
      <4>2. QED
        BY <2>3, <2>4, <4>1
    <3>2. Turn(acc, i) = Differing(acc, q, i, limit)
      BY <2>4
    <3>3. DiffLoop(acc, D, q)
      BY <2>1
    <3>. HIDE DEF q
    <3>4. DiffLoop(Differing(acc, q, i, limit), D, i)
      BY <1>20, <2>2, <3>1, <3>3, DifferingKeeps
    <3>5. QED
      BY <3>2, <3>4
  <2>5. CASE ~(Shown(a)[i] # Shown(b)[i])
    <3>1. Turn(acc, i) = acc
      BY <2>5
    <3>2. acc.truncated = FALSE /\ acc \in [ranges : Seq(Nat \X Nat), truncated : BOOLEAN] /\ RunsUpTo(acc.ranges, D, q)
      BY <2>1 DEF DiffLoop
    <3>. HIDE DEF q
    <3>3. RunsUpTo(acc.ranges, D, q + 1)
      BY <1>20, <2>2, <2>3, <2>5, <3>2, RunEnds
    <3>4. QED
      BY <2>2, <3>1, <3>2, <3>3 DEF DiffLoop
  <2>6. QED
    BY <2>4, <2>5
<1>5. Keeps(first, 0)
  <2>. DEFINE none == <<>>
  <2>1. none \in Seq(Nat \X Nat) /\ Len(none) = 0
    OBVIOUS
  <2>2. RunsUpTo(none, D, 0)
    <3>1. \A p \in D : ~(p < 0)
      BY <1>20
    <3>. HIDE DEF none, D
    <3>2. QED
      BY <2>1, <3>1 DEF RunsUpTo
  <2>3. first = [ranges |-> none, truncated |-> FALSE]
    OBVIOUS
  <2>. HIDE DEF none, D
  <2>4. QED
    BY <2>1, <2>2, <2>3 DEF DiffLoop
<1>6. SUFFICES Keeps(f[n], n)
  <2>. HIDE DEF f, n, common, size, D, limit
  <2>1. DiffLoop(DiffRanges(a, b, limit), D, size)
    <3>1. CASE Len(a) = Len(b)
      BY <1>1, <1>6, <1>20, <1>21, <3>1
    <3>2. CASE Len(a) # Len(b)
      <4>1. common < size /\ common < limit
        BY <1>20, <3>2
      <4>2. DiffLoop(f[n], D, common)
        BY <1>6, <1>21
      <4>3. DiffLoop(Differing(f[n], common, size, limit), D, size)
        BY <1>20, <4>1, <4>2, DifferingKeeps
      <4>4. QED
        BY <1>1, <3>2, <4>3
    <3>3. QED
      BY <3>1, <3>2
  <2>2. RunsUpTo(DiffRanges(a, b, limit).ranges, Places(a, b), Most(Len(a), Len(b)))
    BY <2>1 DEF DiffLoop, D, size
  <2>3. QED
    BY <2>2, RunsAreRanges DEF limit
<1>. HIDE DEF Turn, Turned, first, n, Keeps, common, size, D, limit
<1>8. f = Body(f)
  <2>. DEFINE T == {m \in Nat : \E g : g = [i \in 0 .. m |-> IF i = 0 THEN first ELSE Turned(g[i - 1], i)]}
  <2>1. 0 \in T
    <3>1. [i \in 0 .. 0 |-> first] = [i \in 0 .. 0 |-> IF i = 0 THEN first ELSE Turned([k \in 0 .. 0 |-> first][i - 1], i)]
      OBVIOUS
    <3>2. QED
      BY <3>1
  <2>2. ASSUME NEW m \in Nat, m \in T PROVE m + 1 \in T
    <3>1. PICK g : g = [i \in 0 .. m |-> IF i = 0 THEN first ELSE Turned(g[i - 1], i)]
      BY <2>2
    <3>. DEFINE h == [i \in 0 .. (m + 1) |-> IF i <= m THEN g[i] ELSE Turned(g[m], m + 1)]
    <3>2. ASSUME NEW i \in 0 .. (m + 1) PROVE h[i] = IF i = 0 THEN first ELSE Turned(h[i - 1], i)
      <4>1. CASE i <= m
        <5>1. i \in 0 .. m /\ (i # 0 => i - 1 \in 0 .. (m + 1) /\ i - 1 <= m)
          BY <4>1
        <5>2. h[i] = g[i] /\ (i # 0 => h[i - 1] = g[i - 1])
          BY <4>1, <5>1
        <5>3. g[i] = IF i = 0 THEN first ELSE Turned(g[i - 1], i)
          BY <3>1, <5>1
        <5>. HIDE DEF h
        <5>4. QED
          BY <5>2, <5>3
      <4>2. CASE ~(i <= m)
        <5>1. i = m + 1 /\ i # 0 /\ i - 1 = m /\ m \in 0 .. (m + 1) /\ m <= m
          BY <4>2
        <5>2. h[i] = Turned(g[m], m + 1) /\ h[m] = g[m]
          BY <4>2, <5>1
        <5>. HIDE DEF h
        <5>3. QED
          BY <5>1, <5>2
      <4>3. QED
        BY <4>1, <4>2
    <3>3. h = [i \in 0 .. (m + 1) |-> IF i = 0 THEN first ELSE Turned(h[i - 1], i)]
      <4>1. h = [i \in 0 .. (m + 1) |-> h[i]]
        OBVIOUS
      <4>. HIDE DEF h
      <4>2. QED
        BY <3>2, <4>1
    <3>. HIDE DEF h
    <3>4. \E g1 : g1 = [i \in 0 .. (m + 1) |-> IF i = 0 THEN first ELSE Turned(g1[i - 1], i)]
      BY <3>3
    <3>5. m + 1 \in Nat
      OBVIOUS
    <3>6. QED
      BY <3>4, <3>5
  <2>3. n \in T
    <3>. HIDE DEF T
    <3>1. QED
      BY <1>2, <2>1, <2>2, SetInduction
  <2>4. QED
    BY <2>3
<1>. HIDE DEF f
<1>9. f[0] = first /\ \A i \in 1 .. n : f[i] = Turn(f[i - 1], i)
  <2>1. 0 \in 0 .. n /\ \A i \in 1 .. n : i \in 0 .. n /\ i # 0
    BY <1>2
  <2>2. QED
    BY <1>3, <1>8, <2>1
<1>10. \A i \in 0 .. n : i \in {k \in 0 .. n : Keeps(f[k], k)}
  <2>. DEFINE S == {k \in 0 .. n : Keeps(f[k], k)}
  <2>1. 0 \in S
    BY <1>2, <1>5, <1>9
  <2>2. ASSUME NEW k \in 1 .. n, k - 1 \in S PROVE k \in S
    BY <1>2, <1>4, <1>9, <2>2
  <2>. HIDE DEF S
  <2>3. \A k \in 0 .. n : k \in S
    BY <1>2, <2>1, <2>2, PrefixInduction
  <2>4. QED
    BY <2>3 DEF S
<1>11. QED
  BY <1>2, <1>10

-----------------------------------------------------------------------------
(* The search for the next difference. *)

\* What a range shows is what the document shows there.
LEMMA ShownSlice ==
  ASSUME NEW doc \in Seq(Nat), NEW at \in Nat, NEW len \in Nat
  PROVE  \A i \in 1 .. Len(Slice(doc, at, len)) :
           Shown(Slice(doc, at, len))[i] = Shown(doc)[at + i] /\ at + i \in 1 .. Len(doc)
<1>. DEFINE s == Slice(doc, at, len)
<1>1. s \in Seq(Nat) /\ \A i \in 1 .. Len(s) : s[i] = doc[at + i] /\ at + i \in 1 .. Len(doc)
  BY SliceIs
<1>. HIDE DEF s
<1>2. /\ \A i \in 1 .. Len(s) : Shown(s)[i] = IF s[i] = Unreadable THEN 0 ELSE s[i]
      /\ \A i \in 1 .. Len(doc) : Shown(doc)[i] = IF doc[i] = Unreadable THEN 0 ELSE doc[i]
  BY <1>1 DEF Shown
<1>3. ASSUME NEW i \in 1 .. Len(s) PROVE Shown(s)[i] = Shown(doc)[at + i] /\ at + i \in 1 .. Len(doc)
  <2>. DEFINE k == at + i
  <2>1. k \in 1 .. Len(doc) /\ s[i] = doc[k]
    BY <1>1
  <2>. HIDE DEF k
  <2>2. Shown(s)[i] = Shown(doc)[k]
    BY <1>2, <2>1
  <2>3. QED
    BY <2>1, <2>2 DEF k
<1>4. QED
  BY <1>3 DEF s

DiffJobs == [kind : {"Diff"}, pos : Nat, commonEnd : Nat, lensDiffer : BOOLEAN, approx : BOOLEAN, done : BOOLEAN]

\* What a step tells of the two documents.
DiffTells(j, a, b, st) ==
  /\ st.scanned \in Int
  /\ j.pos = j.commonEnd => st.finished /\ st.found = IF j.lensDiffer THEN j.commonEnd ELSE NoDifference
  /\ j.pos < j.commonEnd /\ st.found # NoDifference =>
       /\ st.found \in Places(a, b) /\ st.found >= j.pos
       /\ j.commonEnd = Least(Len(a), Len(b)) =>
            st.found < j.commonEnd /\ \A p \in Nat : j.pos <= p /\ p < st.found => p \notin Places(a, b)
  /\ j.pos < j.commonEnd /\ st.found = NoDifference =>
       /\ st.finished = FALSE
       /\ st.job \in DiffJobs /\ st.job.done = FALSE /\ st.job.commonEnd = j.commonEnd
       /\ st.job.lensDiffer = j.lensDiffer /\ st.job.pos >= j.pos /\ st.job.pos <= j.commonEnd
       /\ j.commonEnd = Least(Len(a), Len(b)) =>
            \A p \in Nat : j.pos <= p /\ p < st.job.pos => p \notin Places(a, b)

\* A step of the search: what it found differs, and nothing before it in the
\* window does; the step that finds nothing has looked at the whole window.
LEMMA DiffStepIs ==
  ASSUME NEW a \in Seq(Nat), NEW b \in Seq(Nat), NEW budget \in Nat,
         NEW j \in DiffJobs, j.done = FALSE, j.pos <= j.commonEnd, NEW st, st = DiffStep(j, a, b, budget)
  PROVE  DiffTells(j, a, b, st)
<1>. SUFFICES /\ st.scanned \in Int
              /\ j.pos = j.commonEnd => st.finished /\ st.found = IF j.lensDiffer THEN j.commonEnd ELSE NoDifference
              /\ j.pos < j.commonEnd /\ st.found # NoDifference =>
                   /\ st.found \in Places(a, b) /\ st.found >= j.pos
                   /\ j.commonEnd = Least(Len(a), Len(b)) =>
                        st.found < j.commonEnd /\ \A p \in Nat : j.pos <= p /\ p < st.found => p \notin Places(a, b)
              /\ j.pos < j.commonEnd /\ st.found = NoDifference =>
                   /\ st.finished = FALSE
                   /\ st.job \in DiffJobs /\ st.job.done = FALSE /\ st.job.commonEnd = j.commonEnd
                   /\ st.job.lensDiffer = j.lensDiffer /\ st.job.pos >= j.pos /\ st.job.pos <= j.commonEnd
                   /\ j.commonEnd = Least(Len(a), Len(b)) =>
                        \A p \in Nat : j.pos <= p /\ p < st.job.pos => p \notin Places(a, b)
  BY DEF DiffTells
<1>. DEFINE pos == j.pos
            n == Least(j.commonEnd - pos, Least(Most(budget, 1), WINDOW))
            ra == Slice(a, pos, n)
            rb == Slice(b, pos, n)
            m == Least(Len(ra), Len(rb))
            differ == {i \in 1 .. m : Shown(ra)[i] # Shown(rb)[i]}
            blurred == j.approx \/ ~IsClean(ra) \/ ~IsClean(rb)
            seen == [j EXCEPT !.approx = blurred]
            at == pos + Min(differ) - 1
            D == Places(a, b)
            common == Least(Len(a), Len(b))
<1>1. /\ pos \in Nat /\ j.commonEnd \in Nat /\ pos <= j.commonEnd
      /\ n \in Nat /\ n <= j.commonEnd - pos /\ (pos < j.commonEnd => n >= 1)
  BY WindowAssumption DEF DiffJobs, Least, Most
<1>2. st = IF pos >= j.commonEnd
           THEN [job |-> [j EXCEPT !.done = TRUE], scanned |-> 0, finished |-> TRUE,
                 found |-> IF j.lensDiffer THEN j.commonEnd ELSE NoDifference]
           ELSE IF differ # {}
           THEN [job |-> [seen EXCEPT !.pos = at + 1, !.done = TRUE], found |-> at, scanned |-> n, finished |-> TRUE]
           ELSE [job |-> [seen EXCEPT !.pos = @ + n], found |-> NoDifference, scanned |-> n, finished |-> FALSE]
  BY DEF DiffStep
<1>. HIDE DEF n, pos
<1>3. /\ ra \in Seq(Nat) /\ rb \in Seq(Nat) /\ Len(ra) \in Nat /\ Len(rb) \in Nat
      /\ Len(ra) = (IF pos + n <= Len(a) THEN n ELSE Most(Len(a) - pos, 0))
      /\ Len(rb) = (IF pos + n <= Len(b) THEN n ELSE Most(Len(b) - pos, 0))
  <2>1. \A doc \in Seq(Nat) :
          /\ Slice(doc, pos, n) \in Seq(Nat)
          /\ Len(Slice(doc, pos, n)) = IF pos + n <= Len(doc) THEN n ELSE Most(Len(doc) - pos, 0)
    BY <1>1, SliceIs
  <2>2. QED
    BY <2>1
<1>4. /\ \A i \in 1 .. Len(ra) : Shown(ra)[i] = Shown(a)[pos + i] /\ pos + i \in 1 .. Len(a)
      /\ \A i \in 1 .. Len(rb) : Shown(rb)[i] = Shown(b)[pos + i] /\ pos + i \in 1 .. Len(b)
  BY <1>1, ShownSlice
<1>5. /\ common \in Nat /\ common <= Len(a) /\ common <= Len(b)
      /\ \A p \in Nat : p < common => (p \in D <=> Shown(a)[p + 1] # Shown(b)[p + 1])
      /\ (common = Len(a) \/ common = Len(b))
  BY PlacesAre DEF Least
<1>6. m \in Nat /\ m <= Len(ra) /\ m <= Len(rb) /\ (m = Len(ra) \/ m = Len(rb))
  BY <1>3 DEF Least
<1>. HIDE DEF ra, rb, m, common, D
\* A place of the window differs when the ranges do there.
<1>7. ASSUME NEW i \in 1 .. m PROVE pos + i - 1 \in Nat /\ pos + i - 1 < common /\ (pos + i - 1 \in D <=> i \in differ)
  <2>. DEFINE p == pos + i - 1
  <2>1. i \in 1 .. Len(ra) /\ i \in 1 .. Len(rb) /\ p \in Nat /\ p + 1 = pos + i
    <3>1. Len(ra) \in Nat /\ Len(rb) \in Nat
      BY <1>3
    <3>2. QED
      BY <1>1, <1>6, <3>1
  <2>2. pos + i <= Len(a) /\ pos + i <= Len(b) /\ Shown(ra)[i] = Shown(a)[p + 1] /\ Shown(rb)[i] = Shown(b)[p + 1]
    BY <1>4, <2>1
  <2>3. p < common
    BY <1>5, <2>1, <2>2
  <2>. HIDE DEF p
  <2>4. p \in D <=> i \in differ
    BY <1>5, <2>1, <2>2, <2>3
  <2>5. QED
    BY <2>1, <2>3, <2>4 DEF p
<1>8. CASE pos = j.commonEnd
  <2>1. pos >= j.commonEnd
    BY <1>1, <1>8
  <2>. HIDE DEF at, differ, seen
  <2>2. st.scanned = 0 /\ st.finished = TRUE /\ st.found = IF j.lensDiffer THEN j.commonEnd ELSE NoDifference
    BY <1>2, <2>1
  <2>3. ~(pos < j.commonEnd)
    BY <1>1, <1>8
  <2>4. QED
    BY <2>2, <2>3 DEF pos
<1>9. CASE pos < j.commonEnd /\ differ # {}
  <2>1. differ \subseteq Nat
    BY <1>6
  <2>. DEFINE least == Min(differ)
  <2>2. least \in differ /\ \A y \in differ : least <= y
    BY <1>9, <2>1, MinIs
  <2>3. least \in 1 .. m
    BY <2>2
  <2>. DEFINE found == pos + least - 1
  <2>. HIDE DEF differ, least
  <2>4. found \in Nat /\ found >= pos /\ found < common /\ found \in D
    BY <1>1, <1>7, <2>2, <2>3
  <2>5. ASSUME NEW p \in Nat, pos <= p, p < found PROVE p \notin D
    <3>. DEFINE i == p - pos + 1
    <3>1. i \in 1 .. m /\ i < least /\ p = pos + i - 1
      <4>1. least \in Nat /\ least <= m /\ p < pos + least - 1
        BY <1>6, <2>3, <2>5
      <4>2. QED
        BY <1>1, <1>6, <2>5, <4>1
    <3>. HIDE DEF i, found
    <3>2. i \notin differ
      <4>1. i \in Nat /\ least \in Nat
        BY <2>3, <3>1
      <4>2. QED
        BY <2>2, <3>1, <4>1
    <3>3. QED
      BY <1>7, <3>1, <3>2
  <2>6. st.found = found /\ st.scanned = n
    <3>1. ~(pos >= j.commonEnd) /\ at = found
      BY <1>1, <1>9 DEF least
    <3>. HIDE DEF at, found, seen
    <3>2. QED
      BY <1>2, <1>9, <3>1
  <2>. HIDE DEF found
  <2>7. found # NoDifference
    BY <2>4 DEF NoDifference
  <2>8. QED
    BY <1>1, <1>9, <2>4, <2>5, <2>6, <2>7 DEF D, common, pos
<1>10. CASE pos < j.commonEnd /\ differ = {}
  <2>1. st = [job |-> [seen EXCEPT !.pos = @ + n], found |-> NoDifference, scanned |-> n, finished |-> FALSE]
    BY <1>1, <1>2, <1>10
  <2>2. /\ st.job \in DiffJobs /\ st.job.done = FALSE /\ st.job.commonEnd = j.commonEnd
        /\ st.job.lensDiffer = j.lensDiffer /\ st.job.pos = pos + n
    <3>1. blurred \in BOOLEAN
      OBVIOUS
    <3>. HIDE DEF blurred
    <3>2. seen \in DiffJobs /\ seen.done = FALSE /\ seen.commonEnd = j.commonEnd /\ seen.lensDiffer = j.lensDiffer /\ seen.pos = pos
      BY <3>1 DEF DiffJobs, pos
    <3>. HIDE DEF seen
    <3>3. [seen EXCEPT !.pos = @ + n] = [seen EXCEPT !.pos = pos + n]
      BY <3>2
    <3>. DEFINE next == pos + n
    <3>4. next \in Nat
      BY <1>1
    <3>. HIDE DEF differ, at
    <3>5. st.job = [seen EXCEPT !.pos = next]
      BY <2>1, <3>3
    <3>. HIDE DEF next
    <3>6. [seen EXCEPT !.pos = next] \in DiffJobs /\ [seen EXCEPT !.pos = next].pos = next
          /\ [seen EXCEPT !.pos = next].done = FALSE /\ [seen EXCEPT !.pos = next].commonEnd = j.commonEnd
          /\ [seen EXCEPT !.pos = next].lensDiffer = j.lensDiffer
      BY <3>2, <3>4 DEF DiffJobs
    <3>7. QED
      BY <3>5, <3>6 DEF next
  <2>3. ASSUME j.commonEnd = common, NEW p \in Nat, pos <= p, p < pos + n PROVE p \notin D
    <3>1. m = n
      <4>1. pos + n <= Len(a) /\ pos + n <= Len(b)
        BY <1>1, <1>5, <2>3
      <4>2. Len(ra) = n /\ Len(rb) = n
        BY <1>3, <4>1
      <4>3. QED
        BY <1>6, <4>2
    <3>. DEFINE i == p - pos + 1
    <3>2. i \in 1 .. m /\ p = pos + i - 1
      BY <1>1, <2>3, <3>1
    <3>. HIDE DEF i
    <3>3. QED
      BY <1>7, <1>10, <3>2
  <2>. HIDE DEF differ
  <2>4. /\ st.scanned = n /\ st.found = NoDifference /\ st.finished = FALSE
    BY <2>1
  <2>5. pos + n >= pos /\ pos + n <= j.commonEnd
    BY <1>1
  <2>6. QED
    BY <1>1, <1>10, <2>2, <2>3, <2>4, <2>5 DEF D, common, pos
<1>11. pos = j.commonEnd \/ (pos < j.commonEnd /\ differ # {}) \/ (pos < j.commonEnd /\ differ = {})
  <2>. HIDE DEF differ
  <2>1. QED
    BY <1>1
<1>12. QED
  BY ONLY <1>8, <1>9, <1>10, <1>11

\* The next difference is the first one from the position on.
LEMMA NextDifferenceIs ==
  ASSUME NEW a \in Seq(Nat), NEW b \in Seq(Nat), NEW from \in Nat, NEW l, l = Least(from, Least(Len(a), Len(b)))
  PROVE  /\ \A found \in Places(a, b) :
              found >= l /\ (\A p \in Nat : l <= p /\ p < found => p \notin Places(a, b)) => NextDifference(a, b, from) = found
         /\ (\A p \in Nat : l <= p => p \notin Places(a, b)) => NextDifference(a, b, from) = NoDifference
<1>. DEFINE size == Most(Len(a), Len(b))
            D == Places(a, b)
            differ == {p \in l .. size : DifferAt(a, b, p)}
<1>1. l \in Nat /\ size \in Nat /\ (\A p \in D : p \in Nat /\ p < size) /\ (\A p \in Nat : p \in D <=> DifferAt(a, b, p))
  <2>1. l \in Nat
    BY DEF Least
  <2>2. \A p \in Nat : p \in D <=> DifferAt(a, b, p)
    BY DEF Places
  <2>3. QED
    BY <2>1, <2>2, PlacesAre
<1>2. NextDifference(a, b, from) = IF differ = {} THEN NoDifference ELSE Min(differ)
  BY DEF NextDifference
<1>. HIDE DEF size, D
<1>3. \A p \in Nat : p \in differ <=> (p \in D /\ l <= p)
  BY <1>1
<1>4. differ \subseteq Nat
  BY <1>1
<1>5. ASSUME NEW found \in D, found >= l, \A p \in Nat : l <= p /\ p < found => p \notin D
      PROVE  NextDifference(a, b, from) = found
  <2>1. found \in differ /\ found \in Nat
    BY <1>1, <1>3, <1>5
  <2>2. Min(differ) \in differ /\ \A y \in differ : Min(differ) <= y
    BY <1>4, <2>1, MinIs
  <2>. DEFINE least == Min(differ)
  <2>3. least \in Nat /\ least \in D /\ l <= least /\ least <= found
    BY <1>3, <1>4, <2>1, <2>2
  <2>. HIDE DEF least, differ
  <2>4. least = found
    BY <1>5, <2>1, <2>3
  <2>5. QED
    BY <1>2, <2>1, <2>4 DEF least
<1>6. ASSUME \A p \in Nat : l <= p => p \notin D PROVE NextDifference(a, b, from) = NoDifference
  <2>1. differ = {}
    BY <1>3, <1>4, <1>6
  <2>2. QED
    BY <1>2, <2>1
<1>7. QED
  BY <1>5, <1>6 DEF D

\* The comparison, and what the search of an unchanged pair has seen.
SearchIsExact ==
  LET a == tabs[compare.pair[1]]
      b == tabs[compare.pair[2]]
      j == compare.job
  IN  /\ compare.pair[1] <= Len(tabs) /\ compare.pair[2] <= Len(tabs)
      /\ j.commonEnd = Least(Len(a), Len(b)) /\ j.lensDiffer = (Len(a) # Len(b))
      /\ j.pos >= Least(compare.from, j.commonEnd)
      /\ \A p \in Nat : Least(compare.from, j.commonEnd) <= p /\ p < j.pos => p \notin Places(a, b)
CompareTyped ==
  /\ compare = [pair |-> compare.pair, job |-> compare.job, from |-> compare.from, shown |-> compare.shown,
                touched |-> compare.touched]
  /\ compare.pair = <<>> \/ compare.pair \in (Nat \ {0}) \X (Nat \ {0})
  /\ compare.pair = <<>> => compare.job = NoJob
  /\ compare.job # NoJob =>
       compare.job \in DiffJobs /\ compare.job.done = FALSE /\ compare.job.pos <= compare.job.commonEnd /\ compare.from \in Nat
  /\ turn.panel = "Compare" =>
       compare.job # NoJob /\ compare.pair[1] <= Len(tabs) /\ compare.pair[2] <= Len(tabs)
CompareInv == CompareTyped /\ (compare.job # NoJob /\ ~compare.touched => SearchIsExact)

\* A comparison with no search.
LEMMA NoComparisonKeeps ==
  ASSUME NEW pair, pair = <<>> \/ pair \in (Nat \ {0}) \X (Nat \ {0}),
         compare' = [NoComparison EXCEPT !.pair = pair] \/ (pair = <<>> /\ compare' = NoComparison), BetweenFrames, turn' = turn
  PROVE  CompareInv'
<1>1. compare' = [pair |-> pair, job |-> NoJob, from |-> 0, shown |-> Nothing, touched |-> FALSE]
  BY DEF NoComparison
<1>. DEFINE c == FALSE
<1>2. compare'.pair = pair /\ compare'.job = NoJob /\ compare'.from = 0 /\ compare'.shown = Nothing /\ compare'.touched = FALSE
  BY <1>1
<1>3. turn'.panel # "Compare"
  BY DEF BetweenFrames
<1>4. CompareTyped'
  BY <1>1, <1>2, <1>3 DEF CompareTyped
<1>5. QED
  BY <1>2, <1>4 DEF CompareInv

\* What is neither the tabs nor the comparison.
LEMMA ComparisonStays ==
  ASSUME CompareInv, compare' = compare, tabs' = tabs, turn'.panel # "Compare" \/ turn' = turn
  PROVE  CompareInv'
<1>1. CompareTyped'
  BY DEF CompareInv, CompareTyped
<1>2. SearchIsExact' <=> SearchIsExact
  BY DEF SearchIsExact
<1>3. QED
  BY <1>1, <1>2 DEF CompareInv

\* The two documents of a comparison that is valid.
LEMMA PairIs ==
  ASSUME TabsTyped, CompareTyped, compare.pair # <<>>, ~CompareInvalid
  PROVE  /\ compare.pair[1] \in DOMAIN tabs /\ compare.pair[2] \in DOMAIN tabs
         /\ tabs[compare.pair[1]] \in Seq(Nat) /\ tabs[compare.pair[2]] \in Seq(Nat)
         /\ compare.pair[1] <= Len(tabs) /\ compare.pair[2] <= Len(tabs)
<1>1. compare.pair \in (Nat \ {0}) \X (Nat \ {0})
  BY DEF CompareTyped
<1>. DEFINE i == compare.pair[1]
            k == compare.pair[2]
<1>2. i \in Nat \ {0} /\ k \in Nat \ {0}
  BY <1>1
<1>3. ~(i > Len(tabs)) /\ ~(k > Len(tabs))
  <2>1. 1 \in 1 .. 2 /\ 2 \in 1 .. 2
    OBVIOUS
  <2>2. QED
    BY <2>1 DEF CompareInvalid
<1>4. Len(tabs) \in Nat /\ DOMAIN tabs = 1 .. Len(tabs) /\ \A n \in 1 .. Len(tabs) : tabs[n] \in Seq(Nat)
  BY DEF TabsTyped
<1>. HIDE DEF i, k
<1>5. i \in 1 .. Len(tabs) /\ k \in 1 .. Len(tabs) /\ i <= Len(tabs) /\ k <= Len(tabs)
  BY <1>2, <1>3, <1>4
<1>6. QED
  BY <1>4, <1>5 DEF i, k

\* A step of the search, of what is in the tabs now.
LEMMA DiffGoesOnIs ==
  ASSUME TabsTyped, TurnTyped, CompareInv, DiffGoesOn
  PROVE  LET a == tabs[compare.pair[1]]
             b == tabs[compare.pair[2]]
             j == compare.job
         IN  \E st : /\ a \in Seq(Nat) /\ b \in Seq(Nat) /\ turn.left \in Nat
                     /\ j \in DiffJobs /\ j.done = FALSE /\ j.pos <= j.commonEnd
                     /\ st = DiffStep(j, a, b, turn.left)
                     /\ IF st.found # NoDifference \/ st.finished
                        THEN /\ compare' = [compare EXCEPT !.job = NoJob,
                                              !.shown = [kind |-> "Difference", at |-> st.found, end |-> j.commonEnd]]
                             /\ turn' = Idle
                        ELSE /\ compare' = [compare EXCEPT !.job = st.job]
                             /\ turn' = Spent(st.scanned)
<1>1. turn.panel = "Compare" /\ CompareTyped
  BY DEF DiffGoesOn, CompareInv
<1>2. /\ compare.job # NoJob /\ compare.pair[1] <= Len(tabs) /\ compare.pair[2] <= Len(tabs) /\ compare.pair # <<>>
      /\ compare.job \in DiffJobs /\ compare.job.done = FALSE /\ compare.job.pos <= compare.job.commonEnd
  BY <1>1 DEF CompareTyped
<1>3. ~CompareInvalid
  <2>1. compare.pair \in (Nat \ {0}) \X (Nat \ {0})
    BY <1>1, <1>2 DEF CompareTyped
  <2>2. compare.pair[1] \in Nat /\ compare.pair[2] \in Nat /\ Len(tabs) \in Nat /\ \A n \in 1 .. 2 : n = 1 \/ n = 2
    BY <2>1 DEF TabsTyped
  <2>3. QED
    BY <1>2, <2>2 DEF CompareInvalid
<1>4. tabs[compare.pair[1]] \in Seq(Nat) /\ tabs[compare.pair[2]] \in Seq(Nat)
  BY <1>1, <1>2, <1>3, PairIs
<1>5. turn.left \in Nat
  BY DEF TurnTyped
<1>6. QED
  BY <1>2, <1>4, <1>5 DEF DiffGoesOn

-----------------------------------------------------------------------------
(* The actions of the comparison. *)

\* How a comparison changes.
Found(shown) == [compare EXCEPT !.job = NoJob, !.shown = shown]
Ongoing(job) == [compare EXCEPT !.job = job]
Touched(yes) == [compare EXCEPT !.touched = yes]
Sought(from, no, job) == [compare EXCEPT !.from = from, !.shown = Nothing, !.touched = no, !.job = job]

\* The fields of a comparison that changed.
LEMMA ComparisonChanges ==
  ASSUME CompareTyped
  PROVE  /\ \A shown : Found(shown) = [pair |-> compare.pair, job |-> NoJob, from |-> compare.from, shown |-> shown,
                                       touched |-> compare.touched]
         /\ \A job : Ongoing(job) = [pair |-> compare.pair, job |-> job, from |-> compare.from, shown |-> compare.shown,
                                     touched |-> compare.touched]
         /\ \A yes : Touched(yes) = [pair |-> compare.pair, job |-> compare.job, from |-> compare.from,
                                     shown |-> compare.shown, touched |-> yes]
         /\ \A from, no, job : Sought(from, no, job) = [pair |-> compare.pair, job |-> job, from |-> from,
                                                        shown |-> Nothing, touched |-> no]
<1>. DEFINE c == compare
<1>1. c = [pair |-> c.pair, job |-> c.job, from |-> c.from, shown |-> c.shown, touched |-> c.touched]
  BY DEF CompareTyped
<1>2. \A job : [c EXCEPT !.job = job] = [pair |-> c.pair, job |-> job, from |-> c.from, shown |-> c.shown, touched |-> c.touched]
  BY <1>1
<1>3. \A yes : [c EXCEPT !.touched = yes] = [pair |-> c.pair, job |-> c.job, from |-> c.from, shown |-> c.shown, touched |-> yes]
  BY <1>1
<1>4. ASSUME NEW shown
      PROVE  [c EXCEPT !.job = NoJob, !.shown = shown] =
               [pair |-> c.pair, job |-> NoJob, from |-> c.from, shown |-> shown, touched |-> c.touched]
  <2>. DEFINE e1 == [pair |-> c.pair, job |-> NoJob, from |-> c.from, shown |-> c.shown, touched |-> c.touched]
              e2 == [pair |-> c.pair, job |-> NoJob, from |-> c.from, shown |-> shown, touched |-> c.touched]
  <2>. HIDE DEF c
  <2>1. [c EXCEPT !.job = NoJob] = e1
    BY <1>2
  <2>2. [e1 EXCEPT !.shown = shown] = e2
    OBVIOUS
  <2>. HIDE DEF e1, e2
  <2>3. QED
    BY <2>1, <2>2 DEF e2
<1>5. ASSUME NEW from, NEW no, NEW job
      PROVE  [c EXCEPT !.from = from, !.shown = Nothing, !.touched = no, !.job = job] =
               [pair |-> c.pair, job |-> job, from |-> from, shown |-> Nothing, touched |-> no]
  <2>. DEFINE e1 == [pair |-> c.pair, job |-> c.job, from |-> from, shown |-> c.shown, touched |-> c.touched]
              e2 == [pair |-> c.pair, job |-> c.job, from |-> from, shown |-> Nothing, touched |-> c.touched]
              e3 == [pair |-> c.pair, job |-> c.job, from |-> from, shown |-> Nothing, touched |-> no]
              e4 == [pair |-> c.pair, job |-> job, from |-> from, shown |-> Nothing, touched |-> no]
  <2>. HIDE DEF c
  <2>1. [c EXCEPT !.from = from] = e1
    BY <1>1
  <2>2. [e1 EXCEPT !.shown = Nothing] = e2
    OBVIOUS
  <2>3. [e2 EXCEPT !.touched = no] = e3
    OBVIOUS
  <2>4. [e3 EXCEPT !.job = job] = e4
    OBVIOUS
  <2>. HIDE DEF e1, e2, e3, e4
  <2>5. QED
    BY <2>1, <2>2, <2>3, <2>4 DEF e4
<1>6. QED
  BY <1>2, <1>3, <1>4, <1>5 DEF Found, Ongoing, Touched, Sought

\* A step of the search keeps what it has seen, and reports what holds.
LEMMA DiffGoesOnKeeps ==
  ASSUME TabsTyped, TurnTyped, CompareInv, DiffGoesOn
  PROVE  /\ CompareInv'
         /\ turn' = Idle \/ (turn.panel = "Compare" /\ \E scanned \in Int : turn' = Spent(scanned))
         /\ Reporting => DifferenceHolds
<1>. DEFINE a == tabs[compare.pair[1]]
            b == tabs[compare.pair[2]]
            j == compare.job
            D == Places(a, b)
            common == Least(Len(a), Len(b))
            l == Least(compare.from, common)
<1>1. /\ CompareTyped /\ turn.panel = "Compare" /\ tabs' = tabs
      /\ j # NoJob /\ compare.from \in Nat /\ compare.pair[1] <= Len(tabs) /\ compare.pair[2] <= Len(tabs)
  BY DEF CompareInv, CompareTyped, DiffGoesOn
<1>2. PICK st : /\ a \in Seq(Nat) /\ b \in Seq(Nat) /\ turn.left \in Nat
                /\ j \in DiffJobs /\ j.done = FALSE /\ j.pos <= j.commonEnd
                /\ st = DiffStep(j, a, b, turn.left)
                /\ IF st.found # NoDifference \/ st.finished
                   THEN /\ compare' = [compare EXCEPT !.job = NoJob,
                                         !.shown = [kind |-> "Difference", at |-> st.found, end |-> j.commonEnd]]
                        /\ turn' = Idle
                   ELSE /\ compare' = [compare EXCEPT !.job = st.job]
                        /\ turn' = Spent(st.scanned)
  BY DiffGoesOnIs
<1>3. ~compare.touched =>
        /\ j.commonEnd = common /\ j.lensDiffer = (Len(a) # Len(b)) /\ j.pos >= l
        /\ \A p \in Nat : l <= p /\ p < j.pos => p \notin D
  BY <1>1 DEF CompareInv, SearchIsExact
<1>4. /\ j.pos \in Nat /\ j.commonEnd \in Nat /\ j.lensDiffer \in BOOLEAN
  BY <1>2 DEF DiffJobs
<1>. HIDE DEF a, b, j, D, common, l
<1>5. /\ st.scanned \in Int
      /\ j.pos = j.commonEnd => st.finished /\ st.found = IF j.lensDiffer THEN j.commonEnd ELSE NoDifference
      /\ j.pos < j.commonEnd /\ st.found # NoDifference =>
           /\ st.found \in D /\ st.found >= j.pos
           /\ j.commonEnd = common => st.found < j.commonEnd /\ \A p \in Nat : j.pos <= p /\ p < st.found => p \notin D
      /\ j.pos < j.commonEnd /\ st.found = NoDifference =>
           /\ st.finished = FALSE
           /\ st.job \in DiffJobs /\ st.job.done = FALSE /\ st.job.commonEnd = j.commonEnd
           /\ st.job.lensDiffer = j.lensDiffer /\ st.job.pos >= j.pos /\ st.job.pos <= j.commonEnd
           /\ j.commonEnd = common => \A p \in Nat : j.pos <= p /\ p < st.job.pos => p \notin D
  <2>1. DiffTells(j, a, b, st)
    BY <1>2, DiffStepIs
  <2>2. QED
    BY <2>1 DEF DiffTells, D, common
<1>6. /\ common \in Nat /\ l \in Nat /\ D \subseteq Nat /\ \A p \in D : p \in Nat
      /\ Len(a) # Len(b) => common \in D
      /\ Len(a) = Len(b) => \A p \in D : p < common
      /\ l <= common
  <2>1. common \in Nat /\ D \subseteq Nat /\ (Len(a) # Len(b) => common \in D) /\ (Len(a) = Len(b) => \A p \in D : p < common)
    <3>. DEFINE most == Most(Len(a), Len(b))
    <3>1. a \in Seq(Nat) /\ b \in Seq(Nat)
      BY <1>2
    <3>2. common \in Nat /\ most \in Nat /\ common <= most /\ (common = most <=> Len(a) = Len(b))
          /\ (\A p \in D : p \in Nat /\ p < most) /\ (common < most => common \in D)
      BY <3>1, PlacesAre DEF common, D
    <3>. HIDE DEF most
    <3>3. QED
      BY <3>2
  <2>2. l \in Nat /\ l <= common
    BY <1>1, <2>1 DEF l, Least
  <2>3. QED
    BY <2>1, <2>2
<1>7. CASE st.found # NoDifference \/ st.finished
  <2>. DEFINE shown == [kind |-> "Difference", at |-> st.found, end |-> j.commonEnd]
  <2>1. compare' = Found(shown) /\ turn' = Idle
    BY <1>2, <1>7 DEF Found
  <2>2. compare' = [pair |-> compare.pair, job |-> NoJob, from |-> compare.from, shown |-> shown, touched |-> compare.touched]
    BY <1>1, <2>1, ComparisonChanges
  <2>. HIDE DEF shown
  <2>3. /\ compare'.pair = compare.pair /\ compare'.job = NoJob /\ compare'.from = compare.from /\ compare'.shown = shown
        /\ compare'.touched = compare.touched
    BY <2>2
  <2>4. CompareInv'
    <3>1. turn'.panel # "Compare"
      BY <2>1 DEF Idle
    <3>2. CompareTyped'
      BY <1>1, <2>2, <2>3, <3>1 DEF CompareTyped
    <3>3. QED
      BY <2>3, <3>2 DEF CompareInv
  <2>5. j.pos < j.commonEnd => st.found # NoDifference
    BY <1>5, <1>7
  <2>6. ~compare.touched => st.found = NextDifference(a, b, compare.from)
    <3>1. SUFFICES ASSUME ~compare.touched PROVE st.found = NextDifference(a, b, compare.from)
      OBVIOUS
    <3>2. /\ j.commonEnd = common /\ j.lensDiffer = (Len(a) # Len(b)) /\ j.pos >= l
          /\ \A p \in Nat : l <= p /\ p < j.pos => p \notin D
      BY <1>3, <3>1
    <3>3. /\ \A found \in D : found >= l /\ (\A p \in Nat : l <= p /\ p < found => p \notin D)
                                => NextDifference(a, b, compare.from) = found
          /\ (\A p \in Nat : l <= p => p \notin D) => NextDifference(a, b, compare.from) = NoDifference
      BY <1>1, <1>2, NextDifferenceIs DEF D, l, common
    <3>4. CASE j.pos < j.commonEnd
      <4>1. /\ st.found \in D /\ st.found >= j.pos /\ st.found \in Nat
            /\ \A p \in Nat : j.pos <= p /\ p < st.found => p \notin D
        BY <1>5, <1>6, <2>5, <3>2, <3>4
      <4>2. st.found >= l
        BY <1>4, <1>6, <3>2, <4>1
      <4>3. ASSUME NEW p \in Nat, l <= p, p < st.found PROVE p \notin D
        BY <1>4, <3>2, <4>1, <4>3
      <4>4. QED
        BY <3>3, <4>1, <4>2, <4>3
    <3>5. CASE ~(j.pos < j.commonEnd)
      <4>1. j.pos = common /\ st.found = IF j.lensDiffer THEN common ELSE NoDifference
        BY <1>2, <1>4, <1>5, <3>2, <3>5
      <4>2. CASE Len(a) # Len(b)
        <5>1. st.found = common /\ common \in D
          BY <1>6, <3>2, <4>1, <4>2
        <5>2. \A p \in Nat : l <= p /\ p < common => p \notin D
          BY <3>2, <4>1
        <5>3. common >= l
          BY <1>6
        <5>4. QED
          BY <3>3, <5>1, <5>2, <5>3
      <4>3. CASE Len(a) = Len(b)
        <5>1. st.found = NoDifference
          BY <3>2, <4>1, <4>3
        <5>2. ASSUME NEW p \in Nat, l <= p PROVE p \notin D
          <6>1. p \in D => p < common
            BY <1>6, <4>3
          <6>2. QED
            BY <3>2, <4>1, <5>2, <6>1
        <5>3. QED
          BY <3>3, <5>1, <5>2
      <4>4. QED
        BY <4>2, <4>3
    <3>6. QED
      BY <3>4, <3>5
  <2>7. shown.at = st.found /\ shown.end = j.commonEnd
    BY DEF shown
  <2>8. shown.at \in 0 .. shown.end - 1 => DifferAt(a, b, shown.at)
    <3>1. SUFFICES ASSUME st.found \in 0 .. j.commonEnd - 1 PROVE DifferAt(a, b, st.found)
      BY <2>7
    <3>2. j.pos < j.commonEnd
      <4>1. SUFFICES ASSUME j.pos = j.commonEnd PROVE FALSE
        BY <1>2, <1>4
      <4>2. QED
        BY <1>4, <1>5, <3>1, <4>1 DEF NoDifference
    <3>3. st.found \in D
      BY <1>5, <2>5, <3>2
    <3>4. QED
      BY <3>3 DEF D, Places
  <2>9. ToSet(DiffRanges(a, b, Len(a) + Len(b)).ranges) = RangesThatDiffer(a, b)
    BY <1>2, DiffRangesAre
  <2>10. DifferenceHolds
    BY <2>3, <2>6, <2>7, <2>8, <2>9 DEF DifferenceHolds, a, b
  <2>11. QED
    BY <2>1, <2>4, <2>10
<1>8. CASE ~(st.found # NoDifference \/ st.finished)
  <2>1. compare' = Ongoing(st.job) /\ turn' = Spent(st.scanned)
    BY <1>2, <1>8 DEF Ongoing
  <2>. DEFINE job == st.job
  <2>2. compare' = [pair |-> compare.pair, job |-> job, from |-> compare.from, shown |-> compare.shown, touched |-> compare.touched]
    BY <1>1, <2>1, ComparisonChanges
  <2>3. /\ compare'.pair = compare.pair /\ compare'.job = job /\ compare'.from = compare.from /\ compare'.shown = compare.shown
        /\ compare'.touched = compare.touched
    BY <2>2
  <2>4. /\ j.pos < j.commonEnd
        /\ job \in DiffJobs /\ job.done = FALSE /\ job.commonEnd = j.commonEnd
        /\ job.lensDiffer = j.lensDiffer /\ job.pos >= j.pos /\ job.pos <= j.commonEnd
        /\ j.commonEnd = common => \A p \in Nat : j.pos <= p /\ p < job.pos => p \notin D
    BY <1>2, <1>4, <1>5, <1>8
  <2>. HIDE DEF job
  <2>5. compare.pair # <<>>
    BY <1>1 DEF CompareTyped, j
  <2>6. job # NoJob
    <3>1. job.kind = "Diff" /\ NoJob.kind = "None"
      BY <2>4 DEF DiffJobs, NoJob
    <3>2. QED
      BY <3>1
  <2>7. CompareTyped'
    BY <1>1, <2>2, <2>3, <2>4, <2>5, <2>6 DEF CompareTyped
  <2>8. ~compare.touched => SearchIsExact'
    <3>1. SUFFICES ASSUME ~compare.touched PROVE SearchIsExact'
      OBVIOUS
    <3>2. /\ j.commonEnd = common /\ j.lensDiffer = (Len(a) # Len(b)) /\ j.pos >= l
          /\ \A p \in Nat : l <= p /\ p < j.pos => p \notin D
      BY <1>3, <3>1
    <3>3. job.pos \in Nat
      BY <2>4 DEF DiffJobs
    <3>4. job.commonEnd = common /\ job.lensDiffer = (Len(a) # Len(b)) /\ job.pos >= l
      BY <1>4, <1>6, <2>4, <3>2, <3>3
    <3>5. \A p \in Nat : l <= p /\ p < job.pos => p \notin D
      BY <1>4, <2>4, <3>2
    <3>6. QED
      BY <1>1, <2>3, <3>4, <3>5 DEF SearchIsExact, a, b, l, D, common
  <2>9. CompareInv'
    BY <2>3, <2>7, <2>8 DEF CompareInv
  <2>10. ~Reporting
    BY <2>3 DEF Reporting
  <2>11. QED
    BY <1>1, <1>5, <2>1, <2>9, <2>10
<1>9. QED
  BY <1>7, <1>8

-----------------------------------------------------------------------------
(* Every step. *)

\* Every step keeps what the panels hold and what the disk holds of a job.
LEMMA WorkStep == WorkInv /\ CompareInv /\ [WNext]_workvars => WorkInv'
<1>. SUFFICES ASSUME WorkInv, CompareInv, [WNext]_workvars PROVE WorkInv'
  OBVIOUS
<1>1. CASE UNCHANGED workvars
  BY <1>1, ComparingKeeps DEF workvars
<1>2. ASSUME NEW ask \in AnalysisJobs, NEW tab \in DOMAIN tabs, NEW sel \in SelectionsOf(tabs[tab]), Analyze(tab, ask, sel)
      PROVE  WorkInv'
  BY <1>2, AnalyzeKeeps
<1>3. ASSUME NEW ask \in ToolJobs, NEW tab \in DOMAIN tabs, NEW sel \in SelectionsOf(tabs[tab]), UseTool(tab, ask, sel)
      PROVE  WorkInv'
  BY <1>3, UseToolKeeps
<1>4. ASSUME NEW i \in DOMAIN tabs, NEW k \in DOMAIN tabs, Compare(i, k) PROVE WorkInv'
  BY <1>4, ComparingKeeps DEF Compare
<1>5. ASSUME NEW from \in Froms, NextDiff(from) PROVE WorkInv'
  BY <1>5, ComparingKeeps DEF NextDiff
<1>6. CASE StopComparison
  BY <1>6, ComparingKeeps DEF StopComparison
<1>7. CASE DriveCompare
  <2>1. CASE DropComparison
    BY <2>1, ComparingKeeps DEF DropComparison
  <2>2. CASE TakeDiff
    BY <2>2, ComparingKeeps DEF TakeDiff
  <2>3. CASE DiffGoesOn
    <3>1. TabsTyped /\ TurnTyped
      BY DEF WorkInv, WorkTyped
    <3>2. turn' = Idle \/ (turn.panel = "Compare" /\ \E scanned \in Int : turn' = Spent(scanned))
      BY <2>3, <3>1, DiffGoesOnKeeps
    <3>3. tabs' = tabs /\ files' = files /\ runner' = runner /\ abandoned' = abandoned
      BY <2>3 DEF DiffGoesOn
    <3>4. QED
      BY <3>2, <3>3, ComparingKeeps
  <2>4. QED
    BY <1>7, <2>1, <2>2, <2>3 DEF DriveCompare
<1>8. ASSUME NEW p \in Panels, Drive(p) \/ Cancel(p) PROVE WorkInv'
  BY <1>8, StepKeepsWork, OthersKeep DEF Drive
<1>9. ASSUME NEW i \in DOMAIN tabs, EditTab(i) \/ CloseTab(i) PROVE WorkInv'
  BY <1>9, EditedKeeps
<1>10. QED
  BY <1>1, <1>2, <1>3, <1>4, <1>5, <1>6, <1>7, <1>8, <1>9 DEF WNext

\* A search that begins has seen nothing (gui/src/app/compare.rs:66).
LEMMA NextDiffKeeps ==
  ASSUME TabsTyped, CompareInv, NEW from \in Froms, NextDiff(from)
  PROVE  CompareInv' /\ ~Reporting
<1>. DEFINE a == tabs[compare.pair[1]]
            b == tabs[compare.pair[2]]
            no == FALSE
            job == NewDiff(from, Len(a), Len(b))
            common == Least(Len(a), Len(b))
<1>1. /\ CompareTyped /\ compare.pair # <<>> /\ ~CompareInvalid /\ turn.panel = "None" /\ turn' = turn /\ tabs' = tabs
      /\ compare' = Sought(from, no, job)
  BY DEF CompareInv, NextDiff, BetweenFrames, Sought
<1>2. /\ a \in Seq(Nat) /\ b \in Seq(Nat) /\ compare.pair[1] <= Len(tabs) /\ compare.pair[2] <= Len(tabs)
  BY <1>1, PairIs
<1>3. from \in Nat
  BY WorkbenchAssumption
<1>4. /\ job \in DiffJobs /\ job.done = FALSE /\ job.pos <= job.commonEnd
      /\ job.commonEnd = common /\ job.lensDiffer = (Len(a) # Len(b)) /\ job.pos = Least(from, common) /\ job.kind = "Diff"
      /\ common \in Nat /\ job.pos \in Nat
  <2>. DEFINE la == Len(a)
              lb == Len(b)
  <2>1. la \in Nat /\ lb \in Nat
    BY <1>2
  <2>. HIDE DEF la, lb
  <2>2. Least(la, lb) \in Nat /\ Least(from, Least(la, lb)) \in Nat /\ Least(from, Least(la, lb)) <= Least(la, lb)
    BY <1>3, <2>1 DEF Least
  <2>3. job = [kind |-> "Diff", pos |-> Least(from, Least(la, lb)), commonEnd |-> Least(la, lb),
               lensDiffer |-> la # lb, approx |-> FALSE, done |-> FALSE]
    BY DEF NewDiff, la, lb
  <2>. HIDE DEF job
  <2>4. QED
    BY <2>2, <2>3 DEF DiffJobs, la, lb
<1>. HIDE DEF job, no
<1>5. compare' = [pair |-> compare.pair, job |-> job, from |-> from, shown |-> Nothing, touched |-> no]
  BY <1>1, ComparisonChanges
<1>6. compare'.pair = compare.pair /\ compare'.job = job /\ compare'.from = from /\ compare'.shown = Nothing
  BY <1>5
<1>7. CompareTyped'
  <2>1. turn'.panel # "Compare"
    BY <1>1
  <2>2. compare.pair \in (Nat \ {0}) \X (Nat \ {0})
    BY <1>1 DEF CompareTyped
  <2>3. compare' = [pair |-> compare'.pair, job |-> compare'.job, from |-> compare'.from, shown |-> compare'.shown,
                    touched |-> compare'.touched]
    BY <1>5
  <2>4. QED
    BY <1>1, <1>3, <1>4, <1>6, <2>1, <2>2, <2>3 DEF CompareTyped
<1>8. SearchIsExact'
  <2>1. tabs'[compare'.pair[1]] = a /\ tabs'[compare'.pair[2]] = b
    BY <1>1, <1>6
  <2>2. \A p \in Nat : Least(from, common) <= p /\ p < job.pos => p \notin Places(a, b)
    <3>. DEFINE l == Least(from, common)
    <3>1. l \in Nat /\ job.pos = l
      BY <1>4
    <3>. HIDE DEF l
    <3>2. \A p \in Nat : ~(l <= p /\ p < l)
      BY <3>1
    <3>3. QED
      BY <3>1, <3>2 DEF l
  <2>. HIDE DEF a, b
  <2>3. QED
    BY <1>1, <1>2, <1>4, <1>6, <2>1, <2>2 DEF SearchIsExact
<1>9. ~Reporting
  BY <1>6 DEF Reporting, Nothing
<1>10. QED
  BY <1>7, <1>8, <1>9 DEF CompareInv

\* An edit or a tab that is closed marks the comparison.
LEMMA EditedCompares ==
  ASSUME CompareInv, NEW after, Changes(after)
  PROVE  CompareInv' /\ ~Reporting
<1>. DEFINE yes == TRUE
<1>1. CompareTyped /\ turn.panel = "None" /\ turn' = turn /\ compare' = Touched(yes)
  BY DEF CompareInv, Changes, BetweenFrames, Touched
<1>. HIDE DEF yes
<1>2. compare' = [pair |-> compare.pair, job |-> compare.job, from |-> compare.from, shown |-> compare.shown, touched |-> yes]
  BY <1>1, ComparisonChanges
<1>3. compare'.pair = compare.pair /\ compare'.job = compare.job /\ compare'.from = compare.from
      /\ compare'.shown = compare.shown /\ compare'.touched = yes
  BY <1>2
<1>4. turn'.panel # "Compare"
  BY <1>1
<1>5. CompareTyped'
  BY <1>1, <1>2, <1>3, <1>4 DEF CompareTyped
<1>6. QED
  BY <1>3, <1>5 DEF CompareInv, Reporting, yes

\* A panel that works leaves the comparison alone.
LEMMA PanelsCompareNothing ==
  ASSUME WorkTyped, CompareInv, NEW p \in Panels, Drive(p) \/ Cancel(p)
  PROVE  CompareInv' /\ ~Reporting
<1>1. compare' = compare /\ tabs' = tabs
  BY DEF Drive, Cancel, TakeJob, DropCancelled, DropOrphan, Step
<1>2. turn'.panel # "Compare" \/ turn' = turn
  <2>1. CASE TakeJob(p)
    BY <2>1 DEF TakeJob, Panels
  <2>2. CASE DropCancelled(p) \/ DropOrphan(p) \/ Cancel(p)
    BY <2>2 DEF DropCancelled, DropOrphan, Cancel
  <2>3. CASE Step(p)
    <3>1. turn.panel = p
      BY <2>3 DEF Step
    <3>2. PICK st : JobGoesOn(p, st) \/ JobFails(p, st) \/ JobPanics(p, st) \/ JobEnds(p, st) \/ SealingFails(p, st)
      BY <2>3 DEF Step
    <3>3. turn' = Spent(st.scanned) \/ turn' = Idle \/ turn'.panel = "Panicked"
      BY <3>2 DEF JobGoesOn, JobFails, JobPanics, JobEnds, SealingFails
    <3>4. CASE turn' = Spent(st.scanned)
      <4>. DEFINE left == turn.left - Most(st.scanned, 1)
      <4>1. turn' = IF left > 0 THEN [turn EXCEPT !.left = left] ELSE Idle
        BY <3>4 DEF Spent
      <4>. HIDE DEF left
      <4>2. [turn EXCEPT !.left = left].panel = turn.panel
        BY DEF WorkTyped, TurnTyped
      <4>3. QED
        BY <3>1, <4>1, <4>2 DEF Idle, Panels
    <3>5. QED
      BY <3>3, <3>4 DEF Idle
  <2>4. QED
    BY <2>1, <2>2, <2>3 DEF Drive
<1>3. QED
  BY <1>1, <1>2, ComparisonStays DEF Reporting

\* Every step keeps what the search has seen, and reports a difference only
\* where the documents have it (core/src/compare.rs:44, gui/src/app/compare.rs:66-92).
LEMMA CompareStep == WorkInv /\ CompareInv /\ [WNext]_workvars => CompareInv' /\ (Reporting => DifferenceHolds)
<1>. SUFFICES ASSUME WorkInv, CompareInv, [WNext]_workvars PROVE CompareInv' /\ (Reporting => DifferenceHolds)
  OBVIOUS
<1>0. WorkTyped /\ TabsTyped /\ TurnTyped
  BY DEF WorkInv, WorkTyped
<1>1. CASE UNCHANGED workvars
  BY <1>1, ComparisonStays DEF workvars, Reporting
<1>2. ASSUME NEW ask \in AnalysisJobs, NEW tab \in DOMAIN tabs, NEW sel \in SelectionsOf(tabs[tab]), Analyze(tab, ask, sel)
      PROVE  CompareInv' /\ ~Reporting
  BY <1>2, ComparisonStays DEF Analyze, Reporting
<1>3. ASSUME NEW ask \in ToolJobs, NEW tab \in DOMAIN tabs, NEW sel \in SelectionsOf(tabs[tab]), UseTool(tab, ask, sel)
      PROVE  CompareInv' /\ ~Reporting
  BY <1>3, ComparisonStays DEF UseTool, Reporting
<1>4. ASSUME NEW i \in DOMAIN tabs, NEW k \in DOMAIN tabs, Compare(i, k) PROVE CompareInv' /\ ~Reporting
  <2>. DEFINE pair == <<i, k>>
  <2>1. pair \in (Nat \ {0}) \X (Nat \ {0})
    BY <1>0 DEF TabsTyped
  <2>2. BetweenFrames /\ turn' = turn /\ compare' = [NoComparison EXCEPT !.pair = pair]
    BY <1>4 DEF Compare
  <2>. HIDE DEF pair
  <2>3. CompareInv'
    BY <2>1, <2>2, NoComparisonKeeps
  <2>4. compare'.shown = Nothing
    BY <2>2 DEF NoComparison
  <2>5. QED
    BY <2>3, <2>4 DEF Reporting, Nothing
<1>5. ASSUME NEW from \in Froms, NextDiff(from) PROVE CompareInv' /\ ~Reporting
  BY <1>0, <1>5, NextDiffKeeps
<1>6. CASE StopComparison \/ DropComparison
  <2>. DEFINE pair == <<>>
  <2>1. BetweenFrames /\ turn' = turn /\ compare' = NoComparison
    BY <1>6 DEF StopComparison, DropComparison
  <2>2. pair = <<>>
    OBVIOUS
  <2>. HIDE DEF pair
  <2>3. CompareInv'
    BY <2>1, <2>2, NoComparisonKeeps
  <2>4. compare'.shown = Nothing
    BY <2>1 DEF NoComparison
  <2>5. QED
    BY <2>3, <2>4 DEF Reporting, Nothing
<1>7. CASE TakeDiff
  <2>1. /\ CompareTyped /\ compare.job # NoJob /\ ~CompareInvalid /\ compare' = compare /\ tabs' = tabs
    BY <1>7 DEF TakeDiff, CompareInv
  <2>2. compare.pair # <<>>
    BY <2>1 DEF CompareTyped
  <2>3. compare.pair[1] <= Len(tabs) /\ compare.pair[2] <= Len(tabs)
    BY <1>0, <2>1, <2>2, PairIs
  <2>4. CompareTyped'
    BY <2>1, <2>3 DEF CompareTyped
  <2>5. SearchIsExact' <=> SearchIsExact
    BY <2>1 DEF SearchIsExact
  <2>6. QED
    BY <2>1, <2>4, <2>5 DEF CompareInv, Reporting
<1>8. CASE DiffGoesOn
  BY <1>0, <1>8, DiffGoesOnKeeps
<1>9. ASSUME NEW p \in Panels, Drive(p) \/ Cancel(p) PROVE CompareInv' /\ ~Reporting
  BY <1>0, <1>9, PanelsCompareNothing
<1>10. ASSUME NEW i \in DOMAIN tabs, EditTab(i) \/ CloseTab(i) PROVE CompareInv' /\ ~Reporting
  BY <1>10, EditedCompares DEF EditTab, CloseTab
<1>11. QED
  BY <1>1, <1>2, <1>3, <1>4, <1>5, <1>6, <1>7, <1>8, <1>9, <1>10 DEF WNext, DriveCompare

\* What every state of the panels keeps.
THEOREM WorkbenchInvariant == WSpec => [](WorkInv /\ CompareInv)
<1>1. WInit => WorkInv /\ CompareInv
  <2>. SUFFICES ASSUME WInit PROVE WorkInv /\ CompareInv
    OBVIOUS
  <2>1. compare = NoComparison /\ turn = Idle
    BY DEF WInit
  <2>2. compare = [pair |-> <<>>, job |-> NoJob, from |-> 0, shown |-> Nothing, touched |-> FALSE]
    BY <2>1 DEF NoComparison
  <2>3. compare.pair = <<>> /\ compare.job = NoJob /\ turn.panel # "Compare"
    BY <2>1, <2>2 DEF Idle
  <2>4. CompareTyped
    BY <2>2, <2>3 DEF CompareTyped
  <2>5. QED
    BY <2>3, <2>4, WorkInitially DEF CompareInv
<1>2. WorkInv /\ CompareInv /\ [WNext]_workvars => (WorkInv /\ CompareInv)'
  BY WorkStep, CompareStep
<1>3. QED
  BY <1>1, <1>2, PTL DEF WSpec

\* A job that is cancelled, that fails, or whose tab is gone leaves no output
\* behind, and no other file changed (gui/src/tools/drive.rs:60-71,
\* transform.rs:116).
THEOREM NoHalfOutput == WSpec => []NothingHalfWritten
<1>1. WorkInv => NothingHalfWritten
  BY DEF WorkInv
<1>2. QED
  BY <1>1, WorkbenchInvariant, PTL

\* The difference that the comparison goes to is the next one from the cursor;
\* when a document was edited meanwhile it is still a place where the two
\* differ, the end of the shorter one apart (gui/src/app/compare.rs:66-92,
\* core/src/compare.rs:44).
THEOREM DifferencesReported == WSpec => DifferencesAreReal
<1>1. WorkInv /\ CompareInv /\ [WNext]_workvars => [Reporting => DifferenceHolds]_workvars
  BY CompareStep
<1>2. QED
  BY <1>1, WorkbenchInvariant, PTL DEF WSpec, DifferencesAreReal

-----------------------------------------------------------------------------
(* The steps of the panels, by what they do to the jobs. *)

\* The job of a panel stays as it is, under tabs that stay or that it knows have
\* changed.
Stays(p) ==
  /\ runner'[p].job = runner[p].job /\ runner'[p].goal = runner[p].goal
  /\ runner'[p].tab = runner[p].tab /\ runner'[p].shown = runner[p].shown
  /\ runner'[p].touched \/ (~runner[p].touched /\ tabs' = tabs)

NoJobMoves ==
  /\ Stays("Analyze") /\ Stays("Tools") /\ files' = files
  /\ turn' = turn \/ turn'.panel # "Panicked"

\* A panel loses its job, and shows what it showed.
LosesItsJob(p) ==
  /\ Busy(p) /\ runner'[p].job = NoJob /\ runner'[p].shown = runner[p].shown
  /\ runner'[p].touched = runner[p].touched
  /\ \A q \in Panels \ {p} : Stays(q) /\ (p = "Analyze" => files' = files)
  /\ turn'.panel # "Panicked"

\* A step of a job comes to st.
ComesTo(p, st) ==
  /\ turn.panel = p /\ Busy(p) /\ tabs' = tabs
  /\ StepKeeps(runner[p].job, st, DOMAIN files)
  /\ \E fault \in Faults(p) : st = StepOf(p, fault)
  /\ \/ JobGoesOn(p, st) \/ JobEnds(p, st)
     \/ st.kind = "Panics" /\ turn' = [panel |-> "Panicked", left |-> 0] /\ files' = files /\ runner' = runner

Begins ==
  \/ \E ask \in AnalysisJobs : \E tab \in DOMAIN tabs : \E sel \in SelectionsOf(tabs[tab]) : Analyze(tab, ask, sel)
  \/ \E ask \in ToolJobs : \E tab \in DOMAIN tabs : \E sel \in SelectionsOf(tabs[tab]) : UseTool(tab, ask, sel)

Moves ==
  \/ NoJobMoves
  \/ \E p \in Panels : LosesItsJob(p)
  \/ Begins
  \/ \E p \in Panels : \E st : ComesTo(p, st)

\* A panel whose runner is as it was.
LEMMA SameRunnerStays ==
  ASSUME NEW p, runner'[p] = runner[p], tabs' = tabs
  PROVE  Stays(p)
BY DEF Stays

\* A panel whose job is dropped, cancelled or failed.
LEMMA EndedLoses ==
  ASSUME WorkTyped, NEW p \in Panels, Busy(p), NEW s, Ended(p, s), tabs' = tabs, p = "Analyze" => files' = files,
         turn'.panel # "Panicked"
  PROVE  LosesItsJob(p)
<1>. DEFINE after == [runner[p] EXCEPT !.job = NoJob, !.status = s]
<1>1. RunnerTyped /\ IsRunner(runner[p]) /\ after = Left(runner[p], NoJob, s)
  BY DEF WorkTyped, RunnerTyped, Left
<1>2. runner' = [runner EXCEPT ![p] = after]
  BY DEF Ended
<1>. HIDE DEF after
<1>3. IsRunner(after) /\ after.job = NoJob /\ after.shown = runner[p].shown /\ after.touched = runner[p].touched
  BY <1>1, LeftIs
<1>4. runner'[p] = after /\ \A q \in Panels \ {p} : runner'[q] = runner[q]
  BY <1>1, <1>2, <1>3, RunnerTakes
<1>5. \A q \in Panels \ {p} : Stays(q)
  BY <1>4, SameRunnerStays
<1>6. QED
  BY <1>3, <1>4, <1>5 DEF LosesItsJob

\* What leaves the panels alone.
LEMMA NothingMoves ==
  ASSUME runner' = runner, tabs' = tabs, files' = files, turn' = turn \/ turn'.panel # "Panicked"
  PROVE  NoJobMoves
BY SameRunnerStays DEF NoJobMoves

\* A step of a frame, by what it comes to.
LEMMA StepMoves ==
  ASSUME WorkInv, NEW p \in Panels, Step(p)
  PROVE  LosesItsJob(p) \/ \E st : ComesTo(p, st)
<1>1. turn.panel = p /\ tabs' = tabs
  BY DEF Step
<1>2. PICK fault \in Faults(p) :
        \E st \in {StepOf(p, fault)} :
          JobGoesOn(p, st) \/ JobFails(p, st) \/ JobPanics(p, st) \/ JobEnds(p, st) \/ SealingFails(p, st)
  BY DEF Step
<1>. DEFINE st == StepOf(p, fault)
<1>3. JobGoesOn(p, st) \/ JobFails(p, st) \/ JobPanics(p, st) \/ JobEnds(p, st) \/ SealingFails(p, st)
  BY <1>2
<1>4. WorkTyped /\ Busy(p)
  BY <1>1 DEF WorkInv, WorkTyped, TurnTyped
<1>5. StepKeeps(runner[p].job, st, DOMAIN files)
  <2>1. fault \in Nat
    BY <1>2 DEF Faults
  <2>2. QED
    BY <1>1, <1>4, <2>1, StepOfKeeps
<1>6. \E some \in Faults(p) : st = StepOf(p, some)
  OBVIOUS
<1>. HIDE DEF st
<1>7. CASE JobGoesOn(p, st) \/ JobEnds(p, st) \/ JobPanics(p, st)
  BY <1>1, <1>4, <1>5, <1>6, <1>7 DEF ComesTo, JobPanics
<1>8. CASE JobFails(p, st) \/ SealingFails(p, st)
  <2>1. turn' = Idle /\ Ended(p, "failed")
    BY <1>8 DEF JobFails, SealingFails
  <2>2. p = "Analyze" => files' = files
    <3>1. p = "Analyze" => runner[p].job.kind \in AnalysisKinds
      BY <1>4, ToolIsBusy DEF WorkTyped, RunnerTyped
    <3>2. QED
      BY <1>8, <3>1 DEF JobFails, SealingFails, AnalysisKinds
  <2>3. QED
    BY <1>1, <1>4, <2>1, <2>2, EndedLoses DEF Idle
<1>9. QED
  BY <1>3, <1>7, <1>8

\* Every step of the panels is one of these.
LEMMA EveryStepMoves == WorkInv /\ CompareInv /\ [WNext]_workvars => Moves
<1>. SUFFICES ASSUME WorkInv, CompareInv, [WNext]_workvars PROVE Moves
  OBVIOUS
<1>0. WorkTyped /\ TabsTyped /\ TurnTyped
  BY DEF WorkInv, WorkTyped
<1>1. CASE UNCHANGED workvars
  BY <1>1, NothingMoves DEF workvars, Moves
<1>2. ASSUME NEW ask \in AnalysisJobs, NEW tab \in DOMAIN tabs, NEW sel \in SelectionsOf(tabs[tab]), Analyze(tab, ask, sel)
      PROVE  Moves
  BY <1>2 DEF Moves, Begins
<1>3. ASSUME NEW ask \in ToolJobs, NEW tab \in DOMAIN tabs, NEW sel \in SelectionsOf(tabs[tab]), UseTool(tab, ask, sel)
      PROVE  Moves
  BY <1>3 DEF Moves, Begins
<1>4. ASSUME NEW i \in DOMAIN tabs, NEW k \in DOMAIN tabs, Compare(i, k) PROVE Moves
  BY <1>4, NothingMoves DEF Compare, Moves
<1>5. ASSUME NEW from \in Froms, NextDiff(from) PROVE Moves
  BY <1>5, NothingMoves DEF NextDiff, Moves
<1>6. CASE StopComparison \/ DropComparison
  BY <1>6, NothingMoves DEF StopComparison, DropComparison, Moves
<1>7. CASE TakeDiff
  BY <1>7, NothingMoves DEF TakeDiff, Moves
<1>8. CASE DiffGoesOn
  <2>1. turn' = Idle \/ (turn.panel = "Compare" /\ \E scanned \in Int : turn' = Spent(scanned))
    BY <1>0, <1>8, DiffGoesOnKeeps
  <2>2. turn'.panel # "Panicked"
    BY <1>0, <2>1, SpentIs DEF Idle
  <2>3. runner' = runner /\ tabs' = tabs /\ files' = files
    BY <1>8 DEF DiffGoesOn
  <2>4. QED
    BY <2>2, <2>3, NothingMoves DEF Moves
<1>9. ASSUME NEW p \in Panels, Drive(p) \/ Cancel(p) PROVE Moves
  <2>1. CASE TakeJob(p)
    BY <2>1, NothingMoves DEF TakeJob, Moves, Panels
  <2>2. CASE DropCancelled(p) \/ DropOrphan(p)
    <3>1. PICK s : /\ BetweenFrames /\ Busy(p) /\ Ended(p, s) /\ tabs' = tabs /\ turn' = turn
                   /\ files' = IF p = "Tools" THEN CleanedUp(files, runner[p].job) ELSE files
      BY <2>2 DEF DropCancelled, DropOrphan
    <3>2. QED
      BY <1>0, <3>1, EndedLoses DEF BetweenFrames, Moves
  <2>3. CASE Step(p)
    BY <2>3, StepMoves DEF Moves
  <2>4. CASE Cancel(p)
    <3>. DEFINE yes == TRUE
                after == [runner[p] EXCEPT !.cancelled = yes]
    <3>1. /\ runner' = [runner EXCEPT ![p] = after] /\ tabs' = tabs /\ files' = files /\ turn' = turn
      BY <2>4 DEF Cancel
    <3>2. RunnerTyped /\ IsRunner(runner[p]) /\ after = CancelledAs(runner[p], yes)
      BY <1>0 DEF WorkTyped, RunnerTyped, CancelledAs
    <3>. HIDE DEF after, yes
    <3>3. /\ IsRunner(after) /\ after.job = runner[p].job /\ after.tab = runner[p].tab
          /\ after.goal = runner[p].goal /\ after.shown = runner[p].shown /\ after.touched = runner[p].touched
      BY <3>2, CancelledAsIs
    <3>4. runner'[p] = after /\ \A q \in Panels \ {p} : runner'[q] = runner[q]
      BY <3>1, <3>2, <3>3, RunnerTakes
    <3>5. \A q \in Panels : Stays(q)
      BY <3>1, <3>3, <3>4 DEF Stays
    <3>6. QED
      BY <3>1, <3>5 DEF NoJobMoves, Moves, Panels
  <2>5. QED
    BY <1>9, <2>1, <2>2, <2>3, <2>4 DEF Drive
<1>10. ASSUME NEW i \in DOMAIN tabs, EditTab(i) \/ CloseTab(i) PROVE Moves
  <2>. DEFINE yes == TRUE
  <2>1. PICK after : Changes(after)
    BY <1>10 DEF EditTab, CloseTab
  <2>2. /\ runner' = [q \in Panels |-> [runner[q] EXCEPT !.touched = yes]] /\ files' = files /\ turn' = turn
    BY <2>1 DEF Changes
  <2>. HIDE DEF yes
  <2>3. \A q \in Panels : IsRunner(runner[q]) /\ runner'[q] = TouchedAs(runner[q], yes)
    BY <1>0, <2>2 DEF WorkTyped, RunnerTyped, TouchedAs
  <2>4. \A q \in Panels : /\ runner'[q].job = runner[q].job /\ runner'[q].tab = runner[q].tab
                          /\ runner'[q].goal = runner[q].goal /\ runner'[q].shown = runner[q].shown
                          /\ runner'[q].touched = yes
    BY <2>3, TouchedAsIs
  <2>5. \A q \in Panels : Stays(q)
    BY <2>4 DEF Stays, yes
  <2>6. QED
    BY <2>2, <2>5 DEF NoJobMoves, Moves, Panels
<1>11. QED
  BY <1>1, <1>2, <1>3, <1>4, <1>5, <1>6, <1>7, <1>8, <1>9, <1>10 DEF WNext, DriveCompare

-----------------------------------------------------------------------------
(* No analysis reads past the document it was started on. *)

\* What is left of the range of an analysis that indexes what it read lies in
\* the document.
Readable(j, doc) ==
  /\ j.kind \in {"Stats", "Magic"} => j.cursor.end <= Len(doc)
  /\ j.kind = "Magic" => "maxSpan" \in DOMAIN j /\ j.maxSpan \in Nat \ {0}

RangeIsThere ==
  LET r == runner["Analyze"]
  IN  Busy("Analyze") /\ ~r.touched => r.tab \in DOMAIN tabs /\ Readable(r.job, tabs[r.tab])

PanicInv == RangeIsThere /\ OnlyChangesPanic

\* A step that reads bytes which are all there gets as many as it asked for, and
\* indexes none that it does not have (stats.rs:131, magic.rs:172).
LEMMA ReadsWhatIsThere ==
  ASSUME NEW j, AnalysisJob(j), NEW doc \in Seq(Nat), NEW budget \in Nat, Readable(j, doc),
         NEW st, \/ j.kind = "Digest" /\ st = DigestStep(j, doc, budget)
                 \/ j.kind = "Strings" /\ st = StringsStep(j, doc, budget)
                 \/ j.kind = "Stats" /\ st = StatsStep(j, doc, budget)
                 \/ j.kind = "Magic" /\ st = MagicStep(j, doc, budget)
  PROVE  st.kind # "Panics"
<1>. DEFINE n == NextLen(j.cursor, budget, 1)
            pos == j.cursor.pos
            last == j.cursor.end
<1>1. {"kind", "cursor"} \subseteq DOMAIN j /\ j.cursor \in Cursors
  BY DEF AnalysisJob, CursorJob
<1>2. n \in Nat /\ pos \in Nat /\ last \in Nat /\ Remaining(j.cursor) \in Nat
      /\ n <= Remaining(j.cursor) /\ Remaining(j.cursor) = last - pos
  <2>1. n \in Nat /\ n <= Remaining(j.cursor) /\ Remaining(j.cursor) \in Nat
    BY <1>1, NextLenIs
  <2>. HIDE DEF n
  <2>2. QED
    BY <1>1, <2>1 DEF Cursors, Remaining
<1>3. \A x : Went(x[1], x[2], x[3], x[4]).kind # "Panics"
  BY DEF Went
<1>4. Done(j).kind # "Panics" /\ Failed(j).kind # "Panics"
  BY DEF Done, Went, Failed
<1>5. CASE j.kind = "Digest"
  <2>. DEFINE after == [j EXCEPT !.hashers = [i \in DOMAIN @ |-> Updated(@[i], Slice(doc, j.cursor.pos, n))],
                                 !.cursor = Advanced(@, n)]
              went == Went(after, <<>>, n, IsDone(after.cursor))
  <2>1. st = IF IsDone(j.cursor) THEN Done(j) ELSE IF ~IsClean(Slice(doc, j.cursor.pos, n)) THEN Failed(j) ELSE went
    BY <1>5 DEF DigestStep
  <2>2. went.kind = "Went"
    BY DEF Went
  <2>. HIDE DEF went
  <2>3. QED
    BY <1>4, <2>1, <2>2
<1>6. CASE j.kind = "Strings"
  <2>. DEFINE data == Shown(Slice(doc, j.cursor.pos, n))
              cursor == Advanced(j.cursor, n)
              final(fed) == IF IsDone(cursor) THEN RunFound(fed.scanner.run, fed.scanner.enc, j.minChars) ELSE <<>>
              Scan(acc, i) ==
                With(Feed(j.scanners[i], j.cursor.pos, data, j.minChars),
                     LAMBDA fed : [scanners |-> Append(acc.scanners, fed.scanner),
                                   out |-> acc.out \o fed.out, last |-> acc.last \o final(fed)])
              Op(acc) == Went([j EXCEPT !.scanners = acc.scanners, !.cursor = cursor],
                              acc.out \o acc.last, n, IsDone(cursor))
              scanned == OverIndices(Scan, [scanners |-> <<>>, out |-> <<>>, last |-> <<>>], j.scanners)
  <2>1. st = IF IsDone(j.cursor) THEN Done(j) ELSE CHOOSE r \in {Op(v) : v \in {scanned}} : TRUE
    BY <1>6 DEF StringsStep, With
  <2>2. \A v : Op(v).kind = "Went"
    BY DEF Went
  <2>. HIDE DEF Op, scanned
  <2>3. (CHOOSE r \in {Op(v) : v \in {scanned}} : TRUE) = Op(scanned)
    OBVIOUS
  <2>4. QED
    BY <1>4, <2>1, <2>2, <2>3
<1>7. CASE j.kind = "Stats"
  <2>. DEFINE data == Slice(doc, pos, n)
              accounted == Accounted(j, pos, data)
              after == [accounted EXCEPT !.cursor = Advanced(@, n)]
              closed == Went(CloseBlock(after), <<>>, n, TRUE)
              open == Went(after, <<>>, n, FALSE)
  <2>1. st = IF IsDone(j.cursor) THEN Done(j) ELSE IF Len(data) < n THEN Panics(j)
             ELSE IF IsDone(after.cursor) THEN closed ELSE open
    BY <1>7 DEF StatsStep, Accounted
  <2>2. closed.kind = "Went" /\ open.kind = "Went"
    BY DEF Went
  <2>3. last <= Len(doc)
    BY <1>7 DEF Readable
  <2>. HIDE DEF n, pos, last
  <2>4. pos + n <= Len(doc)
    BY <1>2, <2>3
  <2>5. Len(data) = n
    BY <1>2, <2>4, SliceIs
  <2>. HIDE DEF data, accounted, after, closed, open
  <2>6. QED
    BY <1>2, <1>4, <2>1, <2>2, <2>5
<1>8. CASE j.kind = "Magic"
  <2>. DEFINE len == Least(n + j.maxSpan - 1, Remaining(j.cursor))
              read == Slice(doc, pos, len)
              hay(i) == SubSeq(read, i, Len(read))
              hits(i) == SelectSeq(Swept, LAMBDA k :
                           /\ SignatureMatches(SIGNATURES[k], Shown(hay(i)))
                           /\ IsClean(Slice(hay(i), 0, Span(SIGNATURES[k]))))
              list == FlattenSeq([i \in 1 .. n |-> [h \in DOMAIN hits(i) |-> <<pos + i - 1, hits(i)[h]>>]])
              cursor == Advanced(j.cursor, n)
              went == Went([j EXCEPT !.cursor = cursor], list, n, IsDone(cursor))
  <2>1. st = IF IsDone(j.cursor) THEN Done(j) ELSE IF Len(read) < n THEN Panics(j) ELSE went
    BY <1>8 DEF MagicStep
  <2>2. went.kind = "Went"
    BY DEF Went
  <2>. HIDE DEF went
  <2>3. last <= Len(doc) /\ j.maxSpan \in Nat \ {0}
    BY <1>8 DEF Readable
  <2>. DEFINE span == j.maxSpan
              rest == Remaining(j.cursor)
  <2>4. len = Least(n + span - 1, rest)
    OBVIOUS
  <2>. HIDE DEF n, pos, last, span, rest, len
  <2>5. len \in Nat /\ n <= len /\ pos + len <= Len(doc)
    BY <1>2, <2>3, <2>4 DEF Least, span, rest
  <2>6. Len(read) = len
    BY <1>2, <2>5, SliceIs
  <2>. HIDE DEF read
  <2>7. QED
    BY <1>2, <1>4, <2>1, <2>2, <2>5, <2>6
<1>9. QED
  BY <1>5, <1>6, <1>7, <1>8

\* The jobs of the tools panel index nothing.
LEMMA ToolsNeverPanic ==
  ASSUME NEW paths, ToolJob(runner["Tools"].job, paths), NEW fault
  PROVE  StepOf("Tools", fault).kind # "Panics"
<1>. DEFINE j == runner["Tools"].job
            doc == tabs[runner["Tools"].tab]
            budget == turn.left
            data == [f \in DOMAIN files |-> files[f].data]
            st == StepOf("Tools", fault)
<1>1. \A x : Done(x).kind = "Went" /\ Failed(x).kind = "Failed"
  BY DEF Done, Went, Failed
<1>2. \A x, y, z, w : Went(x, y, z, w).kind = "Went"
  BY DEF Went
<1>3. CASE j.kind = "Export"
  <2>1. ExportStep(j, doc, budget).kind # "Panics"
    BY <1>1, <1>2 DEF ExportStep
  <2>. DEFINE s == ExportStep(j, doc, budget)
  <2>2. st = IF fault > 0 THEN Failed(j) ELSE s
    <3>. HIDE DEF s
    <3>1. QED
      BY <1>3 DEF StepOf, s
  <2>. HIDE DEF s, st
  <2>3. QED
    BY <1>1, <2>1, <2>2 DEF s, st
<1>4. CASE j.kind = "Record"
  <2>. DEFINE n == NextLen(j.cursor, budget, j.recLen)
              cursor == Advanced(j.cursor, n)
              records == RecordsFrom(j, j.base + (j.cursor.pos - j.cursor.start), Slice(doc, j.cursor.pos, n))
              head == IF j.headerDone THEN <<>> ELSE RecordHeader(j.fmt)
              foot(job) == IF IsDone(cursor) THEN Terminators(job) ELSE <<>>
              Op(x) == Went([x.job EXCEPT !.cursor = cursor, !.headerDone = TRUE, !.finished = IsDone(cursor)],
                            head \o x.out \o foot(x.job), n, IsDone(cursor))
              s == RecordsStep(j, doc, budget)
  <2>1. s = IF j.finished THEN Done(j) ELSE IF ~IsClean(Slice(doc, j.cursor.pos, n)) THEN Failed(j)
            ELSE CHOOSE r \in {Op(v) : v \in {records}} : TRUE
    BY DEF RecordsStep, With
  <2>2. \A v : Op(v).kind = "Went"
    BY DEF Went
  <2>. HIDE DEF Op, records, n
  <2>3. (CHOOSE r \in {Op(v) : v \in {records}} : TRUE) = Op(records)
    OBVIOUS
  <2>4. s.kind # "Panics"
    BY <1>1, <2>1, <2>2, <2>3
  <2>5. st = IF fault > 0 THEN Failed(j) ELSE s
    <3>. HIDE DEF s
    <3>1. QED
      BY <1>4 DEF StepOf, s
  <2>. HIDE DEF s, st
  <2>6. QED
    BY <1>1, <2>4, <2>5 DEF st
<1>5. CASE j.kind = "Split"
  <2>. DEFINE n == Least(Most(budget, 1), WINDOW)
              Piece(acc, i) ==
                IF acc.left = 0 \/ acc.job.pos >= acc.job.docLen THEN acc ELSE SplitPiece(acc, doc, i = fault)
              Op(acc) == IF acc.ok THEN Went(acc.job, acc.out, acc.job.pos - j.pos, SplitFinished(acc.job))
                         ELSE Failed(acc.job)
              last == Repeat(Piece, [ok |-> TRUE, left |-> n, out |-> <<>>, job |-> j], n)
  <2>1. st = IF SplitFinished(j) THEN Done(j) ELSE CHOOSE r \in {Op(v) : v \in {last}} : TRUE
    BY <1>5 DEF StepOf, SplitStep, With
  <2>2. \A v : Op(v).kind # "Panics"
    BY DEF Went, Failed
  <2>. HIDE DEF Op, last, st
  <2>3. (CHOOSE r \in {Op(v) : v \in {last}} : TRUE) = Op(last)
    OBVIOUS
  <2>4. QED
    BY <1>1, <2>1, <2>2, <2>3 DEF st
<1>6. CASE j.kind = "Concat"
  <2>. DEFINE left == Least(Most(budget, 1), WINDOW)
              Op(acc) == Went(acc.job, <<>>, Len(acc.job.written) - Len(j.written), JoinFinished(acc.job))
              last == Repeat(LAMBDA acc, i : JoinRead(acc, data), [job |-> j, left |-> left], left + Len(j.inputs))
  <2>1. st = IF JoinFinished(j) THEN Done(j) ELSE IF fault > 0 THEN Failed(j)
             ELSE CHOOSE r \in {Op(v) : v \in {last}} : TRUE
    BY <1>6 DEF StepOf, JoinStep, With
  <2>2. \A v : Op(v).kind = "Went"
    BY DEF Went
  <2>. HIDE DEF Op, last, st
  <2>3. (CHOOSE r \in {Op(v) : v \in {last}} : TRUE) = Op(last)
    OBVIOUS
  <2>4. QED
    BY <1>1, <2>1, <2>2, <2>3 DEF st
<1>7. j.kind \in {"Export", "Record", "Split", "Concat"}
  BY DEF ToolJob, ExportJob, RecordJob, SplitJob, SplitJobs, JoinJob
<1>8. QED
  BY <1>3, <1>4, <1>5, <1>6, <1>7

\* The longest reach of a signature is at least a byte.
LEMMA ReachIs ==
  LET spans == {Span(SIGNATURES[i]) : i \in DOMAIN SIGNATURES} IN Max(spans) \in Nat \ {0}
<1>. DEFINE n == Len(SIGNATURES)
            span(i) == Span(SIGNATURES[i])
            spans == {span(i) : i \in 1 .. n}
<1>1. n \in Nat \ {0} /\ DOMAIN SIGNATURES = 1 .. n
  BY SignaturesAssumption
<1>2. ASSUME NEW i \in 1 .. n PROVE span(i) \in Nat \ {0}
  <2>. DEFINE s == SIGNATURES[i]
  <2>. DEFINE R == [offset : Nat, magic : Seq(Nat), also : {<<>>} \cup (Nat \X Seq(Nat))]
  <2>0. SIGNATURES \in Seq(R) /\ \A k \in DOMAIN SIGNATURES : SIGNATURES[k].magic # <<>>
    BY SignaturesAssumption
  <2>1. s \in R /\ s.magic # <<>>
    <3>. HIDE DEF R
    <3>1. QED
      BY <1>1, <2>0
  <2>. HIDE DEF s
  <2>2. s.offset \in Nat /\ s.magic \in Seq(Nat) /\ s.also \in {<<>>} \cup (Nat \X Seq(Nat))
    BY <2>1
  <2>3. Len(s.magic) \in Nat \ {0}
    BY <2>1, <2>2
  <2>4. CASE s.also = <<>>
    BY <2>3, <2>4 DEF Span, s
  <2>5. CASE s.also # <<>>
    <3>1. s.also[1] \in Nat /\ s.also[2] \in Seq(Nat)
      BY <2>2, <2>5
    <3>. DEFINE l == Len(s.magic)
                e == s.also[1] - s.offset + Len(s.also[2])
    <3>2. l \in Nat \ {0} /\ e \in Int
      BY <2>2, <2>3, <3>1
    <3>3. Span(s) = Most(l, e)
      BY <2>5 DEF Span
    <3>. HIDE DEF l, e
    <3>4. QED
      BY <3>2, <3>3 DEF Most, s
  <2>6. QED
    BY <2>4, <2>5
<1>. DEFINE T == {m \in 0 .. n : m = 0 \/ \E i \in 1 .. m : \A k \in 1 .. m : span(i) >= span(k)}
<1>. HIDE DEF span, n
<1>3. 0 \in T
  BY <1>1
<1>4. ASSUME NEW m \in 1 .. n, m - 1 \in T PROVE m \in T
  <2>1. CASE m = 1
    BY <1>1, <1>2, <2>1
  <2>2. CASE m # 1
    <3>1. PICK i \in 1 .. m - 1 : \A k \in 1 .. m - 1 : span(i) >= span(k)
      BY <1>1, <1>4, <2>2
    <3>2. i \in 1 .. n /\ m \in 1 .. m /\ i \in 1 .. m
      BY <1>1, <3>1
    <3>3. span(i) \in Nat /\ span(m) \in Nat
      BY <1>2, <3>2
    <3>4. \A k \in 1 .. m : k = m \/ (k \in 1 .. m - 1 /\ k \in 1 .. n)
      BY <1>1
    <3>5. CASE span(i) >= span(m)
      <4>1. \A k \in 1 .. m : span(i) >= span(k)
        BY <3>1, <3>4, <3>5
      <4>2. QED
        BY <1>1, <3>2, <4>1
    <3>6. CASE span(m) > span(i)
      <4>1. \A k \in 1 .. m : span(m) >= span(k)
        BY <1>2, <3>1, <3>3, <3>4, <3>6
      <4>2. QED
        BY <1>1, <3>2, <4>1
    <3>7. QED
      BY <3>3, <3>5, <3>6
  <2>3. QED
    BY <2>1, <2>2
<1>5. n \in T
  <2>. HIDE DEF T
  <2>1. \A k \in 0 .. n : k \in T
    BY <1>1, <1>3, <1>4, PrefixInduction
  <2>2. QED
    BY <1>1, <2>1
<1>6. PICK i \in 1 .. n : \A k \in 1 .. n : span(i) >= span(k)
  BY <1>1, <1>5
<1>7. \E x \in spans : \A y \in spans : x >= y
  BY <1>6
<1>8. Max(spans) \in spans
  <2>. HIDE DEF spans
  <2>1. QED
    BY <1>7 DEF Max
<1>9. Max(spans) \in Nat \ {0}
  BY <1>2, <1>8
<1>10. QED
  BY <1>1, <1>9 DEF span, n

\* An analysis begins with its range in the document.
LEMMA NewAnalysisReads ==
  ASSUME NEW ask, ask.kind \in AnalysisKinds, NEW doc \in Seq(Nat), NEW r
  PROVE  Readable(AnalysisOf(ask, doc, r), doc)
<1>. DEFINE job == AnalysisOf(ask, doc, r)
            c == CursorOver(0, Len(doc), Len(doc), WINDOW)
<1>1. c.end = Len(doc) /\ Len(doc) \in Nat
  <2>. DEFINE len == Len(doc)
  <2>1. len \in Nat /\ c.end = Most(Least(len, len), Least(0, len))
    BY DEF CursorOver
  <2>. HIDE DEF len, c
  <2>2. QED
    BY <2>1 DEF Least, Most, len
<1>. HIDE DEF c
<1>2. CASE ask.kind = "Digest" \/ ask.kind = "Strings"
  <2>1. job.kind = ask.kind
    BY <1>2 DEF AnalysisOf, NewDigest, NewStrings
  <2>2. QED
    BY <1>2, <2>1 DEF Readable
<1>3. CASE ask.kind = "Stats"
  <2>1. job.kind = "Stats" /\ job.cursor = c
    BY <1>3 DEF AnalysisOf, NewStats, c
  <2>. HIDE DEF job
  <2>2. QED
    BY <1>1, <2>1 DEF Readable, job
<1>4. CASE ask.kind = "Magic"
  <2>1. job = [kind |-> "Magic", maxSpan |-> Max({Span(SIGNATURES[i]) : i \in DOMAIN SIGNATURES}), cursor |-> c]
    BY <1>4 DEF AnalysisOf, NewMagic, c
  <2>. DEFINE m == Max({Span(SIGNATURES[i]) : i \in DOMAIN SIGNATURES})
  <2>2. m \in Nat \ {0} /\ job = [kind |-> "Magic", maxSpan |-> m, cursor |-> c]
    BY <2>1, ReachIs
  <2>. HIDE DEF job, m
  <2>3. QED
    BY <1>1, <2>2 DEF Readable, job
<1>5. QED
  BY <1>2, <1>3, <1>4 DEF AnalysisKinds

\* What an analysis still reads stays there until its document changes.
LEMMA PanicStep == WorkInv /\ CompareInv /\ PanicInv /\ [WNext]_workvars => PanicInv'
<1>. SUFFICES ASSUME WorkInv, CompareInv, PanicInv, [WNext]_workvars PROVE PanicInv'
  OBVIOUS
<1>0. WorkTyped /\ TabsTyped /\ TurnTyped /\ RunnerTyped /\ RangeIsThere /\ OnlyChangesPanic
  BY DEF WorkInv, WorkTyped, PanicInv
<1>1. Moves
  BY EveryStepMoves
<1>. DEFINE r == runner["Analyze"]
<1>2. ASSUME Stays("Analyze") PROVE RangeIsThere'
  <2>1. Busy("Analyze")' /\ ~runner'["Analyze"].touched =>
          Busy("Analyze") /\ ~r.touched /\ tabs' = tabs /\ runner'["Analyze"].job = r.job /\ runner'["Analyze"].tab = r.tab
    BY <1>2 DEF Stays, Busy
  <2>2. QED
    BY <1>0, <2>1 DEF RangeIsThere
<1>3. CASE NoJobMoves
  <2>1. RangeIsThere'
    BY <1>2, <1>3 DEF NoJobMoves
  <2>2. Stays("Analyze") /\ (Panicked' => Panicked)
    BY <1>3 DEF NoJobMoves, Panicked
  <2>3. OnlyChangesPanic'
    BY <1>0, <2>2 DEF OnlyChangesPanic, Stays
  <2>4. QED
    BY <2>1, <2>3 DEF PanicInv
<1>4. ASSUME NEW p \in Panels, LosesItsJob(p) PROVE PanicInv'
  <2>1. RangeIsThere'
    <3>1. CASE p = "Analyze"
      BY <1>4, <3>1 DEF LosesItsJob, RangeIsThere, Busy
    <3>2. CASE p # "Analyze"
      BY <1>2, <1>4, <3>2 DEF LosesItsJob, Panels
    <3>3. QED
      BY <3>1, <3>2
  <2>2. ~Panicked'
    BY <1>4 DEF LosesItsJob, Panicked
  <2>3. QED
    BY <2>1, <2>2 DEF PanicInv, OnlyChangesPanic
<1>5. ASSUME NEW ask \in AnalysisJobs, NEW tab \in DOMAIN tabs, NEW sel \in SelectionsOf(tabs[tab]), Analyze(tab, ask, sel)
      PROVE  PanicInv'
  <2>. DEFINE doc == tabs[tab]
              range == IF ask.kind = "Digest" THEN TabRange(doc, sel) ELSE <<0, Len(doc)>>
              job == AnalysisOf(ask, doc, range)
              goal == GoalOf(ask, doc, range, files)
              after == [IdleRunner EXCEPT !.job = job, !.tab = tab, !.status = "processing", !.goal = goal]
  <2>1. /\ turn.panel = "None" /\ turn' = turn /\ tabs' = tabs
        /\ runner' = [runner EXCEPT !["Analyze"] = after]
    BY <1>5 DEF Analyze, BetweenFrames, Started
  <2>2. Readable(job, doc)
    BY <1>0, NewAnalysisReads, WorkbenchAssumption DEF TabsTyped, AnalysisKinds
  <2>. HIDE DEF job, goal, range
  <2>3. after = [job |-> job, tab |-> tab, cancelled |-> FALSE, status |-> "processing", found |-> <<>>,
                 shown |-> Nothing, goal |-> goal, touched |-> FALSE]
    BY StartedIs
  <2>4. after.job = job /\ after.tab = tab
    BY <2>3
  <2>. HIDE DEF after
  <2>5. runner'["Analyze"] = after
    BY <1>0, <2>1 DEF RunnerTyped, Panels
  <2>6. RangeIsThere'
    BY <2>1, <2>2, <2>4, <2>5 DEF RangeIsThere
  <2>7. ~Panicked'
    BY <2>1 DEF Panicked
  <2>8. QED
    BY <2>6, <2>7 DEF PanicInv, OnlyChangesPanic
<1>6. ASSUME NEW ask \in ToolJobs, NEW tab \in DOMAIN tabs, NEW sel \in SelectionsOf(tabs[tab]), UseTool(tab, ask, sel)
      PROVE  PanicInv'
  <2>1. turn.panel = "None" /\ turn' = turn /\ tabs' = tabs
    BY <1>6 DEF UseTool, BetweenFrames
  <2>2. PICK x : runner' = [runner EXCEPT !["Tools"] = x]
    BY <1>6 DEF UseTool, StartExport, StartRecord, StartSplit, StartConcat, Started
  <2>3. runner'["Analyze"] = runner["Analyze"]
    BY <1>0, <2>2 DEF RunnerTyped, Panels
  <2>4. RangeIsThere'
    BY <1>2, <2>1, <2>3, SameRunnerStays
  <2>5. ~Panicked'
    BY <2>1 DEF Panicked
  <2>6. QED
    BY <2>4, <2>5 DEF PanicInv, OnlyChangesPanic
<1>7. ASSUME NEW p \in Panels, NEW st, ComesTo(p, st) PROVE PanicInv'
  <2>1. /\ turn.panel = p /\ Busy(p) /\ tabs' = tabs /\ StepKeeps(runner[p].job, st, DOMAIN files)
        /\ \/ JobGoesOn(p, st) \/ JobEnds(p, st)
           \/ st.kind = "Panics" /\ runner' = runner
    BY <1>7 DEF ComesTo
  <2>2. PICK fault : st = StepOf(p, fault)
    BY <1>7 DEF ComesTo
  <2>3. st.kind = "Panics" => p = "Analyze" /\ r.touched
    <3>1. CASE p = "Tools"
      <4>1. ToolJob(runner["Tools"].job, DOMAIN files)
        BY <1>0, <2>1, <3>1 DEF RunnerTyped
      <4>2. QED
        BY <2>2, <3>1, <4>1, ToolsNeverPanic
    <3>2. CASE p = "Analyze"
      <4>1. SUFFICES ASSUME ~r.touched PROVE st.kind # "Panics"
        BY <3>2
      <4>. DEFINE doc == tabs[r.tab]
                  budget == turn.left
                  j == r.job
      <4>2. AnalysisJob(j) /\ budget \in Nat
        BY <1>0, <2>1, <3>2 DEF RunnerTyped, TurnTyped
      <4>3. r.tab \in DOMAIN tabs /\ Readable(j, doc)
        BY <1>0, <2>1, <3>2, <4>1 DEF RangeIsThere
      <4>4. doc \in Seq(Nat)
        BY <1>0, <4>3 DEF TabsTyped
      <4>5. \/ j.kind = "Digest" /\ st = DigestStep(j, doc, budget)
            \/ j.kind = "Strings" /\ st = StringsStep(j, doc, budget)
            \/ j.kind = "Stats" /\ st = StatsStep(j, doc, budget)
            \/ j.kind = "Magic" /\ st = MagicStep(j, doc, budget)
        <5>1. j.kind \in AnalysisKinds
          BY <4>2 DEF AnalysisJob
        <5>2. QED
          BY <2>2, <3>2, <5>1 DEF AnalysisKinds, StepOf
      <4>. HIDE DEF j, doc, budget
      <4>6. QED
        BY <4>2, <4>3, <4>4, <4>5, ReadsWhatIsThere
    <3>3. QED
      BY <3>1, <3>2 DEF Panels
  <2>4. CASE st.kind = "Panics"
    <3>1. runner' = runner
      BY <2>1, <2>4 DEF JobGoesOn, JobEnds
    <3>2. RangeIsThere'
      BY <1>2, <2>1, <3>1, SameRunnerStays
    <3>3. OnlyChangesPanic'
      BY <2>3, <2>4, <3>1 DEF OnlyChangesPanic
    <3>4. QED
      BY <3>2, <3>3 DEF PanicInv
  <2>5. CASE JobGoesOn(p, st)
    <3>. DEFINE list == Listed(p, st)
                after == [runner[p] EXCEPT !.job = st.job, !.found = list]
    <3>1. /\ st.kind = "Went" /\ turn' = Spent(st.scanned) /\ runner' = [runner EXCEPT ![p] = after]
      BY <2>5 DEF JobGoesOn
    <3>2. after = GoneOn(runner[p], st.job, list)
      BY DEF GoneOn
    <3>. HIDE DEF after, list
    <3>3. /\ IsRunner(after) /\ after.job = st.job /\ after.tab = runner[p].tab /\ after.touched = runner[p].touched
      BY <1>0, <3>2, GoneOnIs DEF RunnerTyped
    <3>4. runner'[p] = after /\ \A q \in Panels \ {p} : runner'[q] = runner[q]
      BY <1>0, <3>1, <3>3, RunnerTakes
    <3>5. ~Panicked'
      <4>1. st.scanned \in Int
        BY <2>1, <3>1 DEF StepKeeps
      <4>2. QED
        BY <1>0, <2>1, <3>1, <4>1, SpentIs DEF Panicked, Panels
    <3>6. RangeIsThere'
      <4>1. CASE p = "Tools"
        BY <1>2, <2>1, <3>4, <4>1, SameRunnerStays DEF Panels
      <4>2. CASE p = "Analyze"
        <5>. DEFINE j == r.job
                    k == st.job
        <5>1. AnalysisJob(j) /\ j.kind \in AnalysisKinds
          BY <1>0, <2>1, <4>2 DEF RunnerTyped, AnalysisJob
        <5>2. SameRange(j, k)
          BY <2>1, <3>1, <4>2, <5>1 DEF StepKeeps
        <5>3. SUFFICES ASSUME ~r.touched PROVE r.tab \in DOMAIN tabs /\ Readable(k, tabs[r.tab])
          BY <2>1, <3>3, <3>4, <4>2 DEF RangeIsThere
        <5>4. r.tab \in DOMAIN tabs /\ Readable(j, tabs[r.tab])
          BY <1>0, <2>1, <4>2, <5>3 DEF RangeIsThere
        <5>. HIDE DEF j, k
        <5>5. QED
          BY <5>2, <5>4 DEF Readable, SameRange
      <4>3. QED
        BY <4>1, <4>2 DEF Panels
    <3>7. QED
      BY <3>5, <3>6 DEF PanicInv, OnlyChangesPanic
  <2>6. CASE JobEnds(p, st)
    <3>. DEFINE list == Listed(p, st)
                shown == [kind |-> "Result", value |-> ResultOf(p, st), truncated |-> Len(Listed(p, st)) > MAX_RESULTS]
                done == "finished"
                after == [runner[p] EXCEPT !.job = NoJob, !.status = done, !.found = list, !.shown = shown]
    <3>1. turn' = Idle /\ runner' = [runner EXCEPT ![p] = after]
      BY <2>6 DEF JobEnds, Reported
    <3>2. after = Told(runner[p], NoJob, done, list, shown)
      BY DEF Told
    <3>. HIDE DEF after, list, shown, done
    <3>3. IsRunner(after) /\ after.job = NoJob
      BY <1>0, <3>2, ToldIs DEF RunnerTyped
    <3>4. runner'[p] = after /\ \A q \in Panels \ {p} : runner'[q] = runner[q]
      BY <1>0, <3>1, <3>3, RunnerTakes
    <3>5. RangeIsThere'
      <4>1. CASE p = "Tools"
        BY <1>2, <2>1, <3>4, <4>1, SameRunnerStays DEF Panels
      <4>2. CASE p = "Analyze"
        BY <3>3, <3>4, <4>2 DEF RangeIsThere, Busy
      <4>3. QED
        BY <4>1, <4>2 DEF Panels
    <3>6. QED
      BY <3>1, <3>5 DEF PanicInv, OnlyChangesPanic, Panicked, Idle
  <2>7. QED
    BY <2>1, <2>4, <2>5, <2>6
<1>8. QED
  BY <1>1, <1>3, <1>4, <1>5, <1>6, <1>7 DEF Moves, Begins

\* An analysis indexes outside the bytes it read only when its document changed
\* under it, or another one took its tab (core/src/stats.rs:131, magic.rs:172).
THEOREM PanicsOnlyChanged == WSpec => []OnlyChangesPanic
<1>1. WInit => PanicInv
  <2>. SUFFICES ASSUME WInit PROVE PanicInv
    OBVIOUS
  <2>1. "Analyze" \in Panels /\ runner = [p \in Panels |-> IdleRunner] /\ turn = Idle
    BY DEF WInit, Panels
  <2>2. ~Busy("Analyze") /\ ~Panicked
    BY <2>1 DEF Busy, IdleRunner, Panicked, Idle
  <2>3. QED
    BY <2>2 DEF PanicInv, RangeIsThere, OnlyChangesPanic
<1>2. PanicInv => OnlyChangesPanic
  BY DEF PanicInv
<1>3. QED
  BY <1>1, <1>2, PanicStep, WorkbenchInvariant, PTL DEF WSpec

-----------------------------------------------------------------------------
(* Nothing is lost in the parts. *)

\* The first n parts of doc have their names on the disk.
Named(disk, n, doc, size) == \A k \in 1 .. n : disk[PartNames[k]] = File(PartOf(doc, k, size))
Contents(disk) == [f \in DOMAIN disk |-> disk[f].data]

\* What a split has named are the first parts of its document; what a join holds
\* is what it read of its inputs, which are as they were.
SplitSoFar ==
  LET r == runner["Tools"]
  IN  /\ r.tab \in DOMAIN tabs /\ r.goal.data = tabs[r.tab] /\ r.job.partSize = r.goal.ask.partSize
      /\ Filled(r.job, r.goal.data) /\ Named(files, r.job.written, r.goal.data, r.job.partSize)
JoinSoFar ==
  LET r == runner["Tools"]
  IN  r.job.inputs = r.goal.ask.inputs /\ files = r.goal.files /\ JoinedSoFar(r.job, Contents(files))
ToolSoFar ==
  LET r == runner["Tools"]
  IN  Busy("Tools") => /\ r.shown.kind # "Result"
                       /\ r.job.kind = "Split" /\ ~r.touched => SplitSoFar
                       /\ r.job.kind = "Concat" => JoinSoFar

PartsInv == ToolSoFar /\ NothingLostInParts

\* The range over a whole document is the document.
LEMMA WholeSlice ==
  ASSUME NEW doc \in Seq(Nat)
  PROVE  Slice(doc, 0, Len(doc)) = doc /\ Slice(doc, 0, Len(doc) - 0) = doc
BY DEF Slice, Least

\* An empty range has no bytes.
LEMMA EmptySlice ==
  ASSUME NEW doc \in Seq(Nat), NEW at \in Nat
  PROVE  Slice(doc, at, 0) = <<>>
<1>. DEFINE e == Slice(doc, at, 0)
<1>1. e \in Seq(Nat) /\ Len(e) <= 0
  <2>1. 0 \in Nat
    OBVIOUS
  <2>2. QED
    BY <2>1, SliceIs
<1>. HIDE DEF e
<1>2. e = <<>>
  BY <1>1
<1>3. QED
  BY <1>2 DEF e

\* FlattenSeq concatenates from the left.
LEMMA FlattenSums ==
  ASSUME NEW ss \in Seq(Seq(Nat)), ss # <<>>
  PROVE  \E r : SumsOf(ss, r) /\ r[Len(ss)] = FlattenSeq(ss)
<1>. DEFINE e == CHOOSE f : f = RunningSums(ss, f)
<1>1. Len(ss) # 0
  OBVIOUS
<1>2. FlattenSeq(ss) = e[Len(ss)]
  BY <1>1 DEF FlattenSeq, RunningSums
<1>3. Chosen(ss, e)
  BY DEF Chosen
<1>. HIDE DEF e
<1>4. AddsUpTo(Nat, ss, e[Len(ss)])
  BY <1>3, Concatenations
<1>5. QED
  BY <1>2, <1>4 DEF AddsUpTo, SumsOf

\* A split begins with no part.
LEMMA NewSplitTells ==
  ASSUME NEW doc \in Seq(Nat), NEW size \in Nat, NEW disk
  PROVE  LET j == NewSplit(Len(doc), size)
         IN  j.partSize = size /\ Filled(j, doc) /\ Named(disk, j.written, doc, size)
<1>. DEFINE j == NewSplit(Len(doc), size)
<1>1. j.partSize = size /\ j.docLen = Len(doc) /\ j.current = <<>> /\ j.filled = 0 /\ j.written = 0
  BY DEF NewSplit
<1>. HIDE DEF j
<1>2. 0 * size = 0 /\ 0 \in Nat
  OBVIOUS
<1>3. Slice(doc, 0, 0) = <<>>
  BY <1>2, EmptySlice
<1>4. Filled(j, doc)
  BY <1>1, <1>2, <1>3 DEF Filled
<1>5. Named(disk, j.written, doc, size)
  BY <1>1 DEF Named
<1>6. QED
  BY <1>1, <1>4, <1>5 DEF j

\* A join begins before its first input.
LEMMA NewJoinTells ==
  ASSUME NEW paths, NEW inputs \in Seq(paths), JoinAllowed(inputs, "out"),
         NEW data, \A f \in paths \ {"out"} : data[f] \in Seq(Nat)
  PROVE  JoinedSoFar(NewJoin(inputs), data)
<1>. DEFINE ss == Inputs(inputs, data)
            j == NewJoin(inputs)
<1>1. inputs # <<>> /\ \A i \in 1 .. Len(inputs) : data[inputs[i]] \in Seq(Nat)
  BY DEF JoinAllowed
<1>2. ss \in Seq(Seq(Nat)) /\ Len(ss) = Len(inputs)
  <2>1. ss = [i \in 1 .. Len(inputs) |-> data[inputs[i]]]
    BY DEF Inputs
  <2>. HIDE DEF ss
  <2>2. QED
    BY <1>1, <2>1
<1>3. j.inputs = inputs /\ j.index = 1 /\ j.pos = 0 /\ j.written = <<>>
  BY DEF NewJoin
<1>4. ss = Inputs(j.inputs, data)
  BY <1>3
<1>. HIDE DEF ss, j
<1>5. Len(ss) \in Nat /\ Len(ss) >= 1 /\ ss # <<>>
  BY <1>1, <1>2
<1>6. PICK r : SumsOf(ss, r) /\ r[Len(ss)] = FlattenSeq(ss)
  BY <1>2, <1>5, FlattenSums
<1>7. ss[1] \in Seq(Nat)
  BY <1>2, <1>5
<1>8. Slice(ss[1], 0, 0) = <<>>
  <2>1. 0 \in Nat
    OBVIOUS
  <2>2. QED
    BY <1>7, <2>1, EmptySlice
<1>9. JoinTells(j, ss, r)
  <2>1. r[0] = <<>> /\ ~(1 > Len(ss)) /\ 1 - 1 = 0 /\ 0 <= Len(ss[1])
    BY <1>5, <1>6, <1>7 DEF SumsOf
  <2>2. <<>> = <<>> \o <<>>
    OBVIOUS
  <2>3. QED
    BY <1>3, <1>8, <2>1, <2>2 DEF JoinTells
<1>10. QED
  BY <1>4, <1>6, <1>9 DEF JoinedSoFar, j

\* A join that is over has all of its inputs.
LEMMA JoinEndsWhole ==
  ASSUME NEW j, NEW data, JoinedSoFar(j, data), JoinFinished(j), j.inputs \in Seq(DOMAIN data)
  PROVE  j.written = JoinOf(j.inputs, data)
<1>. DEFINE ss == Inputs(j.inputs, data)
<1>1. PICK r : r[Len(ss)] = FlattenSeq(ss) /\ JoinTells(j, ss, r)
  BY DEF JoinedSoFar
<1>2. Len(ss) = Len(j.inputs) /\ DOMAIN j.inputs = 1 .. Len(j.inputs)
  BY DEF Inputs
<1>3. JoinOf(j.inputs, data) = FlattenSeq(ss)
  BY DEF JoinOf, Inputs
<1>. HIDE DEF ss
<1>4. QED
  BY <1>1, <1>2, <1>3 DEF JoinTells, JoinFinished

\* A tools panel whose job stays, over files that stay.
LEMMA StayingKeepsParts ==
  ASSUME PartsInv, Stays("Tools"), files' = files
  PROVE  PartsInv'
<1>1. ToolSoFar /\ NothingLostInParts
  BY DEF PartsInv
<1>2. /\ runner'["Tools"].job = runner["Tools"].job /\ runner'["Tools"].goal = runner["Tools"].goal
      /\ runner'["Tools"].tab = runner["Tools"].tab /\ runner'["Tools"].shown = runner["Tools"].shown
      /\ runner'["Tools"].touched \/ (~runner["Tools"].touched /\ tabs' = tabs)
  BY DEF Stays
<1>3. Busy("Tools")' <=> Busy("Tools")
  BY <1>2 DEF Busy
<1>4. ToolSoFar'
  <2>1. SUFFICES ASSUME Busy("Tools") PROVE ToolSoFar'
    BY <1>3 DEF ToolSoFar
  <2>2. runner'["Tools"].shown.kind # "Result"
    BY <1>1, <1>2, <2>1 DEF ToolSoFar
  <2>3. runner'["Tools"].job.kind = "Split" /\ ~runner'["Tools"].touched => SplitSoFar'
    BY <1>1, <1>2, <2>1 DEF ToolSoFar, SplitSoFar
  <2>4. runner'["Tools"].job.kind = "Concat" => JoinSoFar'
    BY <1>1, <1>2, <2>1 DEF ToolSoFar, JoinSoFar
  <2>5. QED
    BY <2>2, <2>3, <2>4 DEF ToolSoFar
<1>5. NothingLostInParts'
  <2>1. Untouched("Tools")' => Untouched("Tools")
    BY <1>2 DEF Untouched
  <2>2. QED
    BY <1>1, <1>2, <2>1 DEF NothingLostInParts
<1>6. QED
  BY <1>4, <1>5 DEF PartsInv

\* A tools panel without a result shows none that is incomplete.
LEMMA NoResultKeepsParts ==
  ASSUME runner'["Tools"].shown.kind # "Result", Busy("Tools")' => ToolSoFar'
  PROVE  PartsInv'
<1>1. NothingLostInParts'
  BY DEF NothingLostInParts, Untouched
<1>2. ToolSoFar'
  BY DEF ToolSoFar
<1>3. QED
  BY <1>1, <1>2 DEF PartsInv

\* A tool that starts has nothing of its parts, and promises none yet.
LEMMA ToolStartsParts ==
  ASSUME WorkInv, NEW job, NEW tab, NEW goal, Started("Tools", job, tab, goal),
         job.kind = "Split" => /\ tab \in DOMAIN tabs' /\ goal.data = tabs'[tab] /\ job.partSize = goal.ask.partSize
                               /\ Filled(job, goal.data) /\ Named(files', job.written, goal.data, job.partSize),
         job.kind = "Concat" => job.inputs = goal.ask.inputs /\ files' = goal.files /\ JoinedSoFar(job, Contents(files'))
  PROVE  PartsInv'
<1>. DEFINE after == [job |-> job, tab |-> tab, cancelled |-> FALSE, status |-> "processing", found |-> <<>>,
                      shown |-> Nothing, goal |-> goal, touched |-> FALSE]
<1>1. runner' = [runner EXCEPT !["Tools"] = after]
  BY StartedIs DEF Started
<1>2. after.job = job /\ after.tab = tab /\ after.goal = goal /\ after.shown = Nothing
  OBVIOUS
<1>. HIDE DEF after
<1>3. runner'["Tools"] = after
  BY <1>1 DEF WorkInv, WorkTyped, RunnerTyped, Panels
<1>4. after.shown.kind # "Result"
  BY <1>2 DEF Nothing
<1>5. job.kind = "Split" => SplitSoFar'
  BY <1>2, <1>3 DEF SplitSoFar
<1>6. job.kind = "Concat" => JoinSoFar'
  BY <1>2, <1>3 DEF JoinSoFar
<1>7. ToolSoFar'
  BY <1>2, <1>3, <1>4, <1>5, <1>6 DEF ToolSoFar
<1>8. QED
  BY <1>3, <1>4, <1>7, NoResultKeepsParts

\* Whatever tool is used.
LEMMA UseToolParts ==
  ASSUME WorkInv, NEW ask \in ToolJobs, NEW tab \in DOMAIN tabs, NEW sel \in SelectionsOf(tabs[tab]),
         UseTool(tab, ask, sel)
  PROVE  PartsInv'
<1>. DEFINE doc == tabs[tab]
            r == TabRange(doc, sel)
<1>1. /\ tabs' = tabs
      /\ StartExport(tab, ask, sel) \/ StartRecord(tab, ask, sel) \/ StartSplit(tab, ask, sel) \/ StartConcat(tab, ask, sel)
  BY DEF UseTool
<1>2. FilesTyped /\ doc \in Seq(Nat)
  BY DEF WorkInv, WorkTyped, TabsTyped
<1>3. CASE StartExport(tab, ask, sel)
  <2>. DEFINE job == NewExport(ask.fmt, ask.cols, ask.offset, r[1], r[2], Len(doc))
              goal == GoalOf(ask, doc, r, files)
  <2>1. Started("Tools", job, tab, goal)
    BY <1>3 DEF StartExport
  <2>2. job.kind = "Export"
    BY DEF NewExport
  <2>. HIDE DEF job, goal
  <2>3. QED
    BY <2>1, <2>2, ToolStartsParts
<1>4. CASE StartRecord(tab, ask, sel)
  <2>. DEFINE job == NewRecords(ask.fmt, r[1], r[2], ask.base, ask.recLen, Len(doc))
              goal == GoalOf(ask, doc, r, files)
  <2>1. Started("Tools", job, tab, goal)
    BY <1>4 DEF StartRecord
  <2>2. job.kind = "Record"
    BY DEF NewRecords
  <2>. HIDE DEF job, goal
  <2>3. QED
    BY <2>1, <2>2, ToolStartsParts
<1>5. CASE StartSplit(tab, ask, sel)
  <2>. DEFINE job == NewSplit(Len(doc), ask.partSize)
              goal == GoalOf(ask, doc, <<0, Len(doc)>>, files)
  <2>1. ask.kind = "Split" /\ Started("Tools", job, tab, goal) /\ files' = files
    BY <1>5 DEF StartSplit
  <2>2. job.kind = "Split"
    BY DEF NewSplit
  <2>3. goal.data = doc /\ goal.ask = ask
    <3>1. goal.data = Slice(doc, 0, Len(doc) - 0) /\ goal.ask = ask
      BY DEF GoalOf
    <3>. HIDE DEF doc, goal
    <3>2. QED
      BY <1>2, <3>1, WholeSlice
  <2>4. ask.partSize \in Nat
    BY <2>1, WorkbenchAssumption
  <2>5. job.partSize = ask.partSize /\ Filled(job, doc) /\ Named(files, job.written, doc, ask.partSize)
    <3>. HIDE DEF doc
    <3>1. QED
      BY <1>2, <2>4, NewSplitTells
  <2>. HIDE DEF job, goal
  <2>6. tab \in DOMAIN tabs' /\ goal.data = tabs'[tab]
    BY <1>1, <2>3
  <2>. HIDE DEF doc
  <2>7. QED
    BY <2>1, <2>2, <2>3, <2>5, <2>6, ToolStartsParts
<1>6. CASE StartConcat(tab, ask, sel)
  <2>. DEFINE job == NewJoin(ask.inputs)
              goal == GoalOf(ask, <<>>, <<0, 0>>, files)
  <2>1. ask.kind = "Concat" /\ JoinAllowed(ask.inputs, "out") /\ Started("Tools", job, 0, goal) /\ files' = files
    BY <1>6 DEF StartConcat
  <2>2. job.kind = "Concat" /\ job.inputs = ask.inputs
    BY DEF NewJoin
  <2>3. goal.ask = ask /\ goal.files = files
    BY DEF GoalOf
  <2>4. ask.inputs \in Seq(DOMAIN files)
    BY <1>2, <2>1, WorkbenchAssumption DEF FilesTyped
  <2>5. \A f \in DOMAIN files \ {"out"} : Contents(files)[f] \in Seq(Nat)
    BY <1>2 DEF FilesTyped, Contents
  <2>6. JoinedSoFar(job, Contents(files))
    BY <2>1, <2>4, <2>5, NewJoinTells
  <2>. HIDE DEF job, goal
  <2>7. QED
    BY <2>1, <2>2, <2>3, <2>6, ToolStartsParts
<1>7. QED
  BY <1>1, <1>3, <1>4, <1>5, <1>6

\* The parts that a step names follow those that are there, and take the name of
\* none of them.
LEMMA PartsAreWritten ==
  ASSUME FilesTyped, NEW j, j = runner["Tools"].job, SplitJob(j), NEW st, SplitJob(st.job), st.out \in Seq(Seq(Nat)),
         st.job.written = j.written + Len(st.out), NEW doc, SplitTells(st, j, doc),
         Named(files, j.written, doc, j.partSize)
  PROVE  Named(Written("Tools", st), st.job.written, doc, j.partSize)
<1>. DEFINE NamedBy(f) == {k \in DOMAIN st.out : PartNames[j.written + k] = f}
            disk == Written("Tools", st)
            w == j.written
            n == Len(st.out)
            size == j.partSize
<1>1. disk = [f \in DOMAIN files |-> IF NamedBy(f) = {} THEN files[f] ELSE File(st.out[CHOOSE k \in NamedBy(f) : TRUE])]
  <2>1. j.kind = "Split"
    BY DEF SplitJob, SplitJobs
  <2>2. QED
    BY <2>1 DEF Written
<1>2. w \in Nat /\ n \in Nat /\ w + n <= MAX_PARTS /\ DOMAIN st.out = 1 .. n
  <2>1. st.job.written \in Nat /\ st.job.written <= MAX_PARTS
    BY PartsHaveNames
  <2>2. w \in Nat
    BY PartsHaveNames
  <2>3. QED
    BY <2>1, <2>2
<1>3. MAX_PARTS \in Nat /\ \A i, k \in 1 .. MAX_PARTS : PartNames[i] = PartNames[k] => i = k
  BY WorkbenchAssumption
<1>4. \A i \in 1 .. MAX_PARTS : PartNames[i] \in DOMAIN files
  <2>1. PICK d \in FileSets : DOMAIN files = DOMAIN d
    BY DEF FilesTyped
  <2>2. {"out"} \cup {PartNames[k] : k \in 1 .. MAX_PARTS} \subseteq DOMAIN d
    BY WorkbenchAssumption
  <2>3. QED
    BY <2>1, <2>2
<1>5. \A k \in 1 .. n : st.out[k] = PartOf(doc, w + k, size)
  BY DEF SplitTells
<1>6. \A k \in 1 .. w : files[PartNames[k]] = File(PartOf(doc, k, size))
  BY DEF Named
<1>. HIDE DEF disk, w, n, size
<1>7. ASSUME NEW i \in 1 .. w + n PROVE disk[PartNames[i]] = File(PartOf(doc, i, size))
  <2>. DEFINE f == PartNames[i]
  <2>1. i \in 1 .. MAX_PARTS /\ f \in DOMAIN files
    BY <1>2, <1>3, <1>4
  <2>2. \A k \in NamedBy(f) : k \in 1 .. n /\ w + k = i
    <3>1. SUFFICES ASSUME NEW k \in NamedBy(f) PROVE k \in 1 .. n /\ w + k = i
      OBVIOUS
    <3>2. k \in 1 .. n /\ PartNames[w + k] = PartNames[i]
      BY <1>2 DEF w
    <3>3. w + k \in 1 .. MAX_PARTS
      BY <1>2, <1>3, <3>2
    <3>4. QED
      BY <1>3, <2>1, <3>2, <3>3
  <2>3. CASE NamedBy(f) = {}
    <3>1. i \in 1 .. w
      <4>1. SUFFICES ASSUME i > w PROVE FALSE
        BY <1>2
      <4>2. i - w \in 1 .. n /\ w + (i - w) = i
        BY <1>2, <4>1
      <4>3. i - w \in NamedBy(f)
        BY <1>2, <4>2 DEF w
      <4>4. QED
        BY <2>3, <4>3
    <3>2. disk[f] = files[f]
      BY <1>1, <2>1, <2>3
    <3>3. QED
      BY <1>6, <3>1, <3>2
  <2>4. CASE NamedBy(f) # {}
    <3>1. PICK k \in NamedBy(f) : disk[f] = File(st.out[k])
      BY <1>1, <2>1, <2>4
    <3>2. k \in 1 .. n /\ w + k = i
      BY <2>2, <3>1
    <3>3. st.out[k] = PartOf(doc, i, size)
      BY <1>5, <3>2
    <3>4. QED
      BY <3>1, <3>3
  <2>5. QED
    BY <2>3, <2>4
<1>8. QED
  BY <1>7 DEF Named, disk, w, n, size

\* What a step of a split or of a join leaves.
LEMMA ToolStepParts ==
  ASSUME WorkInv, ToolSoFar, NEW st, ComesTo("Tools", st), st.kind = "Went"
  PROVE  LET r == runner["Tools"]
         IN  /\ r.job.kind = "Split" /\ ~r.touched =>
                  /\ r.tab \in DOMAIN tabs /\ r.goal.data = tabs[r.tab] /\ r.goal.data \in Seq(Nat)
                  /\ st.job.partSize = r.goal.ask.partSize /\ Filled(st.job, r.goal.data)
                  /\ Named(Written("Tools", st), st.job.written, r.goal.data, st.job.partSize)
                  /\ SplitJob(st.job) /\ (st.finished => SplitFinished(st.job))
             /\ r.job.kind = "Concat" =>
                  /\ st.job.inputs = r.goal.ask.inputs /\ Written("Tools", st) = files /\ files = r.goal.files
                  /\ JoinedSoFar(st.job, Contents(files))
                  /\ JoinJob(st.job, DOMAIN files) /\ (st.finished => JoinFinished(st.job))
<1>. DEFINE r == runner["Tools"]
            j == r.job
            doc == tabs[r.tab]
            budget == turn.left
            paths == DOMAIN files
            data == [f \in DOMAIN files |-> files[f].data]
<1>1. /\ turn.panel = "Tools" /\ Busy("Tools") /\ StepKeeps(j, st, paths)
      /\ \E fault : st = StepOf("Tools", fault)
  BY DEF ComesTo
<1>2. PICK fault : st = StepOf("Tools", fault)
  BY <1>1
<1>3. WorkTyped /\ FilesTyped /\ ToolJob(j, paths) /\ budget \in Nat /\ tabs \in Seq(Seq(Nat))
  BY <1>1 DEF WorkInv, WorkTyped, RunnerTyped, TurnTyped, TabsTyped
<1>4. ASSUME j.kind = "Split", ~r.touched
      PROVE  /\ r.tab \in DOMAIN tabs /\ r.goal.data = doc /\ doc \in Seq(Nat)
             /\ st.job.partSize = r.goal.ask.partSize /\ Filled(st.job, doc)
             /\ Named(Written("Tools", st), st.job.written, doc, st.job.partSize)
             /\ SplitJob(st.job) /\ (st.finished => SplitFinished(st.job))
  <2>1. /\ r.tab \in DOMAIN tabs /\ r.goal.data = doc /\ j.partSize = r.goal.ask.partSize
        /\ Filled(j, doc) /\ Named(files, j.written, doc, j.partSize)
    <3>1. SplitSoFar
      BY <1>1, <1>4 DEF ToolSoFar
    <3>2. QED
      BY <3>1 DEF SplitSoFar
  <2>2. doc \in Seq(Nat)
    BY <1>3, <2>1
  <2>3. SplitJob(j)
    BY <1>3, <1>4 DEF ToolJob, ExportJob, RecordJob, JoinJob
  <2>4. st = SplitStep(j, doc, budget, fault)
    BY <1>2, <1>4 DEF StepOf
  <2>. HIDE DEF doc, budget, paths, data
  <2>5. SplitJob(st.job) /\ st.out \in Seq(Seq(Nat)) /\ st.job.written = j.written + Len(st.out)
        /\ (st.finished => SplitFinished(st.job)) /\ SplitTells(st, j, doc)
    <3>. HIDE DEF j, r
    <3>1. QED
      BY <1>3, <2>1, <2>2, <2>3, <2>4, SplitStepKeeps
  <2>6. Filled(st.job, doc) /\ st.job.partSize = j.partSize
    BY <2>5 DEF SplitTells
  <2>7. Named(Written("Tools", st), st.job.written, doc, j.partSize)
    BY <1>3, <2>1, <2>3, <2>5, PartsAreWritten
  <2>8. QED
    BY <2>1, <2>2, <2>5, <2>6, <2>7
<1>5. ASSUME j.kind = "Concat"
      PROVE  /\ st.job.inputs = r.goal.ask.inputs /\ Written("Tools", st) = files /\ files = r.goal.files
             /\ JoinedSoFar(st.job, Contents(files))
             /\ JoinJob(st.job, paths) /\ (st.finished => JoinFinished(st.job))
  <2>1. j.inputs = r.goal.ask.inputs /\ files = r.goal.files /\ JoinedSoFar(j, Contents(files))
    <3>1. JoinSoFar
      BY <1>1, <1>5 DEF ToolSoFar
    <3>2. QED
      BY <3>1 DEF JoinSoFar
  <2>2. Contents(files) = data
    BY DEF Contents
  <2>3. JoinJob(j, paths)
    BY <1>3, <1>5 DEF ToolJob, ExportJob, RecordJob, SplitJob, SplitJobs
  <2>. DEFINE io == fault > 0
  <2>4. st = JoinStep(j, data, budget, io)
    BY <1>2, <1>5 DEF StepOf
  <2>5. Written("Tools", st) = files
    BY <1>5 DEF Written
  <2>6. \A x \in paths \ {"out"} : data[x] \in Seq(Nat)
    BY <1>3 DEF FilesTyped
  <2>. HIDE DEF doc, budget, paths, data, j, io
  <2>7. JoinJob(st.job, paths) /\ (st.finished => JoinFinished(st.job))
        /\ st.job.inputs = j.inputs /\ JoinedSoFar(st.job, data)
    BY <1>3, <2>1, <2>2, <2>3, <2>4, <2>6, JoinStepKeeps
  <2>8. QED
    BY <2>1, <2>2, <2>5, <2>7
<1>6. QED
  BY <1>4, <1>5

\* A step that goes on.
LEMMA GoesOnParts ==
  ASSUME WorkInv, PartsInv, NEW p \in Panels, NEW st, ComesTo(p, st), JobGoesOn(p, st)
  PROVE  PartsInv'
<1>. DEFINE list == Listed(p, st)
            after == [runner[p] EXCEPT !.job = st.job, !.found = list]
<1>1. /\ st.kind = "Went" /\ runner' = [runner EXCEPT ![p] = after] /\ files' = Written(p, st)
  BY DEF JobGoesOn
<1>2. after = GoneOn(runner[p], st.job, list)
  BY DEF GoneOn
<1>3. WorkTyped /\ RunnerTyped /\ Busy(p) /\ tabs' = tabs /\ StepKeeps(runner[p].job, st, DOMAIN files)
  BY DEF WorkInv, WorkTyped, ComesTo
<1>. HIDE DEF after, list
<1>4. /\ IsRunner(after) /\ after.job = st.job /\ after.tab = runner[p].tab /\ after.touched = runner[p].touched
      /\ after.goal = runner[p].goal /\ after.shown = runner[p].shown
  BY <1>2, <1>3, GoneOnIs DEF RunnerTyped
<1>5. runner'[p] = after /\ \A q \in Panels \ {p} : runner'[q] = runner[q]
  BY <1>1, <1>3, <1>4, RunnerTakes
<1>6. CASE p = "Analyze"
  <2>1. files' = files
    BY <1>1, <1>3, <1>6, WrittenIs
  <2>2. runner'["Tools"] = runner["Tools"]
    BY <1>5, <1>6 DEF Panels
  <2>3. QED
    BY <1>3, <2>1, <2>2, SameRunnerStays, StayingKeepsParts
<1>7. CASE p = "Tools"
  <2>1. ToolSoFar
    BY DEF PartsInv
  <2>2. runner["Tools"].shown.kind # "Result"
    BY <1>3, <1>7, <2>1 DEF ToolSoFar
  <2>3. st.job.kind = runner["Tools"].job.kind
    <3>1. runner["Tools"].job.kind \notin AnalysisKinds
      BY <1>3, <1>7, ToolIsBusy DEF WorkTyped, RunnerTyped
    <3>2. QED
      BY <1>1, <1>3, <1>7, <3>1 DEF StepKeeps
  <2>4. st.job.kind = "Split" /\ ~after.touched => SplitSoFar'
    <3>1. SUFFICES ASSUME st.job.kind = "Split", ~after.touched PROVE SplitSoFar'
      OBVIOUS
    <3>2. /\ runner["Tools"].tab \in DOMAIN tabs /\ runner["Tools"].goal.data = tabs[runner["Tools"].tab]
          /\ st.job.partSize = runner["Tools"].goal.ask.partSize /\ Filled(st.job, runner["Tools"].goal.data)
          /\ Named(Written("Tools", st), st.job.written, runner["Tools"].goal.data, st.job.partSize)
      BY <1>1, <1>4, <1>7, <2>1, <2>3, <3>1, ToolStepParts
    <3>3. QED
      BY <1>1, <1>3, <1>4, <1>5, <1>7, <3>2 DEF SplitSoFar
  <2>5. st.job.kind = "Concat" => JoinSoFar'
    <3>1. SUFFICES ASSUME st.job.kind = "Concat" PROVE JoinSoFar'
      OBVIOUS
    <3>2. /\ st.job.inputs = runner["Tools"].goal.ask.inputs /\ Written("Tools", st) = files
          /\ files = runner["Tools"].goal.files /\ JoinedSoFar(st.job, Contents(files))
      BY <1>1, <1>7, <2>1, <2>3, <3>1, ToolStepParts
    <3>3. QED
      BY <1>1, <1>4, <1>5, <1>7, <3>2 DEF JoinSoFar
  <2>6. runner'["Tools"] = after /\ after.shown.kind # "Result"
    BY <1>4, <1>5, <1>7, <2>2
  <2>7. ToolSoFar'
    BY <1>4, <2>4, <2>5, <2>6 DEF ToolSoFar
  <2>8. QED
    BY <2>6, <2>7, NoResultKeepsParts
<1>8. QED
  BY <1>6, <1>7 DEF Panels

\* A step that ends its job: a split has named all of its parts, and a joined
\* file, which gets its name now, holds all of its inputs.
LEMMA EndsParts ==
  ASSUME WorkInv, PartsInv, NEW p \in Panels, NEW st, ComesTo(p, st), JobEnds(p, st)
  PROVE  PartsInv'
<1>. DEFINE list == Listed(p, st)
            shown == [kind |-> "Result", value |-> ResultOf(p, st), truncated |-> Len(Listed(p, st)) > MAX_RESULTS]
            done == "finished"
            after == [runner[p] EXCEPT !.job = NoJob, !.status = done, !.found = list, !.shown = shown]
<1>1. /\ st.kind = "Went" /\ Finished(p, st) /\ runner' = [runner EXCEPT ![p] = after]
      /\ files' = IF runner[p].job.kind = "Concat" THEN [Written(p, st) EXCEPT !["out"] = File(st.job.written)]
                  ELSE Written(p, st)
  BY DEF JobEnds, Reported
<1>2. after = Told(runner[p], NoJob, done, list, shown)
  BY DEF Told
<1>3. WorkTyped /\ RunnerTyped /\ Busy(p) /\ tabs' = tabs /\ StepKeeps(runner[p].job, st, DOMAIN files)
  BY DEF WorkInv, WorkTyped, ComesTo
<1>. HIDE DEF after, list, shown, done
<1>4. /\ IsRunner(after) /\ after.job = NoJob /\ after.touched = runner[p].touched /\ after.goal = runner[p].goal
  BY <1>2, <1>3, ToldIs DEF RunnerTyped
<1>5. runner'[p] = after /\ \A q \in Panels \ {p} : runner'[q] = runner[q]
  BY <1>1, <1>3, <1>4, RunnerTakes
<1>6. CASE p = "Analyze"
  <2>1. runner[p].job.kind # "Concat"
    BY <1>3, <1>6 DEF RunnerTyped, AnalysisJob, AnalysisKinds
  <2>2. files' = files
    BY <1>1, <1>3, <1>6, <2>1, WrittenIs
  <2>3. runner'["Tools"] = runner["Tools"]
    BY <1>5, <1>6 DEF Panels
  <2>4. QED
    BY <1>3, <2>2, <2>3, SameRunnerStays, StayingKeepsParts
<1>7. CASE p = "Tools"
  <2>. DEFINE r == runner["Tools"]
              goal == r.goal
  <2>1. ToolSoFar /\ FilesTyped /\ goal.kind = r.job.kind /\ ToolJob(r.job, DOMAIN files)
    BY <1>3, <1>7 DEF PartsInv, WorkTyped, RunnerTyped
  <2>2. st.finished
    <3>1. r.job.kind \notin AnalysisKinds
      BY <1>3, <1>7, ToolIsBusy DEF WorkTyped, RunnerTyped
    <3>2. Listed("Tools", st) = <<>>
      BY <3>1 DEF Listed, AnalysisKinds
    <3>3. Len(<<>>) = 0 /\ MAX_RESULTS \in Nat /\ ~(0 > MAX_RESULTS)
      BY WorkbenchAssumption
    <3>4. QED
      BY <1>1, <1>7, <3>2, <3>3 DEF Finished
  <2>3. runner'["Tools"].goal = goal /\ runner'["Tools"].touched = r.touched /\ ~Busy("Tools")'
    BY <1>4, <1>5, <1>7 DEF Busy
  <2>4. ToolSoFar'
    BY <2>3 DEF ToolSoFar
  <2>5. ASSUME ~r.touched, goal.kind = "Split", NEW k \in DOMAIN SplitOf(goal.data, goal.ask.partSize)
        PROVE  files'[PartNames[k]] = File(SplitOf(goal.data, goal.ask.partSize)[k])
    <3>. DEFINE size == goal.ask.partSize
                doc == goal.data
    <3>1. /\ doc \in Seq(Nat) /\ st.job.partSize = size /\ Filled(st.job, doc)
          /\ Named(Written("Tools", st), st.job.written, doc, size)
          /\ SplitJob(st.job) /\ SplitFinished(st.job)
      BY <1>1, <1>7, <2>1, <2>2, <2>5, ToolStepParts
    <3>2. st.job.written = PartsOf(Len(doc), size)
      <4>1. st.job.docLen = Len(doc) /\ st.job.pos \in Nat /\ st.job.docLen \in Nat
        BY <3>1 DEF Filled, SplitJob, SplitJobs
      <4>2. ~(st.job.pos < st.job.docLen)
        BY <3>1, <4>1 DEF SplitFinished
      <4>3. QED
        BY <3>1, <4>1, <4>2 DEF SplitJob, SplitPlace
    <3>3. k \in 1 .. st.job.written /\ SplitOf(doc, size)[k] = PartOf(doc, k, size)
      BY <2>5, <3>2 DEF SplitOf, PartOf
    <3>4. files' = Written("Tools", st)
      BY <1>1, <1>7, <2>1, <2>5
    <3>5. QED
      BY <3>1, <3>3, <3>4 DEF Named
  <2>6. ASSUME goal.kind = "Concat"
        PROVE  files'["out"] = File(JoinOf(goal.ask.inputs, [f \in DOMAIN goal.files |-> goal.files[f].data]))
    <3>1. /\ st.job.inputs = goal.ask.inputs /\ Written("Tools", st) = files /\ files = goal.files
          /\ JoinedSoFar(st.job, Contents(files)) /\ JoinJob(st.job, DOMAIN files) /\ JoinFinished(st.job)
      BY <1>1, <1>7, <2>1, <2>2, <2>6, ToolStepParts
    <3>2. "out" \in DOMAIN files
      BY <2>1, WorkbenchAssumption DEF FilesTyped
    <3>3. files'["out"] = File(st.job.written)
      BY <1>1, <1>7, <2>1, <2>6, <3>1, <3>2
    <3>. DEFINE data == Contents(files)
    <3>4. DOMAIN data = DOMAIN files /\ data = [f \in DOMAIN goal.files |-> goal.files[f].data]
      BY <3>1 DEF Contents
    <3>. HIDE DEF data, goal
    <3>5. st.job.inputs \in Seq(DOMAIN data)
      BY <3>1, <3>4 DEF JoinJob
    <3>6. st.job.written = JoinOf(st.job.inputs, data)
      BY <3>1, <3>5, JoinEndsWhole DEF data
    <3>7. QED
      BY <3>1, <3>3, <3>4, <3>6
  <2>7. NothingLostInParts'
    <3>1. SUFFICES ASSUME Untouched("Tools")' PROVE NothingLostInParts'
      BY DEF NothingLostInParts
    <3>2. ~r.touched
      BY <2>3, <3>1 DEF Untouched
    <3>3. QED
      BY <2>3, <2>5, <2>6, <3>2 DEF NothingLostInParts
  <2>8. QED
    BY <2>4, <2>7 DEF PartsInv
<1>8. QED
  BY <1>6, <1>7 DEF Panels

\* What the parts of a job tell stays true of them.
LEMMA PartsStep == WorkInv /\ CompareInv /\ PartsInv /\ [WNext]_workvars => PartsInv'
<1>. SUFFICES ASSUME WorkInv, CompareInv, PartsInv, [WNext]_workvars PROVE PartsInv'
  OBVIOUS
<1>0. RunnerTyped /\ ToolSoFar
  BY DEF WorkInv, WorkTyped, PartsInv
<1>1. Moves
  BY EveryStepMoves
<1>2. CASE NoJobMoves
  BY <1>2, StayingKeepsParts DEF NoJobMoves
<1>3. CASE LosesItsJob("Analyze")
  <2>1. Stays("Tools") /\ files' = files
    BY <1>3 DEF LosesItsJob, Panels
  <2>2. QED
    BY <2>1, StayingKeepsParts
<1>4. CASE LosesItsJob("Tools")
  <2>1. Busy("Tools") /\ ~Busy("Tools")' /\ runner'["Tools"].shown = runner["Tools"].shown
    BY <1>4 DEF LosesItsJob, Busy
  <2>2. runner["Tools"].shown.kind # "Result"
    BY <1>0, <2>1 DEF ToolSoFar
  <2>3. QED
    BY <2>1, <2>2, NoResultKeepsParts
<1>5. ASSUME NEW ask \in AnalysisJobs, NEW tab \in DOMAIN tabs, NEW sel \in SelectionsOf(tabs[tab]), Analyze(tab, ask, sel)
      PROVE  PartsInv'
  <2>1. tabs' = tabs /\ files' = files
    BY <1>5 DEF Analyze
  <2>2. PICK x : runner' = [runner EXCEPT !["Analyze"] = x]
    BY <1>5 DEF Analyze, Started
  <2>3. runner'["Tools"] = runner["Tools"]
    BY <1>0, <2>2 DEF RunnerTyped, Panels
  <2>4. QED
    BY <2>1, <2>3, SameRunnerStays, StayingKeepsParts
<1>6. ASSUME NEW ask \in ToolJobs, NEW tab \in DOMAIN tabs, NEW sel \in SelectionsOf(tabs[tab]), UseTool(tab, ask, sel)
      PROVE  PartsInv'
  BY <1>6, UseToolParts
<1>7. ASSUME NEW p \in Panels, NEW st, ComesTo(p, st) PROVE PartsInv'
  <2>1. JobGoesOn(p, st) \/ JobEnds(p, st) \/ (files' = files /\ runner' = runner /\ tabs' = tabs)
    BY <1>7 DEF ComesTo
  <2>2. CASE files' = files /\ runner' = runner /\ tabs' = tabs
    BY <2>2, SameRunnerStays, StayingKeepsParts
  <2>3. QED
    BY <1>7, <2>1, <2>2, GoesOnParts, EndsParts
<1>8. QED
  BY <1>1, <1>2, <1>3, <1>4, <1>5, <1>6, <1>7 DEF Moves, Begins, Panels

\* The parts of a split that ended are its document in order, and a joined file
\* its inputs one after the other, however the budget cuts them into steps
\* (core/src/transform.rs).
THEOREM PartsWhole == WSpec => []NothingLostInParts
<1>1. WInit => PartsInv
  <2>. SUFFICES ASSUME WInit PROVE PartsInv
    OBVIOUS
  <2>1. "Tools" \in Panels /\ runner = [p \in Panels |-> IdleRunner]
    BY DEF WInit, Panels
  <2>2. runner["Tools"].job = NoJob /\ runner["Tools"].shown = Nothing
    BY <2>1 DEF IdleRunner
  <2>3. ~Busy("Tools") /\ runner["Tools"].shown.kind # "Result"
    BY <2>2 DEF Busy, Nothing
  <2>4. QED
    <3>1. ToolSoFar
      BY <2>3 DEF ToolSoFar
    <3>2. NothingLostInParts
      BY <2>3 DEF NothingLostInParts, Untouched
    <3>3. QED
      BY <3>1, <3>2 DEF PartsInv
<1>2. PartsInv => NothingLostInParts
  BY DEF PartsInv
<1>3. QED
  BY <1>1, <1>2, PartsStep, WorkbenchInvariant, PTL DEF WSpec
=============================================================================
