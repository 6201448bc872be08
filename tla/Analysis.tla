------------------------------ MODULE Analysis -------------------------------
(* The jobs of the analysis panel: digests, strings, statistics, signatures. *)
EXTENDS ByteJobs

(***************************************************************************)
(* core/src/hash.rs: every selected algorithm in one pass over the range.   *)
(*                                                                         *)
(* The cryptographic hashes and the CRCs are opaque: their state is the     *)
(* bytes they were fed, so two digests are equal exactly when the bytes     *)
(* are.  The sums are computed.                                             *)
(***************************************************************************)
CONSTANTS
  WordModulus,   \* 2^64, the wrapping of the sum
  AdlerPrime,    \* 65521
  AdlerChunk     \* 5552: bytes added before the modulo is taken

Sums == {"Adler32", "Sum64"}

NewHasher(algo) ==
  [algo |-> algo,
   state |-> CASE algo = "Adler32" -> [a |-> 1, b |-> 0]
               [] algo = "Sum64" -> 0
               [] OTHER -> <<>>]

\* The modulo is deferred to the end of a chunk.
AdlerOver(s, data) ==
  LET Add(acc, i) ==
        LET a == acc.a + data[i]
            b == acc.b + a
        IN  IF i % AdlerChunk = 0 \/ i = Len(data)
            THEN [a |-> a % AdlerPrime, b |-> b % AdlerPrime]
            ELSE [a |-> a, b |-> b]
  IN  OverIndices(Add, s, data)

SumOver(s, data) == OverIndices(LAMBDA acc, i : (acc + data[i]) % WordModulus, s, data)

Updated(h, data) ==
  [h EXCEPT !.state = CASE h.algo = "Adler32" -> AdlerOver(@, data)
                        [] h.algo = "Sum64" -> SumOver(@, data)
                        [] OTHER -> @ \o data]

NewDigest(algos, lo, hi, docLen) ==
  [kind |-> "Digest", hashers |-> [i \in DOMAIN algos |-> NewHasher(algos[i])],
   cursor |-> CursorOver(lo, hi, docLen, WINDOW)]

\* A hash of invented zeros is no hash: an unreadable block ends the job.
DigestStep(j, doc, budget) ==
  LET n == NextLen(j.cursor, budget, 1)
      data == Slice(doc, j.cursor.pos, n)
      after == [j EXCEPT !.hashers = [i \in DOMAIN @ |-> Updated(@[i], data)],
                         !.cursor = Advanced(@, n)]
  IN  IF IsDone(j.cursor) THEN Done(j)
      ELSE IF ~IsClean(data) THEN Failed(j)
      ELSE Went(after, <<>>, n, IsDone(after.cursor))

DigestResult(j) == [i \in DOMAIN j.hashers |-> [algo |-> j.hashers[i].algo, state |-> j.hashers[i].state]]

\* What the algorithms are defined to give.
DigestOf(algo, data) ==
  LET Prefix(i) == 1 + FoldLeft(LAMBDA acc, x : acc + x, 0, SubSeq(data, 1, i))
      SumOfPrefixes == FoldLeftDomain(LAMBDA acc, i : acc + Prefix(i), 0, data)
  IN  CASE algo = "Adler32" -> [a |-> Prefix(Len(data)) % AdlerPrime, b |-> SumOfPrefixes % AdlerPrime]
        [] algo = "Sum64" -> (Prefix(Len(data)) - 1) % WordModulus
        [] OTHER -> data

-----------------------------------------------------------------------------
(***************************************************************************)
(* core/src/strings.rs: the runs of printable characters of a range, in     *)
(* UTF-8 and in UTF-16.  A scanner is fed byte by byte and keeps the run     *)
(* under construction and the character cut by a window; the shown text of  *)
(* a run is left out.                                                       *)
(***************************************************************************)
\* charset.rs: not a control, not an exotic space, not invisible.
IsPrintable(c) ==
  /\ c \in \h20 .. \h10FFFF
  /\ c \notin (\h7F .. \hA0) \cup {\hAD, \h1680, \h2028, \h2029, \h202F, \h205F, \h3000, \hFEFF}
  /\ c \notin (\h2000 .. \h200F) \cup (\h202A .. \h202E)

Utf8Len(b) ==
  CASE b <= \h7F -> 1
    [] b \in \hC2 .. \hDF -> 2
    [] b \in \hE0 .. \hEF -> 3
    [] b \in \hF0 .. \hF4 -> 4
    [] OTHER -> 0

Continues(b) == b \in \h80 .. \hBF

\* The character of a complete sequence, or -1 when it is not well formed:
\* overlong, a surrogate, or past the last code point.
Decoded(s) ==
  LET low(i) == s[i] - \h80
      value == CASE Len(s) = 2 -> (s[1] - \hC0) * 64 + low(2)
                 [] Len(s) = 3 -> (s[1] - \hE0) * 4096 + low(2) * 64 + low(3)
                 [] Len(s) = 4 -> (s[1] - \hF0) * 262144 + low(2) * 4096 + low(3) * 64 + low(4)
      least == CASE Len(s) = 2 -> \h80 [] Len(s) = 3 -> \h800 [] Len(s) = 4 -> \h10000
  IN  IF value < least \/ value \in \hD800 .. \hDFFF \/ value > \h10FFFF THEN -1 ELSE value

-----------------------------------------------------------------------------
(* The run under construction; start is -1 when there is none.              *)

NoRun == [start |-> -1, chars |-> 0, bytes |-> 0]

Extended(run, start, n) ==
  [start |-> IF run.start = -1 THEN start ELSE run.start,
   chars |-> run.chars + 1, bytes |-> run.bytes + n]

\* What ending the run adds to the list.
RunFound(run, enc, minChars) ==
  IF run.start # -1 /\ run.chars >= minChars
  THEN <<[offset |-> run.start, len |-> run.bytes, chars |-> run.chars, encoding |-> enc]>>
  ELSE <<>>

\* pend is the character cut short: its first offset and its bytes.
Scanner(enc, pend) == [enc |-> enc, run |-> NoRun, pend |-> pend]
NoPend == [start |-> 0, bytes |-> <<>>]

\* Two alignments for each byte order; the odd one starts in the middle of a
\* unit that does not exist.
ScannersFor(enc) ==
  IF enc = "Utf8" THEN <<Scanner(enc, NoPend)>>
  ELSE <<Scanner(enc, NoPend), Scanner(enc, [start |-> 0, bytes |-> <<0>>])>>

\* A scanner and the list it appends to, after one byte.
Extends(s, start, n) == [s EXCEPT !.scanner.run = Extended(@, start, n), !.scanner.pend = NoPend]
Flushes(s, minChars) ==
  [scanner |-> [s.scanner EXCEPT !.run = NoRun, !.pend = NoPend],
   out |-> s.out \o RunFound(s.scanner.run, s.scanner.enc, minChars)]

Fresh(s, o, b, minChars) ==
  IF b \in \h20 .. \h7E THEN Extends(s, o, 1)
  ELSE IF Utf8Len(b) >= 2 THEN [s EXCEPT !.scanner.pend = [start |-> o, bytes |-> <<b>>]]
  ELSE Flushes(s, minChars)

Utf8Byte(s, o, b, minChars) ==
  LET pend == s.scanner.pend
      seq == Append(pend.bytes, b)
  IN  IF pend.bytes = <<>> THEN Fresh(s, o, b, minChars)
      \* A broken continuation ends the run, and the byte is taken again.
      ELSE IF ~Continues(b) THEN Fresh(Flushes(s, minChars), o, b, minChars)
      ELSE IF Len(seq) < Utf8Len(seq[1]) THEN [s EXCEPT !.scanner.pend.bytes = seq]
      ELSE IF IsPrintable(Decoded(seq)) THEN Extends(s, pend.start, Len(seq))
      ELSE Flushes(s, minChars)

Utf16Byte(s, o, b, minChars) ==
  LET pend == s.scanner.pend
      first == pend.bytes[1]
      unit == IF s.scanner.enc = "Utf16Be" THEN first * 256 + b ELSE b * 256 + first
  IN  IF pend.bytes = <<>> THEN [s EXCEPT !.scanner.pend = [start |-> o, bytes |-> <<b>>]]
      ELSE IF unit <= \hFF /\ IsPrintable(unit) THEN Extends(s, pend.start, 2)
      ELSE Flushes(s, minChars)

Feed(scanner, base, data, minChars) ==
  LET Byte(s, i) ==
        IF scanner.enc = "Utf8" THEN Utf8Byte(s, base + i - 1, data[i], minChars)
        ELSE Utf16Byte(s, base + i - 1, data[i], minChars)
  IN  OverIndices(Byte, [scanner |-> scanner, out |-> <<>>], data)

-----------------------------------------------------------------------------
NewStrings(encodings, minChars, lo, hi, docLen) ==
  [kind |-> "Strings", minChars |-> Most(minChars, 1),
   scanners |-> FlattenSeq([i \in DOMAIN encodings |-> ScannersFor(encodings[i])]),
   cursor |-> CursorOver(lo, hi, docLen, WINDOW)]

\* The runs still open at the end of the range are taken with the last window.
StringsStep(j, doc, budget) ==
  LET n == NextLen(j.cursor, budget, 1)
      data == Shown(Slice(doc, j.cursor.pos, n))
      cursor == Advanced(j.cursor, n)
      last(fed) == IF IsDone(cursor) THEN RunFound(fed.scanner.run, fed.scanner.enc, j.minChars) ELSE <<>>
      Scan(acc, i) ==
        With(Feed(j.scanners[i], j.cursor.pos, data, j.minChars),
             LAMBDA fed : [scanners |-> Append(acc.scanners, fed.scanner),
                           out |-> acc.out \o fed.out, last |-> acc.last \o last(fed)])
  IN  IF IsDone(j.cursor) THEN Done(j)
      ELSE With(OverIndices(Scan, [scanners |-> <<>>, out |-> <<>>, last |-> <<>>], j.scanners),
                LAMBDA acc : Went([j EXCEPT !.scanners = acc.scanners, !.cursor = cursor],
                                  acc.out \o acc.last, n, IsDone(cursor)))

\* sort_by_key(offset), which keeps the order of equal offsets.
ByOffset(found) ==
  LET Before(i, k) == found[i].offset < found[k].offset \/ (found[i].offset = found[k].offset /\ i < k)
      order == SortSeq([i \in DOMAIN found |-> i], Before)
  IN  [k \in DOMAIN found |-> found[order[k]]]

-----------------------------------------------------------------------------
(* What a string of data is, whatever the windows: a longest chain of        *)
(* printable characters, each where the one before it ends.                  *)

Utf8CharLen(data, p) ==
  LET n == IF p \in DOMAIN data THEN Utf8Len(data[p]) ELSE 0
  IN  IF \/ n = 1 /\ data[p] \in \h20 .. \h7E
         \/ /\ n >= 2 /\ p + n - 1 <= Len(data)
            /\ \A i \in p + 1 .. p + n - 1 : Continues(data[i])
            /\ IsPrintable(Decoded(SubSeq(data, p, p + n - 1)))
      THEN n ELSE 0

Utf16CharLen(enc, data, p) ==
  LET unit == IF enc = "Utf16Be" THEN data[p] * 256 + data[p + 1] ELSE data[p + 1] * 256 + data[p]
  IN  IF p >= 1 /\ p + 1 <= Len(data) /\ unit <= \hFF /\ IsPrintable(unit) THEN 2 ELSE 0

CharLen(enc, data, p) == IF enc = "Utf8" THEN Utf8CharLen(data, p) ELSE Utf16CharLen(enc, data, p)

StringsOf(enc, data, minChars) ==
  LET Ends(p) == \E n \in 1 .. 4 : p > n /\ CharLen(enc, data, p - n) = n
      Starts == {p \in DOMAIN data : CharLen(enc, data, p) > 0 /\ ~Ends(p)}
      ends[p \in 1 .. Len(data) + 1] ==
        LET n == CharLen(enc, data, p) IN IF n = 0 THEN p ELSE ends[p + n]
      count[p \in 1 .. Len(data) + 1] ==
        LET n == CharLen(enc, data, p) IN IF n = 0 THEN 0 ELSE 1 + count[p + n]
  IN  {[offset |-> p - 1, len |-> ends[p] - p, chars |-> count[p], encoding |-> enc] :
         p \in {q \in Starts : count[q] >= minChars}}

-----------------------------------------------------------------------------
(***************************************************************************)
(* core/src/stats.rs: the histogram of a range and of each of its blocks.   *)
(* The entropy of a block is a function of its histogram, so the series     *)
(* keeps the histograms; an empty one is the hole (NaN) of a block without  *)
(* a readable byte.                                                         *)
(***************************************************************************)
CONSTANTS
  ChartPoints,    \* 2048: the points the automatic block size aims at
  SmallestBlock,  \* 256
  LargestBlock    \* 2^20

\* The next power of two of a chart's step, within limits.
AutoBlockSize(len) ==
  LET target == Most(len \div ChartPoints, 1)
      power[k \in Nat] == IF k >= target THEN k ELSE power[2 * k]
  IN  Least(Most(power[1], SmallestBlock), LargestBlock)

NewStats(lo, hi, docLen, blockSize) ==
  LET cursor == CursorOver(lo, hi, docLen, WINDOW)
      size == IF blockSize = 0 THEN AutoBlockSize(Total(cursor)) ELSE blockSize
  IN  [kind |-> "Stats", cursor |-> cursor, blockSize |-> size,
       blockEnd |-> Least(cursor.start + size, cursor.end),
       counts |-> EmptyBag, total |-> 0, unreadable |-> 0, cur |-> EmptyBag, blocks |-> <<>>]

CloseBlock(j) == [j EXCEPT !.blocks = Append(@, j.cur), !.cur = EmptyBag]

\* One byte at abs; the last block of the range is closed by the step.
Account(j, abs, byte) ==
  LET one == SetToBag({byte})
      counted == IF byte = Unreadable THEN [j EXCEPT !.unreadable = @ + 1]
                 ELSE [j EXCEPT !.counts = @ (+) one, !.cur = @ (+) one, !.total = @ + 1]
  IN  IF abs + 1 = j.blockEnd /\ j.blockEnd < j.cursor.end
      THEN [CloseBlock(counted) EXCEPT !.blockEnd = Least(@ + j.blockSize, j.cursor.end)]
      ELSE counted

\* A document that got shorter gives back less than the window, and splitting
\* what it gave at the window's length panics.
StatsStep(j, doc, budget) ==
  LET pos == j.cursor.pos
      n == NextLen(j.cursor, budget, 1)
      data == Slice(doc, pos, n)
      accounted == OverIndices(LAMBDA acc, i : Account(acc, pos + i - 1, data[i]), j, data)
      after == [accounted EXCEPT !.cursor = Advanced(@, n)]
  IN  IF IsDone(j.cursor) THEN Done(j)
      ELSE IF Len(data) < n THEN Panics(j)
      ELSE IF IsDone(after.cursor) THEN Went(CloseBlock(after), <<>>, n, TRUE)
      ELSE Went(after, <<>>, n, FALSE)

StatsResult(j) ==
  [counts |-> j.counts, total |-> j.total, unreadable |-> j.unreadable,
   blockSize |-> j.blockSize, blocks |-> j.blocks]

\* The histogram of the readable bytes, and the same of each block.
Histogram(data) == ToBag(SelectSeq(data, LAMBDA x : x # Unreadable))
StatsOf(data, blockSize) ==
  LET size == IF blockSize = 0 THEN AutoBlockSize(Len(data)) ELSE blockSize
      counted == SelectSeq(data, LAMBDA x : x # Unreadable)
      blocks == (Len(data) + size - 1) \div size
  IN  [counts |-> Histogram(data), total |-> Len(counted), unreadable |-> Len(data) - Len(counted),
       blockSize |-> size,
       blocks |-> [k \in 1 .. blocks |-> Histogram(Slice(data, (k - 1) * size, size))]]

-----------------------------------------------------------------------------
(***************************************************************************)
(* core/src/magic.rs: signatures at fixed offsets, and the sweep for        *)
(* embedded ones.  A signature is [offset, magic, also]: the offset of the  *)
(* magic in a file of its type, its bytes, and a further check <<offset,    *)
(* bytes>> relative to the start of the file (or <<>>).                     *)
(***************************************************************************)
CONSTANTS
  SIGNATURES,      \* the table, a sequence of signatures
  ShortestSwept    \* 3: shorter magics are too common to sweep for

ASSUME SignaturesAssumption ==
  /\ SIGNATURES \in Seq([offset : Nat, magic : Seq(Nat), also : {<<>>} \cup (Nat \X Seq(Nat))])
  /\ SIGNATURES # <<>> /\ \A i \in DOMAIN SIGNATURES : SIGNATURES[i].magic # <<>>

Span(s) ==
  IF s.also = <<>> THEN Len(s.magic)
  ELSE Most(Len(s.magic), s.also[1] - s.offset + Len(s.also[2]))

\* Does the signature match hay, taken as if it began at the magic?
SignatureMatches(s, hay) ==
  /\ IsPrefix(s.magic, hay)
  /\ s.also = <<>> \/ LET rel == s.also[1] - s.offset
                      IN  Slice(hay, rel, Len(s.also[2])) = s.also[2]

\* The type of a document, by the magics at their offsets.
Identify(doc) ==
  SelectSeq([i \in DOMAIN SIGNATURES |-> i],
            LAMBDA i : LET s == SIGNATURES[i]
                           read == Slice(doc, s.offset, Span(s))
                       IN  s.offset < Len(doc) /\ IsClean(read) /\ SignatureMatches(s, read))

Swept == SelectSeq([i \in DOMAIN SIGNATURES |-> i], LAMBDA i : Len(SIGNATURES[i].magic) >= ShortestSwept)

\* A plausible slip: windows that do not overlap.
NewMagicNoOverlap(lo, hi, docLen) ==
  [kind |-> "Magic", maxSpan |-> 1, cursor |-> CursorOver(lo, hi, docLen, WINDOW)]

NewMagic(lo, hi, docLen) ==
  [kind |-> "Magic", maxSpan |-> Max({Span(SIGNATURES[i]) : i \in DOMAIN SIGNATURES}),
   cursor |-> CursorOver(lo, hi, docLen, WINDOW)]

\* Each window is read with what the longest signature may reach beyond it.  A
\* signature over an unreadable byte is none; a document that got shorter
\* gives back less than the window, and indexing it panics.
MagicStep(j, doc, budget) ==
  LET pos == j.cursor.pos
      n == NextLen(j.cursor, budget, 1)
      read == Slice(doc, pos, Least(n + j.maxSpan - 1, Remaining(j.cursor)))
      hay(i) == SubSeq(read, i, Len(read))
      hits(i) == SelectSeq(Swept, LAMBDA k :
                   /\ SignatureMatches(SIGNATURES[k], Shown(hay(i)))
                   /\ IsClean(Slice(hay(i), 0, Span(SIGNATURES[k]))))
      out == FlattenSeq([i \in 1 .. n |-> [h \in DOMAIN hits(i) |-> <<pos + i - 1, hits(i)[h]>>]])
      cursor == Advanced(j.cursor, n)
  IN  IF IsDone(j.cursor) THEN Done(j)
      ELSE IF Len(read) < n THEN Panics(j)
      ELSE Went([j EXCEPT !.cursor = cursor], out, n, IsDone(cursor))

\* Where the range holds a signature whole and readable, in order.
SignaturesOf(data) ==
  LET at(p) == SelectSeq(Swept, LAMBDA k :
                 LET there == Slice(data, p, Span(SIGNATURES[k]))
                 IN  IsClean(there) /\ SignatureMatches(SIGNATURES[k], there))
  IN  FlattenSeq([i \in DOMAIN data |-> [h \in DOMAIN at(i - 1) |-> <<i - 1, at(i - 1)[h]>>]])
=============================================================================
